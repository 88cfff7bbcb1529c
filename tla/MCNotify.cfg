\* Eight tickets (four sends until they come round), three connections.
SPECIFICATION FairSpec
CONSTANTS
    TicketModulus = 8
    MaxGeneration = 6
INVARIANTS
    TypeOK
    SuccessMeansDelivered
    SlotIsExact
PROPERTIES
    EveryCallReturns
