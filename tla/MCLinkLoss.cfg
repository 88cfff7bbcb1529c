\* A failed request to disconnect after an overflow keeps the link alive.
SPECIFICATION Spec
CONSTANTS
    MaxLinks = 1
    MaxHciErrors = 1
    DisconnectMayFail = TRUE
INVARIANTS
    NothingRunsAfterALoss
