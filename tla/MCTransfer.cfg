\* Frames of four bytes, regions smaller and larger than a frame.
SPECIFICATION Spec
CONSTANTS
    FullBytes = 4
    RegionSizes = {2, 6}
    MaxPayload = 3
    Etags = {1, 2}
    SeqModulus = 4
    Behind = 2
    MaskBits = 1
    MaxFrames = 6
INVARIANTS
    OneTransaction
    PanelFollowsTransfer
    EtagNamesScreen
    SacksNameTheRepeats
PROPERTIES
    RefreshesWhatIsComplete
    RegionsMeetTheirBase
