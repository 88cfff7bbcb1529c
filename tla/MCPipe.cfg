\* Frames of five bytes, one byte at a time, with numbers modulo four.
SPECIFICATION PipeSpec
CONSTANTS
    FullBytes = 5
    RegionSizes = {2}
    MaxPayload = 1
    Etags = {1}
    SeqModulus = 4
    Behind = 2
    MaskBits = 1
    MaxFrames = 5
    MaxQueued = 3
    MaxUnread = 1
    MaxFaults = 3
INVARIANTS
    StoresInOrder
    HonestClientIsServed
PROPERTIES
    DoneMeansDrawn
    Delivered
