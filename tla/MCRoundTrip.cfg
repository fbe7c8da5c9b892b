SPECIFICATION TripSpec
CHECK_DEADLOCK FALSE
CONSTANTS
    Configs <- MCConfigs
    WriteLengths = {3}
    FrameSizes = {2}
    BlockSize = 2
    FrameLen = 1
    MinStreamBlock = 1
    DefaultMaxPoints = 2
    PointLimit = 4
    TagsLen = 17
    MaxBytes = 6
    MaxJunk = 1
    Limits = {0, 6}
    Leading <- MCLeading
    Foreign <- MCForeign
    Vendor = 3
    Comments <- MCComments
INVARIANTS
    ReadsWhatWasLeft
    AcceptsWellFormed
    DecodesWhatWasEncoded
    PartialIsNoSuccess
