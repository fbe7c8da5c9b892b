SPECIFICATION Spec
CONSTANTS
    Configs <- MCConfigs
    WriteLengths = {1, 5, 6, 13}
    FrameSizes = {1, 2}
    BlockSize = 3
    FrameLen = 2
    MinStreamBlock = 2
    DefaultMaxPoints = 3
    PointLimit = 4
    TagsLen = 5
    MaxBytes = 25
    MaxJunk = 1
INVARIANTS
    NothingLostOrRepeated
    FixedBlocks
    PointsLeadToFrames
    HeaderTellsTruth
    ChainReachesAudio
PROPERTY KeepsPromise
