SPECIFICATION Spec
CONSTANTS
    Configs <- MCConfigs
    Lengths = {0, 1, 2, 6, 7, 10, 13}
    FrameSizes = {1, 2}
    BlockSize = 3
    FrameLen = 2
    MinStreamBlock = 2
    MaxBytes = 22
INVARIANTS
    FramesOfOneShot
    InfoIsTrue
PROPERTY KeepsPromise
CHECK_DEADLOCK FALSE
