SPECIFICATION FairSpec
CONSTANTS
    Streams <- MCStreams
    Targets = {0, 2, 3, 4, 6}
    Chunk = 3
    MaxWindow = 12
    LinearWindow = 3
INVARIANTS
    TypeOK
    LandsOnFirstSurvivor
    SearchBoundsInStream
    EndMeansNoAudio
PROPERTY
    SeekEnds
