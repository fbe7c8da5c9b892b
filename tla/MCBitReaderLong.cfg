SPECIFICATION Spec
CONSTANTS
    Sources <- MCSources
    ByteBits = 2
    AccBytes = 3
    Block = 6
    ReadLengths = {0, 1, 3, 5, 6}
INVARIANT ReadBitsServesAnyLength
