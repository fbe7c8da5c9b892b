SPECIFICATION IOSpec
CONSTANTS
    Sources <- MCSources
    ByteBits = 2
    AccBytes = 3
    Block = 6
    ReadLengths = {0, 1, 3, 5, 6}
    Fields <- MCFields
    MaxFields = 3
INVARIANTS
    BitsComeInOrder
    TapSeesEveryByte
    WriterKeepsBits
    FieldsReadBack
PROPERTY
    ReadsEnd
CHECK_DEADLOCK FALSE
