SPECIFICATION DecoderSpec
CHECK_DEADLOCK FALSE
CONSTANTS
    Headers <- MCHeaders
    NoiseBytes = {0, 1, 127, 128, 200, 249, 254, 255}
    Infos <- MCInfos
    Packets <- MCPackets
    MaxCalls = 3
INVARIANTS
    HeadersReadBack
    DamageIsCaught
    CallsStandAlone
