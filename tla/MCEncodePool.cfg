SPECIFICATION Spec
CONSTANTS
    Callers = {a, b}
    Encoders = {e1, e2}
    Jobs <- MCJobs
    BlockSize = 2
INVARIANTS
    SinkGetsItsOwnAudio
    PooledEncodersAreFree
    BuffersFit
