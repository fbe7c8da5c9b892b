SPECIFICATION Spec
CHECK_DEADLOCK FALSE
CONSTANTS
    Inputs <- MCInputs
    NarrowBits = 2
    WideBits = 3
    Narrow = 3
    LPCPrecision = 3
    Fraction = 3
    Targets = {2, 4, 8}
    Cuts = {1, 17, 30}
    Relabels <- MCRelabels
INVARIANTS
    PlanIsRescan
    WrittenAsPriced
    ReadsBack
    VerdictIsExact
    RouteDoesNotShow
