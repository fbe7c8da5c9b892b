SPECIFICATION FairSpec
CONSTANTS
    Sources <- MCSources
    Targets <- MCTargets
    ReadSizes = {1, 3}
    MaxCalls = 4
INVARIANTS
    DeliversFromReportedPosition
    CleanEOFMeansWhole
    NoNilReader
    VerdictsAreJust
PROPERTIES
    FailureIsSticky
    DrainEnds
