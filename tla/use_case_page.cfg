SPECIFICATION FairSpec
CONSTANTS
    PastJobs = 1
    MaxJobs = 2
    MaxLines = 2
    MaxCalls = 1
    MaxMoves = 2
INVARIANTS
    TypeOK
    LinesAreTheLog
    NoLostInterval
PROPERTIES
    TailEnds
    ListSettles
CHECK_DEADLOCK FALSE
