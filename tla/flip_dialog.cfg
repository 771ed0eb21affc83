SPECIFICATION FairSpec
CONSTANTS
    Lamp = {"on", "error"}
    MaxJobs = 1
    MaxMoves = 3
INVARIANTS
    TypeOK
    PostsThePick
    ConfirmWaits
    OutlineIsCurrent
PROPERTIES
    ConfirmComes
CHECK_DEADLOCK FALSE
