SPECIFICATION FairSpec
CONSTANTS
    r1 = r1
    r2 = r2
    NoOne = NoOne
    Request <- MCRequest
    MaxJobs = 1
    ActionOf <- MCActionOf
INVARIANTS
    TypeOK
    PlanFileIsOwn
    UncrossedIsCurrent
PROPERTIES
    EveryRequestAnswered
CHECK_DEADLOCK FALSE
