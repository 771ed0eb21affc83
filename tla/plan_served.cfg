SPECIFICATION Spec
CONSTANTS
    r1 = r1
    r2 = r2
    NoOne = NoOne
    Request <- MCRequest
    MaxJobs = 1
    ActionOf <- MCActionOf
INVARIANTS
    ServedPlanIsCurrent
CHECK_DEADLOCK FALSE
