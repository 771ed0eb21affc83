SPECIFICATION Spec
CONSTANTS
    r1 = r1
    Request <- MCRequest
    MaxJobs = 2
    ActionOf <- MCActionOf
INVARIANTS
    TypeOK
    UncrossedIsCurrent
PROPERTIES
    AnswerFollowsJobs
