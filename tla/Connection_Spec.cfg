SPECIFICATION Spec
CONSTANTS
    MaxJobs = 3
    MaxResults = 2
    MaxConnects = 2
    MaxCalls = 2
INVARIANTS
    TypeOK
    CalmLeftClean
    CalmRepliesAreTrue
    VerifiedAsAsked
PROPERTY
    EveryQueryAnswered
CHECK_DEADLOCK FALSE
