SPECIFICATION SafeSpec
CONSTANTS
    MaxJobs = 1
    MaxResults = 2
    MaxConnects = 1
    MaxCalls = 0
INVARIANT SuccessIsComplete
CHECK_DEADLOCK FALSE
