SPECIFICATION FairSpec
CONSTANTS
    Callers = {c1, c2}
    FailureThreshold = 2
    SuccessThreshold = 2
    Timeout = 2
    MaxSuccess = 3
    NoRow = NoRow
    Null = Null
INVARIANT TypeOK
INVARIANT OpenHasRetryTime
INVARIANT FailureCountBelowThreshold
PROPERTY OpenIsLeft
