SPECIFICATION MCSpec
CONSTANTS
    Clients = {c1, c2}
    Limit = 2
    MonthLimit = 3
    Window = 2
    MaxClock = 3
    MaxGrants = 4
    MaxScore = 10
    Urls = {u1, u2}
    Weights = {0, 2}
    MaxIndex = 6
    MaxOpen = 1
    Handlers = {h1, h2, h3}
    Requests = {q1, q2, q3}
    MaxCodes = 2
    MaxAttempts = 2
    MaxGuesses = 3
    BatchSize = 2
    MaxBatches = 2
INVARIANTS
    StrategyLimit QuotaKept FairShare
    TypeOK EveryGuessCounted GrantsBounded OneBatch
PROPERTIES ImplementsVerificationCode ImplementsResetCode
CHECK_DEADLOCK FALSE
