\* Two callers with clocks up to a millisecond ahead, delays, lost and repeated requests
\* and resets, under every script.
CONSTANTS
    Milli = 1
    Keys = {k1}
    Callers = {c1, c2}
    Strategies = {"fixed_window", "sliding_counter", "sliding_log", "token_bucket", "leaky_bucket"}
    Policies <- OnePolicy
    ClockErrors <- Ahead
    TokenUnit = 3
    MaxDelay = 1
    StartTime = 5
    MaxTime = 13
    MaxCalls = 4
SPECIFICATION HistorySpec
SYMMETRY Symmetry
INVARIANTS
    TypeOK
    RemainingIsTrue
    RetryIsAdmitted
    VerdictIsQuota
    LogIsComplete
    BucketBound
PROPERTIES
    RefusalHasCause
