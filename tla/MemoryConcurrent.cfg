\* Calls that overlap and lock up to a window late, under every strategy; Milli = 2 cuts
\* the clock of the sliding log, and keys are evicted after a window and twice the delay.
CONSTANTS
    k1 = k1
    k2 = k2
    Callers = {c1, c2}
    Keys = {k1}
    Strategies = {"fixed_window", "sliding_counter", "sliding_log", "token_bucket", "leaky_bucket"}
    Limit = 2
    Window = 2
    TTL = 6
    ShardCount = 1
    ShardOf <- OneShard
    Milli = 2
    TokenUnit = 2
    MaxDelay = 2
    MaxTime = 8
    MaxCalls = 5
SPECIFICATION HistorySpec
SYMMETRY Symmetry
INVARIANTS
    TypeOK
    RemainingIsTrue
    RetryIsAdmitted
    BucketBound
    LogIsPrecise
