\* One caller at a time and the janitor: every strategy against its documented quota.
CONSTANTS
    k1 = k1
    k2 = k2
    Callers = {c1}
    Keys = {k1}
    Strategies = {"fixed_window", "sliding_counter", "sliding_log", "token_bucket", "leaky_bucket"}
    Limit = 2
    Window = 3
    TTL = 6
    ShardCount = 1
    ShardOf <- OneShard
    Milli = 1
    TokenUnit = 3
    MaxDelay = 10
    MaxTime = 10
    MaxCalls = 5
SPECIFICATION HistorySpec
INVARIANTS
    VerdictIsQuota
