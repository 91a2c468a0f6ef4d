\* Close at every point of the janitor's loop over two shards.
CONSTANTS
    k1 = k1
    k2 = k2
    Callers = {c1}
    Keys = {k1, k2}
    Strategies = {"fixed_window"}
    Limit = 1
    Window = 1
    TTL = 2
    ShardCount = 2
    ShardOf <- TwoShards
    Milli = 1
    TokenUnit = 1
    MaxDelay = 5
    MaxTime = 5
    MaxCalls = 2
SPECIFICATION FairSpec
PROPERTIES
    JanitorStops
