\* A call that locks after the window of its clock reading has ended.
CONSTANTS
    k1 = k1
    k2 = k2
    Callers = {c1, c2}
    Keys = {k1}
    Strategies = {"fixed_window"}
    Limit = 1
    Window = 2
    TTL = 4
    ShardCount = 1
    ShardOf <- OneShard
    Milli = 1
    TokenUnit = 2
    MaxDelay = 4
    MaxTime = 4
    MaxCalls = 3
SPECIFICATION HistorySpec
SYMMETRY Symmetry
INVARIANTS
    WindowQuota
