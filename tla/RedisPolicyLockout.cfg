\* The limiter's policy changes from a window of two milliseconds to one of four.
CONSTANTS
    Milli = 1
    Keys = {k1}
    Callers = {c1}
    Strategies = {"sliding_counter"}
    Policies <- LongerWindow
    ClockErrors <- Exact
    TokenUnit = 4
    MaxDelay = 0
    StartTime = 8
    MaxTime = 20
    MaxCalls = 4
SPECIFICATION HistorySpec
PROPERTIES
    RefusalHasCause
