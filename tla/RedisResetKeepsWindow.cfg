\* A reset in the middle of a window.
CONSTANTS
    Milli = 1
    Keys = {k1}
    Callers = {c1}
    Strategies = {"fixed_window"}
    Policies <- OneRequest
    ClockErrors <- Exact
    TokenUnit = 2
    MaxDelay = 0
    StartTime = 4
    MaxTime = 6
    MaxCalls = 3
SPECIFICATION HistorySpec
PROPERTIES
    ResetClears
