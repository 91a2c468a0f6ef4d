\* Three callers whose calls may be cancelled.
CONSTANTS
    Callers = {c1, c2, c3}
    Admins = {}
    CoolOff = 1
    CountMod = 2
    Cancellation = TRUE
SPECIFICATION HistorySpec
SYMMETRY Symmetry
INVARIANTS
    TypeOK
    SingleProbe
    OneReportPerOutage
    FallbackAccounting
PROPERTIES
    ImplementsBreaker
    InformedProbesWait
