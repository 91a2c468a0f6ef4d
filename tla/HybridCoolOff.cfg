\* A caller between the opening swap and its stamp, another reading the old stamp.
CONSTANTS
    Callers = {c1, c2}
    Admins = {}
    CoolOff = 2
    CountMod = 1
    Cancellation = FALSE
SPECIFICATION HistorySpec
SYMMETRY Symmetry
PROPERTIES
    CoolOffRespected
