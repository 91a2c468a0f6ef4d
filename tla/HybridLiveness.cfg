\* Three callers whose contexts do not end and a resetting goroutine; no symmetry, since
\* the properties are temporal.
CONSTANTS
    Callers = {c1, c2, c3}
    Admins = {a1}
    CoolOff = 1
    CountMod = 1
    Cancellation = FALSE
SPECIFICATION FairSpec
PROPERTIES
    Recovery
    Detection
