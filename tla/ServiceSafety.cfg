\* Two callers behind the middleware, policy updates, a resolver, outages, lost answers
\* and contexts that end.
CONSTANTS
    Callers = {c1, c2}
    Admins = {}
    CoolOff = 1
    CountMod = 1
    Cancellation = TRUE
    Policies <- Updates
    Answers <- Resolved
    MaxRequests = 4
SPECIFICATION HistorySpec
SYMMETRY Symmetry
INVARIANTS
    ServiceTypeOK
    EveryPassIsPaid
    ObservedOnce
PROPERTIES
    RefusedOnlyWhenFull
    FailsOpenLast
