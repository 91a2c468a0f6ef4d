------------------------------ MODULE QuotaHistory ----------------------------
(***************************************************************************)
(* The memory driver with the history of what it admitted, against the     *)
(* quota that its strategy documents.                                      *)
(***************************************************************************)
EXTENDS MemoryDriver, Quota

VARIABLE admitted   \* the instants of the requests admitted since a reset

hvars == <<vars, admitted>>

HistoryInit == Init /\ admitted = [key \in Keys |-> <<>>]

Served(r) ==
    LET key == call[r].key
        allowed == Evaluate(call[r].now, StateOf(key)).result.allowed
    IN  admitted' = IF allowed
                    THEN [admitted EXCEPT ![key] = Append(@, call[r].now)]
                    ELSE admitted

HistoryNext ==
    \/ \E r \in Callers : EvaluateLocked(r) /\ Served(r)
    \/ \E r \in Callers, key \in Keys : Enter(r, key) /\ UNCHANGED admitted
    \/ \E key \in Keys : Reset(key) /\ admitted' = [admitted EXCEPT ![key] = <<>>]
    \/ (Close \/ Janitor \/ Tick) /\ UNCHANGED admitted

HistorySpec == HistoryInit /\ [][HistoryNext]_hvars

-------------------------------------------------------------------------------
(* A request that runs now is admitted exactly when the documented quota   *)
(* has room for it, whatever the janitor has evicted and whenever the calls*)
(* before it read the clock (memory.go:78-131, EvaluateMemory).            *)
VerdictIsQuota ==
    \A key \in Keys :
        Verdict(key).result.allowed
            <=> QuotaAdmits(strategy, admitted[key], clock, Limit, Window)

(* However calls overlap and however late they lock, a bucket never admits *)
(* more than its capacity and what the rate adds (tokenbucket.go:37-49,    *)
(* leakybucket.go:37-49).                                                  *)
BucketBound ==
    strategy \in Buckets =>
        \A key \in Keys : WithinRate(admitted[key], clock, Limit, Window, 0)

(* The sliding log, whose trim stops at the first live timestamp          *)
(* (slidinglog.go:33-39), never admits a request into a full window, and it*)
(* refuses one with room only by what late calls left behind that          *)
(* timestamp: those admissions are older than the window by no more than a *)
(* call can be held up between memory.go:86 and 88.                        *)
LogIsPrecise ==
    strategy = "sliding_log" =>
        \A key \in Keys :
            LET first == (clock \div Milli - Window \div Milli + 1) * Milli
                allowed == Verdict(key).result.allowed
            IN  /\ allowed => AdmittedIn(admitted[key], first, clock) < Limit
                /\ ~allowed => AdmittedIn(admitted[key], first - MaxDelay, clock) >= Limit

(* distlimit.go:66, fixedwindow.go:3-4: no more than Limit requests are    *)
(* admitted within the configured window.                                  *)
WindowQuota ==
    \A key \in Keys : AdmittedIn(admitted[key], Truncate(clock, Window), clock) <= Limit
===============================================================================
