----------------------------- MODULE SlidingCounter ---------------------------
(* src/algorithm/slidingcounter/slidingcounter.go                          *)
EXTENDS Algorithm, Redis

(* The counters moved to the window of now: kept within a window, shifted  *)
(* by one after one window, cleared after two.  A now before lastUpdate    *)
(* leaves them as they are.                                                *)
Rotate(now, state, window) ==
    LET boundary == Truncate(now, window)
        age == now - state.lastUpdate
        moved(prev) == [state EXCEPT !.prevCount = prev, !.count = 0,
                                     !.lastUpdate = boundary]
    IN  IF state.lastUpdate = NoTime \/ age >= 2 * window THEN moved(0)
        ELSE IF age >= window THEN moved(state.count)
        ELSE state

(* The share of the previous window still counted, rounded down; it exceeds*)
(* prevCount when now is before lastUpdate.                                *)
Weighted(now, state, window) ==
    (state.prevCount * NonNegative(window - (now - state.lastUpdate))) \div window

EvaluateMemory(now, state, limit, window) ==
    LET rotated == Rotate(now, state, window)
        estimate == Weighted(now, rotated, window) + rotated.count
        allowed == estimate + 1 <= limit
        after == IF allowed THEN rotated.count + 1 ELSE rotated.count
        used == IF allowed THEN estimate + 1 ELSE estimate
    IN  Evaluation([rotated EXCEPT !.count = after], allowed, limit, limit - used,
                   Truncate(now, window) + window - now)

-------------------------------------------------------------------------------
(* The script numbers the windows and keeps a hash for two of them.        *)

NoHash == [window |-> 0, count |-> 0, prevCount |-> 0]

(* Mutant: one window too many is kept after a pause.                      *)
ShiftAlways(hash, current) ==
    IF hash.window = 0 THEN [NoHash EXCEPT !.window = current]
    ELSE IF current > hash.window
    THEN [window |-> current, count |-> 0, prevCount |-> hash.count]
    ELSE hash

(* A window number before the stored one, or 0 for an absent hash, is no   *)
(* reason to move.                                                         *)
Shift(hash, current) ==
    IF hash.window = 0 THEN [NoHash EXCEPT !.window = current]
    ELSE IF current > hash.window
    THEN [window |-> current, count |-> 0,
          prevCount |-> IF current = hash.window + 1 THEN hash.count ELSE 0]
    ELSE hash

RedisScript(db, at, key, limit, window, now) ==
    LET hash == Shift(Get(db, Plain(key), NoHash), now \div window)
        start == hash.window * window
        weighted == (hash.prevCount * NonNegative(window - (now - start))) \div window
        estimate == weighted + hash.count
        allowed == estimate + 1 <= limit
        spent == IF allowed THEN 1 ELSE 0
        stored == Put(db, Plain(key), [hash EXCEPT !.count = @ + spent])
    IN  Reply(PExpire(stored, Plain(key), at, 2 * window), allowed,
              NonNegative(limit - estimate - spent),
              NonNegative(start + window - now))
===============================================================================
