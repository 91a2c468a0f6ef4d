------------------------------ MODULE TokenBucket -----------------------------
(* src/algorithm/tokenbucket/tokenbucket.go                                *)
EXTENDS Algorithm, Redis

Capacity(limit) == limit * TokenUnit
FillRate(limit, window) == limit * (TokenUnit \div window)

(* Mutants: no cap; lastUpdate follows a now that goes back.               *)
RefillUncapped(now, state, limit, window) ==
    IF state.lastUpdate = NoTime
    THEN [state EXCEPT !.tokens = Capacity(limit), !.lastUpdate = now]
    ELSE [state EXCEPT !.lastUpdate = now,
                       !.tokens = @ + NonNegative(now - state.lastUpdate)
                                        * FillRate(limit, window)]

RefillBackwards(now, state, limit, window) ==
    IF state.lastUpdate = NoTime
    THEN [state EXCEPT !.tokens = Capacity(limit), !.lastUpdate = now]
    ELSE [state EXCEPT !.lastUpdate = now,
                       !.tokens = Least(Capacity(limit),
                           @ + NonNegative(now - state.lastUpdate)
                                 * FillRate(limit, window))]

(* Only a now after lastUpdate adds tokens and moves lastUpdate.           *)
Refill(now, state, limit, window) ==
    LET elapsed == now - state.lastUpdate
        filled == state.tokens + elapsed * FillRate(limit, window)
    IN  IF state.lastUpdate = NoTime
        THEN [state EXCEPT !.tokens = Capacity(limit), !.lastUpdate = now]
        ELSE IF elapsed > 0
        THEN [state EXCEPT !.tokens = Least(Capacity(limit), filled), !.lastUpdate = now]
        ELSE state

(* ResetIn is cut to a whole tick.                                         *)
EvaluateMemory(now, state, limit, window) ==
    LET filled == Refill(now, state, limit, window)
        allowed == filled.tokens >= TokenUnit
        left == IF allowed THEN filled.tokens - TokenUnit ELSE filled.tokens
        missing == IF allowed THEN Capacity(limit) - left ELSE TokenUnit - left
    IN  Evaluation([filled EXCEPT !.tokens = left], allowed, limit,
                   left \div TokenUnit, missing \div FillRate(limit, window))

-------------------------------------------------------------------------------
(* The script: last_updated follows the caller's clock also when that goes *)
(* back, and times are whole milliseconds, rounded up.                     *)

(* Mutant: no cap.                                                         *)
RedisRefillUncapped(hash, limit, window, now) ==
    IF hash.lastUpdated = NoTime THEN Capacity(limit)
    ELSE hash.tokens + NonNegative(now - hash.lastUpdated) * FillRate(limit, window)

RedisRefill(hash, limit, window, now) ==
    LET elapsed == NonNegative(now - hash.lastUpdated)
    IN  IF hash.lastUpdated = NoTime THEN Capacity(limit)
        ELSE Least(Capacity(limit), hash.tokens + elapsed * FillRate(limit, window))

RedisScript(db, at, key, limit, window, now) ==
    LET absent == [tokens |-> 0, lastUpdated |-> NoTime]
        filled == RedisRefill(Get(db, Plain(key), absent), limit, window, now)
        allowed == filled >= TokenUnit
        left == IF allowed THEN filled - TokenUnit ELSE filled
        missing == IF allowed THEN Capacity(limit) - left ELSE TokenUnit - left
        stored == Put(db, Plain(key), [tokens |-> left, lastUpdated |-> now])
    IN  Reply(PExpire(stored, Plain(key), at, 2 * window), allowed,
              left \div TokenUnit, CeilDiv(missing, FillRate(limit, window)))
===============================================================================
