------------------------------ MODULE LeakyBucket -----------------------------
(* src/algorithm/leakybucket/leakybucket.go: tokens is the water level.    *)
EXTENDS Algorithm, Redis

Capacity(limit) == limit * TokenUnit
LeakRate(limit, window) == limit * (TokenUnit \div window)

(* Only a now after lastUpdate lets water out and moves lastUpdate.        *)
Leak(now, state, limit, window) ==
    LET elapsed == now - state.lastUpdate
        leaked == state.tokens - elapsed * LeakRate(limit, window)
    IN  IF state.lastUpdate = NoTime
        THEN [state EXCEPT !.tokens = 0, !.lastUpdate = now]
        ELSE IF elapsed > 0
        THEN [state EXCEPT !.tokens = NonNegative(leaked), !.lastUpdate = now]
        ELSE state

(* ResetIn is cut to a whole tick.                                         *)
EvaluateMemory(now, state, limit, window) ==
    LET drained == Leak(now, state, limit, window)
        allowed == drained.tokens + TokenUnit <= Capacity(limit)
        level == IF allowed THEN drained.tokens + TokenUnit ELSE drained.tokens
        excess == IF allowed THEN level ELSE level + TokenUnit - Capacity(limit)
    IN  Evaluation([drained EXCEPT !.tokens = level], allowed, limit,
                   NonNegative(Capacity(limit) - level) \div TokenUnit,
                   excess \div LeakRate(limit, window))

-------------------------------------------------------------------------------
(* The script: last_updated follows the caller's clock also when that goes *)
(* back, and times are whole milliseconds, rounded up.                     *)

(* Mutant: last_updated is overwritten before the delta is taken.          *)
RedisLeakNever(hash, limit, window, now) ==
    IF hash.lastUpdated = NoTime THEN 0 ELSE hash.water

RedisLeak(hash, limit, window, now) ==
    LET elapsed == NonNegative(now - hash.lastUpdated)
    IN  IF hash.lastUpdated = NoTime THEN 0
        ELSE NonNegative(hash.water - elapsed * LeakRate(limit, window))

RedisScript(db, at, key, limit, window, now) ==
    LET absent == [water |-> 0, lastUpdated |-> NoTime]
        drained == RedisLeak(Get(db, Plain(key), absent), limit, window, now)
        allowed == drained + TokenUnit <= Capacity(limit)
        level == IF allowed THEN drained + TokenUnit ELSE drained
        excess == IF allowed THEN level ELSE level + TokenUnit - Capacity(limit)
        stored == Put(db, Plain(key), [water |-> level, lastUpdated |-> now])
    IN  Reply(PExpire(stored, Plain(key), at, 2 * window), allowed,
              NonNegative((Capacity(limit) - level) \div TokenUnit),
              CeilDiv(excess, LeakRate(limit, window)))
===============================================================================
