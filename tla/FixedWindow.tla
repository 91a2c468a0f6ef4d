------------------------------ MODULE FixedWindow -----------------------------
(* src/algorithm/fixedwindow/fixedwindow.go                                *)
EXTENDS Algorithm, Redis

(* Mutant: the last request of the quota is refused.                       *)
EvaluateStrictly(now, state, limit, window) ==
    LET boundary == Truncate(now, window)
        counted == IF state.lastUpdate = boundary THEN state.count + 1 ELSE 1
    IN  Evaluation([state EXCEPT !.count = counted, !.lastUpdate = boundary],
                   counted < limit, limit, limit - counted,
                   boundary + window - now)

(* Every request counts, refused ones too; a boundary other than the stored*)
(* one, later or earlier, starts the count again.                          *)
EvaluateMemory(now, state, limit, window) ==
    LET boundary == Truncate(now, window)
        counted == IF state.lastUpdate = boundary THEN state.count + 1 ELSE 1
    IN  Evaluation([state EXCEPT !.count = counted, !.lastUpdate = boundary],
                   counted <= limit, limit, limit - counted,
                   boundary + window - now)

(* Mutant: the expiry is never set.                                        *)
ScriptForever(db, at, key, limit, window, now) ==
    LET name == WindowKey(key, now \div window)
        count == Get(db, name, 0) + 1
    IN  Reply(Put(db, name, count), count <= limit, NonNegative(limit - count),
              NonNegative((now \div window + 1) * window - now))

(* Mutant: the last request of the quota is refused.                       *)
ScriptStrict(db, at, key, limit, window, now) ==
    LET name == WindowKey(key, now \div window)
        count == Get(db, name, 0) + 1
        counted == PExpire(Put(db, name, count), name, at, window)
    IN  Reply(counted, count < limit, NonNegative(limit - count),
              NonNegative((now \div window + 1) * window - now))

(* A counter per window of the caller's clock, which lives for a window of *)
(* Redis' clock from its first request.                                    *)
RedisScript(db, at, key, limit, window, now) ==
    LET current == now \div window
        name == WindowKey(key, current)
        count == Get(db, name, 0) + 1
        counted == Put(db, name, count)
    IN  Reply(IF count = 1 THEN PExpire(counted, name, at, window) ELSE counted,
              count <= limit, NonNegative(limit - count),
              NonNegative((current + 1) * window - now))
===============================================================================
