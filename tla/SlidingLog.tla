------------------------------- MODULE SlidingLog -----------------------------
(* src/algorithm/slidinglog/slidinglog.go                                  *)
EXTENDS Algorithm, Redis, FiniteSets

(* Mutant: the timestamp at the cutoff stays.                              *)
TrimBefore(timestamps, cutoff) ==
    SelectSeq(timestamps, LAMBDA ts : ts >= cutoff)

(* Mutant: the scan runs from the back and stops at the last expired one.  *)
TrimToLastExpired(timestamps, cutoff) ==
    LET expired == {i \in DOMAIN timestamps : timestamps[i] <= cutoff}
        last == IF expired = {} THEN 0
                ELSE CHOOSE i \in expired : \A j \in expired : j <= i
    IN  SubSeq(timestamps, last + 1, Len(timestamps))

(* The log without the leading timestamps at or before the cutoff; one that*)
(* stands behind a younger timestamp stays.                                *)
Trim(timestamps, cutoff) ==
    LET fresh == {i \in DOMAIN timestamps : timestamps[i] > cutoff}
        first == IF fresh = {} THEN Len(timestamps) + 1
                 ELSE CHOOSE i \in fresh : \A j \in fresh : i <= j
    IN  SubSeq(timestamps, first, Len(timestamps))

(* Only admitted requests are logged, at millisecond precision.            *)
EvaluateMemory(now, state, limit, window) ==
    LET nowMs == now \div Milli
        windowMs == window \div Milli
        live == Trim(state.timestamps, nowMs - windowMs)
        allowed == Len(live) < limit
        log == IF allowed THEN Append(live, nowMs) ELSE live
        resetIn == IF log = <<>> THEN window
                   ELSE NonNegative(log[1] + windowMs - nowMs) * Milli
    IN  Evaluation([state EXCEPT !.timestamps = log], allowed, limit,
                   limit - Len(log), resetIn)

-------------------------------------------------------------------------------
(* The script keeps a sorted set: members <<score, sequence number>>.      *)

(* Mutant: the member at the cutoff stays.                                 *)
NewerOrAt(log, clearBefore) == {m \in log : m[1] >= clearBefore}

Newer(log, clearBefore) == {m \in log : m[1] < 0 \/ m[1] > clearBefore}

Oldest(log) == CHOOSE score \in {m[1] : m \in log} : \A m \in log : score <= m[1]

(* Mutant: members are told apart by their score alone.                    *)
AddScore(db, at, key, window, log, now) ==
    Put(db, Plain(key), log \cup {<<now, 0>>})

(* An admitted request joins the set under a number of its own.            *)
Add(db, at, key, window, log, now) ==
    LET seq == Get(db, SeqKey(key), 0) + 1
        numbered == PExpire(Put(db, SeqKey(key), seq), SeqKey(key), at, 2 * window)
    IN  Put(numbered, Plain(key), log \cup {<<now, seq>>})

RedisScript(db, at, key, limit, window, now) ==
    LET live == Newer(Get(db, Plain(key), {}), now - window)
        count == Cardinality(live)
        allowed == count < limit
        stored == IF allowed THEN Add(db, at, key, window, live, now)
                  ELSE Put(db, Plain(key), live)
        log == Get(stored, Plain(key), {})
    IN  Reply(PExpire(stored, Plain(key), at, 2 * window), allowed,
              IF allowed THEN limit - (count + 1) ELSE 0,
              NonNegative(Oldest(log) + window - now))
===============================================================================
