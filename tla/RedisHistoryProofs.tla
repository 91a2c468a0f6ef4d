------------------------- MODULE RedisHistoryProofs ---------------------------
(***************************************************************************)
(* What the scripts have admitted, for any number of callers and keys and  *)
(* requests that are delayed, lost, repeated and run in any order: ResetIn *)
(* is long enough, a bucket holds its rate, the log of the sliding log     *)
(* loses nothing, every refusal has an admission for its cause, and to     *)
(* requests that run in order and on time the script answers as the quota. *)
(***************************************************************************)
EXTENDS RedisHistory, RedisProofs

-------------------------------------------------------------------------------
(* What a refused caller gets after the wait that it was told.             *)

(* A keyspace from which some keys have gone.                              *)
Remains(before, after) ==
    /\ DOMAIN after \subseteq DOMAIN before
    /\ \A name \in DOMAIN after : after[name] = before[name]

LEMMA FixedWindowRetries ==
    ASSUME NEW keyspace, Positive(keyspace), NEW at, NEW key, NEW policy \in Policies,
           NEW now \in Nat,
           \A n \in Int : WindowKey(key, n) \in DOMAIN keyspace
                             => n * WindowMs(policy.window) <= now,
           NEW left, NEW then
    PROVE  LET limit == policy.limit
               window == WindowMs(policy.window)
               first == FW!RedisScript(keyspace, at, key, limit, window, now)
           IN  /\ first.reply.resetMs \in Nat
               /\ Remains(first.db, left) =>
                     FW!RedisScript(left, then, key, limit, window,
                                    now + first.reply.resetMs).reply.allowed
<1> DEFINE limit == policy.limit
           window == WindowMs(policy.window)
           n == now \div window
           name == WindowKey(key, n)
           count == Get(keyspace, name, 0) + 1
           first == FW!RedisScript(keyspace, at, key, limit, window, now)
           later == now + first.reply.resetMs
           nextName == WindowKey(key, later \div window)
           again == Get(left, nextName, 0) + 1
           next == FW!RedisScript(left, then, key, limit, window, later)
<1>1. limit \in Nat \ {0} /\ window \in Nat \ {0}
  BY PolicyIs
<1>2. /\ count \in Nat \ {0} /\ (count # 1 <=> name \in DOMAIN keyspace)
      /\ first.reply.resetMs = NonNegative((n + 1) * window - now)
      /\ Updated(keyspace, first.db, name, count,
                 IF count = 1 THEN at + window ELSE keyspace[name].expireAt)
  BY FixedWindowRuns
<1> HIDE DEF limit, window, count, first
<1>3. n \in Int /\ (n + 1) * window > now /\ (n + 1) * window \in Int
  BY <1>1, QuotientAbove
<1> HIDE DEF n
<1>4. first.reply.resetMs \in Nat /\ later = (n + 1) * window
  BY <1>2, <1>3 DEF NonNegative
<1>5. later \div window = n + 1
  <2>1. n + 1 \in Int /\ 0 \in 0 .. window - 1
    BY <1>1, <1>3
  <2>2. (window * (n + 1) + 0) \div window = n + 1
    BY <1>1, <2>1, Recompose
  <2>3. window * (n + 1) + 0 = (n + 1) * window
    BY <1>1, <1>3
  <2>4. QED
    BY <1>4, <2>2, <2>3
<1>6. ASSUME Remains(first.db, left) PROVE next.reply.allowed
  <2>1. Positive(first.db)
    BY <1>2 DEF Positive, Updated
  <2>2. Positive(left)
    BY <1>6, <2>1 DEF Positive, Remains
  <2>3. nextName \notin DOMAIN left
    <3>1. WindowKey(key, n + 1) \notin DOMAIN keyspace
      BY <1>3 DEF window
    <3>2. WindowKey(key, n + 1) # name
      BY <1>3 DEF WindowKey
    <3>3. QED
      BY <1>2, <1>5, <1>6, <3>1, <3>2 DEF Updated, Remains
  <2>4. /\ again \in Nat \ {0} /\ (again # 1 <=> nextName \in DOMAIN left)
        /\ next.reply.allowed = (again <= limit)
    BY <2>2, FixedWindowRuns
  <2> HIDE DEF again, nextName, next
  <2>5. again <= limit
    BY <1>1, <2>3, <2>4
  <2>6. QED
    BY <2>4, <2>5
<1>7. QED
  BY <1>4, <1>6 DEF first, limit, window

(* The weight of a window that is over is less than what it has admitted.  *)
LEMMA WeightAfter ==
    ASSUME NEW hash \in Hashes, NEW window \in Nat \ {0}, NEW limit \in Nat \ {0},
           hash.prevCount <= limit, NEW now \in Int, hash.window * window < now
    PROVE  Weight(hash, window, now) \in Nat /\ Weight(hash, window, now) < limit
<1> DEFINE since == now - hash.window * window
           share == NonNegative(window - since)
           p == hash.prevCount * share
<1>1. hash.prevCount \in Nat /\ hash.window \in Nat
  BY DEF Hashes
<1>2. since \in Int /\ since >= 1
  <2>1. hash.window * window \in Int
    BY <1>1
  <2>2. QED
    BY <2>1
<1> HIDE DEF since
<1>3. share \in Nat /\ share <= window - 1
  BY <1>2 DEF NonNegative
<1> HIDE DEF share
<1>4. p \in Nat /\ p < limit * window
  <2>1. p <= limit * share
    BY <1>1, <1>3, MultiplyLess
  <2>2. limit * share <= limit * (window - 1)
    BY <1>3, MultiplyLess
  <2>3. limit * (window - 1) = limit * window - limit
    OBVIOUS
  <2>4. p \in Nat /\ limit * share \in Int /\ limit * window \in Int
    BY <1>1, <1>3
  <2> HIDE DEF p
  <2>5. QED
    BY <2>1, <2>2, <2>3, <2>4
<1>5. Weight(hash, window, now) = p \div window
  BY DEF Weight, share, since
<1> HIDE DEF p
<1>6. p \div window \in Nat /\ p \div window < limit
  BY <1>4, QuotientBelow
<1>7. QED
  BY <1>5, <1>6

LEMMA SlidingCounterRetries ==
    ASSUME NEW keyspace, NEW at, NEW key, NEW policy \in Policies,
           NEW now, Reading(now), Has(keyspace, Plain(key), Hashes),
           Plain(key) \in DOMAIN keyspace =>
              /\ keyspace[Plain(key)].value.window * WindowMs(policy.window) <= now
              /\ keyspace[Plain(key)].value.count <= policy.limit,
           NEW left, NEW then
    PROVE  LET limit == policy.limit
               window == WindowMs(policy.window)
               first == SC!RedisScript(keyspace, at, key, limit, window, now)
           IN  /\ first.reply.resetMs \in Nat
               /\ ~first.reply.allowed /\ Remains(first.db, left) =>
                     SC!RedisScript(left, then, key, limit, window,
                                    now + first.reply.resetMs + 1).reply.allowed
<1> DEFINE limit == policy.limit
           window == WindowMs(policy.window)
           n == now \div window
           found == Get(keyspace, Plain(key), SC!NoHash)
           hash == Moved(keyspace, key, window, now)
           estimate == Estimate(hash, window, now)
           spent == IF estimate + 1 <= limit THEN 1 ELSE 0
           stored == [hash EXCEPT !.count = @ + spent]
           first == SC!RedisScript(keyspace, at, key, limit, window, now)
           later == now + first.reply.resetMs + 1
           m == later \div window
           moved == Moved(left, key, window, later)
           used == Estimate(moved, window, later)
           next == SC!RedisScript(left, then, key, limit, window, later)
<1>1. limit \in Nat \ {0} /\ window \in Nat \ {0} /\ now \in Nat /\ now >= window
  BY PolicyIs DEF Reading
<1>2. /\ first.reply.allowed = (estimate + 1 <= limit)
      /\ first.reply.resetMs = NonNegative(hash.window * window + window - now)
      /\ Updated(keyspace, first.db, Plain(key), stored, at + 2 * window)
  BY SlidingCounterRuns
<1>3. /\ next.reply.allowed = (used + 1 <= limit)
      /\ Updated(left, next.db, Plain(key),
                 [moved EXCEPT !.count = @ + IF used + 1 <= limit THEN 1 ELSE 0],
                 then + 2 * window)
  BY SlidingCounterRuns
<1>4. hash = SC!Shift(found, n) /\ moved = SC!Shift(Get(left, Plain(key), SC!NoHash), m)
  BY DEF Moved
<1>5. /\ found \in Hashes \cup {SC!NoHash}
      /\ found \in Hashes => found.window * window <= now /\ found.count <= limit
  <2>1. SC!NoHash \notin Hashes
    BY DEF SC!NoHash, Hashes
  <2>2. QED
    BY <2>1 DEF Get, Has
<1> HIDE DEF limit, window, found, hash, moved, first, next
<1>6. n \in Nat \ {0} /\ (n + 1) * window > now /\ n * window <= now /\ n * window \in Int
        /\ (n + 1) * window = n * window + window
  <2>1. n \in Int /\ (n + 1) * window > now
    BY <1>1, QuotientAbove
  <2>2. 1 <= n
    <3>1. 1 * window <= now
      BY <1>1
    <3>2. QED
      BY <1>1, <3>1, QuotientAtLeast
  <2>3. n * window <= now
    <3>1. now = window * n + (now % window) /\ now % window \in 0 .. window - 1
      BY <1>1, DivMod
    <3>2. window * n = n * window /\ window * n \in Int
      BY <1>1, <2>1
    <3> HIDE DEF n
    <3>3. QED
      BY <1>1, <3>1, <3>2
  <2> HIDE DEF n
  <2>4. QED
    BY <1>1, <2>1, <2>2, <2>3
<1> HIDE DEF n
<1>7. hash \in Hashes /\ hash.window = n
  <2>1. hash \in Hashes /\ n <= hash.window /\ hash.window \in Nat
    BY <1>4, <1>5, <1>6, ShiftIs DEF Hashes
  <2>2. CASE found \in Hashes /\ found.window > n
    <3>1. found.window \in Nat
      BY <2>2 DEF Hashes
    <3>2. (n + 1) * window <= found.window * window
      BY <1>1, <1>6, <2>2, <3>1, MultiplyLess
    <3>3. found.window * window \in Int
      BY <1>1, <3>1
    <3>4. QED
      BY <1>1, <1>5, <1>6, <2>2, <3>2, <3>3
  <2>3. CASE found \in Hashes /\ ~(found.window > n)
    <3>1. found.window \in Nat \ {0}
      BY <2>3 DEF Hashes
    <3>2. hash.window \in {n, found.window}
      BY <1>4, <2>3 DEF SC!Shift
    <3>3. QED
      BY <1>6, <2>1, <2>3, <3>1, <3>2
  <2>4. CASE found = SC!NoHash
    BY <1>4, <1>6, <2>1, <2>4 DEF SC!Shift, SC!NoHash
  <2>5. QED
    BY <1>5, <2>1, <2>2, <2>3, <2>4
<1>8. hash.count \in Nat /\ hash.count <= limit
  <2>1. CASE found \in Hashes
    BY <1>1, <1>4, <1>5, <1>7, <2>1 DEF SC!Shift, SC!NoHash, Hashes
  <2>2. CASE found = SC!NoHash
    BY <1>1, <1>4, <2>2 DEF SC!Shift, SC!NoHash
  <2>3. QED
    BY <1>5, <2>1, <2>2
<1>9. first.reply.resetMs \in Nat /\ later = (n + 1) * window + 1 /\ later \in Nat
  BY <1>1, <1>2, <1>6, <1>7 DEF NonNegative
<1>10. m \in Nat /\ n + 1 <= m
  <2>1. (n + 1) * window <= later
    BY <1>1, <1>6, <1>9
  <2>2. m \in Int /\ n + 1 <= m
    BY <1>1, <1>6, <1>9, <2>1, QuotientAtLeast
  <2>3. QED
    BY <1>6, <2>2
<1> HIDE DEF m, later
<1>11. ASSUME ~first.reply.allowed, Remains(first.db, left) PROVE next.reply.allowed
  <2>1. stored = hash
    <3>1. spent = 0
      BY <1>2, <1>11
    <3> HIDE DEF spent
    <3>2. QED
      BY <1>7, <1>8, <3>1 DEF Hashes
  <2>2. Get(left, Plain(key), SC!NoHash) \in {hash, SC!NoHash}
    <3> HIDE DEF stored
    <3>1. first.db[Plain(key)].value = stored
      BY <1>2 DEF Updated
    <3>2. QED
      BY <1>11, <2>1, <3>1 DEF Remains, Get
  <2>3. /\ moved \in Hashes /\ moved.count = 0 /\ moved.window = m
        /\ moved.prevCount \in Nat /\ moved.prevCount <= limit
        /\ moved.prevCount # 0 => m = n + 1
    <3>1. CASE Get(left, Plain(key), SC!NoHash) = hash
      BY <1>1, <1>4, <1>6, <1>7, <1>8, <1>10, <3>1 DEF SC!Shift, Hashes
    <3>2. CASE Get(left, Plain(key), SC!NoHash) = SC!NoHash
      BY <1>1, <1>4, <1>6, <1>10, <3>2 DEF SC!Shift, SC!NoHash, Hashes
    <3>3. QED
      BY <2>2, <3>1, <3>2
  <2>4. Weight(moved, window, later) \in Nat /\ Weight(moved, window, later) < limit
    <3>1. CASE m = n + 1
      <4>1. moved.window * window < later
        <5>1. moved.window = n + 1 /\ (n + 1) * window \in Int
          BY <1>1, <1>6, <2>3, <3>1
        <5>2. QED
          BY <1>9, <5>1
      <4>2. later \in Int
        BY <1>9
      <4>3. QED
        BY <1>1, <2>3, <4>1, <4>2, WeightAfter
    <3>2. CASE moved.prevCount = 0
      <4>1. later \in Int
        BY <1>9
      <4> DEFINE share == NonNegative(window - (later - moved.window * window))
      <4>2. share \in Int
        <5>1. window - (later - moved.window * window) \in Int
          BY <1>1, <1>10, <2>3, <4>1
        <5>2. QED
          BY <5>1 DEF NonNegative
      <4> HIDE DEF share
      <4>3. 0 * share = 0 /\ 0 \div window = 0
        BY <1>1, <4>2
      <4>4. Weight(moved, window, later) = 0
        BY <3>2, <4>3 DEF Weight, share
      <4>5. QED
        BY <1>1, <4>4
    <3>3. QED
      BY <2>3, <3>1, <3>2
  <2>5. used + 1 <= limit
    BY <1>1, <2>3, <2>4 DEF Estimate
  <2> HIDE DEF used
  <2>6. QED
    BY <1>3, <2>5
<1>12. QED
  BY <1>9, <1>11 DEF first, next, limit, window, later

LEMMA OldestIs ==
    ASSUME NEW log, log # {}, \A m \in log : m[1] \in Nat
    PROVE  /\ SL!Oldest(log) \in Nat
           /\ \E m \in log : m[1] = SL!Oldest(log)
           /\ \A m \in log : SL!Oldest(log) <= m[1]
<1> DEFINE scores == {m[1] : m \in log}
<1>1. scores \subseteq Nat /\ scores # {}
  OBVIOUS
<1> HIDE DEF scores
<1>2. PICK least \in scores : \A score \in scores : least <= score
  BY <1>1, LeastIndex
<1>3. \A m \in log : m[1] \in scores
  BY DEF scores
<1>4. \E score \in scores : \A m \in log : score <= m[1]
  BY <1>2, <1>3
<1>5. SL!Oldest(log) \in scores /\ \A m \in log : SL!Oldest(log) <= m[1]
  BY <1>4 DEF SL!Oldest, scores
<1> QED
  BY <1>1, <1>5 DEF scores

LEMMA SlidingLogRetries ==
    ASSUME NEW keyspace, NEW at, NEW key, NEW policy \in Policies, NEW now \in Nat,
           Has(keyspace, Plain(key), Logs),
           Cardinality(LogOf(keyspace, key)) <= policy.limit,
           NEW left, NEW then
    PROVE  LET limit == policy.limit
               window == WindowMs(policy.window)
               first == SL!RedisScript(keyspace, at, key, limit, window, now)
           IN  ~first.reply.allowed =>
                  /\ first.reply.resetMs \in Nat
                  /\ Remains(first.db, left) =>
                        SL!RedisScript(left, then, key, limit, window,
                                       now + first.reply.resetMs).reply.allowed
<1> DEFINE limit == policy.limit
           window == WindowMs(policy.window)
           first == SL!RedisScript(keyspace, at, key, limit, window, now)
           live == Alive(keyspace, key, window, now)
           count == Cardinality(live)
           log == Logged(keyspace, key, limit, window, now)
           before == Numbered(keyspace, at, key, window)
           oldest == SL!Oldest(live)
           later == now + first.reply.resetMs
           still == Alive(left, key, window, later)
           again == Cardinality(still)
           before2 == Numbered(left, then, key, window)
           next == SL!RedisScript(left, then, key, limit, window, later)
<1>1. limit \in Nat \ {0} /\ window \in Nat \ {0}
  BY PolicyIs
<1>2. /\ first.reply.allowed = (count < limit)
      /\ first.reply.resetMs = NonNegative(SL!Oldest(log) + window - now)
      /\ Updated(keyspace, before, SeqKey(key), NextSeq(keyspace, key), at + 2 * window)
      /\ Updated(IF count < limit THEN before ELSE keyspace, first.db, Plain(key), log,
                 at + 2 * window)
  BY SlidingLogRuns
<1>3. /\ next.reply.allowed = (again < limit)
      /\ Updated(left, before2, SeqKey(key), NextSeq(left, key), then + 2 * window)
      /\ Updated(IF again < limit THEN before2 ELSE left, next.db, Plain(key),
                 Logged(left, key, limit, window, later), then + 2 * window)
  BY SlidingLogRuns
<1>4. /\ live \subseteq LogOf(keyspace, key)
      /\ live = {m \in LogOf(keyspace, key) : m[1] > now - window}
      /\ IsFiniteSet(live) /\ count \in Nat
  BY AliveIs
<1>5. LogOf(keyspace, key) \subseteq Nat \X (Nat \ {0}) /\ IsFiniteSet(LogOf(keyspace, key))
  BY LogsAre
<1>6. log = IF count < limit THEN live \cup {<<now, NextSeq(keyspace, key)>>} ELSE live
  BY DEF Logged
<1>7. still = {m \in LogOf(left, key) : m[1] < 0 \/ m[1] > later - window}
  BY DEF SL!Newer, Alive
<1> SUFFICES ASSUME ~first.reply.allowed
             PROVE  /\ first.reply.resetMs \in Nat
                    /\ Remains(first.db, left) => next.reply.allowed
  OBVIOUS
<1> HIDE DEF limit, window, first, live, log, before, before2, still, next
<1>8. ~(count < limit) /\ log = live
  BY <1>2, <1>6
<1>9. live # {}
  BY <1>1, <1>8, FS_EmptySet
<1>10. \A m \in live : m[1] \in Nat /\ m[1] > now - window
  BY <1>4, <1>5
<1>11. /\ oldest \in Nat
       /\ \E m \in live : m[1] = oldest
       /\ \A m \in live : oldest <= m[1]
  BY <1>9, <1>10, OldestIs
<1> HIDE DEF oldest, count
<1>12. first.reply.resetMs = NonNegative(oldest + window - now) /\ oldest > now - window
  BY <1>2, <1>8, <1>10, <1>11 DEF oldest
<1>13. first.reply.resetMs \in Nat /\ later = oldest + window
  BY <1>1, <1>11, <1>12 DEF NonNegative
<1> HIDE DEF later
<1>14. ASSUME Remains(first.db, left) PROVE next.reply.allowed
  <2>1. LogOf(left, key) \in {live, {}}
    <3>1. first.db[Plain(key)].value = live
      BY <1>2, <1>8 DEF Updated
    <3>2. QED
      BY <1>14, <3>1 DEF LogOf, Get, Remains
  <2>2. later - window = oldest
    BY <1>1, <1>11, <1>13
  <2>3. still \subseteq live /\ \A m \in still : m[1] > oldest
    BY <1>7, <1>10, <2>1, <2>2
  <2>4. PICK m \in live : m[1] = oldest
    BY <1>11
  <2>5. m \notin still
    BY <1>11, <2>3, <2>4
  <2>6. /\ IsFiniteSet(still) /\ again \in Nat /\ again < count
    <3>1. still \subseteq live \ {m} /\ IsFiniteSet(live \ {m})
          /\ Cardinality(live \ {m}) = Cardinality(live) - 1
      BY <1>4, <2>3, <2>4, <2>5, FS_RemoveElement
    <3>2. IsFiniteSet(still) /\ Cardinality(still) <= Cardinality(live \ {m})
      BY <3>1, FS_Subset
    <3>3. again \in Nat
      BY <3>2, FS_CardinalityType
    <3>4. QED
      BY <1>4, <3>1, <3>2, <3>3 DEF count
  <2>7. count <= limit
    <3>1. Cardinality(live) <= Cardinality(LogOf(keyspace, key))
            /\ Cardinality(LogOf(keyspace, key)) \in Nat
      BY <1>4, <1>5, FS_Subset, FS_CardinalityType
    <3>2. QED
      BY <1>1, <1>4, <3>1 DEF count, limit
  <2>8. again < limit
    BY <1>1, <1>4, <2>6, <2>7
  <2> HIDE DEF again
  <2>9. QED
    BY <1>3, <2>8
<1>15. QED
  BY <1>13, <1>14 DEF later, next

(* A quotient that is rounded up covers what was divided.                  *)
LEMMA CeilDivCovers ==
    ASSUME NEW a \in Nat, NEW b \in Nat \ {0}
    PROVE  CeilDiv(a, b) \in Nat /\ CeilDiv(a, b) * b >= a
<1> DEFINE x == a + b - 1
           q == x \div b
<1>1. x \in Nat
  OBVIOUS
<1>2. CeilDiv(a, b) = q
  BY DEF CeilDiv
<1> HIDE DEF x
<1>3. q \in Nat /\ (q + 1) * b > x
  BY <1>1, QuotientAbove
<1> HIDE DEF q
<1>4. (q + 1) * b = q * b + b /\ q * b \in Int
  BY <1>3
<1>5. q * b >= a
  BY <1>3, <1>4 DEF x
<1>6. QED
  BY <1>2, <1>3, <1>5

LEMMA TokenBucketRetries ==
    ASSUME NEW keyspace, NEW at, NEW key, NEW policy \in Policies, NEW now \in Nat,
           Has(keyspace, Plain(key), Fills),
           NEW left, NEW then
    PROVE  LET limit == policy.limit
               window == WindowMs(policy.window)
               first == TB!RedisScript(keyspace, at, key, limit, window, now)
           IN  ~first.reply.allowed =>
                  /\ first.reply.resetMs \in Nat
                  /\ Remains(first.db, left) =>
                        TB!RedisScript(left, then, key, limit, window,
                                       now + first.reply.resetMs).reply.allowed
<1> DEFINE limit == policy.limit
           window == WindowMs(policy.window)
           full == FullOf(policy)
           rate == RateOf(policy)
           first == TB!RedisScript(keyspace, at, key, limit, window, now)
           filled == Filled(keyspace, key, limit, window, now)
           allowed == filled >= TokenUnit
           rest == IF allowed THEN filled - TokenUnit ELSE filled
           missing == IF allowed THEN TB!Capacity(limit) - rest ELSE TokenUnit - rest
           hash == [tokens |-> rest, lastUpdated |-> now]
           later == now + first.reply.resetMs
           again == Filled(left, key, limit, window, later)
           rest2 == IF again >= TokenUnit THEN again - TokenUnit ELSE again
           next == TB!RedisScript(left, then, key, limit, window, later)
<1>1. /\ TokenUnit \in Nat \ {0} /\ full \in Nat /\ rate \in Nat \ {0} /\ TokenUnit <= full
      /\ TB!FillRate(limit, window) = rate
  BY AlgorithmAssumption, RateIs
<1>2. filled \in 0 .. full
  BY FilledIs
<1>3. /\ first.reply.allowed = allowed
      /\ first.reply.resetMs = CeilDiv(missing, TB!FillRate(limit, window))
      /\ Updated(keyspace, first.db, Plain(key), hash, at + 2 * window)
  BY TokenBucketRuns
<1>4. /\ next.reply.allowed = (again >= TokenUnit)
      /\ Updated(left, next.db, Plain(key), [tokens |-> rest2, lastUpdated |-> later],
                 then + 2 * window)
  BY TokenBucketRuns
<1> SUFFICES ASSUME ~first.reply.allowed
             PROVE  /\ first.reply.resetMs \in Nat
                    /\ Remains(first.db, left) => next.reply.allowed
  OBVIOUS
<1> HIDE DEF filled, first, next
<1>5. ~allowed /\ rest = filled /\ missing = TokenUnit - filled
  BY <1>3
<1>6. missing \in Nat
  BY <1>1, <1>2, <1>5
<1>7. first.reply.resetMs \in Nat /\ first.reply.resetMs * rate >= missing
  <2> HIDE DEF missing, rate
  <2>1. first.reply.resetMs = CeilDiv(missing, rate)
    BY <1>1, <1>3
  <2>2. QED
    BY <1>1, <1>6, <2>1, CeilDivCovers
<1> HIDE DEF missing
<1>8. ASSUME Remains(first.db, left) PROVE next.reply.allowed
  <2>1. later \in Nat
    BY <1>7
  <2>2. Plain(key) \in DOMAIN left => left[Plain(key)].value = hash
    <3> HIDE DEF hash
    <3>1. first.db[Plain(key)].value = hash
      BY <1>3 DEF Updated
    <3>2. QED
      BY <1>8, <3>1 DEF Remains
  <2>3. hash \in Fills /\ hash.tokens = filled /\ hash.lastUpdated = now
    BY <1>1, <1>2, <1>5 DEF Fills
  <2> HIDE DEF hash
  <2>4. Has(left, Plain(key), Fills)
    BY <2>2, <2>3 DEF Has
  <2> HIDE DEF later
  <2>5. /\ Plain(key) \notin DOMAIN left => again = full
        /\ Plain(key) \in DOMAIN left =>
              again = Least(full, left[Plain(key)].value.tokens
                        + NonNegative(later - left[Plain(key)].value.lastUpdated) * rate)
    BY <2>1, <2>4, FilledIs
  <2>6. NonNegative(later - now) = first.reply.resetMs
    BY <1>7 DEF NonNegative, later
  <2> DEFINE gained == first.reply.resetMs * rate
  <2>7. Plain(key) \in DOMAIN left => again = Least(full, filled + gained)
    BY <2>2, <2>3, <2>5, <2>6
  <2>8. gained \in Nat /\ gained >= TokenUnit - filled
    BY <1>1, <1>5, <1>7
  <2> HIDE DEF gained, again, full
  <2>9. again >= TokenUnit
    BY <1>1, <1>2, <2>5, <2>7, <2>8 DEF Least
  <2>10. QED
    BY <1>4, <2>9
<1>9. QED
  BY <1>7, <1>8 DEF first, next, later, limit, window

LEMMA LeakyBucketRetries ==
    ASSUME NEW keyspace, NEW at, NEW key, NEW policy \in Policies, NEW now \in Nat,
           Has(keyspace, Plain(key), Levels),
           NEW left, NEW then
    PROVE  LET limit == policy.limit
               window == WindowMs(policy.window)
               first == LB!RedisScript(keyspace, at, key, limit, window, now)
           IN  ~first.reply.allowed =>
                  /\ first.reply.resetMs \in Nat
                  /\ Remains(first.db, left) =>
                        LB!RedisScript(left, then, key, limit, window,
                                       now + first.reply.resetMs).reply.allowed
<1> DEFINE limit == policy.limit
           window == WindowMs(policy.window)
           full == FullOf(policy)
           rate == RateOf(policy)
           first == LB!RedisScript(keyspace, at, key, limit, window, now)
           drained == Drained(keyspace, key, limit, window, now)
           allowed == drained + TokenUnit <= LB!Capacity(limit)
           level == IF allowed THEN drained + TokenUnit ELSE drained
           excess == IF allowed THEN level ELSE level + TokenUnit - LB!Capacity(limit)
           hash == [water |-> level, lastUpdated |-> now]
           later == now + first.reply.resetMs
           again == Drained(left, key, limit, window, later)
           allowed2 == again + TokenUnit <= LB!Capacity(limit)
           level2 == IF allowed2 THEN again + TokenUnit ELSE again
           next == LB!RedisScript(left, then, key, limit, window, later)
<1>1. /\ TokenUnit \in Nat \ {0} /\ full \in Nat /\ rate \in Nat \ {0} /\ TokenUnit <= full
      /\ LB!LeakRate(limit, window) = rate /\ LB!Capacity(limit) = full
  BY AlgorithmAssumption, RateIs
<1>2. drained \in Nat
  BY DrainedIs
<1>3. /\ first.reply.allowed = allowed
      /\ first.reply.resetMs = CeilDiv(excess, LB!LeakRate(limit, window))
      /\ Updated(keyspace, first.db, Plain(key), hash, at + 2 * window)
  BY LeakyBucketRuns
<1>4. /\ next.reply.allowed = allowed2
      /\ Updated(left, next.db, Plain(key), [water |-> level2, lastUpdated |-> later],
                 then + 2 * window)
  BY LeakyBucketRuns
<1> SUFFICES ASSUME ~first.reply.allowed
             PROVE  /\ first.reply.resetMs \in Nat
                    /\ Remains(first.db, left) => next.reply.allowed
  OBVIOUS
<1> HIDE DEF drained, first, next
<1>5. ~allowed /\ level = drained /\ excess = drained + TokenUnit - full
        /\ ~(drained + TokenUnit <= full)
  BY <1>1, <1>3
<1>6. excess \in Nat
  BY <1>1, <1>2, <1>5
<1>7. first.reply.resetMs \in Nat /\ first.reply.resetMs * rate >= excess
  <2> HIDE DEF excess, rate
  <2>1. first.reply.resetMs = CeilDiv(excess, rate)
    BY <1>1, <1>3
  <2>2. QED
    BY <1>1, <1>6, <2>1, CeilDivCovers
<1> HIDE DEF excess
<1>8. ASSUME Remains(first.db, left) PROVE next.reply.allowed
  <2>1. later \in Nat
    BY <1>7
  <2>2. Plain(key) \in DOMAIN left => left[Plain(key)].value = hash
    <3> HIDE DEF hash
    <3>1. first.db[Plain(key)].value = hash
      BY <1>3 DEF Updated
    <3>2. QED
      BY <1>8, <3>1 DEF Remains
  <2>3. hash \in Levels /\ hash.water = drained /\ hash.lastUpdated = now
    BY <1>1, <1>2, <1>5 DEF Levels
  <2> HIDE DEF hash
  <2>4. Has(left, Plain(key), Levels)
    BY <2>2, <2>3 DEF Has
  <2> HIDE DEF later
  <2>5. /\ Plain(key) \notin DOMAIN left => again = 0
        /\ Plain(key) \in DOMAIN left =>
              again = NonNegative(left[Plain(key)].value.water
                        - NonNegative(later - left[Plain(key)].value.lastUpdated) * rate)
    BY <2>1, <2>4, DrainedIs
  <2>6. NonNegative(later - now) = first.reply.resetMs
    BY <1>7 DEF NonNegative, later
  <2> DEFINE leaked == first.reply.resetMs * rate
  <2>7. Plain(key) \in DOMAIN left => again = NonNegative(drained - leaked)
    BY <2>2, <2>3, <2>5, <2>6
  <2>8. leaked \in Nat /\ leaked >= drained + TokenUnit - full
    BY <1>1, <1>5, <1>7
  <2> HIDE DEF leaked, again, full
  <2>9. again + TokenUnit <= full
    BY <1>1, <1>2, <2>5, <2>7, <2>8 DEF NonNegative
  <2>10. QED
    BY <1>1, <1>4, <2>9
<1>9. QED
  BY <1>7, <1>8 DEF first, next, later, limit, window

(* What a key of one policy is like when no reading was later than until:  *)
(* no window is yet to come, and what is counted or logged fits the limit. *)
Settled(keyspace, key, policy, until) ==
    LET window == WindowMs(policy.window)
        hash == keyspace[Plain(key)].value
    IN  /\ strategy = "fixed_window" =>
              \A n \in Int : WindowKey(key, n) \in DOMAIN keyspace => n * window <= until
        /\ strategy = "sliding_counter" =>
              (Plain(key) \in DOMAIN keyspace =>
                  hash.window * window <= until /\ hash.count <= policy.limit)
        /\ strategy = "sliding_log" => Cardinality(LogOf(keyspace, key)) <= policy.limit

(* Time that goes on settles nothing less.                                 *)
LEMMA SettledLater ==
    ASSUME NEW keyspace, NEW key, NEW policy \in Policies, NEW until \in Int,
           Settled(keyspace, key, policy, until), Typed(keyspace, key),
           NEW left, \A name : name[1] = key => (name \in DOMAIN left =>
               name \in DOMAIN keyspace /\ left[name] = keyspace[name]),
           NEW later \in Int, until <= later
    PROVE  Settled(left, key, policy, later)
<1> DEFINE window == WindowMs(policy.window)
           hash == keyspace[Plain(key)].value
<1>1. window \in Nat \ {0} /\ policy.limit \in Nat \ {0}
  BY PolicyIs
<1>2. CASE strategy = "fixed_window"
  <2>1. ASSUME NEW n \in Int, WindowKey(key, n) \in DOMAIN left PROVE n * window <= later
    <3>1. WindowKey(key, n) \in DOMAIN keyspace
      BY <2>1, NamesOfKeys
    <3>2. n * window <= until
      BY <1>2, <3>1 DEF Settled
    <3>3. n * window \in Int
      BY <1>1
    <3>4. QED
      BY <3>2, <3>3
  <2>2. QED
    BY <1>2, <2>1 DEF Settled
<1>3. CASE strategy = "sliding_counter"
  <2>1. ASSUME Plain(key) \in DOMAIN left
        PROVE  left[Plain(key)].value.window * window <= later
                  /\ left[Plain(key)].value.count <= policy.limit
    <3>1. Plain(key) \in DOMAIN keyspace /\ left[Plain(key)] = keyspace[Plain(key)]
      BY <2>1, NamesOfKeys
    <3>2. hash \in Hashes /\ hash.window * window <= until /\ hash.count <= policy.limit
      BY <1>3, <3>1 DEF Settled, Typed, Has
    <3>3. hash.window \in Int
      BY <3>2 DEF Hashes
    <3>4. hash.window * window \in Int
      BY <1>1, <3>3
    <3>5. QED
      BY <3>1, <3>2, <3>4
  <2>2. QED
    BY <1>3, <2>1 DEF Settled
<1>4. CASE strategy = "sliding_log"
  <2>1. LogOf(left, key) \in {LogOf(keyspace, key), {}}
    BY NamesOfKeys DEF LogOf, Get
  <2>2. Cardinality(LogOf(left, key)) <= policy.limit
    <3>1. Cardinality({}) <= policy.limit
      BY <1>1, FS_EmptySet
    <3>2. Cardinality(LogOf(keyspace, key)) <= policy.limit
      BY <1>4 DEF Settled
    <3>3. QED
      BY <2>1, <3>1, <3>2
  <2>3. QED
    BY <1>4, <2>2 DEF Settled
<1>5. QED
  BY <1>2, <1>3, <1>4 DEF Settled

LEMMA FixedWindowSettles ==
    ASSUME NEW keyspace, Positive(keyspace), NEW at, NEW key, NEW policy \in Policies,
           NEW now \in Nat, NEW until \in Int, now <= until,
           \A n \in Int : WindowKey(key, n) \in DOMAIN keyspace
                             => n * WindowMs(policy.window) <= until
    PROVE  LET window == WindowMs(policy.window)
               left == FW!RedisScript(keyspace, at, key, policy.limit, window, now).db
           IN  \A n \in Int : WindowKey(key, n) \in DOMAIN left => n * window <= until
<1> DEFINE window == WindowMs(policy.window)
           current == now \div window
           name == WindowKey(key, current)
           after == FW!RedisScript(keyspace, at, key, policy.limit, window, now)
           count == Get(keyspace, name, 0) + 1
<1>1. window \in Nat \ {0}
  BY PolicyIs
<1>2. Updated(keyspace, after.db, name, count,
              IF count = 1 THEN at + window ELSE keyspace[name].expireAt)
  BY FixedWindowRuns
<1>3. DOMAIN after.db = DOMAIN keyspace \cup {name}
  BY <1>2 DEF Updated
<1> SUFFICES ASSUME NEW n \in Int, WindowKey(key, n) \in DOMAIN after.db
             PROVE  n * window <= until
  OBVIOUS
<1> HIDE DEF window, after
<1>4. CASE WindowKey(key, n) \in DOMAIN keyspace
  BY <1>4 DEF window
<1>5. CASE WindowKey(key, n) = name
  <2>1. n = current
    BY <1>5 DEF WindowKey
  <2>2. now = window * current + (now % window) /\ now % window \in 0 .. window - 1
    BY <1>1, DivMod
  <2>3. current \in Int
    BY <1>1, QuotientAbove
  <2> HIDE DEF current
  <2>4. window * current = current * window /\ window * current \in Int
    BY <1>1, <2>3
  <2>5. n * window <= now
    BY <1>1, <2>1, <2>2, <2>4
  <2>6. n * window \in Int
    BY <1>1
  <2>7. QED
    BY <2>5, <2>6
<1>6. QED
  BY <1>3, <1>4, <1>5

LEMMA SlidingCounterSettles ==
    ASSUME NEW keyspace, NEW at, NEW key, NEW policy \in Policies,
           NEW now, Reading(now), Has(keyspace, Plain(key), Hashes),
           NEW until \in Int, now <= until,
           Plain(key) \in DOMAIN keyspace =>
              /\ keyspace[Plain(key)].value.window * WindowMs(policy.window) <= until
              /\ keyspace[Plain(key)].value.count <= policy.limit
    PROVE  LET window == WindowMs(policy.window)
               left == SC!RedisScript(keyspace, at, key, policy.limit, window, now).db
           IN  /\ left[Plain(key)].value.window * window <= until
               /\ left[Plain(key)].value.count <= policy.limit
<1> DEFINE limit == policy.limit
           window == WindowMs(policy.window)
           n == now \div window
           found == Get(keyspace, Plain(key), SC!NoHash)
           hash == Moved(keyspace, key, window, now)
           estimate == Estimate(hash, window, now)
           spent == IF estimate + 1 <= limit THEN 1 ELSE 0
           stored == [hash EXCEPT !.count = @ + spent]
           after == SC!RedisScript(keyspace, at, key, limit, window, now)
<1>1. limit \in Nat \ {0} /\ window \in Nat \ {0} /\ now \in Nat /\ now >= window
  BY PolicyIs DEF Reading
<1>2. Updated(keyspace, after.db, Plain(key), stored, at + 2 * window)
  BY SlidingCounterRuns
<1>3. hash = SC!Shift(found, n)
  BY DEF Moved
<1>4. /\ found \in Hashes \cup {SC!NoHash}
      /\ found \in Hashes => found.window * window <= until /\ found.count <= limit
  <2>1. SC!NoHash \notin Hashes
    BY DEF SC!NoHash, Hashes
  <2>2. QED
    BY <2>1 DEF Get, Has
<1> HIDE DEF limit, window, found, hash, after
<1>5. n \in Nat \ {0} /\ n * window <= now /\ n * window \in Int
  <2>1. 1 * window <= now
    BY <1>1
  <2>2. n \in Int /\ 1 <= n
    BY <1>1, <2>1, QuotientAtLeast
  <2>3. now = window * n + (now % window) /\ now % window \in 0 .. window - 1
    BY <1>1, DivMod
  <2> HIDE DEF n
  <2>4. window * n = n * window /\ window * n \in Int
    BY <1>1, <2>2
  <2>5. QED
    BY <1>1, <2>2, <2>3, <2>4
<1> HIDE DEF n
<1>6. hash \in Hashes
  BY <1>3, <1>4, <1>5, ShiftIs
<1>7. hash.window \in Nat /\ hash.count \in Nat /\ hash.count <= limit
  <2>1. CASE found \in Hashes
    BY <1>1, <1>3, <1>4, <1>6, <2>1 DEF SC!Shift, SC!NoHash, Hashes
  <2>2. CASE found = SC!NoHash
    BY <1>1, <1>3, <1>6, <2>2 DEF SC!Shift, SC!NoHash, Hashes
  <2>3. QED
    BY <1>4, <2>1, <2>2
<1>8. hash.window * window <= until
  <2>1. hash.window = n \/ (found \in Hashes /\ hash = found)
    BY <1>3, <1>4 DEF SC!Shift, SC!NoHash
  <2>2. CASE hash.window = n
    BY <1>1, <1>5, <2>2
  <2>3. CASE found \in Hashes /\ hash = found
    BY <1>4, <2>3
  <2>4. QED
    BY <2>1, <2>2, <2>3
<1>9. hash.count + spent <= limit
  <2>1. Weight(hash, window, now) \in Nat
    BY <1>1, <1>6, WeightIs
  <2>2. QED
    BY <1>1, <1>7, <2>1 DEF Estimate
<1>10. stored.window = hash.window /\ stored.count = hash.count + spent
  BY <1>6 DEF Hashes
<1>11. after.db[Plain(key)].value = stored
  BY <1>2 DEF Updated
<1> HIDE DEF stored, spent
<1>12. QED
  BY <1>8, <1>9, <1>10, <1>11 DEF after, limit, window

LEMMA SlidingLogSettles ==
    ASSUME NEW keyspace, NEW at, NEW key, NEW policy \in Policies, NEW now,
           Has(keyspace, Plain(key), Logs),
           Cardinality(LogOf(keyspace, key)) <= policy.limit
    PROVE  Cardinality(LogOf(SL!RedisScript(keyspace, at, key, policy.limit,
                                            WindowMs(policy.window), now).db, key))
              <= policy.limit
<1> DEFINE limit == policy.limit
           window == WindowMs(policy.window)
           live == Alive(keyspace, key, window, now)
           count == Cardinality(live)
           log == Logged(keyspace, key, limit, window, now)
           seq == NextSeq(keyspace, key)
           left == SL!RedisScript(keyspace, at, key, limit, window, now).db
<1>1. limit \in Nat \ {0}
  BY PolicyIs
<1>2. /\ Plain(key) \in DOMAIN left
      /\ left[Plain(key)] = [value |-> log, expireAt |-> at + 2 * window]
      /\ LogOf(left, key) = log
      /\ count < limit =>
            /\ SeqKey(key) \in DOMAIN left
            /\ left[SeqKey(key)] = [value |-> seq, expireAt |-> at + 2 * window]
      /\ ~(count < limit) =>
            /\ SeqKey(key) \in DOMAIN left <=> SeqKey(key) \in DOMAIN keyspace
            /\ SeqKey(key) \in DOMAIN keyspace => left[SeqKey(key)] = keyspace[SeqKey(key)]
  BY SlidingLogLeaves DEF left, count, seq, log
<1>3. live \subseteq LogOf(keyspace, key) /\ IsFiniteSet(live) /\ count \in Nat
  BY AliveIs
<1>4. IsFiniteSet(LogOf(keyspace, key))
  BY LogsAre
<1>5. log = IF count < limit THEN live \cup {<<now, NextSeq(keyspace, key)>>} ELSE live
  BY DEF Logged
<1> HIDE DEF limit, window, live, log, left, seq
<1>6. CASE count < limit
  <2>1. Cardinality(log) \in {count, count + 1}
    BY <1>3, <1>5, <1>6, FS_AddElement
  <2>2. Cardinality(log) <= limit
    BY <1>1, <1>3, <1>6, <2>1
  <2>3. QED
    BY <1>2, <2>2 DEF limit, window, left
<1>7. CASE ~(count < limit)
  <2>1. Cardinality(live) <= Cardinality(LogOf(keyspace, key))
            /\ Cardinality(LogOf(keyspace, key)) \in Nat
    BY <1>3, <1>4, FS_Subset, FS_CardinalityType
  <2>2. log = live
    BY <1>5, <1>7
  <2>3. Cardinality(log) <= limit
    BY <1>1, <1>3, <2>1, <2>2 DEF limit
  <2>4. QED
    BY <1>2, <2>3 DEF limit, window, left
<1>8. QED
  BY <1>6, <1>7

(* A script settles its key, at the latest by its own reading.             *)
LEMMA ScriptSettles ==
    ASSUME NEW keyspace, NEW at, NEW key, NEW policy \in Policies, NEW now, Reading(now),
           Typed(keyspace, key), strategy \in AllStrategies,
           strategy = "fixed_window" => Positive(keyspace),
           NEW until \in Int, now <= until, Settled(keyspace, key, policy, until)
    PROVE  Settled(Script(keyspace, at, key, policy, now).db, key, policy, until)
<1> DEFINE limit == policy.limit
           window == WindowMs(policy.window)
<1>1. now \in Nat
  BY DEF Reading
<1>2. CASE strategy = "fixed_window"
  <2>1. Script(keyspace, at, key, policy, now)
          = FW!RedisScript(keyspace, at, key, limit, window, now)
    BY <1>2 DEF Script
  <2>2. QED
    BY <1>1, <1>2, <2>1, FixedWindowSettles DEF Settled
<1>3. CASE strategy = "sliding_counter"
  <2>1. Script(keyspace, at, key, policy, now)
          = SC!RedisScript(keyspace, at, key, limit, window, now)
    BY <1>3 DEF Script
  <2>2. QED
    BY <1>3, <2>1, SlidingCounterSettles DEF Settled, Typed
<1>4. CASE strategy = "sliding_log"
  <2>1. Script(keyspace, at, key, policy, now)
          = SL!RedisScript(keyspace, at, key, limit, window, now)
    BY <1>4 DEF Script
  <2>2. QED
    BY <1>4, <2>1, SlidingLogSettles DEF Settled, Typed
<1>5. CASE strategy \in {"token_bucket", "leaky_bucket"}
  BY <1>5 DEF Settled
<1>6. QED
  BY <1>2, <1>3, <1>4, <1>5 DEF AllStrategies

(* A refused caller that waits for ResetIn is admitted by what remains.    *)
LEMMA ScriptRetries ==
    ASSUME NEW keyspace, NEW at, NEW key, NEW policy \in Policies, NEW now, Reading(now),
           Typed(keyspace, key), strategy \in AllStrategies,
           strategy = "fixed_window" => Positive(keyspace),
           Settled(keyspace, key, policy, now), NEW left, NEW then
    PROVE  LET first == Script(keyspace, at, key, policy, now)
           IN  ~first.reply.allowed =>
                  /\ first.reply.resetMs \in Nat
                  /\ Remains(first.db, left) =>
                        Script(left, then, key, policy,
                               now + first.reply.resetMs + Grace).reply.allowed
<1> DEFINE limit == policy.limit
           window == WindowMs(policy.window)
           first == Script(keyspace, at, key, policy, now)
<1>1. now \in Nat
  BY DEF Reading
<1> SUFFICES ASSUME ~first.reply.allowed
             PROVE  /\ first.reply.resetMs \in Nat
                    /\ Remains(first.db, left) =>
                          Script(left, then, key, policy,
                                 now + first.reply.resetMs + Grace).reply.allowed
  OBVIOUS
<1>2. strategy # "sliding_counter" => \A m \in Nat : now + m + Grace = now + m
  BY <1>1 DEF Grace
<1>3. CASE strategy = "fixed_window"
  <2>1. first = FW!RedisScript(keyspace, at, key, limit, window, now)
    BY <1>3 DEF Script
  <2>2. \A n : Script(left, then, key, policy, n).reply.allowed
                  = FW!RedisScript(left, then, key, limit, window, n).reply.allowed
    BY <1>3 DEF Script
  <2> HIDE DEF first
  <2>3. /\ first.reply.resetMs \in Nat
        /\ Remains(first.db, left) =>
              FW!RedisScript(left, then, key, limit, window,
                             now + first.reply.resetMs).reply.allowed
    BY <1>1, <1>3, <2>1, FixedWindowRetries DEF Settled
  <2>4. QED
    BY <1>2, <1>3, <2>2, <2>3
<1>4. CASE strategy = "sliding_counter"
  <2>1. first = SC!RedisScript(keyspace, at, key, limit, window, now)
    BY <1>4 DEF Script
  <2>2. \A n : Script(left, then, key, policy, n).reply.allowed
                  = SC!RedisScript(left, then, key, limit, window, n).reply.allowed
    BY <1>4 DEF Script
  <2> HIDE DEF first
  <2>3. /\ first.reply.resetMs \in Nat
        /\ ~first.reply.allowed /\ Remains(first.db, left) =>
              SC!RedisScript(left, then, key, limit, window,
                             now + first.reply.resetMs + 1).reply.allowed
    BY <1>4, <2>1, SlidingCounterRetries DEF Settled, Typed
  <2>4. Grace = 1
    BY <1>4 DEF Grace
  <2>5. QED
    BY <2>2, <2>3, <2>4
<1>5. CASE strategy = "sliding_log"
  <2>1. first = SL!RedisScript(keyspace, at, key, limit, window, now)
    BY <1>5 DEF Script
  <2>2. \A n : Script(left, then, key, policy, n).reply.allowed
                  = SL!RedisScript(left, then, key, limit, window, n).reply.allowed
    BY <1>5 DEF Script
  <2> HIDE DEF first
  <2>3. /\ first.reply.resetMs \in Nat
        /\ Remains(first.db, left) =>
              SL!RedisScript(left, then, key, limit, window,
                             now + first.reply.resetMs).reply.allowed
    BY <1>1, <1>5, <2>1, SlidingLogRetries DEF Settled, Typed
  <2>4. QED
    BY <1>2, <1>5, <2>2, <2>3
<1>6. CASE strategy = "token_bucket"
  <2>1. first = TB!RedisScript(keyspace, at, key, limit, window, now)
    BY <1>6 DEF Script
  <2>2. \A n : Script(left, then, key, policy, n).reply.allowed
                  = TB!RedisScript(left, then, key, limit, window, n).reply.allowed
    BY <1>6 DEF Script
  <2> HIDE DEF first
  <2>3. /\ first.reply.resetMs \in Nat
        /\ Remains(first.db, left) =>
              TB!RedisScript(left, then, key, limit, window,
                             now + first.reply.resetMs).reply.allowed
    BY <1>1, <1>6, <2>1, TokenBucketRetries DEF Typed
  <2>4. QED
    BY <1>2, <1>6, <2>2, <2>3
<1>7. CASE strategy = "leaky_bucket"
  <2>1. first = LB!RedisScript(keyspace, at, key, limit, window, now)
    BY <1>7 DEF Script
  <2>2. \A n : Script(left, then, key, policy, n).reply.allowed
                  = LB!RedisScript(left, then, key, limit, window, n).reply.allowed
    BY <1>7 DEF Script
  <2> HIDE DEF first
  <2>3. /\ first.reply.resetMs \in Nat
        /\ Remains(first.db, left) =>
              LB!RedisScript(left, then, key, limit, window,
                             now + first.reply.resetMs).reply.allowed
    BY <1>1, <1>7, <2>1, LeakyBucketRetries DEF Typed
  <2>4. QED
    BY <1>2, <1>7, <2>2, <2>3
<1>8. QED
  BY <1>3, <1>4, <1>5, <1>6, <1>7 DEF AllStrategies

-------------------------------------------------------------------------------
(* The history.                                                            *)
HistoryTyped ==
    /\ DOMAIN admitted = Keys /\ DOMAIN horizon = Keys
    /\ DOMAIN lastGrant = Keys /\ DOMAIN rewound = Keys /\ DOMAIN orderly = Keys
    /\ \A key \in Keys : /\ admitted[key] \in Seq(Nat)
                         /\ horizon[key] \in Int
                         /\ lastGrant[key] \in Int
                         /\ rewound[key] \in Nat

HistoryInv == TypedInv /\ HistoryTyped

(* What a request does to the history of its key.                          *)
RanOn(r, key) ==
    LET now == call[r].now
        allowed == Outcome(r).reply.allowed
    IN  /\ admitted'[key] = IF allowed THEN Append(admitted[key], now) ELSE admitted[key]
        /\ horizon'[key] = IF now > horizon[key] THEN now ELSE horizon[key]
        /\ orderly'[key] => orderly[key] /\ OnTime(key, now)
        /\ lastGrant'[key] = IF allowed THEN clock ELSE lastGrant[key]
        /\ rewound'[key] = IF strategy \in Buckets /\ Plain(key) \in DOMAIN db
                           THEN rewound[key]
                                  + NonNegative(db[Plain(key)].value.lastUpdated - now)
                           ELSE rewound[key]

KeptFor(key) ==
    /\ admitted'[key] = admitted[key] /\ horizon'[key] = horizon[key]
    /\ lastGrant'[key] = lastGrant[key] /\ rewound'[key] = rewound[key]
    /\ orderly'[key] = orderly[key]

(* What a step is to one key and its history.                              *)
HistoryKeyStep(key) ==
    \/ Agree(db, db', key) /\ clock' = clock /\ KeptFor(key)
    \/ \E r \in Callers :
          /\ call[r] # NoCall /\ call[r].key = key /\ db' = Outcome(r).db /\ clock' = clock
          /\ RanOn(r, key)
    \/ /\ Reset(key)
       /\ admitted'[key] = <<>> /\ rewound'[key] = 0
       /\ horizon'[key] = horizon[key] /\ lastGrant'[key] = lastGrant[key]
       /\ orderly'[key] => orderly[key] /\ strategy # "fixed_window"
    \/ Tick /\ KeptFor(key)

LEMMA HistoryNextIsNext == [HistoryNext]_hvars => [Next]_vars
BY DEF HistoryNext, hvars, Next

LEMMA HistoryStepIs ==
    ASSUME HistoryInv, [HistoryNext]_hvars, NEW key \in Keys
    PROVE  HistoryKeyStep(key) /\ strategy' = strategy
<1>1. /\ DOMAIN admitted = Keys /\ DOMAIN horizon = Keys
      /\ DOMAIN lastGrant = Keys /\ DOMAIN rewound = Keys /\ DOMAIN orderly = Keys
      /\ RedisInv /\ strategy \in AllStrategies
      /\ strategy = "fixed_window" => Positive(db)
  BY TypedNow DEF HistoryInv, HistoryTyped
<1>2. strategy' = strategy
  BY <1>1, HistoryNextIsNext, StepIsKeyStep
<1>3. db' = db => Agree(db, db', key)
  BY DEF Agree
<1>4. UNCHANGED history => KeptFor(key)
  BY DEF history, KeptFor
<1>5. ASSUME NEW r \in Callers, Execute(r) \/ Repeat(r), Ran(r) PROVE HistoryKeyStep(key)
  <2>1. call[r] # NoCall /\ db' = Outcome(r).db /\ clock' = clock
    BY <1>5 DEF Execute, Repeat
  <2>2. CASE call[r].key = key
    <3>1. orderly'[key] => orderly[key] /\ OnTime(key, call[r].now)
      BY <1>1, <1>5, <2>2 DEF Ran
    <3>2. RanOn(r, key)
      BY <1>1, <1>5, <2>2, <3>1 DEF Ran, RanOn
    <3>3. QED
      BY <2>1, <2>2, <3>2 DEF HistoryKeyStep
  <2>3. CASE call[r].key # key
    <3>1. Agree(db, Script(db, clock, call[r].key, call[r].policy, call[r].now).db, key)
      BY <1>1, <2>3, ScriptAgrees
    <3>2. Agree(db, db', key)
      BY <2>1, <3>1 DEF Outcome
    <3>3. KeptFor(key)
      BY <1>1, <1>5, <2>3 DEF Ran, KeptFor
    <3>4. QED
      BY <2>1, <3>2, <3>3 DEF HistoryKeyStep
  <2>4. QED
    BY <2>2, <2>3
<1>6. ASSUME NEW other \in Keys, Reset(other), Cleared(other) PROVE HistoryKeyStep(key)
  <2>1. CASE other = key
    BY <1>1, <1>6, <2>1 DEF HistoryKeyStep, Cleared
  <2>2. CASE other # key
    <3>1. db' = Del(db, {Plain(other), SeqKey(other)}) /\ clock' = clock
      BY <1>6 DEF Reset
    <3>2. Plain(other)[1] # key /\ SeqKey(other)[1] # key
      BY <2>2, NamesOfKeys
    <3>3. Agree(db, db', key)
      BY <3>1, <3>2 DEF Del, Agree
    <3>4. KeptFor(key)
      BY <1>1, <1>6, <2>2 DEF Cleared, KeptFor
    <3>5. QED
      BY <3>1, <3>3, <3>4 DEF HistoryKeyStep
  <2>3. QED
    BY <2>1, <2>2
<1>7. CASE Tick /\ UNCHANGED history
  BY <1>2, <1>4, <1>7 DEF HistoryKeyStep
<1>8. CASE UNCHANGED <<clock, db>> /\ UNCHANGED history
  BY <1>2, <1>3, <1>4, <1>8 DEF HistoryKeyStep
<1>9. HistoryKeyStep(key)
  BY <1>5, <1>6, <1>7, <1>8 DEF HistoryNext, hvars, vars, Send, Lose
<1>10. QED
  BY <1>2, <1>9

LEMMA HistoryStart == HistoryInit => HistoryInv
<1> SUFFICES ASSUME HistoryInit PROVE HistoryInv
  OBVIOUS
<1>1. TypedInv
  BY TypedInit DEF HistoryInit
<1>2. <<>> \in Seq(Nat) /\ NoTime \in Int
  BY DEF NoTime
<1>3. HistoryTyped
  BY <1>2 DEF HistoryTyped, HistoryInit
<1>4. QED
  BY <1>1, <1>3 DEF HistoryInv

(* A rewinding is a number.                                                *)
LEMMA NonNegativeIs == ASSUME NEW n \in Int PROVE NonNegative(n) \in Nat /\ n <= NonNegative(n)
BY DEF NonNegative

LEMMA HistoryStays == HistoryInv /\ [HistoryNext]_hvars => HistoryInv'
<1> SUFFICES ASSUME HistoryInv, [HistoryNext]_hvars PROVE HistoryInv'
  OBVIOUS
<1>1. TypedInv /\ TypedInv'
  BY HistoryNextIsNext, TypedStep DEF HistoryInv
<1>2. /\ DOMAIN admitted' = Keys /\ DOMAIN horizon' = Keys
      /\ DOMAIN lastGrant' = Keys /\ DOMAIN rewound' = Keys /\ DOMAIN orderly' = Keys
  <2>1. /\ DOMAIN admitted = Keys /\ DOMAIN horizon = Keys
        /\ DOMAIN lastGrant = Keys /\ DOMAIN rewound = Keys /\ DOMAIN orderly = Keys
    BY DEF HistoryInv, HistoryTyped
  <2>2. CASE \E r \in Callers : Ran(r)
    BY <2>1, <2>2 DEF Ran
  <2>3. CASE \E key \in Keys : Cleared(key)
    BY <2>1, <2>3 DEF Cleared
  <2>4. CASE UNCHANGED history
    BY <2>1, <2>4 DEF history
  <2>5. QED
    BY <2>2, <2>3, <2>4 DEF HistoryNext, hvars
<1>3. ASSUME NEW key \in Keys
      PROVE  /\ admitted'[key] \in Seq(Nat) /\ horizon'[key] \in Int
             /\ lastGrant'[key] \in Int /\ rewound'[key] \in Nat
  <2>1. /\ admitted[key] \in Seq(Nat) /\ horizon[key] \in Int
        /\ lastGrant[key] \in Int /\ rewound[key] \in Nat
    BY DEF HistoryInv, HistoryTyped
  <2>2. HistoryKeyStep(key)
    BY HistoryStepIs
  <2>3. CASE KeptFor(key)
    BY <2>1, <2>3 DEF KeptFor
  <2>4. ASSUME NEW r \in Callers, call[r] # NoCall, call[r].key = key, RanOn(r, key)
        PROVE  /\ admitted'[key] \in Seq(Nat) /\ horizon'[key] \in Int
               /\ lastGrant'[key] \in Int /\ rewound'[key] \in Nat
    <3>1. clock \in Nat /\ Reading(call[r].now)
      BY <1>1, <2>4, TypedNow, RequestIs
    <3>2. call[r].now \in Nat
      BY <3>1 DEF Reading
    <3>3. Append(admitted[key], call[r].now) \in Seq(Nat)
      BY <2>1, <3>2
    <3>4. strategy \in Buckets /\ Plain(key) \in DOMAIN db
             => NonNegative(db[Plain(key)].value.lastUpdated - call[r].now) \in Nat
      <4>1. strategy \in Buckets /\ Plain(key) \in DOMAIN db
               => db[Plain(key)].value.lastUpdated \in Nat
        BY <1>1 DEF Buckets, TypedInv, Typed, Has, Fills, Levels
      <4>2. QED
        BY <3>2, <4>1, NonNegativeIs
    <3> DEFINE allowed == Outcome(r).reply.allowed
    <3>5. /\ admitted'[key] = Append(admitted[key], call[r].now)
                \/ admitted'[key] = admitted[key]
          /\ horizon'[key] \in {call[r].now, horizon[key]}
          /\ lastGrant'[key] \in {clock, lastGrant[key]}
      BY <2>4 DEF RanOn
    <3>6. rewound'[key] \in Nat
      BY <2>1, <2>4, <3>4 DEF RanOn
    <3>7. admitted'[key] \in Seq(Nat)
      BY <2>1, <3>3, <3>5
    <3>8. horizon'[key] \in Int /\ lastGrant'[key] \in Int
      BY <2>1, <3>1, <3>2, <3>5
    <3>9. QED
      BY <3>6, <3>7, <3>8
  <2>5. CASE /\ admitted'[key] = <<>> /\ rewound'[key] = 0
             /\ horizon'[key] = horizon[key] /\ lastGrant'[key] = lastGrant[key]
    BY <2>1, <2>5
  <2>6. QED
    BY <2>2, <2>3, <2>4, <2>5 DEF HistoryKeyStep
<1>4. HistoryTyped'
  BY <1>2, <1>3 DEF HistoryTyped
<1>5. QED
  BY <1>1, <1>4 DEF HistoryInv

(* All requests come with one policy: nobody calls UpdatePolicy, and no    *)
(* policy is set for a single key.                                         *)
SamePolicy == \A p, q \in Policies : p = q

SettledInv == \A key \in Keys, policy \in Policies : Settled(db, key, policy, horizon[key])

LEMMA EmptyIsSettled ==
    ASSUME NEW keyspace, NEW key, Plain(key) \notin DOMAIN keyspace,
           \A n \in Int : WindowKey(key, n) \notin DOMAIN keyspace,
           NEW policy \in Policies, NEW until
    PROVE  Settled(keyspace, key, policy, until)
<1>1. LogOf(keyspace, key) = {}
  BY DEF LogOf, Get
<1>2. Cardinality({}) <= policy.limit
  BY PolicyIs, FS_EmptySet
<1>3. Cardinality(LogOf(keyspace, key)) <= policy.limit
  BY <1>1, <1>2
<1>4. QED
  BY <1>3 DEF Settled

LEMMA SettledStart == HistoryInit => SettledInv
<1> SUFFICES ASSUME HistoryInit, NEW key \in Keys, NEW policy \in Policies
             PROVE  Settled(db, key, policy, horizon[key])
  BY DEF SettledInv
<1>1. DOMAIN db = {}
  BY DEF HistoryInit, Init
<1>2. QED
  BY <1>1, EmptyIsSettled

LEMMA SettledStays ==
    ASSUME SamePolicy
    PROVE  HistoryInv /\ SettledInv /\ [HistoryNext]_hvars => SettledInv'
<1> SUFFICES ASSUME HistoryInv, SettledInv, [HistoryNext]_hvars PROVE SettledInv'
  OBVIOUS
<1> SUFFICES ASSUME NEW key \in Keys, NEW policy \in Policies
             PROVE  Settled(db, key, policy, horizon[key])'
  BY DEF SettledInv
<1>0. SUFFICES Settled(db', key, policy, horizon'[key])
  <2>1. strategy' = strategy
    BY HistoryStepIs
  <2>2. QED
    BY <2>1 DEF Settled, LogOf, Get
<1>1. /\ TypedInv /\ RedisInv /\ Sent /\ strategy \in AllStrategies
      /\ strategy = "fixed_window" => Positive(db)
      /\ Typed(db, key) /\ horizon[key] \in Int /\ horizon'[key] \in Int
  <2>1. HistoryTyped'
    BY HistoryStays DEF HistoryInv
  <2>2. QED
    BY <2>1, TypedNow DEF HistoryInv, HistoryTyped, TypedInv
<1>2. Settled(db, key, policy, horizon[key])
  BY DEF SettledInv
<1>3. HistoryKeyStep(key)
  BY HistoryStepIs
<1>4. ASSUME horizon[key] <= horizon'[key],
             \A name : name[1] = key => (name \in DOMAIN db' =>
                 name \in DOMAIN db /\ db'[name] = db[name])
      PROVE  Settled(db', key, policy, horizon'[key])
  BY <1>1, <1>2, <1>4, SettledLater
<1>5. CASE Agree(db, db', key) /\ KeptFor(key)
  <2>1. horizon[key] <= horizon'[key]
    BY <1>1, <1>5 DEF KeptFor
  <2>2. \A name : name[1] = key => (name \in DOMAIN db' =>
            name \in DOMAIN db /\ db'[name] = db[name])
    BY <1>5 DEF Agree
  <2>3. QED
    BY <1>4, <2>1, <2>2
<1>6. CASE (Reset(key) \/ Tick) /\ horizon'[key] = horizon[key]
  <2>1. horizon[key] <= horizon'[key]
    BY <1>1, <1>6
  <2>2. \A name : name \in DOMAIN db' => name \in DOMAIN db /\ db'[name] = db[name]
    BY <1>6 DEF Reset, Tick, Live, Del
  <2>3. QED
    BY <1>4, <2>1, <2>2
<1>7. ASSUME NEW r \in Callers, call[r] # NoCall, call[r].key = key, db' = Outcome(r).db,
             RanOn(r, key)
      PROVE  Settled(db', key, policy, horizon'[key])
  <2> DEFINE now == call[r].now
  <2>1. call[r].policy = policy /\ Reading(now)
    BY <1>1, <1>7, RequestIs DEF SamePolicy
  <2>2. now \in Nat /\ horizon'[key] = IF now > horizon[key] THEN now ELSE horizon[key]
    BY <1>7, <2>1 DEF Reading, RanOn
  <2>3. db' = Script(db, clock, key, policy, now).db
    BY <1>7, <2>1 DEF Outcome
  <2> HIDE DEF now
  <2>4. now <= horizon'[key] /\ horizon[key] <= horizon'[key]
    BY <1>1, <2>2
  <2>5. \A name : name[1] = key => (name \in DOMAIN db =>
            name \in DOMAIN db /\ db[name] = db[name])
    OBVIOUS
  <2>6. Settled(db, key, policy, horizon'[key])
    BY <1>1, <1>2, <2>4, <2>5, SettledLater
  <2>7. QED
    BY <1>1, <2>1, <2>3, <2>4, <2>6, ScriptSettles
<1>8. QED
  BY <1>3, <1>5, <1>6, <1>7 DEF HistoryKeyStep, KeptFor

(* With one policy and whatever clocks the callers have, ResetIn is long   *)
(* enough under every script: a caller that was refused at the latest      *)
(* reading so far, waits for it and finds no other request in between is   *)
(* admitted (interface.go:14).                                             *)
THEOREM RedisRetryIsAdmitted ==
    ASSUME SamePolicy
    PROVE  HistorySpec => []RetryIsAdmitted
<1>1. ASSUME HistoryInv, SettledInv PROVE RetryIsAdmitted
  <2> SUFFICES ASSUME NEW key \in Keys, NEW policy \in Policies, NEW error \in ClockErrors,
                      clock + error >= horizon[key],
                      ~Verdict(key, policy, error).reply.allowed
               PROVE  FollowUp(key, policy, error,
                          Verdict(key, policy, error).reply.resetMs + Grace).allowed
    BY DEF RetryIsAdmitted
  <2> DEFINE now == clock + error
             first == Script(db, clock, key, policy, now)
             wait == first.reply.resetMs + Grace
             left == Live(first.db, clock + wait)
  <2>1. /\ clock \in Nat /\ clock >= StartTime /\ strategy \in AllStrategies
        /\ Bounded(db, clock) /\ (strategy = "fixed_window" => Positive(db))
        /\ Typed(db, key) /\ horizon[key] \in Int
    BY <1>1, TypedNow DEF TypedInv, HistoryInv, HistoryTyped
  <2>2. Reading(now) /\ error \in Int /\ now \in Nat
    BY <2>1, ReadingIs DEF Reading
  <2>3. Verdict(key, policy, error) = first
    BY DEF Verdict
  <2>4. /\ ~first.reply.allowed
        /\ FollowUp(key, policy, error, wait)
              = Script(left, clock + wait, key, policy, clock + wait + error).reply
    BY <2>3 DEF FollowUp
  <2>5. now >= horizon[key]
    OBVIOUS
  <2> HIDE DEF now
  <2>6. Settled(db, key, policy, now)
    <3>1. Settled(db, key, policy, horizon[key])
      BY <1>1 DEF SettledInv
    <3>2. \A name : name[1] = key => (name \in DOMAIN db =>
              name \in DOMAIN db /\ db[name] = db[name])
      OBVIOUS
    <3>3. QED
      BY <2>1, <2>2, <2>5, <3>1, <3>2, SettledLater
  <2>7. Bounded(first.db, clock)
    BY <2>1, ScriptBounded
  <2> HIDE DEF first
  <2>8. /\ first.reply.resetMs \in Nat
        /\ Remains(first.db, left) =>
              Script(left, clock + wait, key, policy,
                     now + first.reply.resetMs + Grace).reply.allowed
    BY <2>1, <2>2, <2>4, <2>6, ScriptRetries DEF first
  <2>9. Grace \in Nat
    BY DEF Grace
  <2>10. /\ wait \in Nat /\ clock + wait \in Nat
         /\ clock + wait + error = now + first.reply.resetMs + Grace
    BY <2>1, <2>2, <2>8, <2>9 DEF now
  <2>11. Remains(first.db, left)
    <3> HIDE DEF wait
    <3>1. /\ DOMAIN left = {n \in DOMAIN first.db : clock + wait <= first.db[n].expireAt}
          /\ \A n \in DOMAIN left : left[n] = first.db[n]
      BY <2>1, <2>7, <2>10, LiveIs
    <3>2. QED
      BY <3>1 DEF Remains
  <2>12. Script(left, clock + wait, key, policy, clock + wait + error).reply.allowed
    BY <2>8, <2>10, <2>11
  <2>13. FollowUp(key, policy, error, wait).allowed
    BY <2>4, <2>12
  <2>14. QED
    BY <2>3, <2>13
<1>2. HistoryInit => HistoryInv /\ SettledInv
  BY HistoryStart, SettledStart
<1>3. HistoryInv /\ SettledInv /\ [HistoryNext]_hvars => (HistoryInv /\ SettledInv)'
  BY HistoryStays, SettledStays
<1>4. QED
  BY <1>1, <1>2, <1>3, PTL DEF HistorySpec

-------------------------------------------------------------------------------
(* What a bucket holds, in units of a token: the leaky bucket's free space.*)
HeldIn(keyspace, key, policy) ==
    LET hash == keyspace[Plain(key)].value
    IN  IF strategy = "token_bucket" THEN hash.tokens ELSE FullOf(policy) - hash.water

LastIn(keyspace, key) == keyspace[Plain(key)].value.lastUpdated

(* What a request finds in a bucket.                                       *)
FoundIn(keyspace, key, policy, now) ==
    IF Plain(key) \in DOMAIN keyspace
    THEN Least(FullOf(policy), HeldIn(keyspace, key, policy)
                                 + NonNegative(now - LastIn(keyspace, key)) * RateOf(policy))
    ELSE FullOf(policy)

(* What a request leaves of it.                                            *)
LeftIn(keyspace, key, policy, now) ==
    LET found == FoundIn(keyspace, key, policy, now)
    IN  IF found >= TokenUnit THEN found - TokenUnit ELSE found

LEMMA TokenBucketPays ==
    ASSUME NEW keyspace, NEW at, NEW key, NEW policy \in Policies, NEW now \in Nat,
           strategy = "token_bucket", Typed(keyspace, key)
    PROVE  LET first == Script(keyspace, at, key, policy, now)
               found == FoundIn(keyspace, key, policy, now)
           IN  /\ found \in 0 .. FullOf(policy)
               /\ first.reply.allowed = (found >= TokenUnit)
               /\ Plain(key) \in DOMAIN first.db
               /\ LastIn(first.db, key) = now
               /\ HeldIn(first.db, key, policy) = LeftIn(keyspace, key, policy, now)
               /\ first.db[Plain(key)].expireAt = at + 2 * WindowMs(policy.window)
<1> DEFINE limit == policy.limit
           window == WindowMs(policy.window)
           first == Script(keyspace, at, key, policy, now)
           filled == Filled(keyspace, key, limit, window, now)
           left == IF filled >= TokenUnit THEN filled - TokenUnit ELSE filled
           hash == [tokens |-> left, lastUpdated |-> now]
           found == FoundIn(keyspace, key, policy, now)
<1>1. first = TB!RedisScript(keyspace, at, key, limit, window, now)
  BY DEF Script
<1>2. /\ first.reply.allowed = (filled >= TokenUnit)
      /\ Updated(keyspace, first.db, Plain(key), hash, at + 2 * window)
  BY <1>1, TokenBucketRuns
<1>3. /\ filled \in 0 .. FullOf(policy)
      /\ Plain(key) \notin DOMAIN keyspace => filled = FullOf(policy)
      /\ Plain(key) \in DOMAIN keyspace =>
            filled = Least(FullOf(policy), keyspace[Plain(key)].value.tokens
                       + NonNegative(now - keyspace[Plain(key)].value.lastUpdated)
                           * RateOf(policy))
  BY FilledIs DEF Typed
<1> HIDE DEF filled, first
<1>4. found = filled
  BY <1>3 DEF FoundIn, HeldIn, LastIn
<1>5. LeftIn(keyspace, key, policy, now) = left
  BY <1>4 DEF LeftIn
<1>6. /\ Plain(key) \in DOMAIN first.db /\ first.db[Plain(key)].value = hash
      /\ first.db[Plain(key)].expireAt = at + 2 * window
  BY <1>2 DEF Updated
<1>7. hash.tokens = left /\ hash.lastUpdated = now
  OBVIOUS
<1> HIDE DEF hash, left
<1>8. LastIn(first.db, key) = now /\ HeldIn(first.db, key, policy) = left
  BY <1>6, <1>7 DEF LastIn, HeldIn
<1> HIDE DEF found, window
<1>9. first.reply.allowed = (found >= TokenUnit)
  BY <1>2, <1>4
<1>10. QED
  BY <1>3, <1>4, <1>5, <1>6, <1>8, <1>9 DEF first, found, window

LEMMA LeakyBucketPays ==
    ASSUME NEW keyspace, NEW at, NEW key, NEW policy \in Policies, NEW now \in Nat,
           strategy = "leaky_bucket", Typed(keyspace, key),
           Plain(key) \in DOMAIN keyspace =>
              HeldIn(keyspace, key, policy) \in 0 .. FullOf(policy)
    PROVE  LET first == Script(keyspace, at, key, policy, now)
               found == FoundIn(keyspace, key, policy, now)
           IN  /\ found \in 0 .. FullOf(policy)
               /\ first.reply.allowed = (found >= TokenUnit)
               /\ Plain(key) \in DOMAIN first.db
               /\ LastIn(first.db, key) = now
               /\ HeldIn(first.db, key, policy) = LeftIn(keyspace, key, policy, now)
               /\ first.db[Plain(key)].expireAt = at + 2 * WindowMs(policy.window)
<1> DEFINE limit == policy.limit
           window == WindowMs(policy.window)
           full == FullOf(policy)
           first == Script(keyspace, at, key, policy, now)
           drained == Drained(keyspace, key, limit, window, now)
           allowed == drained + TokenUnit <= LB!Capacity(limit)
           level == IF allowed THEN drained + TokenUnit ELSE drained
           hash == [water |-> level, lastUpdated |-> now]
           old == keyspace[Plain(key)].value
           leaked == NonNegative(now - old.lastUpdated) * RateOf(policy)
           found == FoundIn(keyspace, key, policy, now)
<1>1. first = LB!RedisScript(keyspace, at, key, limit, window, now)
  BY DEF Script
<1>2. /\ first.reply.allowed = allowed
      /\ Updated(keyspace, first.db, Plain(key), hash, at + 2 * window)
  BY <1>1, LeakyBucketRuns
<1>3. /\ drained \in Nat
      /\ Plain(key) \notin DOMAIN keyspace => drained = 0
      /\ Plain(key) \in DOMAIN keyspace =>
            /\ old \in Levels /\ leaked \in Nat /\ drained = NonNegative(old.water - leaked)
  BY DrainedIs DEF Typed
<1>4. LB!Capacity(limit) = full /\ full \in Nat /\ TokenUnit \in Nat \ {0}
  BY RateIs, AlgorithmAssumption
<1> HIDE DEF drained, first, full, leaked
<1>5. Plain(key) \in DOMAIN keyspace =>
         /\ old.water \in 0 .. full /\ leaked \in Nat /\ drained = NonNegative(old.water - leaked)
         /\ found = Least(full, (full - old.water) + leaked)
  <2>1. Plain(key) \in DOMAIN keyspace => full - old.water \in 0 .. full /\ old.water \in Nat
    BY <1>3 DEF HeldIn, Levels, full
  <2>2. Plain(key) \in DOMAIN keyspace => found = Least(full, (full - old.water) + leaked)
    BY DEF FoundIn, HeldIn, LastIn, full, leaked
  <2> HIDE DEF old, found
  <2>3. QED
    BY <1>3, <1>4, <2>1, <2>2
<1>6. found = full - drained /\ found \in 0 .. full
  <2>1. CASE Plain(key) \in DOMAIN keyspace
    <3> HIDE DEF old, found
    <3>1. QED
      BY <1>3, <1>4, <1>5, <2>1 DEF Least, NonNegative
  <2>2. CASE Plain(key) \notin DOMAIN keyspace
    <3>1. found = full
      BY <2>2 DEF FoundIn, full
    <3>2. QED
      BY <1>3, <1>4, <2>2, <3>1
  <2>3. QED
    BY <2>1, <2>2
<1> HIDE DEF found
<1>7. allowed <=> found >= TokenUnit
  BY <1>3, <1>4, <1>6
<1>8. LeftIn(keyspace, key, policy, now) = full - level
  <2>1. LeftIn(keyspace, key, policy, now) = IF found >= TokenUnit THEN found - TokenUnit ELSE found
    BY DEF LeftIn, found
  <2>2. QED
    BY <1>3, <1>4, <1>6, <1>7, <2>1
<1>9. /\ Plain(key) \in DOMAIN first.db /\ first.db[Plain(key)].value = hash
      /\ first.db[Plain(key)].expireAt = at + 2 * window
  BY <1>2 DEF Updated
<1>10. hash.water = level /\ hash.lastUpdated = now
  OBVIOUS
<1> HIDE DEF hash, level
<1>11. LastIn(first.db, key) = now /\ HeldIn(first.db, key, policy) = full - level
  BY <1>9, <1>10 DEF LastIn, HeldIn, full
<1> HIDE DEF allowed, window
<1>12. first.reply.allowed = (found >= TokenUnit)
  <2>1. first.reply.allowed \in BOOLEAN
    BY <1>2 DEF allowed
  <2>2. QED
    BY <1>2, <1>7, <2>1
<1>13. QED
  BY <1>6, <1>8, <1>9, <1>11, <1>12 DEF first, found, window, full

LEMMA BucketPays ==
    ASSUME NEW keyspace, NEW at, NEW key, NEW policy \in Policies, NEW now \in Nat,
           strategy \in Buckets, Typed(keyspace, key),
           Plain(key) \in DOMAIN keyspace =>
              HeldIn(keyspace, key, policy) \in 0 .. FullOf(policy)
    PROVE  LET first == Script(keyspace, at, key, policy, now)
               found == FoundIn(keyspace, key, policy, now)
           IN  /\ found \in 0 .. FullOf(policy)
               /\ first.reply.allowed = (found >= TokenUnit)
               /\ Plain(key) \in DOMAIN first.db
               /\ LastIn(first.db, key) = now
               /\ HeldIn(first.db, key, policy) = LeftIn(keyspace, key, policy, now)
               /\ first.db[Plain(key)].expireAt = at + 2 * WindowMs(policy.window)
<1>1. CASE strategy = "token_bucket"
  BY <1>1, TokenBucketPays
<1>2. CASE strategy = "leaky_bucket"
  BY <1>2, LeakyBucketPays
<1>3. QED
  BY <1>1, <1>2 DEF Buckets

(* Clocks and delays differ by no more than a window.                      *)
ClocksAgreeClosely ==
    \A policy \in Policies, behind \in ClockErrors, ahead \in ClockErrors :
        MaxDelay + ahead - behind <= WindowMs(policy.window)

Fits(log, held, reach, policy) ==
    Within(log, held, reach, TokenUnit, FullOf(policy), RateOf(policy))

(* The account of a bucket: what was admitted and what it holds are no more*)
(* than its capacity and the rate allow, by the readings of its requests.  *)
(* A bucket that expired holds as much as it can, and enough time has gone *)
(* by for that, whoever sends the next request.                            *)
Account(log, latest, back, keyspace, at, key, policy) ==
    /\ Fits(log, 0, latest + back, policy)
    /\ Plain(key) \in DOMAIN keyspace =>
          /\ LastIn(keyspace, key) <= latest
          /\ HeldIn(keyspace, key, policy) \in 0 .. FullOf(policy)
          /\ Fits(log, HeldIn(keyspace, key, policy), LastIn(keyspace, key) + back, policy)
          /\ \E error \in ClockErrors :
                LastIn(keyspace, key) + 2 * WindowMs(policy.window)
                    <= keyspace[Plain(key)].expireAt + error
    /\ Plain(key) \notin DOMAIN keyspace =>
          \A error \in ClockErrors :
              Fits(log, FullOf(policy), (at - MaxDelay) + error + back, policy)

LEMMA FitsLater ==
    ASSUME NEW policy \in Policies, NEW log, NEW held \in Int, NEW reach \in Int,
           Fits(log, held, reach, policy), NEW more \in Int, reach <= more,
           NEW rest \in Int, rest <= held + (more - reach) * RateOf(policy)
    PROVE  Fits(log, rest, more, policy)
<1>1. TokenUnit \in Nat /\ FullOf(policy) \in Nat /\ RateOf(policy) \in Nat
  BY RateIs, AlgorithmAssumption
<1>2. QED
  BY <1>1, WithinLater DEF Fits

LEMMA FitsAsWell ==
    ASSUME NEW policy \in Policies, NEW log, NEW held \in Int, NEW reach \in Int,
           Fits(log, held, reach, policy), NEW more \in Int, reach <= more,
           NEW rest \in Int, rest <= held
    PROVE  Fits(log, rest, more, policy)
<1>1. RateOf(policy) \in Nat
  BY RateIs
<1>2. (more - reach) * RateOf(policy) \in Nat
  BY <1>1, ProductOfNats
<1> DEFINE gained == (more - reach) * RateOf(policy)
<1> HIDE DEF gained
<1>3. rest <= held + gained
  BY <1>2 DEF gained
<1>4. QED
  BY <1>3, FitsLater DEF gained

LEMMA EmptyFits ==
    ASSUME NEW held, NEW reach, NEW policy
    PROVE  Fits(<<>>, held, reach, policy)
BY DEF Fits, Within

(* A request takes its token out of the account.                           *)
LEMMA RequestFits ==
    ASSUME NEW keyspace, NEW key, NEW policy \in Policies, NEW now \in Nat,
           strategy \in Buckets, Typed(keyspace, key), NEW log, NEW back \in Nat,
           FoundIn(keyspace, key, policy, now) \in 0 .. FullOf(policy),
           Plain(key) \in DOMAIN keyspace =>
              /\ HeldIn(keyspace, key, policy) \in 0 .. FullOf(policy)
              /\ Fits(log, HeldIn(keyspace, key, policy), LastIn(keyspace, key) + back, policy),
           Plain(key) \notin DOMAIN keyspace =>
              Fits(log, FullOf(policy), now + back, policy)
    PROVE  LET more == IF Plain(key) \in DOMAIN keyspace
                       THEN back + NonNegative(LastIn(keyspace, key) - now) ELSE back
               next == IF FoundIn(keyspace, key, policy, now) >= TokenUnit
                       THEN Append(log, now) ELSE log
               left == LeftIn(keyspace, key, policy, now)
           IN  /\ left \in 0 .. FullOf(policy) /\ more \in Nat /\ back <= more
               /\ Fits(next, left, now + more, policy)
<1> DEFINE full == FullOf(policy)
           rate == RateOf(policy)
           last == LastIn(keyspace, key)
           held == HeldIn(keyspace, key, policy)
           found == FoundIn(keyspace, key, policy, now)
           left == LeftIn(keyspace, key, policy, now)
           more == IF Plain(key) \in DOMAIN keyspace THEN back + NonNegative(last - now) ELSE back
           next == IF found >= TokenUnit THEN Append(log, now) ELSE log
<1>1. TokenUnit \in Nat /\ full \in Nat /\ rate \in Nat
  BY RateIs, AlgorithmAssumption
<1>2. Plain(key) \in DOMAIN keyspace => last \in Nat /\ held \in 0 .. full
  BY DEF Typed, Has, Buckets, Fills, Levels, LastIn
<1>3. Plain(key) \in DOMAIN keyspace =>
         /\ found = Least(full, held + NonNegative(now - last) * rate)
         /\ Fits(log, held, last + back, policy)
  BY DEF FoundIn
<1>4. found \in 0 .. full
  OBVIOUS
<1>5. left = IF found >= TokenUnit THEN found - TokenUnit ELSE found
  BY DEF LeftIn
<1>6. more \in Nat /\ back <= more
  <2> HIDE DEF last
  <2>1. QED
    BY <1>2 DEF NonNegative
<1>7. Fits(log, found, now + more, policy)
  <2>1. CASE Plain(key) \notin DOMAIN keyspace
    <3>1. found = full /\ more = back
      BY <2>1 DEF FoundIn
    <3>2. QED
      BY <2>1, <3>1
  <2>2. CASE Plain(key) \in DOMAIN keyspace /\ last <= now
    <3> HIDE DEF last, held, found, full
    <3>1. more = back
      BY <1>2, <2>2 DEF NonNegative
    <3> HIDE DEF more
    <3>2. NonNegative(now - last) = now - last /\ (now + more) - (last + back) = now - last
      BY <1>2, <2>2, <3>1 DEF NonNegative
    <3> DEFINE gained == (now - last) * rate
    <3>3. found = Least(full, held + gained) /\ gained \in Int
      BY <1>1, <1>2, <1>3, <2>2, <3>2
    <3>4. found <= held + gained
      <4> HIDE DEF gained
      <4>1. QED
        BY <1>1, <1>2, <2>2, <3>3 DEF Least
    <3>5. /\ last + back \in Int /\ now + more \in Int /\ last + back <= now + more
          /\ held \in Int /\ found \in Int
      BY <1>2, <1>4, <2>2, <3>1 DEF full
    <3>6. found <= held + ((now + more) - (last + back)) * rate
      BY <3>2, <3>4
    <3>7. Fits(log, held, last + back, policy)
      BY <1>3, <2>2
    <3> HIDE DEF gained
    <3>8. QED
      BY <3>5, <3>6, <3>7, FitsLater
  <2>3. CASE Plain(key) \in DOMAIN keyspace /\ ~(last <= now)
    <3> HIDE DEF last, held, found, full
    <3>1. now + more = last + back
      BY <1>2, <2>3 DEF NonNegative
    <3>2. NonNegative(now - last) = 0
      BY <1>2, <2>3 DEF NonNegative
    <3>3. 0 * rate = 0
      BY <1>1
    <3>4. found = held
      BY <1>1, <1>2, <1>3, <2>3, <3>2, <3>3 DEF Least
    <3>5. QED
      BY <1>3, <2>3, <3>1, <3>4
  <2>4. QED
    BY <2>1, <2>2, <2>3
<1> HIDE DEF found, left, more, full
<1>8. left \in 0 .. full
  BY <1>1, <1>4, <1>5
<1>9. Fits(next, left, now + more, policy)
  <2>1. CASE found >= TokenUnit
    <3>1. found \in Int /\ now + more \in Nat /\ found <= full /\ now <= now + more
      BY <1>1, <1>4, <1>6
    <3>2. Fits(Append(log, now), found - TokenUnit, now + more, policy)
      BY <1>1, <1>7, <3>1, WithinOneMore DEF Fits, full
    <3>3. QED
      BY <1>5, <2>1, <3>2
  <2>2. CASE ~(found >= TokenUnit)
    BY <1>5, <1>7, <2>2
  <2>3. QED
    BY <2>1, <2>2
<1>10. QED
  BY <1>6, <1>8, <1>9 DEF found, left, more, full

LEMMA AccountRan ==
    ASSUME NEW keyspace, NEW at \in Nat, NEW key, NEW policy \in Policies, NEW now \in Nat,
           strategy \in Buckets, Typed(keyspace, key),
           NEW log, NEW latest \in Int, NEW back \in Nat,
           Account(log, latest, back, keyspace, at, key, policy),
           NEW error \in ClockErrors, now <= at + error, at - MaxDelay + error <= now
    PROVE  LET after == Script(keyspace, at, key, policy, now)
               next == IF after.reply.allowed THEN Append(log, now) ELSE log
               upto == IF now > latest THEN now ELSE latest
               more == IF Plain(key) \in DOMAIN keyspace
                       THEN back + NonNegative(LastIn(keyspace, key) - now) ELSE back
           IN  Account(next, upto, more, after.db, at, key, policy)
<1> DEFINE after == Script(keyspace, at, key, policy, now)
           found == FoundIn(keyspace, key, policy, now)
           left == LeftIn(keyspace, key, policy, now)
           next == IF found >= TokenUnit THEN Append(log, now) ELSE log
           upto == IF now > latest THEN now ELSE latest
           more == IF Plain(key) \in DOMAIN keyspace
                   THEN back + NonNegative(LastIn(keyspace, key) - now) ELSE back
           window == WindowMs(policy.window)
<1>1. /\ error \in Int /\ MaxDelay \in Nat /\ FullOf(policy) \in Nat /\ window \in Nat
  BY RedisAssumption, RateIs, PolicyIs
<1>2. /\ Plain(key) \in DOMAIN keyspace =>
            /\ HeldIn(keyspace, key, policy) \in 0 .. FullOf(policy)
            /\ Fits(log, HeldIn(keyspace, key, policy), LastIn(keyspace, key) + back, policy)
      /\ Plain(key) \notin DOMAIN keyspace =>
            Fits(log, FullOf(policy), (at - MaxDelay) + error + back, policy)
  BY DEF Account
<1>3. /\ found \in 0 .. FullOf(policy)
      /\ after.reply.allowed = (found >= TokenUnit)
      /\ Plain(key) \in DOMAIN after.db
      /\ LastIn(after.db, key) = now
      /\ HeldIn(after.db, key, policy) = left
      /\ after.db[Plain(key)].expireAt = at + 2 * window
  BY <1>2, BucketPays
<1>4. Plain(key) \notin DOMAIN keyspace => Fits(log, FullOf(policy), now + back, policy)
  <2>1. /\ (at - MaxDelay) + error + back \in Int /\ now + back \in Int
        /\ (at - MaxDelay) + error + back <= now + back
        /\ FullOf(policy) \in Int /\ FullOf(policy) <= FullOf(policy)
    BY <1>1
  <2>2. QED
    BY <1>2, <2>1, FitsAsWell
<1>5. /\ left \in 0 .. FullOf(policy) /\ more \in Nat /\ back <= more
      /\ Fits(next, left, now + more, policy)
  BY <1>2, <1>3, <1>4, RequestFits
<1> HIDE DEF after, found, left, next, more, window
<1>6. Fits(next, 0, upto + more, policy)
  <2>1. /\ left \in Int /\ now + more \in Int /\ upto + more \in Int
        /\ now + more <= upto + more /\ 0 \in Int /\ 0 <= left
    BY <1>1, <1>5
  <2>2. QED
    BY <1>5, <2>1, FitsAsWell
<1>7. now <= upto
  OBVIOUS
<1>8. now + 2 * window <= (at + 2 * window) + error
  BY <1>1
<1> HIDE DEF upto
<1>9. Account(next, upto, more, after.db, at, key, policy)
  BY <1>3, <1>5, <1>6, <1>7, <1>8 DEF Account, window
<1>10. next = IF after.reply.allowed THEN Append(log, now) ELSE log
  BY <1>3 DEF next
<1>11. QED
  BY <1>9, <1>10 DEF after, upto, more

LEMMA AccountKept ==
    ASSUME NEW keyspace, NEW left, NEW at, NEW key, NEW policy, Agree(keyspace, left, key),
           NEW log, NEW latest, NEW back,
           Account(log, latest, back, keyspace, at, key, policy)
    PROVE  Account(log, latest, back, left, at, key, policy)
<1>1. /\ Plain(key) \in DOMAIN keyspace <=> Plain(key) \in DOMAIN left
      /\ Plain(key) \in DOMAIN keyspace => left[Plain(key)] = keyspace[Plain(key)]
  BY AgreeIs
<1>2. Plain(key) \in DOMAIN keyspace =>
         /\ HeldIn(left, key, policy) = HeldIn(keyspace, key, policy)
         /\ LastIn(left, key) = LastIn(keyspace, key)
  BY <1>1 DEF HeldIn, LastIn
<1>3. QED
  BY <1>1, <1>2 DEF Account

LEMMA AccountCleared ==
    ASSUME NEW keyspace, NEW at, NEW key, NEW policy, Plain(key) \notin DOMAIN keyspace,
           NEW latest
    PROVE  Account(<<>>, latest, 0, keyspace, at, key, policy)
BY EmptyFits DEF Account

(* A millisecond goes by, and a bucket that was not used expires.          *)
LEMMA AccountTicks ==
    ASSUME ClocksAgreeClosely,
           NEW keyspace, NEW at \in Nat, NEW key \in Keys, NEW policy \in Policies,
           Bounded(keyspace, at), strategy \in Buckets, Typed(keyspace, key),
           NEW log, NEW latest \in Int, NEW back \in Nat,
           Account(log, latest, back, keyspace, at, key, policy)
    PROVE  Account(log, latest, back, Live(keyspace, at + 1), at + 1, key, policy)
<1> DEFINE left == Live(keyspace, at + 1)
           window == WindowMs(policy.window)
           full == FullOf(policy)
           rate == RateOf(policy)
           last == LastIn(keyspace, key)
           held == HeldIn(keyspace, key, policy)
           expireAt == keyspace[Plain(key)].expireAt
<1>1. /\ DOMAIN left = {n \in DOMAIN keyspace : at + 1 <= keyspace[n].expireAt}
      /\ \A n \in DOMAIN left : left[n] = keyspace[n]
  <2>1. at + 1 \in Nat
    OBVIOUS
  <2>2. QED
    BY <2>1, LiveIs
<1>2. /\ MaxDelay \in Nat /\ full \in Nat /\ window \in Nat /\ rate \in Nat
      /\ full = window * rate /\ \A error \in ClockErrors : error \in Int
  BY RedisAssumption, RateIs, PolicyIs
<1>3. Plain(key) \in DOMAIN keyspace =>
         /\ last \in Nat /\ held \in 0 .. full
         /\ Fits(log, held, last + back, policy)
         /\ \E error \in ClockErrors : last + 2 * window <= expireAt + error
  BY DEF Typed, Has, Buckets, Fills, Levels, LastIn, Account
<1> HIDE DEF left, last, held, full, rate
<1>4. ASSUME NEW behind \in ClockErrors, Plain(key) \in DOMAIN keyspace,
             Plain(key) \notin DOMAIN left
      PROVE  Fits(log, full, ((at + 1) - MaxDelay) + behind + back, policy)
  <2>1. PICK ahead \in ClockErrors : last + 2 * window <= expireAt + ahead
    BY <1>3, <1>4
  <2>2. expireAt \in Int /\ expireAt < at + 1
    <3>1. expireAt \in Int
      BY <1>4, WindowsAreNumbers DEF Bounded
    <3>2. QED
      BY <1>1, <1>4, <3>1
  <2>3. MaxDelay + ahead - behind <= window
    BY DEF ClocksAgreeClosely, window
  <2> DEFINE reach == last + back
             more == ((at + 1) - MaxDelay) + behind + back
  <2>4. ahead \in Int /\ behind \in Int /\ last \in Nat
    BY <1>2, <1>3, <1>4
  <2> HIDE DEF window, expireAt
  <2>5. /\ reach \in Int /\ more \in Int /\ window <= more - reach /\ reach <= more
    BY <1>2, <2>1, <2>2, <2>3, <2>4
  <2> HIDE DEF reach, more
  <2>6. more - reach \in Int
    BY <2>5
  <2>7. window * rate <= (more - reach) * rate
    BY <1>2, <2>5, <2>6, MultiplyLess
  <2>8. /\ held \in Int /\ full \in Int /\ Fits(log, held, reach, policy)
        /\ full <= held + (more - reach) * rate
    <3> DEFINE gained == (more - reach) * rate
    <3>1. gained \in Int
      BY <1>2, <2>6
    <3> HIDE DEF gained
    <3>2. full <= held + gained /\ held \in Int /\ full \in Int
      BY <1>2, <1>3, <1>4, <2>7, <3>1 DEF gained
    <3>3. QED
      BY <1>3, <1>4, <3>2 DEF gained, reach
  <2>9. Fits(log, full, more, policy)
    BY <2>5, <2>8, FitsLater DEF rate
  <2>10. QED
    BY <2>9 DEF more
<1>5. ASSUME NEW behind \in ClockErrors, Plain(key) \notin DOMAIN keyspace
      PROVE  Fits(log, full, ((at + 1) - MaxDelay) + behind + back, policy)
  <2>1. Fits(log, full, (at - MaxDelay) + behind + back, policy)
    BY <1>5 DEF Account, full
  <2>2. /\ (at - MaxDelay) + behind + back \in Int
        /\ ((at + 1) - MaxDelay) + behind + back \in Int
        /\ (at - MaxDelay) + behind + back <= ((at + 1) - MaxDelay) + behind + back
        /\ full \in Int /\ full <= full
    BY <1>2
  <2>3. QED
    BY <2>1, <2>2, FitsAsWell
<1>6. Plain(key) \notin DOMAIN left =>
         \A behind \in ClockErrors :
             Fits(log, full, ((at + 1) - MaxDelay) + behind + back, policy)
  BY <1>4, <1>5
<1>7. Plain(key) \in DOMAIN left =>
         /\ Plain(key) \in DOMAIN keyspace /\ left[Plain(key)] = keyspace[Plain(key)]
         /\ LastIn(left, key) = last /\ HeldIn(left, key, policy) = held
  BY <1>1 DEF LastIn, HeldIn, last, held
<1>8. Account(log, latest, back, left, at + 1, key, policy)
  BY <1>6, <1>7 DEF Account, full, last, held
<1>9. QED
  BY <1>8 DEF left

-------------------------------------------------------------------------------
BucketInv ==
    strategy \in Buckets =>
        \A key \in Keys, policy \in Policies :
            Account(admitted[key], horizon[key], rewound[key], db, clock, key, policy)

LEMMA BucketStart == HistoryInit => BucketInv
<1> SUFFICES ASSUME HistoryInit, NEW key \in Keys, NEW policy \in Policies
             PROVE  Account(admitted[key], horizon[key], rewound[key], db, clock, key, policy)
  BY DEF BucketInv
<1>1. DOMAIN db = {} /\ admitted[key] = <<>> /\ rewound[key] = 0
  BY DEF HistoryInit, Init
<1>2. QED
  BY <1>1, AccountCleared

LEMMA BucketStays ==
    ASSUME SamePolicy, ClocksAgreeClosely
    PROVE  HistoryInv /\ BucketInv /\ [HistoryNext]_hvars => BucketInv'
<1> SUFFICES ASSUME HistoryInv, BucketInv, [HistoryNext]_hvars PROVE BucketInv'
  OBVIOUS
<1> SUFFICES ASSUME strategy' \in Buckets, NEW key \in Keys, NEW policy \in Policies
             PROVE  Account(admitted[key], horizon[key], rewound[key],
                            db, clock, key, policy)'
  BY DEF BucketInv
<1>0. SUFFICES Account(admitted'[key], horizon'[key], rewound'[key],
                       db', clock', key, policy)
  <2>1. strategy' = strategy
    BY HistoryStepIs
  <2>2. QED
    BY <2>1 DEF Account, HeldIn, LastIn, Fits
<1>1. /\ TypedInv /\ RedisInv /\ Sent /\ strategy \in Buckets
      /\ Bounded(db, clock) /\ clock \in Nat /\ Typed(db, key)
      /\ horizon[key] \in Int /\ rewound[key] \in Nat
  BY TypedNow, HistoryStepIs DEF HistoryInv, HistoryTyped, TypedInv
<1>2. Account(admitted[key], horizon[key], rewound[key], db, clock, key, policy)
  BY <1>1 DEF BucketInv
<1>3. HistoryKeyStep(key)
  BY HistoryStepIs
<1>4. CASE Agree(db, db', key) /\ clock' = clock /\ KeptFor(key)
  BY <1>2, <1>4, AccountKept DEF KeptFor
<1>5. ASSUME NEW r \in Callers, call[r] # NoCall, call[r].key = key, db' = Outcome(r).db,
             clock' = clock, RanOn(r, key)
      PROVE  Account(admitted'[key], horizon'[key], rewound'[key], db', clock', key, policy)
  <2> DEFINE now == call[r].now
             after == Script(db, clock, key, policy, now)
  <2>1. call[r].policy = policy /\ Reading(now)
    BY <1>1, <1>5, RequestIs DEF SamePolicy
  <2>2. PICK error \in ClockErrors : now <= clock + error /\ clock - MaxDelay + error <= now
    BY <1>1, <1>5, RequestIs
  <2>3. Outcome(r) = after
    BY <1>5, <2>1 DEF Outcome
  <2>4. /\ admitted'[key] = IF after.reply.allowed THEN Append(admitted[key], now)
                            ELSE admitted[key]
        /\ horizon'[key] = IF now > horizon[key] THEN now ELSE horizon[key]
        /\ rewound'[key] = IF Plain(key) \in DOMAIN db
                           THEN rewound[key] + NonNegative(LastIn(db, key) - now)
                           ELSE rewound[key]
        /\ db' = after.db
    BY <1>1, <1>5, <2>3 DEF RanOn, LastIn
  <2>5. now \in Nat
    BY <2>1 DEF Reading
  <2> HIDE DEF now, after
  <2>6. Account(IF after.reply.allowed THEN Append(admitted[key], now) ELSE admitted[key],
                IF now > horizon[key] THEN now ELSE horizon[key],
                IF Plain(key) \in DOMAIN db
                THEN rewound[key] + NonNegative(LastIn(db, key) - now) ELSE rewound[key],
                after.db, clock, key, policy)
    BY <1>1, <1>2, <2>2, <2>5, AccountRan DEF after
  <2>7. QED
    BY <1>5, <2>4, <2>6
<1>6. CASE /\ Reset(key)
           /\ admitted'[key] = <<>> /\ rewound'[key] = 0
  <2>1. Plain(key) \notin DOMAIN db'
    BY <1>6 DEF Reset, Del
  <2>2. QED
    BY <1>6, <2>1, AccountCleared
<1>7. CASE Tick /\ KeptFor(key)
  <2>1. clock' = clock + 1 /\ db' = Live(db, clock + 1)
    BY <1>7 DEF Tick
  <2>2. Account(admitted[key], horizon[key], rewound[key], Live(db, clock + 1), clock + 1,
                key, policy)
    BY <1>1, <1>2, AccountTicks
  <2>3. QED
    BY <1>7, <2>1, <2>2 DEF KeptFor
<1>8. QED
  BY <1>3, <1>4, <1>5, <1>6, <1>7 DEF HistoryKeyStep

LEMMA FitsIsWithinRate ==
    ASSUME NEW policy \in Policies, NEW log, NEW held \in Nat, NEW reach \in Int,
           Fits(log, held, reach, policy)
    PROVE  WithinRate(log, reach, policy.limit, WindowMs(policy.window), 0)
<1> DEFINE window == WindowMs(policy.window)
           limit == policy.limit
<1>1. /\ limit \in Nat \ {0} /\ window \in Nat \ {0} /\ TokenUnit \in Nat \ {0}
      /\ TokenUnit % window = 0 /\ reach <= reach
  BY PolicyIs
<1>2. Within(log, held, reach, TokenUnit, limit * TokenUnit, limit * (TokenUnit \div window))
  BY DEF Fits, FullOf, RateOf
<1> HIDE DEF window, limit
<1>3. \A i \in DOMAIN log :
         /\ Len(log) - i + 1 \in Int
         /\ (Len(log) - i + 1) * window <= limit * (window + reach - Highest(log, i))
  BY <1>1, <1>2, WithinIsTheRate
<1>4. SUFFICES ASSUME NEW i \in DOMAIN log
               PROVE  (Len(log) - i + 1 + 0) * window
                          <= limit * (window + reach - LatestBy(log, i))
  BY DEF WithinRate, window, limit
<1>5. Len(log) - i + 1 + 0 = Len(log) - i + 1
  BY <1>3
<1>6. LatestBy(log, i) = Highest(log, i)
  BY DEF LatestBy, Highest
<1>7. QED
  BY <1>3, <1>5, <1>6

(* However the requests overlap and are repeated, whatever Redis expires,  *)
(* and with clocks and delays that differ by up to a window, a bucket of   *)
(* one policy admits no more than its capacity and what the rate adds in   *)
(* the time that passes by the readings (tokenbucket.go:97-99,             *)
(* leakybucket.go:99-101).                                                 *)
THEOREM RedisBucketsHoldTheirRate ==
    ASSUME SamePolicy, ClocksAgreeClosely
    PROVE  HistorySpec => []BucketBound
<1>1. ASSUME HistoryInv, BucketInv PROVE BucketBound
  <2> SUFFICES ASSUME strategy \in Buckets, NEW key \in Keys, NEW policy \in Policies
               PROVE  WithinRate(admitted[key], horizon[key] + rewound[key], policy.limit,
                                 WindowMs(policy.window), 0)
    BY DEF BucketBound
  <2> DEFINE reach == horizon[key] + rewound[key]
  <2>1. Fits(admitted[key], 0, reach, policy)
    BY <1>1 DEF BucketInv, Account
  <2>2. reach \in Int /\ reach <= reach
    BY <1>1 DEF HistoryInv, HistoryTyped
  <2> HIDE DEF reach
  <2>3. WithinRate(admitted[key], reach, policy.limit, WindowMs(policy.window), 0)
    BY <2>1, <2>2, FitsIsWithinRate
  <2>4. QED
    BY <2>3 DEF reach
<1>2. HistoryInit => HistoryInv /\ BucketInv
  BY HistoryStart, BucketStart
<1>3. HistoryInv /\ BucketInv /\ [HistoryNext]_hvars => (HistoryInv /\ BucketInv)'
  BY HistoryStays, BucketStays
<1>4. QED
  BY <1>1, <1>2, <1>3, PTL DEF HistorySpec

(* The members of a sorted set that are later than c.                      *)
Members(set, c) == {m \in set : m[1] > c}

(* The sorted set of a key against its history: it holds every admission   *)
(* since a window before the latest reading and Redis' clock.              *)
Complete(log, latest, keyspace, at, key, policy) ==
    LET window == WindowMs(policy.window)
    IN  /\ \A i \in DOMAIN log :
              log[i] <= latest /\ \E error \in ClockErrors : log[i] <= at + error
        /\ Plain(key) \in DOMAIN keyspace =>
              \A i \in DOMAIN log : \E error \in ClockErrors :
                  log[i] + 2 * window <= keyspace[Plain(key)].expireAt + error
        /\ Plain(key) \notin DOMAIN keyspace => \A i \in DOMAIN log : log[i] <= at - window
        /\ \A c \in Int : c >= latest - window /\ c >= at - window =>
              Cardinality(Members(LogOf(keyspace, key), c)) = Cardinality(Later(log, c))

LEMMA CompleteKept ==
    ASSUME NEW keyspace, NEW left, NEW at, NEW key, NEW policy, Agree(keyspace, left, key),
           NEW log, NEW latest, Complete(log, latest, keyspace, at, key, policy)
    PROVE  Complete(log, latest, left, at, key, policy)
<1>1. /\ Plain(key) \in DOMAIN keyspace <=> Plain(key) \in DOMAIN left
      /\ Plain(key) \in DOMAIN keyspace => left[Plain(key)] = keyspace[Plain(key)]
      /\ LogOf(left, key) = LogOf(keyspace, key)
  BY AgreeIs
<1>2. QED
  BY <1>1 DEF Complete

LEMMA CompleteCleared ==
    ASSUME NEW keyspace, NEW at, NEW key, NEW policy, Plain(key) \notin DOMAIN keyspace,
           NEW latest
    PROVE  Complete(<<>>, latest, keyspace, at, key, policy)
<1>1. LogOf(keyspace, key) = {}
  BY DEF LogOf, Get
<1>2. \A c : Members({}, c) = {} /\ Later(<<>>, c) = {}
  BY DEF Members, Later
<1>3. DOMAIN <<>> = {}
  OBVIOUS
<1> DEFINE log == <<>>
<1> HIDE DEF log
<1>4. Complete(log, latest, keyspace, at, key, policy)
  BY <1>1, <1>2, <1>3 DEF Complete, log
<1>5. QED
  BY <1>4 DEF log

(* A request adds the member that it is logged with, and drops what lies   *)
(* more than a window before its reading.                                  *)
LEMMA CompleteRan ==
    ASSUME SamePolicy,
           NEW keyspace, NEW at \in Nat, NEW key \in Keys, NEW policy \in Policies, NEW now \in Nat,
           Bounded(keyspace, at), Has(keyspace, Plain(key), Logs),
           <<now, NextSeq(keyspace, key)>> \notin LogOf(keyspace, key),
           NEW log \in Seq(Nat), NEW latest \in Int,
           Complete(log, latest, keyspace, at, key, policy),
           NEW error \in ClockErrors, now <= at + error
    PROVE  LET window == WindowMs(policy.window)
               after == SL!RedisScript(keyspace, at, key, policy.limit, window, now)
               next == IF after.reply.allowed THEN Append(log, now) ELSE log
               upto == IF now > latest THEN now ELSE latest
           IN  Complete(next, upto, after.db, at, key, policy)
<1> DEFINE limit == policy.limit
           window == WindowMs(policy.window)
           after == SL!RedisScript(keyspace, at, key, limit, window, now)
           left == after.db
           before == Numbered(keyspace, at, key, window)
           live == Alive(keyspace, key, window, now)
           count == Cardinality(live)
           seq == NextSeq(keyspace, key)
           logged == Logged(keyspace, key, limit, window, now)
           next == IF count < limit THEN Append(log, now) ELSE log
           upto == IF now > latest THEN now ELSE latest
           old == LogOf(keyspace, key)
<1>1. window \in Nat /\ error \in Int /\ (\A e \in ClockErrors : e \in Int)
  BY PolicyIs, RedisAssumption
<1>2. /\ Plain(key) \in DOMAIN left
      /\ left[Plain(key)] = [value |-> logged, expireAt |-> at + 2 * window]
      /\ LogOf(left, key) = logged
      /\ count < limit =>
            /\ SeqKey(key) \in DOMAIN left
            /\ left[SeqKey(key)] = [value |-> seq, expireAt |-> at + 2 * window]
      /\ ~(count < limit) =>
            /\ SeqKey(key) \in DOMAIN left <=> SeqKey(key) \in DOMAIN keyspace
            /\ SeqKey(key) \in DOMAIN keyspace => left[SeqKey(key)] = keyspace[SeqKey(key)]
  BY SlidingLogLeaves DEF left, count, seq, logged
<1>3. after.reply.allowed = (count < limit)
  <2>1. /\ after.reply.allowed = (count < limit)
        /\ after.reply.remaining = IF count < limit THEN limit - (count + 1) ELSE 0
        /\ after.reply.resetMs = NonNegative(SL!Oldest(logged) + window - now)
        /\ Updated(keyspace, before, SeqKey(key), seq, at + 2 * window)
        /\ Updated(IF count < limit THEN before ELSE keyspace, after.db, Plain(key), logged,
                   at + 2 * window)
    BY SlidingLogRuns
  <2>2. QED
    BY <2>1
<1>4. old \subseteq Nat \X (Nat \ {0}) /\ IsFiniteSet(old) /\ <<now, seq>> \notin old
  BY LogsAre
<1>5. live = {m \in old : m[1] > now - window}
  BY AliveIs
<1>6. logged = IF count < limit THEN live \cup {<<now, seq>>} ELSE live
  BY DEF Logged
<1>7. /\ \A i \in DOMAIN log :
            /\ log[i] <= latest /\ log[i] \in Nat
            /\ \E e \in ClockErrors : log[i] <= at + e
      /\ Plain(key) \in DOMAIN keyspace =>
            \A i \in DOMAIN log : \E e \in ClockErrors :
                log[i] + 2 * window <= keyspace[Plain(key)].expireAt + e
      /\ Plain(key) \notin DOMAIN keyspace => \A i \in DOMAIN log : log[i] <= at - window
      /\ \A c \in Int : c >= latest - window /\ c >= at - window =>
            Cardinality(Members(old, c)) = Cardinality(Later(log, c))
  BY DEF Complete
<1> HIDE DEF window, after, live, count, seq, logged, old, limit
<1>8. upto \in Int /\ latest <= upto /\ now <= upto
  OBVIOUS
<1> HIDE DEF upto
<1>9. \A i \in DOMAIN next : next[i] = now \/ (i \in DOMAIN log /\ next[i] = log[i])
  <2> DEFINE n == Len(log)
  <2>1. /\ n \in Nat /\ DOMAIN log = 1 .. n /\ DOMAIN Append(log, now) = 1 .. n + 1
        /\ Append(log, now)[n + 1] = now
        /\ \A i \in 1 .. n : Append(log, now)[i] = log[i]
    OBVIOUS
  <2> HIDE DEF n
  <2>2. \A i \in 1 .. n + 1 : i = n + 1 \/ i \in 1 .. n
    BY <2>1
  <2>3. CASE count < limit
    <3>1. next = Append(log, now)
      BY <2>3
    <3> HIDE DEF next
    <3>2. QED
      BY <2>1, <2>2, <3>1
  <2>4. CASE ~(count < limit)
    BY <2>4
  <2>5. QED
    BY <2>3, <2>4
<1>10. ASSUME NEW i \in DOMAIN next
       PROVE  next[i] <= upto /\ \E e \in ClockErrors : next[i] <= at + e
  <2>1. next[i] = now \/ (i \in DOMAIN log /\ next[i] = log[i])
    BY <1>9
  <2> HIDE DEF next
  <2>2. QED
    BY <1>7, <1>8, <2>1
<1>11. ASSUME NEW i \in DOMAIN log
       PROVE  \E e \in ClockErrors : log[i] + 2 * window <= (at + 2 * window) + e
  <2>1. CASE Plain(key) \in DOMAIN keyspace
    <3>1. PICK e \in ClockErrors : log[i] + 2 * window <= keyspace[Plain(key)].expireAt + e
      BY <1>7, <1>11, <2>1
    <3>2. keyspace[Plain(key)].expireAt \in at .. at + 2 * window
      <4>1. PICK other \in Policies :
               keyspace[Plain(key)].expireAt \in at .. at + 2 * WindowMs(other.window)
        BY <2>1 DEF Bounded
      <4>2. other = policy
        BY DEF SamePolicy
      <4>3. QED
        BY <4>1, <4>2 DEF window
    <3>3. e \in Int /\ log[i] \in Nat
      BY <1>1, <1>7, <1>11
    <3> DEFINE reading == log[i]
               expireAt == keyspace[Plain(key)].expireAt
    <3>4. /\ e \in Int /\ reading \in Nat /\ expireAt \in at .. at + 2 * window
          /\ reading + 2 * window <= expireAt + e
      BY <3>1, <3>2, <3>3
    <3> HIDE DEF reading, expireAt
    <3>5. reading + 2 * window <= (at + 2 * window) + e
      BY <1>1, <3>4
    <3>6. QED
      BY <3>5 DEF reading
  <2>2. CASE Plain(key) \notin DOMAIN keyspace
    <3>1. PICK e \in ClockErrors : log[i] <= at + e
      BY <1>7, <1>11
    <3>2. e \in Int /\ log[i] \in Nat
      BY <1>1, <1>7, <1>11
    <3> DEFINE reading == log[i]
    <3> HIDE DEF reading
    <3>3. reading + 2 * window <= (at + 2 * window) + e
      BY <1>1, <3>1, <3>2 DEF reading
    <3>4. QED
      BY <3>3 DEF reading
  <2>3. QED
    BY <2>1, <2>2
<1>12. \A i \in DOMAIN next : \E e \in ClockErrors :
          next[i] + 2 * window <= left[Plain(key)].expireAt + e
  <2> SUFFICES ASSUME NEW i \in DOMAIN next
               PROVE  \E e \in ClockErrors : next[i] + 2 * window <= (at + 2 * window) + e
    BY <1>2
  <2>1. next[i] = now \/ (i \in DOMAIN log /\ next[i] = log[i])
    BY <1>9
  <2> HIDE DEF next
  <2>2. now + 2 * window <= (at + 2 * window) + error
    BY <1>1
  <2>3. QED
    BY <1>11, <2>1, <2>2
<1>13. ASSUME NEW c \in Int, c >= upto - window, c >= at - window
       PROVE  Cardinality(Members(logged, c)) = Cardinality(Later(next, c))
  <2>1. c >= latest - window /\ c >= now - window
    BY <1>1, <1>8, <1>13
  <2>2. Cardinality(Members(old, c)) = Cardinality(Later(log, c))
    BY <1>7, <1>13, <2>1
  <2>3. Members(live, c) = Members(old, c)
    <3>1. \A m \in old : m[1] \in Nat
      BY <1>4
    <3>2. QED
      BY <1>1, <1>5, <2>1, <3>1 DEF Members
  <2>4. IsFiniteSet(Members(old, c))
    BY <1>4, FS_Subset DEF Members
  <2>5. /\ IsFiniteSet(Later(log, c)) /\ Cardinality(Later(log, c)) \in Nat
        /\ now > c => Cardinality(Later(Append(log, now), c)) = Cardinality(Later(log, c)) + 1
        /\ ~(now > c) => Later(Append(log, now), c) = Later(log, c)
    BY LaterOneMore
  <2>6. CASE count < limit /\ now > c
    <3>1. Members(logged, c) = Members(old, c) \cup {<<now, seq>>}
      <4>1. Members(logged, c) = Members(live, c) \cup {<<now, seq>>}
        BY <1>6, <2>6 DEF Members
      <4>2. QED
        BY <2>3, <4>1
    <3>2. <<now, seq>> \notin Members(old, c)
      BY <1>4 DEF Members
    <3>3. Cardinality(Members(logged, c)) = Cardinality(Members(old, c)) + 1
      BY <2>4, <3>1, <3>2, FS_AddElement
    <3>4. QED
      BY <2>2, <2>5, <2>6, <3>3
  <2>7. CASE count < limit /\ ~(now > c)
    <3>1. Members(logged, c) = Members(live, c)
      BY <1>6, <2>7 DEF Members
    <3>2. QED
      BY <2>2, <2>3, <2>5, <2>7, <3>1
  <2>8. CASE ~(count < limit)
    BY <1>6, <2>2, <2>3, <2>8
  <2>9. QED
    BY <2>6, <2>7, <2>8
<1> HIDE DEF next
<1>14. Complete(next, upto, left, at, key, policy)
  <2> HIDE DEF left
  <2>1. QED
    BY <1>2, <1>10, <1>12, <1>13 DEF Complete, window
<1>15. next = IF after.reply.allowed THEN Append(log, now) ELSE log
  BY <1>3 DEF next
<1>16. QED
  BY <1>14, <1>15 DEF after, upto, window, limit

(* No caller's clock is ahead of Redis' by more than a window.             *)
NoneIsFarAhead ==
    \A policy \in Policies, error \in ClockErrors : error <= WindowMs(policy.window)

LEMMA CompleteTicks ==
    ASSUME NoneIsFarAhead,
           NEW keyspace, NEW at \in Nat, NEW key \in Keys, NEW policy \in Policies,
           Bounded(keyspace, at), NEW log \in Seq(Nat), NEW latest \in Int,
           Complete(log, latest, keyspace, at, key, policy)
    PROVE  Complete(log, latest, Live(keyspace, at + 1), at + 1, key, policy)
<1> DEFINE left == Live(keyspace, at + 1)
           window == WindowMs(policy.window)
           expireAt == keyspace[Plain(key)].expireAt
<1>1. /\ DOMAIN left = {n \in DOMAIN keyspace : at + 1 <= keyspace[n].expireAt}
      /\ \A n \in DOMAIN left : left[n] = keyspace[n]
  <2>1. at + 1 \in Nat
    OBVIOUS
  <2>2. QED
    BY <2>1, LiveIs
<1>2. window \in Nat /\ \A e \in ClockErrors : e \in Int /\ e <= window
  BY PolicyIs, RedisAssumption DEF NoneIsFarAhead
<1>3. /\ \A i \in DOMAIN log :
            /\ log[i] <= latest /\ log[i] \in Nat
            /\ \E e \in ClockErrors : log[i] <= at + e
      /\ Plain(key) \in DOMAIN keyspace =>
            \A i \in DOMAIN log : \E e \in ClockErrors : log[i] + 2 * window <= expireAt + e
      /\ Plain(key) \notin DOMAIN keyspace => \A i \in DOMAIN log : log[i] <= at - window
      /\ \A c \in Int : c >= latest - window /\ c >= at - window =>
            Cardinality(Members(LogOf(keyspace, key), c)) = Cardinality(Later(log, c))
  BY DEF Complete
<1>4. Plain(key) \in DOMAIN keyspace => expireAt \in Int
  BY WindowsAreNumbers DEF Bounded
<1> HIDE DEF left, window, expireAt
<1>5. \A i \in DOMAIN log :
         log[i] <= latest /\ \E e \in ClockErrors : log[i] <= (at + 1) + e
  <2> SUFFICES ASSUME NEW i \in DOMAIN log
               PROVE  log[i] <= latest /\ \E e \in ClockErrors : log[i] <= (at + 1) + e
    OBVIOUS
  <2>1. PICK e \in ClockErrors : log[i] <= at + e
    BY <1>3
  <2>2. e \in Int /\ log[i] \in Nat /\ log[i] <= latest
    BY <1>2, <1>3
  <2> DEFINE reading == log[i]
  <2>3. reading \in Nat /\ reading <= at + e
    BY <2>1, <2>2
  <2> HIDE DEF reading
  <2>4. reading <= (at + 1) + e
    BY <2>2, <2>3
  <2>5. QED
    BY <2>2, <2>4 DEF reading
<1>6. CASE Plain(key) \in DOMAIN left
  <2>1. /\ Plain(key) \in DOMAIN keyspace /\ left[Plain(key)] = keyspace[Plain(key)]
        /\ LogOf(left, key) = LogOf(keyspace, key)
    BY <1>1, <1>6 DEF LogOf, Get
  <2>2. \A c \in Int : c >= latest - window /\ c >= (at + 1) - window =>
            Cardinality(Members(LogOf(left, key), c)) = Cardinality(Later(log, c))
    <3> SUFFICES ASSUME NEW c \in Int, c >= latest - window, c >= (at + 1) - window
                 PROVE  Cardinality(Members(LogOf(left, key), c)) = Cardinality(Later(log, c))
      OBVIOUS
    <3>1. c >= at - window
      BY <1>2
    <3>2. QED
      BY <1>3, <2>1, <3>1
  <2>3. Complete(log, latest, left, at + 1, key, policy)
    BY <1>3, <1>5, <1>6, <2>1, <2>2 DEF Complete, window, expireAt
  <2>4. QED
    BY <2>3 DEF left
<1>7. CASE Plain(key) \notin DOMAIN left
  <2>1. ASSUME NEW i \in DOMAIN log PROVE log[i] <= (at + 1) - window
    <3> DEFINE reading == log[i]
    <3>1. reading \in Nat
      BY <1>3, <2>1
    <3>2. CASE Plain(key) \notin DOMAIN keyspace
      <4>1. reading <= at - window
        BY <1>3, <2>1, <3>2
      <4> HIDE DEF reading
      <4>2. reading <= (at + 1) - window
        BY <1>2, <3>1, <4>1
      <4>3. QED
        BY <4>2 DEF reading
    <3>3. CASE Plain(key) \in DOMAIN keyspace
      <4>1. PICK e \in ClockErrors : reading + 2 * window <= expireAt + e
        BY <1>3, <2>1, <3>3
      <4>2. expireAt \in Int /\ expireAt <= at
        <5>1. ~(at + 1 <= expireAt)
          BY <1>1, <1>7, <3>3 DEF expireAt
        <5>2. QED
          BY <1>4, <3>3, <5>1
      <4>3. e \in Int /\ e <= window
        BY <1>2
      <4> HIDE DEF reading
      <4>4. reading <= (at + 1) - window
        BY <1>2, <3>1, <4>1, <4>2, <4>3
      <4>5. QED
        BY <4>4 DEF reading
    <3>4. QED
      BY <3>2, <3>3
  <2>2. LogOf(left, key) = {}
    BY <1>7 DEF LogOf, Get
  <2>3. \A c \in Int : c >= latest - window /\ c >= (at + 1) - window =>
            Cardinality(Members(LogOf(left, key), c)) = Cardinality(Later(log, c))
    <3> SUFFICES ASSUME NEW c \in Int, c >= (at + 1) - window
                 PROVE  Members(LogOf(left, key), c) = Later(log, c)
      OBVIOUS
    <3>1. ASSUME NEW i \in DOMAIN log PROVE ~(log[i] > c)
      <4> DEFINE reading == log[i]
      <4>1. reading \in Nat /\ reading <= (at + 1) - window
        BY <1>3, <2>1, <3>1
      <4> HIDE DEF reading
      <4>2. ~(reading > c)
        BY <1>2, <4>1
      <4>3. QED
        BY <4>2 DEF reading
    <3>2. QED
      BY <2>2, <3>1 DEF Members, Later
  <2>4. Complete(log, latest, left, at + 1, key, policy)
    BY <1>5, <1>7, <2>1, <2>3 DEF Complete, window
  <2>5. QED
    BY <2>4 DEF left
<1>8. QED
  BY <1>6, <1>7

-------------------------------------------------------------------------------
LogInv ==
    strategy = "sliding_log" =>
        \A key \in Keys, policy \in Policies :
            Complete(admitted[key], horizon[key], db, clock, key, policy)

LEMMA LogStart == HistoryInit => LogInv
<1> SUFFICES ASSUME HistoryInit, NEW key \in Keys, NEW policy \in Policies
             PROVE  Complete(admitted[key], horizon[key], db, clock, key, policy)
  BY DEF LogInv
<1>1. DOMAIN db = {} /\ admitted[key] = <<>>
  BY DEF HistoryInit, Init
<1>2. QED
  BY <1>1, CompleteCleared

LEMMA LogStays ==
    ASSUME SamePolicy, ClocksAgree, NoneIsFarAhead
    PROVE  HistoryInv /\ NumbersInv /\ LogInv /\ [HistoryNext]_hvars => LogInv'
<1> SUFFICES ASSUME HistoryInv, NumbersInv, LogInv, [HistoryNext]_hvars PROVE LogInv'
  OBVIOUS
<1> SUFFICES ASSUME strategy' = "sliding_log", NEW key \in Keys, NEW policy \in Policies
             PROVE  Complete(admitted'[key], horizon'[key], db', clock', key, policy)
  BY DEF LogInv, Complete, LogOf, Get
<1>1. /\ TypedInv /\ RedisInv /\ Sent /\ strategy = "sliding_log"
      /\ Bounded(db, clock) /\ clock \in Nat /\ clock >= StartTime
      /\ Has(db, Plain(key), Logs) /\ Has(db, SeqKey(key), Nat \ {0})
      /\ Numbers(db, clock, key)
      /\ horizon[key] \in Int /\ admitted[key] \in Seq(Nat)
  BY TypedNow, HistoryStepIs DEF HistoryInv, HistoryTyped, TypedInv, Typed, NumbersInv
<1>2. Complete(admitted[key], horizon[key], db, clock, key, policy)
  BY <1>1 DEF LogInv
<1>3. HistoryKeyStep(key)
  BY HistoryStepIs
<1>4. CASE Agree(db, db', key) /\ clock' = clock /\ KeptFor(key)
  BY <1>2, <1>4, CompleteKept DEF KeptFor
<1>5. ASSUME NEW r \in Callers, call[r] # NoCall, call[r].key = key, db' = Outcome(r).db,
             clock' = clock, RanOn(r, key)
      PROVE  Complete(admitted'[key], horizon'[key], db', clock', key, policy)
  <2> DEFINE now == call[r].now
             after == SL!RedisScript(db, clock, key, policy.limit, WindowMs(policy.window), now)
  <2>1. call[r].policy = policy /\ Reading(now)
    BY <1>1, <1>5, RequestIs DEF SamePolicy
  <2>2. PICK error \in ClockErrors : now <= clock + error /\ clock - MaxDelay + error <= now
    BY <1>1, <1>5, RequestIs
  <2>3. Outcome(r) = after
    BY <1>1, <1>5, <2>1 DEF Outcome, Script
  <2>4. /\ admitted'[key] = IF after.reply.allowed THEN Append(admitted[key], now)
                            ELSE admitted[key]
        /\ horizon'[key] = IF now > horizon[key] THEN now ELSE horizon[key]
        /\ db' = after.db
    BY <1>5, <2>3 DEF RanOn
  <2>5. now \in Nat
    BY <2>1 DEF Reading
  <2> HIDE DEF now, after
  <2>6. <<now, NextSeq(db, key)>> \notin LogOf(db, key)
    BY <1>1, <2>2, <2>5, NextIsNew
  <2>7. Complete(IF after.reply.allowed THEN Append(admitted[key], now) ELSE admitted[key],
                 IF now > horizon[key] THEN now ELSE horizon[key],
                 after.db, clock, key, policy)
    BY <1>1, <1>2, <2>2, <2>5, <2>6, CompleteRan DEF after
  <2>8. QED
    BY <1>5, <2>4, <2>7
<1>6. CASE Reset(key) /\ admitted'[key] = <<>>
  <2>1. Plain(key) \notin DOMAIN db'
    BY <1>6 DEF Reset, Del
  <2>2. QED
    BY <1>6, <2>1, CompleteCleared
<1>7. CASE Tick /\ KeptFor(key)
  <2>1. clock' = clock + 1 /\ db' = Live(db, clock + 1)
    BY <1>7 DEF Tick
  <2>2. Complete(admitted[key], horizon[key], Live(db, clock + 1), clock + 1, key, policy)
    BY <1>1, <1>2, CompleteTicks
  <2>3. QED
    BY <1>7, <2>1, <2>2 DEF KeptFor
<1>8. QED
  BY <1>3, <1>4, <1>5, <1>6, <1>7 DEF HistoryKeyStep

(* The sorted set of the sliding log holds every admission of the window,  *)
(* however the requests overlap, are delayed and repeated, and in whatever *)
(* order they run: two admissions never get the same member, and Redis     *)
(* never expires a log that is still needed (slidinglog.go:86-87, 108-109).*)
THEOREM RedisLogIsComplete ==
    ASSUME SamePolicy, ClocksAgree, NoneIsFarAhead
    PROVE  HistorySpec => []LogIsComplete
<1>1. ASSUME HistoryInv, LogInv PROVE LogIsComplete
  <2> SUFFICES ASSUME strategy = "sliding_log", NEW key \in Keys, NEW policy \in Policies
               PROVE  LET latest == IF horizon[key] > clock THEN horizon[key] ELSE clock
                          cutoff == latest - WindowMs(policy.window)
                          log == Get(db, Plain(key), {})
                      IN  Cardinality(SL!Newer(log, cutoff))
                              = AdmittedIn(admitted[key], cutoff + 1, latest)
    BY DEF LogIsComplete
  <2> DEFINE latest == IF horizon[key] > clock THEN horizon[key] ELSE clock
             window == WindowMs(policy.window)
             cutoff == latest - window
             log == LogOf(db, key)
  <2>1. /\ clock \in Nat /\ horizon[key] \in Int /\ admitted[key] \in Seq(Nat)
        /\ Has(db, Plain(key), Logs) /\ window \in Nat
    BY <1>1, TypedNow, PolicyIs DEF HistoryInv, HistoryTyped, TypedInv, Typed
  <2>2. Complete(admitted[key], horizon[key], db, clock, key, policy)
    BY <1>1 DEF LogInv
  <2>3. /\ latest \in Int /\ cutoff \in Int /\ horizon[key] <= latest
        /\ cutoff >= horizon[key] - window /\ cutoff >= clock - window
    BY <2>1
  <2> HIDE DEF latest, cutoff, window, log
  <2>4. Cardinality(Members(log, cutoff)) = Cardinality(Later(admitted[key], cutoff))
    BY <2>2, <2>3 DEF Complete, window, log
  <2>5. SL!Newer(log, cutoff) = Members(log, cutoff)
    <3>1. \A m \in log : m[1] \in Nat
      BY <2>1, LogsAre DEF log
    <3>2. QED
      BY <3>1 DEF SL!Newer, Members
  <2>6. {i \in DOMAIN admitted[key] : admitted[key][i] \in cutoff + 1 .. latest}
           = Later(admitted[key], cutoff)
    <3>1. \A i \in DOMAIN admitted[key] :
             admitted[key][i] <= horizon[key] /\ admitted[key][i] \in Nat
      BY <2>1, <2>2 DEF Complete
    <3>2. ASSUME NEW i \in DOMAIN admitted[key]
          PROVE  admitted[key][i] \in cutoff + 1 .. latest <=> admitted[key][i] > cutoff
      <4> DEFINE reading == admitted[key][i]
      <4>1. reading \in Nat /\ reading <= horizon[key]
        BY <3>1, <3>2
      <4> HIDE DEF reading
      <4>2. reading \in cutoff + 1 .. latest <=> reading > cutoff
        BY <2>1, <2>3, <4>1
      <4>3. QED
        BY <4>2 DEF reading
    <3>3. QED
      BY <3>2 DEF Later
  <2>7. Cardinality(SL!Newer(log, cutoff)) = AdmittedIn(admitted[key], cutoff + 1, latest)
    BY <2>4, <2>5, <2>6 DEF AdmittedIn
  <2>8. QED
    BY <2>7 DEF latest, cutoff, window, log, LogOf
<1>2. HistoryInit => HistoryInv /\ NumbersInv /\ LogInv
  BY HistoryStart, TypedInit, LogStart DEF HistoryInit
<1>3. HistoryInv /\ NumbersInv /\ LogInv /\ [HistoryNext]_hvars
         => (HistoryInv /\ NumbersInv /\ LogInv)'
  <2>1. HistoryInv /\ NumbersInv /\ [HistoryNext]_hvars => NumbersInv'
    BY HistoryNextIsNext, NumbersStep DEF HistoryInv
  <2>2. QED
    BY <2>1, HistoryStays, LogStays
<1>4. QED
  BY <1>1, <1>2, <1>3, PTL DEF HistorySpec

(* A request was admitted at the instant grant, and by some caller's clock *)
(* at the reading t or later.                                              *)
Granted(grant, t) == grant \in Nat /\ \E error \in ClockErrors : t <= grant + error

Windows == IF strategy = "sliding_counter" THEN 2 ELSE 1

(* What a key holds against its requests goes back to its last admission.  *)
Caused(grant, keyspace, at, key, policy) ==
    LET window == WindowMs(policy.window)
        hash == keyspace[Plain(key)].value
    IN  /\ grant <= at
        /\ strategy = "fixed_window" =>
              \A n \in Int : WindowKey(key, n) \in DOMAIN keyspace => Granted(grant, n * window)
        /\ strategy = "sliding_counter" => (Plain(key) \in DOMAIN keyspace =>
              /\ \E error \in ClockErrors : hash.window * window <= at + error
              /\ hash.count > 0 => Granted(grant, hash.window * window)
              /\ hash.prevCount > 0 => Granted(grant, (hash.window - 1) * window))
        /\ strategy = "sliding_log" => \A m \in LogOf(keyspace, key) : Granted(grant, m[1])
        /\ strategy \in Buckets => (Plain(key) \in DOMAIN keyspace =>
              /\ HeldIn(keyspace, key, policy) \in 0 .. FullOf(policy)
              /\ grant \in Nat
              /\ \E error \in ClockErrors :
                    FullOf(policy) <= HeldIn(keyspace, key, policy)
                        + (grant + error + window - LastIn(keyspace, key)) * RateOf(policy))

LEMMA GrantedLater ==
    ASSUME NEW grant \in Int, NEW t \in Int, Granted(grant, t), NEW later \in Int, grant <= later
    PROVE  Granted(later, t)
<1>1. PICK error \in ClockErrors : t <= grant + error
  BY DEF Granted
<1>2. error \in Int /\ later \in Nat
  BY RedisAssumption DEF Granted
<1>3. t <= later + error
  BY <1>1, <1>2
<1>4. QED
  BY <1>2, <1>3 DEF Granted

LEMMA FixedWindowCaused ==
    ASSUME NEW keyspace, Positive(keyspace), NEW at \in Nat, NEW key, NEW policy \in Policies,
           NEW now \in Nat, NEW error \in ClockErrors, now <= at + error,
           NEW grant \in Int, grant <= at,
           \A n \in Int : WindowKey(key, n) \in DOMAIN keyspace
                             => Granted(grant, n * WindowMs(policy.window))
    PROVE  LET window == WindowMs(policy.window)
               after == FW!RedisScript(keyspace, at, key, policy.limit, window, now)
               upto == IF after.reply.allowed THEN at ELSE grant
           IN  /\ ~after.reply.allowed =>
                     /\ grant \in Nat
                     /\ \E e \in ClockErrors : now < grant + e + window
               /\ \A n \in Int : WindowKey(key, n) \in DOMAIN after.db
                                    => Granted(upto, n * window)
<1> DEFINE limit == policy.limit
           window == WindowMs(policy.window)
           current == now \div window
           name == WindowKey(key, current)
           count == Get(keyspace, name, 0) + 1
           after == FW!RedisScript(keyspace, at, key, limit, window, now)
           upto == IF after.reply.allowed THEN at ELSE grant
<1>1. limit \in Nat \ {0} /\ window \in Nat \ {0} /\ \A e \in ClockErrors : e \in Int
  BY PolicyIs, RedisAssumption
<1>2. /\ count \in Nat \ {0} /\ (count # 1 <=> name \in DOMAIN keyspace)
      /\ after.reply.allowed = (count <= limit)
      /\ Updated(keyspace, after.db, name, count,
                 IF count = 1 THEN at + window ELSE keyspace[name].expireAt)
  BY FixedWindowRuns
<1>3. DOMAIN after.db = DOMAIN keyspace \cup {name}
  BY <1>2 DEF Updated
<1>4. \A n \in Int : WindowKey(key, n) \in DOMAIN keyspace => Granted(grant, n * window)
  OBVIOUS
<1> HIDE DEF limit, window, count, after
<1>5. /\ current \in Int /\ current * window \in Int /\ current * window <= now
      /\ now < current * window + window
  <2>1. current \in Int /\ (current + 1) * window > now
    BY <1>1, QuotientAbove
  <2>2. now = window * current + (now % window) /\ now % window \in 0 .. window - 1
    BY <1>1, DivMod
  <2> HIDE DEF current
  <2>3. window * current = current * window /\ window * current \in Int
        /\ (current + 1) * window = current * window + window
    BY <1>1, <2>1
  <2>4. QED
    BY <1>1, <2>1, <2>2, <2>3
<1> HIDE DEF current
<1>6. ASSUME ~after.reply.allowed
      PROVE  grant \in Nat /\ \E e \in ClockErrors : now < grant + e + window
  <2>1. name \in DOMAIN keyspace
    <3>1. ~(count <= limit)
      BY <1>2, <1>6
    <3>2. count # 1
      BY <1>1, <3>1
    <3>3. QED
      BY <1>2, <3>2
  <2>2. Granted(grant, current * window)
    BY <1>4, <1>5, <2>1
  <2>3. PICK e \in ClockErrors : current * window <= grant + e
    BY <2>2 DEF Granted
  <2>4. grant \in Nat /\ e \in Int
    BY <1>1, <2>2 DEF Granted
  <2>5. now < grant + e + window
    BY <1>1, <1>5, <2>3, <2>4
  <2>6. QED
    BY <2>4, <2>5
<1>7. ASSUME NEW n \in Int, WindowKey(key, n) \in DOMAIN after.db
      PROVE  Granted(upto, n * window)
  <2>1. n * window \in Int
    BY <1>1
  <2>2. CASE WindowKey(key, n) \in DOMAIN keyspace
    <3>1. Granted(grant, n * window)
      BY <1>4, <2>2
    <3>2. upto \in Int /\ grant <= upto
      OBVIOUS
    <3> HIDE DEF upto
    <3>3. QED
      BY <2>1, <3>1, <3>2, GrantedLater
  <2>3. CASE WindowKey(key, n) \notin DOMAIN keyspace
    <3>1. WindowKey(key, n) = name
      BY <1>3, <1>7, <2>3
    <3>2. n = current /\ name \notin DOMAIN keyspace
      BY <2>3, <3>1 DEF WindowKey
    <3>3. after.reply.allowed
      <4>1. count = 1
        BY <1>2, <3>2
      <4>2. count <= limit
        BY <1>1, <4>1
      <4>3. QED
        BY <1>2, <4>2
    <3>4. n * window <= at + error
      BY <1>1, <1>5, <3>2
    <3>5. QED
      BY <3>3, <3>4 DEF Granted
  <2>4. QED
    BY <2>2, <2>3
<1>8. QED
  BY <1>6, <1>7 DEF after, window, limit

LEMMA SlidingLogCaused ==
    ASSUME NEW keyspace, NEW at \in Nat, NEW key, NEW policy \in Policies,
           NEW now \in Nat, NEW error \in ClockErrors, now <= at + error,
           Has(keyspace, Plain(key), Logs), NEW grant \in Int, grant <= at,
           \A m \in LogOf(keyspace, key) : Granted(grant, m[1])
    PROVE  LET window == WindowMs(policy.window)
               after == SL!RedisScript(keyspace, at, key, policy.limit, window, now)
               upto == IF after.reply.allowed THEN at ELSE grant
           IN  /\ ~after.reply.allowed =>
                     /\ grant \in Nat
                     /\ \E e \in ClockErrors : now < grant + e + window
               /\ \A m \in LogOf(after.db, key) : Granted(upto, m[1])
<1> DEFINE limit == policy.limit
           window == WindowMs(policy.window)
           after == SL!RedisScript(keyspace, at, key, limit, window, now)
           left == after.db
           before == Numbered(keyspace, at, key, window)
           live == Alive(keyspace, key, window, now)
           count == Cardinality(live)
           seq == NextSeq(keyspace, key)
           log == Logged(keyspace, key, limit, window, now)
           upto == IF after.reply.allowed THEN at ELSE grant
<1>1. limit \in Nat \ {0} /\ window \in Nat \ {0} /\ \A e \in ClockErrors : e \in Int
  BY PolicyIs, RedisAssumption
<1>2. /\ Plain(key) \in DOMAIN left
      /\ left[Plain(key)] = [value |-> log, expireAt |-> at + 2 * window]
      /\ LogOf(left, key) = log
      /\ count < limit =>
            /\ SeqKey(key) \in DOMAIN left
            /\ left[SeqKey(key)] = [value |-> seq, expireAt |-> at + 2 * window]
      /\ ~(count < limit) =>
            /\ SeqKey(key) \in DOMAIN left <=> SeqKey(key) \in DOMAIN keyspace
            /\ SeqKey(key) \in DOMAIN keyspace => left[SeqKey(key)] = keyspace[SeqKey(key)]
  BY SlidingLogLeaves DEF left, count, seq, log
<1>3. after.reply.allowed = (count < limit)
  <2>1. /\ after.reply.allowed = (count < limit)
        /\ after.reply.remaining = IF count < limit THEN limit - (count + 1) ELSE 0
        /\ after.reply.resetMs = NonNegative(SL!Oldest(log) + window - now)
        /\ Updated(keyspace, before, SeqKey(key), seq, at + 2 * window)
        /\ Updated(IF count < limit THEN before ELSE keyspace, after.db, Plain(key), log,
                   at + 2 * window)
    BY SlidingLogRuns
  <2>2. QED
    BY <2>1
<1>4. LogOf(keyspace, key) \subseteq Nat \X (Nat \ {0})
  BY LogsAre
<1>5. /\ live \subseteq LogOf(keyspace, key)
      /\ live = {m \in LogOf(keyspace, key) : m[1] > now - window}
      /\ IsFiniteSet(live) /\ count \in Nat
  BY AliveIs
<1>6. log = IF count < limit THEN live \cup {<<now, seq>>} ELSE live
  BY DEF Logged
<1> HIDE DEF window, limit, after, left, live, seq, log, before, count
<1>7. ASSUME ~after.reply.allowed
      PROVE  grant \in Nat /\ \E e \in ClockErrors : now < grant + e + window
  <2>1. live # {}
    <3>1. ~(count < limit)
      BY <1>3, <1>7
    <3>2. count # 0
      BY <1>1, <1>5, <3>1
    <3>3. QED
      BY <3>2, FS_EmptySet DEF count
  <2>2. PICK m \in live : TRUE
    BY <2>1
  <2>3. m[1] \in Nat /\ m[1] > now - window /\ Granted(grant, m[1])
    BY <1>4, <1>5, <2>2
  <2>4. PICK e \in ClockErrors : m[1] <= grant + e
    BY <2>3 DEF Granted
  <2>5. grant \in Nat /\ e \in Int
    BY <1>1, <2>3 DEF Granted
  <2> DEFINE reading == m[1]
  <2>6. reading \in Nat /\ reading > now - window /\ reading <= grant + e
    BY <2>3, <2>4
  <2> HIDE DEF reading
  <2>7. now < grant + e + window
    BY <1>1, <2>5, <2>6
  <2>8. QED
    BY <2>5, <2>7
<1>8. ASSUME NEW m \in log PROVE Granted(upto, m[1])
  <2>1. CASE m \in live
    <3>1. m[1] \in Int /\ Granted(grant, m[1])
      BY <1>4, <1>5, <2>1
    <3>2. upto \in Int /\ grant <= upto
      OBVIOUS
    <3> HIDE DEF upto
    <3>3. QED
      BY <3>1, <3>2, GrantedLater
  <2>2. CASE m \notin live
    <3>1. after.reply.allowed /\ m = <<now, seq>>
      BY <1>3, <1>6, <1>8, <2>2
    <3>2. m[1] = now /\ upto = at
      BY <3>1
    <3>3. QED
      BY <3>2 DEF Granted
  <2>3. QED
    BY <2>1, <2>2
<1>9. LogOf(left, key) = log
  BY <1>2
<1>10. QED
  BY <1>7, <1>8, <1>9 DEF after, window, left, limit

(* The counters moved to the window of a reading go back to admissions as  *)
(* the stored ones do, and that window is not over at the reading.         *)
LEMMA MovedCaused ==
    ASSUME NEW keyspace, NEW at \in Nat, NEW key, NEW policy \in Policies,
           NEW now, Reading(now), NEW error \in ClockErrors, now <= at + error,
           Has(keyspace, Plain(key), Hashes), NEW grant \in Int,
           Plain(key) \in DOMAIN keyspace =>
              LET hash == keyspace[Plain(key)].value
                  window == WindowMs(policy.window)
              IN  /\ \E e \in ClockErrors : hash.window * window <= at + e
                  /\ hash.count > 0 => Granted(grant, hash.window * window)
                  /\ hash.prevCount > 0 => Granted(grant, (hash.window - 1) * window)
    PROVE  LET window == WindowMs(policy.window)
               hash == Moved(keyspace, key, window, now)
           IN  /\ hash \in Hashes
               /\ now < (hash.window + 1) * window
               /\ \E e \in ClockErrors : hash.window * window <= at + e
               /\ hash.count > 0 => Granted(grant, hash.window * window)
               /\ hash.prevCount > 0 => Granted(grant, (hash.window - 1) * window)
<1> DEFINE window == WindowMs(policy.window)
           n == now \div window
           found == Get(keyspace, Plain(key), SC!NoHash)
           hash == Moved(keyspace, key, window, now)
<1>1. window \in Nat \ {0} /\ now \in Nat /\ now >= window
  BY PolicyIs DEF Reading
<1>2. hash = SC!Shift(found, n)
  BY DEF Moved
<1>3. /\ found \in Hashes \cup {SC!NoHash}
      /\ found \in Hashes =>
            /\ \E e \in ClockErrors : found.window * window <= at + e
            /\ found.count > 0 => Granted(grant, found.window * window)
            /\ found.prevCount > 0 => Granted(grant, (found.window - 1) * window)
  <2>1. SC!NoHash \notin Hashes
    BY DEF SC!NoHash, Hashes
  <2>2. QED
    BY <2>1 DEF Get, Has
<1> HIDE DEF window, found, hash
<1>4. n \in Nat \ {0} /\ n * window <= now /\ n * window \in Int /\ now < (n + 1) * window
  <2>1. 1 * window <= now
    BY <1>1
  <2>2. n \in Int /\ 1 <= n
    BY <1>1, <2>1, QuotientAtLeast
  <2>3. now = window * n + (now % window) /\ now % window \in 0 .. window - 1
    BY <1>1, DivMod
  <2>4. (n + 1) * window > now
    BY <1>1, QuotientAbove
  <2> HIDE DEF n
  <2>5. window * n = n * window /\ window * n \in Int /\ (n + 1) * window \in Int
    BY <1>1, <2>2
  <2>6. QED
    BY <1>1, <2>2, <2>3, <2>4, <2>5
<1> HIDE DEF n
<1>5. hash \in Hashes
  BY <1>2, <1>3, <1>4, ShiftIs
<1>6. \E e \in ClockErrors : n * window <= at + e
  <2>1. error \in Int
    BY RedisAssumption
  <2>2. n * window <= at + error
    BY <1>1, <1>4, <2>1
  <2>3. QED
    BY <2>2
<1>7. CASE found = SC!NoHash
  <2>1. hash = [window |-> n, count |-> 0, prevCount |-> 0]
    BY <1>2, <1>7 DEF SC!Shift, SC!NoHash
  <2>2. hash.window = n /\ hash.count = 0 /\ hash.prevCount = 0
    BY <2>1
  <2>3. QED
    BY <1>4, <1>5, <1>6, <2>2 DEF hash, window
<1>8. CASE found \in Hashes /\ n > found.window
  <2>1. found.window \in Nat \ {0} /\ found.count \in Nat
    BY <1>8 DEF Hashes
  <2>2. hash = [window |-> n, count |-> 0,
                prevCount |-> IF n = found.window + 1 THEN found.count ELSE 0]
    BY <1>2, <1>8, <2>1 DEF SC!Shift
  <2>3. /\ hash.window = n /\ hash.count = 0
        /\ hash.prevCount = IF n = found.window + 1 THEN found.count ELSE 0
    BY <2>2
  <2>4. hash.prevCount > 0 => Granted(grant, (hash.window - 1) * window)
    <3>1. CASE n = found.window + 1
      <4>1. n - 1 = found.window
        BY <2>1, <3>1
      <4>2. QED
        BY <1>3, <1>8, <2>3, <3>1, <4>1
    <3>2. CASE n # found.window + 1
      BY <2>3, <3>2
    <3>3. QED
      BY <3>1, <3>2
  <2>5. QED
    BY <1>4, <1>5, <1>6, <2>3, <2>4 DEF hash, window
<1>9. CASE found \in Hashes /\ ~(n > found.window)
  <2>1. found.window \in Nat \ {0}
    BY <1>9 DEF Hashes
  <2>2. hash = found
    BY <1>2, <1>9, <2>1 DEF SC!Shift
  <2>3. now < (found.window + 1) * window
    <3>1. n + 1 <= found.window + 1
      BY <1>4, <1>9, <2>1
    <3>2. (n + 1) * window <= (found.window + 1) * window
      BY <1>1, <1>4, <2>1, <3>1, MultiplyLess
    <3>3. (n + 1) * window \in Int /\ (found.window + 1) * window \in Int
      BY <1>1, <1>4, <2>1
    <3>4. QED
      BY <1>1, <1>4, <3>2, <3>3
  <2>4. QED
    BY <1>3, <1>5, <1>9, <2>2, <2>3 DEF hash, window
<1>10. QED
  BY <1>3, <1>7, <1>8, <1>9

LEMMA SlidingCounterCaused ==
    ASSUME NEW keyspace, NEW at \in Nat, NEW key, NEW policy \in Policies,
           NEW now, Reading(now), NEW error \in ClockErrors, now <= at + error,
           Has(keyspace, Plain(key), Hashes), NEW grant \in Int, grant <= at,
           Plain(key) \in DOMAIN keyspace =>
              LET hash == keyspace[Plain(key)].value
                  window == WindowMs(policy.window)
              IN  /\ \E e \in ClockErrors : hash.window * window <= at + e
                  /\ hash.count > 0 => Granted(grant, hash.window * window)
                  /\ hash.prevCount > 0 => Granted(grant, (hash.window - 1) * window)
    PROVE  LET window == WindowMs(policy.window)
               after == SC!RedisScript(keyspace, at, key, policy.limit, window, now)
               hash == after.db[Plain(key)].value
               upto == IF after.reply.allowed THEN at ELSE grant
           IN  /\ ~after.reply.allowed =>
                     /\ grant \in Nat
                     /\ \E e \in ClockErrors : now < grant + e + 2 * window
               /\ \E e \in ClockErrors : hash.window * window <= at + e
               /\ hash.count > 0 => Granted(upto, hash.window * window)
               /\ hash.prevCount > 0 => Granted(upto, (hash.window - 1) * window)
<1> DEFINE limit == policy.limit
           window == WindowMs(policy.window)
           hash == Moved(keyspace, key, window, now)
           estimate == Estimate(hash, window, now)
           spent == IF estimate + 1 <= limit THEN 1 ELSE 0
           stored == [hash EXCEPT !.count = @ + spent]
           after == SC!RedisScript(keyspace, at, key, limit, window, now)
           upto == IF after.reply.allowed THEN at ELSE grant
<1>1. /\ limit \in Nat \ {0} /\ window \in Nat \ {0} /\ now \in Nat
      /\ \A e \in ClockErrors : e \in Int
  BY PolicyIs, RedisAssumption DEF Reading
<1>2. /\ after.reply.allowed = (estimate + 1 <= limit)
      /\ Updated(keyspace, after.db, Plain(key), stored, at + 2 * window)
  BY SlidingCounterRuns
<1>3. /\ hash \in Hashes
      /\ now < (hash.window + 1) * window
      /\ \E e \in ClockErrors : hash.window * window <= at + e
      /\ hash.count > 0 => Granted(grant, hash.window * window)
      /\ hash.prevCount > 0 => Granted(grant, (hash.window - 1) * window)
  BY MovedCaused
<1> HIDE DEF limit, window, hash, after
<1>4. hash.window \in Nat \ {0} /\ hash.count \in Nat /\ hash.prevCount \in Nat
  BY <1>3 DEF Hashes
<1>5. /\ stored.window = hash.window /\ stored.count = hash.count + spent
      /\ stored.prevCount = hash.prevCount
  BY <1>3 DEF Hashes
<1>6. after.db[Plain(key)].value = stored
  BY <1>2 DEF Updated
<1> DEFINE m == hash.window
<1>7. /\ m * window \in Int /\ (m - 1) * window \in Int
      /\ (m + 1) * window = m * window + window
      /\ (m + 1) * window = (m - 1) * window + 2 * window
  <2>1. m \in Int
    BY <1>4
  <2> HIDE DEF m
  <2>2. QED
    BY <1>1, <2>1
<1>8. ASSUME ~after.reply.allowed
      PROVE  grant \in Nat /\ \E e \in ClockErrors : now < grant + e + 2 * window
  <2>1. ~(estimate + 1 <= limit)
    BY <1>2, <1>8
  <2>2. hash.count > 0 \/ hash.prevCount > 0
    <3>1. ASSUME hash.count = 0, hash.prevCount = 0 PROVE FALSE
      <4> DEFINE share == NonNegative(window - (now - m * window))
      <4>1. share \in Int
        <5>1. window - (now - m * window) \in Int
          BY <1>1, <1>7
        <5>2. QED
          BY <5>1 DEF NonNegative
      <4> HIDE DEF share
      <4>2. 0 * share = 0 /\ 0 \div window = 0
        BY <1>1, <4>1
      <4>3. Weight(hash, window, now) = 0
        BY <3>1, <4>2 DEF Weight, share
      <4>4. estimate = 0
        BY <3>1, <4>3 DEF Estimate
      <4> HIDE DEF estimate
      <4>5. QED
        BY <1>1, <2>1, <4>4
    <3>2. QED
      BY <1>4, <3>1
  <2>3. ASSUME NEW t \in Int, Granted(grant, t), now < t + 2 * window
        PROVE  grant \in Nat /\ \E e \in ClockErrors : now < grant + e + 2 * window
    <3>1. PICK e \in ClockErrors : t <= grant + e
      BY <2>3 DEF Granted
    <3>2. grant \in Nat /\ e \in Int
      BY <1>1, <2>3 DEF Granted
    <3>3. now < grant + e + 2 * window
      BY <1>1, <2>3, <3>1, <3>2
    <3>4. QED
      BY <3>2, <3>3
  <2>4. now < m * window + 2 * window /\ now < (m - 1) * window + 2 * window
    <3> DEFINE start == m * window
    <3>1. start \in Int /\ now < start + window /\ now < (m - 1) * window + 2 * window
      BY <1>3, <1>7
    <3> HIDE DEF start
    <3>2. now < start + 2 * window
      BY <1>1, <3>1
    <3>3. QED
      BY <3>1, <3>2 DEF start
  <2>5. Granted(grant, m * window) \/ Granted(grant, (m - 1) * window)
    BY <1>3, <2>2
  <2>6. QED
    BY <1>7, <2>3, <2>4, <2>5
<1>9. \A t \in Int : Granted(grant, t) => Granted(upto, t)
  <2>1. upto \in Int /\ grant <= upto
    OBVIOUS
  <2> HIDE DEF upto
  <2>2. QED
    BY <2>1, GrantedLater
<1>10. stored.count > 0 => Granted(upto, stored.window * window)
  <2>1. CASE estimate + 1 <= limit
    <3>1. upto = at
      BY <1>2, <2>1
    <3>2. Granted(upto, m * window)
      BY <1>3, <3>1 DEF Granted
    <3>3. QED
      BY <1>5, <3>2
  <2>2. CASE ~(estimate + 1 <= limit)
    <3>1. stored.count = hash.count
      BY <1>4, <1>5, <2>2
    <3>2. QED
      BY <1>3, <1>5, <1>7, <1>9, <3>1
  <2>3. QED
    BY <2>1, <2>2
<1>11. stored.prevCount > 0 => Granted(upto, (stored.window - 1) * window)
  BY <1>3, <1>5, <1>7, <1>9
<1>12. \E e \in ClockErrors : stored.window * window <= at + e
  BY <1>3, <1>5
<1> HIDE DEF stored
<1>13. QED
  BY <1>6, <1>8, <1>10, <1>11, <1>12 DEF after, window, limit

(* A bucket is full again a window after its last admission.               *)
LEMMA BucketCaused ==
    ASSUME NEW keyspace, NEW at \in Nat, NEW key, NEW policy \in Policies,
           NEW now \in Nat, NEW error \in ClockErrors, now <= at + error,
           strategy \in Buckets, Typed(keyspace, key), NEW grant \in Int,
           Plain(key) \in DOMAIN keyspace =>
              /\ HeldIn(keyspace, key, policy) \in 0 .. FullOf(policy)
              /\ grant \in Nat
              /\ \E e \in ClockErrors :
                    FullOf(policy) <= HeldIn(keyspace, key, policy)
                        + (grant + e + WindowMs(policy.window) - LastIn(keyspace, key))
                              * RateOf(policy)
    PROVE  LET window == WindowMs(policy.window)
               after == Script(keyspace, at, key, policy, now)
               upto == IF after.reply.allowed THEN at ELSE grant
           IN  /\ ~after.reply.allowed =>
                     /\ grant \in Nat
                     /\ \E e \in ClockErrors : now < grant + e + window
               /\ HeldIn(after.db, key, policy) \in 0 .. FullOf(policy)
               /\ upto \in Nat
               /\ \E e \in ClockErrors :
                     FullOf(policy) <= HeldIn(after.db, key, policy)
                         + (upto + e + window - LastIn(after.db, key)) * RateOf(policy)
<1> DEFINE window == WindowMs(policy.window)
           full == FullOf(policy)
           rate == RateOf(policy)
           last == LastIn(keyspace, key)
           held == HeldIn(keyspace, key, policy)
           found == FoundIn(keyspace, key, policy, now)
           left == LeftIn(keyspace, key, policy, now)
           after == Script(keyspace, at, key, policy, now)
           upto == IF after.reply.allowed THEN at ELSE grant
<1>1. /\ window \in Nat \ {0} /\ full \in Nat /\ rate \in Nat \ {0} /\ full = window * rate
      /\ TokenUnit \in Nat \ {0} /\ TokenUnit <= full
      /\ \A e \in ClockErrors : e \in Int
  BY PolicyIs, RateIs, RedisAssumption, AlgorithmAssumption
<1>2. /\ found \in 0 .. full
      /\ after.reply.allowed = (found >= TokenUnit)
      /\ Plain(key) \in DOMAIN after.db
      /\ LastIn(after.db, key) = now
      /\ HeldIn(after.db, key, policy) = left
      /\ after.db[Plain(key)].expireAt = at + 2 * window
  <2>1. Plain(key) \in DOMAIN keyspace => HeldIn(keyspace, key, policy) \in 0 .. FullOf(policy)
    OBVIOUS
  <2>2. /\ FoundIn(keyspace, key, policy, now) \in 0 .. FullOf(policy)
        /\ Script(keyspace, at, key, policy, now).reply.allowed
              = (FoundIn(keyspace, key, policy, now) >= TokenUnit)
        /\ Plain(key) \in DOMAIN Script(keyspace, at, key, policy, now).db
        /\ LastIn(Script(keyspace, at, key, policy, now).db, key) = now
        /\ HeldIn(Script(keyspace, at, key, policy, now).db, key, policy)
              = LeftIn(keyspace, key, policy, now)
        /\ Script(keyspace, at, key, policy, now).db[Plain(key)].expireAt
              = at + 2 * WindowMs(policy.window)
    BY <2>1, BucketPays
  <2>3. QED
    BY <2>2
<1>3. left = IF found >= TokenUnit THEN found - TokenUnit ELSE found
  BY DEF LeftIn
<1>4. Plain(key) \in DOMAIN keyspace =>
         /\ last \in Nat /\ held \in 0 .. full /\ grant \in Nat
         /\ found = Least(full, held + NonNegative(now - last) * rate)
         /\ \E e \in ClockErrors : full <= held + (grant + e + window - last) * rate
  BY DEF Typed, Has, Buckets, Fills, Levels, LastIn, FoundIn
<1>5. Plain(key) \notin DOMAIN keyspace => found = full
  BY DEF FoundIn
<1> HIDE DEF window, full, rate, last, held, found, left, after
<1>6. left \in 0 .. full
  BY <1>1, <1>2, <1>3
<1>7. CASE found >= TokenUnit
  <2>1. after.reply.allowed /\ upto = at
    BY <1>2, <1>7
  <2>2. error \in Int
    BY <1>1
  <2> DEFINE more == at + error + window - now
  <2>3. more \in Int /\ window <= more
    BY <1>1, <2>2
  <2> HIDE DEF more
  <2>4. window * rate <= more * rate
    BY <1>1, <2>3, MultiplyLess
  <2> DEFINE gained == more * rate
  <2>5. gained \in Int /\ full <= gained
    BY <1>1, <2>3, <2>4
  <2> HIDE DEF gained
  <2>6. full <= left + gained
    BY <1>1, <1>6, <2>5
  <2>7. full <= left + (upto + error + window - now) * rate
    BY <2>1, <2>6 DEF gained, more
  <2>8. QED
    BY <1>2, <1>6, <2>1, <2>7 DEF after, window, full, rate
<1>8. CASE ~(found >= TokenUnit)
  <2>1. ~after.reply.allowed /\ upto = grant /\ left = found
    BY <1>2, <1>3, <1>8
  <2>2. found < full
    BY <1>1, <1>2, <1>8
  <2>3. Plain(key) \in DOMAIN keyspace
    BY <1>1, <1>5, <2>2
  <2>4. PICK e \in ClockErrors : full <= held + (grant + e + window - last) * rate
    BY <1>4, <2>3
  <2>5. e \in Int /\ last \in Nat /\ held \in 0 .. full /\ grant \in Nat
    BY <1>1, <1>4, <2>3
  <2> DEFINE gone == NonNegative(now - last)
             reach == grant + e + window
  <2>6. gone \in Nat /\ now - last <= gone /\ reach \in Int
    BY <1>1, <2>5 DEF NonNegative
  <2>7. full <= held + (reach - last) * rate /\ reach - last \in Int
    <3>1. grant + e + window - last = reach - last
      BY <1>1, <2>5
    <3> HIDE DEF reach
    <3>2. QED
      BY <2>4, <2>5, <2>6, <3>1
  <2>8. upto + e + window - now = reach - now
    BY <1>1, <2>1, <2>5
  <2> HIDE DEF gone, reach
  <2> DEFINE came == gone * rate
  <2>9. found = held + came /\ came \in Int
    <3>1. found = Least(full, held + came)
      BY <1>4, <2>3 DEF gone
    <3>2. came \in Int
      BY <1>1, <2>6
    <3> HIDE DEF came
    <3>3. QED
      BY <1>1, <2>2, <2>5, <3>1, <3>2 DEF Least
  <2>10. now < reach
    <3>1. ASSUME reach <= now PROVE FALSE
      <4>1. reach - last <= gone
        BY <2>5, <2>6, <3>1
      <4>2. (reach - last) * rate <= gone * rate
        BY <1>1, <2>6, <2>7, <4>1, MultiplyLess
      <4> DEFINE owed == (reach - last) * rate
      <4>3. owed \in Int /\ owed <= came /\ full <= held + owed
        BY <1>1, <2>7, <4>2
      <4> HIDE DEF owed, came
      <4>4. QED
        BY <1>1, <2>2, <2>5, <2>9, <4>3
    <3>2. QED
      BY <2>6, <3>1
  <2>11. full <= left + (reach - now) * rate
    <3>1. (reach - last) * rate <= (gone + (reach - now)) * rate
      <4>1. reach - last <= gone + (reach - now) /\ gone + (reach - now) \in Int
        BY <2>5, <2>6
      <4>2. QED
        BY <1>1, <2>7, <4>1, MultiplyLess
    <3>2. (gone + (reach - now)) * rate = gone * rate + (reach - now) * rate
      <4>1. reach - now \in Int
        BY <2>6
      <4> DEFINE d == reach - now
      <4> HIDE DEF d
      <4>2. (gone + d) * rate = gone * rate + d * rate
        BY <1>1, <2>6, <4>1 DEF d
      <4>3. QED
        BY <4>2 DEF d
    <3> DEFINE owed == (reach - last) * rate
               rest == (reach - now) * rate
    <3>3. /\ owed \in Int /\ rest \in Int /\ owed <= came + rest /\ full <= held + owed
      <4>1. reach - now \in Int
        BY <2>6
      <4>2. QED
        BY <1>1, <2>7, <3>1, <3>2, <4>1
    <3> HIDE DEF owed, rest, came
    <3>4. full <= left + rest
      BY <1>1, <2>1, <2>5, <2>9, <3>3
    <3>5. QED
      BY <3>4 DEF rest
  <2>12. full <= left + (upto + e + window - now) * rate
    BY <2>11, <2>8
  <2>13. now < grant + e + window
    BY <2>10 DEF reach
  <2>14. QED
    BY <1>2, <1>6, <2>1, <2>5, <2>12, <2>13 DEF after, window, full, rate
<1>9. QED
  BY <1>7, <1>8

(* What has a cause keeps it while time goes on and keys expire.           *)
LEMMA CausedLater ==
    ASSUME NEW keyspace, NEW key, NEW policy \in Policies, NEW at \in Int, NEW grant \in Int,
           Typed(keyspace, key), Caused(grant, keyspace, at, key, policy),
           NEW left, \A name : name[1] = key => (name \in DOMAIN left =>
               name \in DOMAIN keyspace /\ left[name] = keyspace[name]),
           NEW later \in Int, at <= later
    PROVE  Caused(grant, left, later, key, policy)
<1> DEFINE window == WindowMs(policy.window)
           hash == keyspace[Plain(key)].value
<1>1. /\ window \in Nat \ {0} /\ \A e \in ClockErrors : e \in Int
      /\ grant <= later
  BY PolicyIs, RedisAssumption DEF Caused
<1>2. Plain(key) \in DOMAIN left =>
         Plain(key) \in DOMAIN keyspace /\ left[Plain(key)] = keyspace[Plain(key)]
  BY NamesOfKeys
<1>3. CASE strategy = "fixed_window"
  <2>1. \A n \in Int : WindowKey(key, n) \in DOMAIN left => Granted(grant, n * window)
    BY <1>3, NamesOfKeys DEF Caused
  <2>2. QED
    BY <1>1, <1>3, <2>1 DEF Caused, Buckets
<1>4. CASE strategy = "sliding_counter"
  <2>1. ASSUME Plain(key) \in DOMAIN left
        PROVE  \E e \in ClockErrors : left[Plain(key)].value.window * window <= later + e
    <3>1. PICK e \in ClockErrors : hash.window * window <= at + e
      BY <1>2, <1>4, <2>1 DEF Caused
    <3>2. hash.window \in Int
      BY <1>2, <1>4, <2>1 DEF Typed, Has, Hashes
    <3>3. hash.window * window \in Int /\ e \in Int
      BY <1>1, <3>2
    <3> DEFINE start == hash.window * window
    <3> HIDE DEF start
    <3>4. start <= later + e
      BY <3>1, <3>3 DEF start
    <3>5. QED
      BY <1>2, <2>1, <3>4 DEF start
  <2>2. QED
    BY <1>1, <1>2, <1>4, <2>1 DEF Caused, Buckets
<1>5. CASE strategy = "sliding_log"
  <2>1. LogOf(left, key) \subseteq LogOf(keyspace, key)
    BY <1>2 DEF LogOf, Get
  <2>2. QED
    BY <1>1, <1>5, <2>1 DEF Caused, Buckets
<1>6. CASE strategy \in Buckets
  <2>1. Plain(key) \in DOMAIN left =>
           /\ HeldIn(left, key, policy) = HeldIn(keyspace, key, policy)
           /\ LastIn(left, key) = LastIn(keyspace, key)
    BY <1>2 DEF HeldIn, LastIn
  <2>2. strategy \notin {"fixed_window", "sliding_counter", "sliding_log"}
    BY <1>6 DEF Buckets
  <2>3. QED
    BY <1>1, <1>2, <1>6, <2>1, <2>2 DEF Caused
<1>7. CASE strategy \notin {"fixed_window", "sliding_counter", "sliding_log"} \cup Buckets
  BY <1>1, <1>7 DEF Caused
<1>8. QED
  BY <1>3, <1>4, <1>5, <1>6, <1>7

(* What a script leaves has a cause, and so has its refusal.               *)
LEMMA ScriptCaused ==
    ASSUME NEW keyspace, NEW at \in Nat, NEW key, NEW policy \in Policies,
           NEW now, Reading(now), NEW error \in ClockErrors, now <= at + error,
           Typed(keyspace, key), strategy \in AllStrategies,
           strategy = "fixed_window" => Positive(keyspace),
           NEW grant \in Int, Caused(grant, keyspace, at, key, policy)
    PROVE  LET after == Script(keyspace, at, key, policy, now)
               upto == IF after.reply.allowed THEN at ELSE grant
           IN  /\ ~after.reply.allowed =>
                     /\ grant \in Nat
                     /\ \E e \in ClockErrors : now < grant + e + Windows * WindowMs(policy.window)
               /\ Caused(upto, after.db, at, key, policy)
<1> DEFINE limit == policy.limit
           window == WindowMs(policy.window)
           after == Script(keyspace, at, key, policy, now)
           upto == IF after.reply.allowed THEN at ELSE grant
<1>1. now \in Nat /\ window \in Nat \ {0} /\ grant <= at
  BY PolicyIs DEF Reading, Caused
<1>2. upto <= at
  BY <1>1
<1>3. strategy # "sliding_counter" => Windows * window = window
  BY <1>1 DEF Windows
<1>4. CASE strategy = "fixed_window"
  <2>1. after = FW!RedisScript(keyspace, at, key, limit, window, now)
    BY <1>4 DEF Script
  <2>2. \A n \in Int : WindowKey(key, n) \in DOMAIN keyspace => Granted(grant, n * window)
    BY <1>4 DEF Caused
  <2>3. /\ ~after.reply.allowed =>
              /\ grant \in Nat
              /\ \E e \in ClockErrors : now < grant + e + window
        /\ \A n \in Int : WindowKey(key, n) \in DOMAIN after.db => Granted(upto, n * window)
    BY <1>1, <1>4, <2>1, <2>2, FixedWindowCaused
  <2> HIDE DEF after, upto
  <2>4. Caused(upto, after.db, at, key, policy)
    BY <1>2, <1>4, <2>3 DEF Caused, Buckets
  <2>5. QED
    BY <1>3, <1>4, <2>3, <2>4 DEF after, upto
<1>5. CASE strategy = "sliding_counter"
  <2> DEFINE hash == after.db[Plain(key)].value
  <2>1. after = SC!RedisScript(keyspace, at, key, limit, window, now)
    BY <1>5 DEF Script
  <2>2. Has(keyspace, Plain(key), Hashes)
    BY <1>5 DEF Typed
  <2>3. Plain(key) \in DOMAIN keyspace =>
           LET old == keyspace[Plain(key)].value
           IN  /\ \E e \in ClockErrors : old.window * window <= at + e
               /\ old.count > 0 => Granted(grant, old.window * window)
               /\ old.prevCount > 0 => Granted(grant, (old.window - 1) * window)
    BY <1>5 DEF Caused
  <2>4. /\ ~after.reply.allowed =>
              /\ grant \in Nat
              /\ \E e \in ClockErrors : now < grant + e + 2 * window
        /\ \E e \in ClockErrors : hash.window * window <= at + e
        /\ hash.count > 0 => Granted(upto, hash.window * window)
        /\ hash.prevCount > 0 => Granted(upto, (hash.window - 1) * window)
    <3> DEFINE run == SC!RedisScript(keyspace, at, key, limit, window, now)
    <3>1. LET left == run.db[Plain(key)].value
              later == IF run.reply.allowed THEN at ELSE grant
          IN  /\ ~run.reply.allowed =>
                    /\ grant \in Nat
                    /\ \E e \in ClockErrors : now < grant + e + 2 * window
              /\ \E e \in ClockErrors : left.window * window <= at + e
              /\ left.count > 0 => Granted(later, left.window * window)
              /\ left.prevCount > 0 => Granted(later, (left.window - 1) * window)
      BY <1>1, <2>2, <2>3, SlidingCounterCaused
    <3>2. after = run
      BY <2>1
    <3> HIDE DEF run, after
    <3>3. QED
      BY <3>1, <3>2
  <2> HIDE DEF after, upto
  <2>5. Caused(upto, after.db, at, key, policy)
    BY <1>2, <1>5, <2>4 DEF Caused, Buckets
  <2>6. Windows = 2
    BY <1>5 DEF Windows
  <2>7. QED
    BY <2>4, <2>5, <2>6 DEF after, upto
<1>6. CASE strategy = "sliding_log"
  <2>1. after = SL!RedisScript(keyspace, at, key, limit, window, now)
    BY <1>6 DEF Script
  <2>2. /\ Has(keyspace, Plain(key), Logs)
        /\ \A m \in LogOf(keyspace, key) : Granted(grant, m[1])
    BY <1>6 DEF Typed, Caused
  <2>3. /\ ~after.reply.allowed =>
              /\ grant \in Nat
              /\ \E e \in ClockErrors : now < grant + e + window
        /\ \A m \in LogOf(after.db, key) : Granted(upto, m[1])
    BY <1>1, <2>1, <2>2, SlidingLogCaused
  <2> HIDE DEF after, upto
  <2>4. Caused(upto, after.db, at, key, policy)
    BY <1>2, <1>6, <2>3 DEF Caused, Buckets
  <2>5. QED
    BY <1>3, <1>6, <2>3, <2>4 DEF after, upto
<1>7. CASE strategy \in Buckets
  <2>1. Plain(key) \in DOMAIN keyspace =>
           /\ HeldIn(keyspace, key, policy) \in 0 .. FullOf(policy)
           /\ grant \in Nat
           /\ \E e \in ClockErrors :
                 FullOf(policy) <= HeldIn(keyspace, key, policy)
                     + (grant + e + window - LastIn(keyspace, key)) * RateOf(policy)
    BY <1>7 DEF Caused
  <2>2. /\ ~after.reply.allowed =>
              /\ grant \in Nat
              /\ \E e \in ClockErrors : now < grant + e + window
        /\ HeldIn(after.db, key, policy) \in 0 .. FullOf(policy)
        /\ upto \in Nat
        /\ \E e \in ClockErrors :
              FullOf(policy) <= HeldIn(after.db, key, policy)
                  + (upto + e + window - LastIn(after.db, key)) * RateOf(policy)
    BY <1>1, <1>7, <2>1, BucketCaused
  <2>3. strategy \notin {"fixed_window", "sliding_counter", "sliding_log"}
    BY <1>7 DEF Buckets
  <2> HIDE DEF after, upto
  <2>4. Caused(upto, after.db, at, key, policy)
    BY <1>2, <1>7, <2>2, <2>3 DEF Caused
  <2>5. QED
    BY <1>3, <2>2, <2>3, <2>4 DEF after, upto
<1>8. QED
  BY <1>4, <1>5, <1>6, <1>7 DEF AllStrategies, Buckets

-------------------------------------------------------------------------------
CauseInv ==
    \A key \in Keys, policy \in Policies : Caused(lastGrant[key], db, clock, key, policy)

LEMMA CauseStart == HistoryInit => CauseInv
<1> SUFFICES ASSUME HistoryInit, NEW key \in Keys, NEW policy \in Policies
             PROVE  Caused(lastGrant[key], db, clock, key, policy)
  BY DEF CauseInv
<1>1. DOMAIN db = {} /\ lastGrant[key] <= clock
  BY RedisAssumption DEF HistoryInit, Init, NoTime
<1>2. LogOf(db, key) = {}
  BY <1>1 DEF LogOf, Get
<1>3. QED
  BY <1>1, <1>2 DEF Caused

(* What a request that runs gets, and what is left of the key's cause.     *)
LEMMA RequestCaused ==
    ASSUME SamePolicy, HistoryInv, CauseInv,
           NEW r \in Callers, call[r] # NoCall, call[r].key \in Keys,
           NEW policy \in Policies
    PROVE  LET key == call[r].key
               after == Outcome(r)
               upto == IF after.reply.allowed THEN clock ELSE lastGrant[key]
           IN  /\ call[r].policy = policy
               /\ ~after.reply.allowed =>
                     /\ lastGrant[key] \in Nat
                     /\ \E e \in ClockErrors :
                           call[r].now < lastGrant[key] + e + Windows * WindowMs(policy.window)
               /\ Caused(upto, after.db, clock, key, policy)
<1> DEFINE key == call[r].key
           now == call[r].now
<1>1. /\ TypedInv /\ RedisInv /\ Sent /\ strategy \in AllStrategies /\ clock \in Nat
      /\ strategy = "fixed_window" => Positive(db)
      /\ Typed(db, key) /\ lastGrant[key] \in Int
  BY TypedNow DEF HistoryInv, HistoryTyped, TypedInv
<1>2. call[r].policy = policy /\ Reading(now)
  BY <1>1, RequestIs DEF SamePolicy
<1>3. PICK error \in ClockErrors : now <= clock + error /\ clock - MaxDelay + error <= now
  BY <1>1, RequestIs
<1>4. Caused(lastGrant[key], db, clock, key, policy)
  BY DEF CauseInv
<1>5. Outcome(r) = Script(db, clock, key, policy, now)
  BY <1>2 DEF Outcome
<1> HIDE DEF key, now
<1>6. LET after == Script(db, clock, key, policy, now)
          upto == IF after.reply.allowed THEN clock ELSE lastGrant[key]
      IN  /\ ~after.reply.allowed =>
                /\ lastGrant[key] \in Nat
                /\ \E e \in ClockErrors :
                      now < lastGrant[key] + e + Windows * WindowMs(policy.window)
          /\ Caused(upto, after.db, clock, key, policy)
  BY <1>1, <1>2, <1>3, <1>4, ScriptCaused
<1>7. QED
  BY <1>2, <1>5, <1>6 DEF key, now

LEMMA CauseStays ==
    ASSUME SamePolicy
    PROVE  HistoryInv /\ CauseInv /\ [HistoryNext]_hvars => CauseInv'
<1> SUFFICES ASSUME HistoryInv, CauseInv, [HistoryNext]_hvars PROVE CauseInv'
  OBVIOUS
<1> SUFFICES ASSUME NEW key \in Keys, NEW policy \in Policies
             PROVE  Caused(lastGrant[key], db, clock, key, policy)'
  BY DEF CauseInv
<1>0. SUFFICES Caused(lastGrant'[key], db', clock', key, policy)
  <2>1. strategy' = strategy
    BY HistoryStepIs
  <2>2. QED
    BY <2>1 DEF Caused, Granted, LogOf, Get, HeldIn, LastIn, FullOf, RateOf
<1>1. Typed(db, key) /\ clock \in Nat /\ lastGrant[key] \in Int
  BY TypedNow DEF HistoryInv, HistoryTyped, TypedInv
<1>2. Caused(lastGrant[key], db, clock, key, policy)
  BY DEF CauseInv
<1>3. HistoryKeyStep(key)
  BY HistoryStepIs
<1>4. ASSUME clock' \in Int, clock <= clock', lastGrant'[key] = lastGrant[key],
             \A name : name[1] = key => (name \in DOMAIN db' =>
                 name \in DOMAIN db /\ db'[name] = db[name])
      PROVE  Caused(lastGrant'[key], db', clock', key, policy)
  BY <1>1, <1>2, <1>4, CausedLater
<1>5. CASE Agree(db, db', key) /\ clock' = clock /\ KeptFor(key)
  <2>1. clock' \in Int /\ clock <= clock' /\ lastGrant'[key] = lastGrant[key]
    BY <1>1, <1>5 DEF KeptFor
  <2>2. \A name : name[1] = key => (name \in DOMAIN db' =>
            name \in DOMAIN db /\ db'[name] = db[name])
    BY <1>5 DEF Agree
  <2>3. QED
    BY <1>4, <2>1, <2>2
<1>6. CASE (Reset(key) \/ Tick) /\ lastGrant'[key] = lastGrant[key]
  <2>1. clock' \in Int /\ clock <= clock'
    BY <1>1, <1>6 DEF Reset, Tick
  <2>2. \A name : name \in DOMAIN db' => name \in DOMAIN db /\ db'[name] = db[name]
    BY <1>6 DEF Reset, Tick, Live, Del
  <2>3. QED
    BY <1>4, <1>6, <2>1, <2>2
<1>7. ASSUME NEW r \in Callers, call[r] # NoCall, call[r].key = key, db' = Outcome(r).db,
             clock' = clock, RanOn(r, key)
      PROVE  Caused(lastGrant'[key], db', clock', key, policy)
  <2>1. lastGrant'[key] = IF Outcome(r).reply.allowed THEN clock ELSE lastGrant[key]
    BY <1>7 DEF RanOn
  <2>2. Caused(IF Outcome(r).reply.allowed THEN clock ELSE lastGrant[key],
               Outcome(r).db, clock, key, policy)
    BY <1>7, RequestCaused
  <2>3. QED
    BY <1>7, <2>1, <2>2
<1>8. QED
  BY <1>3, <1>5, <1>6, <1>7 DEF HistoryKeyStep, KeptFor

(* One of the callers' clocks is the slowest, and one is the fastest.      *)
ClocksAreBounded ==
    \E slowest \in ClockErrors, fastest \in ClockErrors :
        \A error \in ClockErrors : slowest <= error /\ error <= fastest

LEMMA ReachIs ==
    ASSUME ClocksAreBounded, NEW window \in Nat, NEW e \in ClockErrors, NEW f \in ClockErrors
    PROVE  Reach(window) \in Int /\ Windows * window + MaxDelay + (e - f) <= Reach(window)
<1> DEFINE skew == {a - b : a \in ClockErrors, b \in ClockErrors}
           widest == CHOOSE d \in skew : \A s \in skew : s <= d
<1>1. \A a \in ClockErrors : a \in Int
  BY RedisAssumption
<1>2. PICK slowest \in ClockErrors, fastest \in ClockErrors :
         \A a \in ClockErrors : slowest <= a /\ a <= fastest
  BY DEF ClocksAreBounded
<1>3. \A a \in ClockErrors, b \in ClockErrors : a - b <= fastest - slowest
  BY <1>1, <1>2
<1>4. \E d \in skew : \A s \in skew : s <= d
  <2>1. fastest - slowest \in skew /\ \A s \in skew : s <= fastest - slowest
    BY <1>3
  <2>2. QED
    BY <2>1
<1>5. e - f \in skew /\ widest \in skew /\ \A s \in skew : s <= widest
  BY <1>4
<1>6. \A s \in skew : s \in Int
  BY <1>1
<1>7. Reach(window) = Windows * window + MaxDelay + widest
  BY DEF Reach, Windows
<1> HIDE DEF widest, skew
<1>8. Windows * window \in Int /\ MaxDelay \in Int
  BY RedisAssumption DEF Windows
<1> DEFINE far == Windows * window
<1>9. far + MaxDelay + (e - f) <= far + MaxDelay + widest
  <2> HIDE DEF far
  <2>1. far \in Int /\ e - f <= widest /\ e - f \in Int /\ widest \in Int
    BY <1>5, <1>6, <1>8 DEF far
  <2>2. QED
    BY <1>8, <2>1
<1>10. far + MaxDelay + widest \in Int
  <2> HIDE DEF far
  <2>1. far \in Int /\ widest \in Int
    BY <1>5, <1>6, <1>8 DEF far
  <2>2. QED
    BY <1>8, <2>1
<1>11. QED
  BY <1>7, <1>9, <1>10

(* With one policy, nobody is locked out: a request is refused only when   *)
(* another was admitted on its key within the window, or with the sliding  *)
(* counter the window and the one before it, and what clocks and delays    *)
(* add to that (slidingcounter.go:3-4).                                    *)
THEOREM RedisRefusalHasCause ==
    ASSUME SamePolicy, ClocksAreBounded
    PROVE  HistorySpec => RefusalHasCause
<1>1. ASSUME HistoryInv, CauseInv, NEW r \in Callers, Refused(r)
      PROVE  /\ lastGrant[call[r].key] # NoTime
             /\ clock - lastGrant[call[r].key] <= Reach(WindowMs(call[r].policy.window))
  <2> DEFINE key == call[r].key
             policy == call[r].policy
             now == call[r].now
             window == WindowMs(policy.window)
             grant == lastGrant[key]
  <2>1. call[r] # NoCall /\ ~Outcome(r).reply.allowed
    BY <1>1 DEF Refused, Execute, Repeat
  <2>2. /\ RedisInv /\ Sent /\ clock \in Nat
    BY <1>1, TypedNow DEF HistoryInv, TypedInv
  <2>3. key \in Keys /\ policy \in Policies
    BY <2>1, <2>2 DEF RedisInv, TypeOK
  <2>4. PICK f \in ClockErrors : now <= clock + f /\ clock - MaxDelay + f <= now
    BY <2>1, <2>2, RequestIs
  <2>5. grant \in Nat /\ \E e \in ClockErrors : now < grant + e + Windows * window
    BY <1>1, <2>1, <2>3, RequestCaused
  <2>6. PICK e \in ClockErrors : now < grant + e + Windows * window
    BY <2>5
  <2>7. /\ e \in Int /\ f \in Int /\ MaxDelay \in Int /\ window \in Nat
        /\ Windows * window \in Int /\ now \in Int
    <3>1. window \in Nat
      BY <2>3, PolicyIs
    <3>2. Reading(now)
      BY <2>1, <2>2, RequestIs
    <3> HIDE DEF window, now
    <3>3. QED
      BY <3>1, <3>2, RedisAssumption DEF Windows, Reading
  <2> HIDE DEF now, window, grant
  <2> DEFINE far == Windows * window
  <2>8. clock - grant <= far + MaxDelay + (e - f)
    <3> HIDE DEF far
    <3>1. far \in Int /\ now < grant + e + far
      BY <2>6, <2>7 DEF far
    <3>2. QED
      BY <2>2, <2>4, <2>5, <2>7, <3>1
  <2>9. Reach(window) \in Int /\ far + MaxDelay + (e - f) <= Reach(window)
    BY <2>7, ReachIs
  <2>10. clock - grant <= Reach(window)
    <3> DEFINE reach == Reach(window)
    <3> HIDE DEF reach
    <3>1. reach \in Int /\ far \in Int /\ far + MaxDelay + (e - f) <= reach
      BY <2>7, <2>9 DEF reach
    <3> HIDE DEF far
    <3>2. clock - grant <= reach
      BY <2>2, <2>5, <2>7, <2>8, <3>1
    <3>3. QED
      BY <3>2 DEF reach
  <2>11. grant # NoTime
    BY <2>5 DEF NoTime
  <2>12. QED
    BY <2>10, <2>11 DEF grant, window
<1>2. HistoryInit => HistoryInv /\ CauseInv
  BY HistoryStart, CauseStart
<1>3. HistoryInv /\ CauseInv /\ [HistoryNext]_hvars => (HistoryInv /\ CauseInv)'
  BY HistoryStays, CauseStays
<1>4. HistoryInv /\ CauseInv =>
         \A r \in Callers :
             Refused(r) =>
                 LET key == call[r].key
                 IN  /\ lastGrant[key] # NoTime
                     /\ clock - lastGrant[key] <= Reach(WindowMs(call[r].policy.window))
  BY <1>1
<1>5. QED
  BY <1>2, <1>3, <1>4, PTL DEF HistorySpec, RefusalHasCause

-------------------------------------------------------------------------------
(* What the keys of a rate limit key say, against the log of its           *)
(* admissions, as long as its requests are orderly: the next ones come with*)
(* readings from the latest one on, and at most a millisecond behind Redis'*)
(* clock.  A key that Redis has dropped was last used two windows ago.     *)
Forgotten(log, at, policy) ==
    \A i \in DOMAIN log : log[i] + 2 * WindowMs(policy.window) < at

(* The counters of the windows that a reading may still fall into.         *)
CountsWindows(log, latest, keyspace, at, key, policy) ==
    LET window == WindowMs(policy.window)
    IN  \A n \in Nat : latest < (n + 1) * window /\ at <= (n + 1) * window =>
            LET name == WindowKey(key, n)
                seen == Get(keyspace, name, 0)
            IN  /\ (IF seen < policy.limit THEN seen ELSE policy.limit)
                       = Cardinality(Later(log, n * window - 1))
                /\ name \in DOMAIN keyspace => (n + 1) * window <= keyspace[name].expireAt

CountsTwoWindows(log, latest, keyspace, at, key, policy) ==
    LET window == WindowMs(policy.window)
    IN  /\ Plain(key) \notin DOMAIN keyspace => Forgotten(log, at, policy)
        /\ Plain(key) \in DOMAIN keyspace =>
              LET hash == keyspace[Plain(key)].value
                  start == hash.window * window
              IN  /\ start <= latest
                  /\ latest + 2 * window <= keyspace[Plain(key)].expireAt
                  /\ \A i \in DOMAIN log : log[i] < start + window
                  /\ hash.count = Cardinality(Later(log, start - 1))
                  /\ hash.prevCount = Cardinality(Later(log, start - window - 1))
                                        - Cardinality(Later(log, start - 1))

(* The sorted set; a member that has no counter to tell it from the next   *)
(* one has a reading that none comes with any more.                        *)
KeepsWindow(log, latest, keyspace, at, key, policy) ==
    LET window == WindowMs(policy.window)
    IN  /\ Plain(key) \notin DOMAIN keyspace => Forgotten(log, at, policy)
        /\ Plain(key) \in DOMAIN keyspace =>
              latest + 2 * window <= keyspace[Plain(key)].expireAt
        /\ \A c \in Int : c >= latest - window /\ c + 1 >= at - window =>
              Cardinality(Members(LogOf(keyspace, key), c)) = Cardinality(Later(log, c))
        /\ \A m \in LogOf(keyspace, key) :
              /\ m[1] <= latest
              /\ SeqKey(key) \notin DOMAIN keyspace => m[1] + 2 * window < at
              /\ SeqKey(key) \in DOMAIN keyspace =>
                    /\ m[2] <= keyspace[SeqKey(key)].value
                    /\ m[1] + 2 * window <= keyspace[SeqKey(key)].expireAt

(* A bucket that is there holds what its last request left, exactly.       *)
Tight(log, held, reach, policy) ==
    Exact(log, held, reach, TokenUnit, FullOf(policy), RateOf(policy))

HoldsTheRest(log, latest, keyspace, at, key, policy) ==
    /\ Plain(key) \notin DOMAIN keyspace => Fits(log, FullOf(policy), at - 1, policy)
    /\ Plain(key) \in DOMAIN keyspace =>
          LET held == HeldIn(keyspace, key, policy)
          IN  /\ LastIn(keyspace, key) = latest
              /\ held \in 0 .. FullOf(policy)
              /\ Fits(log, held, latest, policy) /\ Tight(log, held, latest, policy)
              /\ latest + 2 * WindowMs(policy.window) <= keyspace[Plain(key)].expireAt

OnQuota(log, latest, keyspace, at, key, policy) ==
    /\ log \in Seq(Nat) /\ latest \in Int /\ latest <= at
    /\ \A i \in DOMAIN log : log[i] <= latest
    /\ strategy = "fixed_window" => CountsWindows(log, latest, keyspace, at, key, policy)
    /\ strategy = "sliding_counter" => CountsTwoWindows(log, latest, keyspace, at, key, policy)
    /\ strategy = "sliding_log" => KeepsWindow(log, latest, keyspace, at, key, policy)
    /\ strategy \in Buckets => HoldsTheRest(log, latest, keyspace, at, key, policy)

(* A script answers as the quota does, and says what the log says after it.*)
AnswersByQuota(log, latest, keyspace, at, key, policy, now) ==
    LET after == Script(keyspace, at, key, policy, now)
        next == Grown(log, now, after.reply.allowed)
    IN  /\ after.reply.allowed
              <=> QuotaAdmits(strategy, log, now, policy.limit, WindowMs(policy.window))
        /\ OnQuota(next, now, after.db, at, key, policy)

(* The quota of the strategy in use.                                       *)
LEMMA QuotaIs ==
    ASSUME NEW log, NEW now, NEW limit, NEW window
    PROVE  /\ strategy = "fixed_window" =>
                 (QuotaAdmits(strategy, log, now, limit, window)
                     <=> FixedWindowAdmits(log, now, limit, window))
           /\ strategy = "sliding_counter" =>
                 (QuotaAdmits(strategy, log, now, limit, window)
                     <=> SlidingCounterAdmits(log, now, limit, window))
           /\ strategy = "sliding_log" =>
                 (QuotaAdmits(strategy, log, now, limit, window)
                     <=> SlidingLogAdmits(log, now, limit, window))
           /\ strategy \in Buckets =>
                 (QuotaAdmits(strategy, log, now, limit, window)
                     <=> WithinRate(log, now, limit, window, 1))
<1>1. CASE strategy = "fixed_window"
  BY <1>1, SMT DEF QuotaAdmits, FixedWindowAdmits, SlidingLogAdmits, SlidingCounterAdmits,
               WithinRate, Buckets
<1>2. CASE strategy = "sliding_counter"
  BY <1>2, SMT DEF QuotaAdmits, FixedWindowAdmits, SlidingLogAdmits, SlidingCounterAdmits,
               WithinRate, Buckets
<1>3. CASE strategy = "sliding_log"
  BY <1>3, SMT DEF QuotaAdmits, FixedWindowAdmits, SlidingLogAdmits, SlidingCounterAdmits,
               WithinRate, Buckets
<1>4. CASE strategy \in Buckets
  <2>1. strategy = "token_bucket" \/ strategy = "leaky_bucket"
    BY <1>4 DEF Buckets
  <2>2. CASE strategy = "token_bucket"
    BY <2>2, SMT DEF QuotaAdmits, FixedWindowAdmits, SlidingLogAdmits, SlidingCounterAdmits,
                 WithinRate, Buckets
  <2>3. CASE strategy = "leaky_bucket"
    BY <2>3, SMT DEF QuotaAdmits, FixedWindowAdmits, SlidingLogAdmits, SlidingCounterAdmits,
                 WithinRate, Buckets
  <2>4. QED
    BY <2>1, <2>2, <2>3
<1>5. QED
  BY <1>1, <1>2, <1>3, <1>4

(* The counter of the window of now holds the admissions that the quota    *)
(* counts, up to the limit.                                                *)
LEMMA WindowsAnswer ==
    ASSUME NEW keyspace, NEW at \in Nat, NEW key, NEW policy \in Policies, NEW now \in Nat,
           strategy = "fixed_window", Positive(keyspace), NEW log, NEW latest,
           OnQuota(log, latest, keyspace, at, key, policy),
           latest <= now, now <= at, at <= now + 1
    PROVE  AnswersByQuota(log, latest, keyspace, at, key, policy, now)
<1> DEFINE limit == policy.limit
           window == WindowMs(policy.window)
           current == now \div window
           name == WindowKey(key, current)
           seen == Get(keyspace, name, 0)
           after == Script(keyspace, at, key, policy, now)
           taken == after.reply.allowed
           next == Grown(log, now, taken)
           start == current * window
           had(c) == Cardinality(Later(log, c))
           has(c) == Cardinality(Later(next, c))
<1>1. /\ limit \in Nat \ {0} /\ window \in Nat \ {0}
      /\ log \in Seq(Nat) /\ latest \in Int /\ \A i \in DOMAIN log : log[i] <= latest
  BY PolicyIs DEF OnQuota
<1>2. \A n \in Nat : latest < (n + 1) * window /\ at <= (n + 1) * window =>
         LET named == WindowKey(key, n)
             found == Get(keyspace, named, 0)
         IN  /\ (IF found < limit THEN found ELSE limit) = had(n * window - 1)
             /\ named \in DOMAIN keyspace => (n + 1) * window <= keyspace[named].expireAt
  BY DEF OnQuota, CountsWindows
<1> HIDE DEF limit, window
<1>3. /\ current \in Nat /\ now - (now % window) = start
      /\ start <= now /\ now < (current + 1) * window
      /\ \A k \in Int : k * window <= now => k <= current
      /\ \A k \in Int : now < k * window => current < k
  BY <1>1, NumberOfWindow
<1>4. /\ seen + 1 \in Nat \ {0} /\ (seen + 1 # 1 <=> name \in DOMAIN keyspace)
      /\ (taken <=> seen + 1 <= limit) /\ seen \in Nat
      /\ Updated(keyspace, after.db, name, seen + 1,
                 IF seen + 1 = 1 THEN at + window ELSE keyspace[name].expireAt)
  <2>1. after = FW!RedisScript(keyspace, at, key, limit, window, now)
    BY DEF Script, limit, window
  <2> HIDE DEF after, current
  <2>2. QED
    <3>1. LET n == WindowKey(key, now \div window)
              count == Get(keyspace, n, 0) + 1
              left == FW!RedisScript(keyspace, at, key, limit, window, now)
          IN  /\ count \in Nat \ {0} /\ (count # 1 <=> n \in DOMAIN keyspace)
              /\ left.reply.allowed = (count <= limit)
              /\ Updated(keyspace, left.db, n, count,
                         IF count = 1 THEN at + window ELSE keyspace[n].expireAt)
      BY FixedWindowRuns
    <3>2. seen \in Nat
      BY DEF Positive, Get
    <3>3. QED
      BY <2>1, <3>1, <3>2 DEF current
<1>5. /\ next \in Seq(Nat)
      /\ \A i \in DOMAIN next : next[i] <= now
      /\ \A c \in Int : /\ had(c) \in Nat
                        /\ taken /\ now > c => has(c) = had(c) + 1
                        /\ ~taken \/ ~(now > c) => has(c) = had(c)
  <2> HIDE DEF taken, after
  <2>1. log \in Seq(Nat)
    BY <1>1
  <2>2. /\ Grown(log, now, taken) \in Seq(Nat)
        /\ \A t \in Int : t <= now /\ (\A i \in DOMAIN log : log[i] <= t) =>
              \A i \in DOMAIN Grown(log, now, taken) : Grown(log, now, taken)[i] <= now
        /\ \A c \in Int :
              /\ Cardinality(Later(log, c)) \in Nat
              /\ taken /\ now > c => Cardinality(Later(Grown(log, now, taken), c))
                                      = Cardinality(Later(log, c)) + 1
              /\ ~taken \/ ~(now > c) => Cardinality(Later(Grown(log, now, taken), c))
                                            = Cardinality(Later(log, c))
    BY <2>1, GrownLater, Zenon
  <2>3. QED
    BY <1>1, <2>2, Zenon
<1> HIDE DEF current, after, taken, next
<1>6. /\ start \in Nat /\ start - 1 \in Int /\ now > start - 1
      /\ (current + 1) * window = start + window
      /\ latest < (current + 1) * window /\ at <= (current + 1) * window
  <2>1. start \in Nat /\ (current + 1) * window = start + window
    BY <1>1, <1>3
  <2> HIDE DEF start
  <2>2. QED
    BY <1>1, <1>3, <2>1
<1>7. (IF seen < limit THEN seen ELSE limit) = had(start - 1)
  <2> HIDE DEF had, start
  <2>1. (IF seen < limit THEN seen ELSE limit) = had(current * window - 1)
    BY <1>2, <1>3, <1>6, Zenon
  <2>2. QED
    BY <2>1 DEF start
<1>8. AdmittedIn(log, start, now) = had(start - 1)
  <2>1. \A i \in DOMAIN log : log[i] \in Int /\ log[i] <= now
    BY <1>1
  <2> HIDE DEF start
  <2>2. start \in Int /\ now \in Int /\ \A i \in DOMAIN log : log[i] <= now
    BY <1>6, <2>1
  <2>3. Cardinality({i \in DOMAIN log : log[i] \in start .. now})
            = Cardinality(Later(log, start - 1))
    BY <1>1, <2>2, CountedFrom, Zenon
  <2>4. QED
    BY <2>3 DEF AdmittedIn
<1>9. had(start - 1) \in Nat
  <2> HIDE DEF had, has, start
  <2>1. QED
    BY <1>5, <1>6, Zenon
<1>10. taken <=> QuotaAdmits(strategy, log, now, limit, window)
  <2>1. QuotaAdmits(strategy, log, now, limit, window)
           <=> FixedWindowAdmits(log, now, limit, window)
    BY QuotaIs
  <2>2. FixedWindowAdmits(log, now, limit, window) <=> AdmittedIn(log, start, now) < limit
    BY <1>3 DEF FixedWindowAdmits, Truncate
  <2> DEFINE before == had(start - 1)
             found == seen
  <2>3. /\ found \in Nat /\ before \in Nat
        /\ (IF found < limit THEN found ELSE limit) = before
    BY <1>4, <1>7, <1>9
  <2> HIDE DEF before, found
  <2>4. found + 1 <= limit <=> before < limit
    BY <1>1, <2>3
  <2>5. seen + 1 <= limit <=> had(start - 1) < limit
    BY <2>4 DEF before, found
  <2>6. QED
    BY <1>4, <1>8, <2>1, <2>2, <2>5 DEF taken
<1> HIDE DEF had, has
<1>11. has(start - 1) = IF seen + 1 <= limit THEN had(start - 1) + 1 ELSE had(start - 1)
  <2> HIDE DEF start, seen
  <2>1. QED
    BY <1>4, <1>5, <1>6, Zenon
<1>12. ASSUME NEW n \in Nat, now < (n + 1) * window, at <= (n + 1) * window
       PROVE  LET named == WindowKey(key, n)
                  found == Get(after.db, named, 0)
              IN  /\ (IF found < limit THEN found ELSE limit) = has(n * window - 1)
                  /\ named \in DOMAIN after.db =>
                        (n + 1) * window <= after.db[named].expireAt
  <2> DEFINE named == WindowKey(key, n)
             found == Get(after.db, named, 0)
  <2>1. current <= n
    <3>1. n + 1 \in Int
      OBVIOUS
    <3>2. current < n + 1
      BY <1>3, <1>12, <3>1, Zenon
    <3>3. QED
      BY <1>3, <3>2
  <2>2. CASE n = current
    <3>1. /\ name \in DOMAIN after.db /\ after.db[name].value = seen + 1
          /\ after.db[name].expireAt
                = IF seen + 1 = 1 THEN at + window ELSE keyspace[name].expireAt
      BY <1>4 DEF Updated
    <3>2. found = seen + 1
      BY <2>2, <3>1 DEF Get
    <3>3. (current + 1) * window <= after.db[name].expireAt
      <4>1. CASE seen + 1 = 1
        <5> HIDE DEF start, seen, name
        <5>1. (current + 1) * window <= at + window
          BY <1>1, <1>3, <1>6
        <5>2. QED
          BY <3>1, <4>1, <5>1
      <4>2. CASE seen + 1 # 1
        <5>1. name \in DOMAIN keyspace
          BY <1>4, <4>2
        <5> HIDE DEF had, start, seen
        <5>2. (current + 1) * window <= keyspace[name].expireAt
          BY <1>2, <1>3, <1>6, <5>1
        <5>3. QED
          BY <3>1, <4>2, <5>2
      <4>3. QED
        BY <4>1, <4>2
    <3>4. (IF seen + 1 < limit THEN seen + 1 ELSE limit) = has(start - 1)
      <4> DEFINE before == had(start - 1)
                 beyond == has(start - 1)
                 counted == seen
      <4>1. /\ counted \in Nat /\ before \in Nat
            /\ (IF counted < limit THEN counted ELSE limit) = before
            /\ beyond = IF counted + 1 <= limit THEN before + 1 ELSE before
        BY <1>4, <1>7, <1>9, <1>11
      <4> HIDE DEF before, beyond, counted
      <4>2. (IF counted + 1 < limit THEN counted + 1 ELSE limit) = beyond
        BY <1>1, <4>1
      <4>3. QED
        BY <4>2 DEF beyond, counted
    <3>5. QED
      BY <2>2, <3>2, <3>3, <3>4
  <2>3. CASE n # current
    <3>1. named # name
      BY <2>3 DEF WindowKey
    <3>2. /\ named \in DOMAIN after.db <=> named \in DOMAIN keyspace
          /\ named \in DOMAIN keyspace => after.db[named] = keyspace[named]
      BY <1>4, <3>1 DEF Updated
    <3>3. found = Get(keyspace, named, 0)
      BY <3>2 DEF Get
    <3>4. now <= n * window - 1 /\ n * window - 1 \in Int /\ latest < (n + 1) * window
      <4>1. current + 1 <= n /\ n \in Int /\ current + 1 \in Int
        BY <1>3, <2>1, <2>3
      <4>2. (current + 1) * window <= n * window
        BY <1>1, <4>1, MultiplyLess
      <4>3. n * window \in Int /\ (n + 1) * window = n * window + window
        BY <1>1
      <4> DEFINE there == n * window
                 here == (current + 1) * window
      <4>4. there \in Int /\ here <= there /\ now < here /\ here \in Int
        BY <1>1, <1>3, <4>1, <4>2, <4>3
      <4> HIDE DEF there, here
      <4>5. now <= there - 1 /\ there - 1 \in Int /\ latest < there + window
        BY <1>1, <4>4
      <4>6. QED
        BY <4>3, <4>5 DEF there
    <3>5. has(n * window - 1) = had(n * window - 1)
      <4>1. ~(now > n * window - 1)
        BY <3>4
      <4>2. QED
        BY <1>5, <3>4, <4>1, Zenon
    <3>6. /\ (IF found < limit THEN found ELSE limit) = had(n * window - 1)
          /\ named \in DOMAIN keyspace => (n + 1) * window <= keyspace[named].expireAt
      BY <1>2, <1>12, <3>3, <3>4, Zenon
    <3>7. QED
      BY <3>2, <3>5, <3>6
  <2>4. QED
    BY <2>2, <2>3
<1>13. CountsWindows(next, now, after.db, at, key, policy)
  BY <1>12 DEF CountsWindows, has, limit, window
<1>14. OnQuota(next, now, after.db, at, key, policy)
  BY <1>5, <1>13 DEF OnQuota, Buckets
<1>15. QED
  BY <1>10, <1>14 DEF AnswersByQuota, after, taken, next, limit, window

(* What a request finds in the hash, moved to the window of its reading.   *)
LEMMA CountersFound ==
    ASSUME NEW keyspace, NEW at \in Nat, NEW key, NEW policy \in Policies, NEW now,
           Reading(now), Has(keyspace, Plain(key), Hashes),
           NEW log \in Seq(Nat), NEW latest \in Int, \A i \in DOMAIN log : log[i] <= latest,
           CountsTwoWindows(log, latest, keyspace, at, key, policy),
           latest <= now, at <= now + 1
    PROVE  LET window == WindowMs(policy.window)
               hash == Moved(keyspace, key, window, now)
               start == (now \div window) * window
           IN  /\ hash \in Hashes /\ hash.window = now \div window
               /\ hash.count = Cardinality(Later(log, start - 1))
               /\ hash.prevCount = Cardinality(Later(log, start - window - 1))
                                     - Cardinality(Later(log, start - 1))
<1> DEFINE window == WindowMs(policy.window)
           n == now \div window
           found == Get(keyspace, Plain(key), SC!NoHash)
           hash == Moved(keyspace, key, window, now)
           start == n * window
           had(c) == Cardinality(Later(log, c))
           since == found.window * window
<1>1. window \in Nat \ {0} /\ now \in Nat /\ now >= window
  BY PolicyIs DEF Reading
<1>2. hash = SC!Shift(found, n)
  BY DEF Moved
<1>3. \/ found = SC!NoHash /\ \A i \in DOMAIN log : log[i] + 2 * window < at
      \/ /\ found \in Hashes /\ since <= latest
         /\ \A i \in DOMAIN log : log[i] < since + window
         /\ found.count = had(since - 1)
  BY DEF Get, Has, CountsTwoWindows, Forgotten
<1>4. found \in Hashes /\ found.window = n =>
         found.prevCount = had(start - window - 1) - had(start - 1)
               /\ found.count = had(start - 1)
  <2>1. SC!NoHash \notin Hashes
    BY DEF SC!NoHash, Hashes
  <2>2. QED
    BY <2>1 DEF Get, Has, CountsTwoWindows
<1> HIDE DEF window, found, hash
<1>5. /\ n \in Nat \ {0} /\ start <= now /\ now < (n + 1) * window
      /\ \A k \in Int : k * window <= now => k <= n
  <2>1. 1 * window <= now
    BY <1>1
  <2>2. n \in Int /\ 1 <= n
    BY <1>1, <2>1, QuotientAtLeast
  <2>3. /\ n \in Nat /\ now - (now % window) = n * window
        /\ n * window <= now /\ now < (n + 1) * window
        /\ \A k \in Int : k * window <= now => k <= n
        /\ \A k \in Int : now < k * window => n < k
    BY <1>1, NumberOfWindow
  <2> HIDE DEF n
  <2>4. QED
    BY <2>2, <2>3
<1> HIDE DEF n
<1>6. start \in Nat /\ now < start + window
  BY <1>1, <1>5
<1>7. ASSUME NEW c \in Int, \A i \in DOMAIN log : log[i] <= c PROVE had(c) = 0
  BY <1>7, NoneLater
<1>8. ASSUME NEW c \in Int PROVE had(c) \in Nat
  BY LaterIsFinite
<1>9. \A i \in DOMAIN log : log[i] \in Nat
  OBVIOUS
<1> HIDE DEF had
<1>10. ASSUME \A i \in DOMAIN log : log[i] <= start - window - 1
       PROVE  had(start - 1) = 0 /\ had(start - window - 1) = 0
  <2> HIDE DEF start
  <2>1. start - 1 \in Int /\ start - window - 1 \in Int
    BY <1>1, <1>6
  <2>2. \A i \in DOMAIN log : log[i] <= start - 1
    BY <1>1, <1>6, <1>9, <1>10
  <2>3. QED
    BY <1>7, <1>10, <2>1, <2>2
<1>11. CASE found = SC!NoHash /\ \A i \in DOMAIN log : log[i] + 2 * window < at
  <2>1. hash = [window |-> n, count |-> 0, prevCount |-> 0]
    BY <1>2, <1>11 DEF SC!Shift, SC!NoHash
  <2>2. hash.window = n /\ hash.count = 0 /\ hash.prevCount = 0
    BY <2>1
  <2>3. \A i \in DOMAIN log : log[i] <= start - window - 1
    <3> HIDE DEF start
    <3>1. QED
      BY <1>1, <1>6, <1>9, <1>11
  <2>4. hash \in Hashes
    BY <1>5, <2>1 DEF Hashes
  <2>5. hash.count = had(start - 1) /\ hash.prevCount = had(start - window - 1) - had(start - 1)
    BY <1>10, <2>2, <2>3
  <2>6. QED
    BY <2>2, <2>4, <2>5 DEF hash, window, n, start, had
<1>12. CASE /\ found \in Hashes /\ since <= latest
            /\ \A i \in DOMAIN log : log[i] < since + window
            /\ found.count = had(since - 1)
  <2>1. found.window \in Nat \ {0} /\ found.count \in Nat /\ found.prevCount \in Nat
    BY <1>12 DEF Hashes
  <2>2. since \in Nat /\ found.window <= n
    <3>1. since \in Nat
      BY <1>1, <2>1
    <3>2. since <= now
      <4> HIDE DEF since
      <4>1. QED
        BY <1>1, <1>12, <3>1
    <3>3. QED
      BY <1>5, <2>1, <3>1, <3>2
  <2>3. CASE found.window = n
    <3>1. hash = found
      BY <1>2, <1>5, <2>1, <2>3 DEF SC!Shift
    <3>2. QED
      BY <1>4, <1>12, <2>3, <3>1 DEF hash, window, n, start, had
  <2>4. CASE found.window # n
    <3>1. n > found.window
      BY <1>5, <2>1, <2>2, <2>4
    <3>2. hash = [window |-> n, count |-> 0,
                  prevCount |-> IF n = found.window + 1 THEN found.count ELSE 0]
      BY <1>2, <2>1, <3>1 DEF SC!Shift
    <3>3. /\ hash.window = n /\ hash.count = 0
          /\ hash.prevCount = IF n = found.window + 1 THEN found.count ELSE 0
      BY <3>2
    <3>4. hash \in Hashes
      BY <1>5, <2>1, <3>2 DEF Hashes
    <3>5. CASE n = found.window + 1
      <4>1. start = since + window
        BY <1>1, <2>1, <3>5
      <4> HIDE DEF start, since
      <4>2. \A i \in DOMAIN log : log[i] <= start - 1
        BY <1>1, <1>9, <1>12, <2>2, <4>1
      <4>3. start - 1 \in Int /\ start - window - 1 = since - 1
        BY <1>1, <2>2, <4>1
      <4>4. had(start - 1) = 0
        BY <1>7, <4>2, <4>3
      <4>5. had(start - window - 1) = found.count
        BY <1>12, <4>3
      <4>6. /\ hash.count = had(start - 1)
            /\ hash.prevCount = had(start - window - 1) - had(start - 1)
        BY <2>1, <3>3, <3>5, <4>4, <4>5
      <4>7. QED
        BY <3>3, <3>4, <4>6 DEF hash, window, n, start, had
    <3>6. CASE n # found.window + 1
      <4>1. found.window + 2 <= n
        BY <1>5, <2>1, <3>1, <3>6
      <4>2. (found.window + 2) * window <= start
        <5>1. found.window + 2 \in Int /\ n \in Int /\ window \in Nat
          BY <1>1, <1>5, <2>1
        <5>2. QED
          BY <4>1, <5>1, MultiplyLess
      <4>3. (found.window + 2) * window = since + 2 * window
        BY <1>1, <2>1
      <4> HIDE DEF start, since
      <4>4. \A i \in DOMAIN log : log[i] <= start - window - 1
        BY <1>1, <1>6, <1>9, <1>12, <2>2, <4>2, <4>3
      <4>5. /\ hash.count = had(start - 1)
            /\ hash.prevCount = had(start - window - 1) - had(start - 1)
        BY <1>10, <3>3, <3>6, <4>4
      <4>6. QED
        BY <3>3, <3>4, <4>5 DEF hash, window, n, start, had
    <3>7. QED
      BY <3>5, <3>6
  <2>5. QED
    BY <2>3, <2>4
<1>13. QED
  BY <1>3, <1>11, <1>12

(* The two counters are the admissions of the two windows.                 *)
LEMMA CountersAnswer ==
    ASSUME NEW keyspace, NEW at \in Nat, NEW key, NEW policy \in Policies, NEW now,
           Reading(now), Typed(keyspace, key), strategy = "sliding_counter",
           NEW log, NEW latest, OnQuota(log, latest, keyspace, at, key, policy),
           latest <= now, now <= at, at <= now + 1
    PROVE  AnswersByQuota(log, latest, keyspace, at, key, policy, now)
<1> DEFINE limit == policy.limit
           window == WindowMs(policy.window)
           n == now \div window
           hash == Moved(keyspace, key, window, now)
           after == Script(keyspace, at, key, policy, now)
           taken == after.reply.allowed
           next == Grown(log, now, taken)
           start == n * window
           weight == Weight(hash, window, now)
           counted == IF taken THEN hash.count + 1 ELSE hash.count
           had(c) == Cardinality(Later(log, c))
           has(c) == Cardinality(Later(next, c))
<1>1. /\ limit \in Nat \ {0} /\ window \in Nat \ {0} /\ now \in Nat
      /\ log \in Seq(Nat) /\ latest \in Int /\ \A i \in DOMAIN log : log[i] <= latest
  BY PolicyIs DEF OnQuota, Reading
<1>2. CountsTwoWindows(log, latest, keyspace, at, key, policy) /\ Has(keyspace, Plain(key), Hashes)
  BY DEF OnQuota, Typed
<1>3. /\ hash \in Hashes /\ hash.window = n
      /\ hash.count = had(start - 1)
      /\ hash.prevCount = had(start - window - 1) - had(start - 1)
  <2>1. /\ log \in Seq(Nat) /\ latest \in Int /\ \A i \in DOMAIN log : log[i] <= latest
        /\ CountsTwoWindows(log, latest, keyspace, at, key, policy)
        /\ Has(keyspace, Plain(key), Hashes) /\ Reading(now)
    BY <1>1, <1>2
  <2> HIDE DEF limit, after, taken, next, weight, counted, has
  <2>2. QED
    BY <2>1, CountersFound
<1>4. hash.count \in Nat /\ hash.prevCount \in Nat
  BY <1>3 DEF Hashes
<1>5. /\ taken <=> weight + hash.count + 1 <= limit
      /\ Updated(keyspace, after.db, Plain(key), [hash EXCEPT !.count = counted],
                 at + 2 * window)
  <2>1. after = SC!RedisScript(keyspace, at, key, limit, window, now)
    BY DEF Script, limit, window
  <2> DEFINE estimate == Estimate(hash, window, now)
             spent == IF estimate + 1 <= limit THEN 1 ELSE 0
             left == SC!RedisScript(keyspace, at, key, limit, window, now)
  <2>2. /\ left.reply.allowed = (estimate + 1 <= limit)
        /\ Updated(keyspace, left.db, Plain(key), [hash EXCEPT !.count = @ + spent],
                   at + 2 * window)
    BY SlidingCounterRuns
  <2>3. estimate = weight + hash.count
    BY DEF Estimate
  <2> HIDE DEF left, estimate, weight, after, hash, limit, window
  <2>4. taken <=> estimate + 1 <= limit
    BY <2>1, <2>2 DEF left
  <2>5. [hash EXCEPT !.count = @ + spent] = [hash EXCEPT !.count = counted]
    <3>1. [hash EXCEPT !.count = @ + spent] = [hash EXCEPT !.count = hash.count + spent]
      OBVIOUS
    <3>2. hash.count + spent = counted
      BY <1>4, <2>4
    <3>3. QED
      BY <3>1, <3>2
  <2>6. QED
    BY <2>1, <2>2, <2>3, <2>4, <2>5 DEF left
<1> HIDE DEF limit, window, hash, after, taken, weight
<1>6. /\ next \in Seq(Nat)
      /\ \A i \in DOMAIN next : next[i] <= now
      /\ \A c \in Int : /\ had(c) \in Nat
                        /\ taken /\ now > c => has(c) = had(c) + 1
                        /\ ~taken \/ ~(now > c) => has(c) = had(c)
  <2>1. log \in Seq(Nat) /\ now \in Nat
    BY <1>1
  <2>2. /\ Grown(log, now, taken) \in Seq(Nat)
        /\ \A t \in Int : t <= now /\ (\A i \in DOMAIN log : log[i] <= t) =>
              \A i \in DOMAIN Grown(log, now, taken) : Grown(log, now, taken)[i] <= now
        /\ \A c \in Int :
              /\ Cardinality(Later(log, c)) \in Nat
              /\ taken /\ now > c => Cardinality(Later(Grown(log, now, taken), c))
                                      = Cardinality(Later(log, c)) + 1
              /\ ~taken \/ ~(now > c) => Cardinality(Later(Grown(log, now, taken), c))
                                            = Cardinality(Later(log, c))
    BY <2>1, GrownLater, Zenon
  <2>3. QED
    BY <1>1, <2>2, Zenon
<1>7. /\ start \in Nat /\ start <= now /\ now < start + window
      /\ now - (now % window) = start
  <2>1. /\ n \in Nat /\ now - (now % window) = n * window
        /\ n * window <= now /\ now < (n + 1) * window
    BY <1>1, NumberOfWindow
  <2> HIDE DEF n
  <2>2. QED
    BY <1>1, <2>1
<1> HIDE DEF next, had, has
<1>8. AdmittedIn(log, start, now) = hash.count
  <2> HIDE DEF start
  <2>1. \A i \in DOMAIN log : log[i] \in Nat
    BY <1>1
  <2>2. log \in Seq(Nat) /\ start \in Int /\ now \in Int /\ \A i \in DOMAIN log : log[i] <= now
    BY <1>1, <1>7, <2>1
  <2>3. Cardinality({i \in DOMAIN log : log[i] \in start .. now})
            = Cardinality(Later(log, start - 1))
    BY <2>2, CountedFrom, Zenon
  <2>4. QED
    BY <1>3, <2>3 DEF AdmittedIn, had
<1>9. AdmittedIn(log, start - window, start - 1) = hash.prevCount
  <2> DEFINE from == start - window
             to == start - 1
  <2>1. from \in Int /\ to \in Int /\ from <= to + 1
    BY <1>1, <1>7
  <2>2. hash.prevCount = had(from - 1) - had(to)
    BY <1>3
  <2> HIDE DEF from, to
  <2>3. AdmittedIn(log, from, to) = had(from - 1) - had(to)
    BY <1>1, <2>1, CountedBetween DEF AdmittedIn, had
  <2>4. QED
    BY <2>2, <2>3 DEF from, to
<1>10. weight = (hash.prevCount * (window - (now - start))) \div window /\ weight \in Int
  <2> DEFINE share == window - (now - start)
             product == hash.prevCount * share
  <2>1. share \in Int /\ ~(share < 0)
    <3> HIDE DEF start
    <3>1. QED
      BY <1>1, <1>7
  <2>2. weight = (hash.prevCount * NonNegative(share)) \div window
    BY <1>3 DEF Weight, weight
  <2> HIDE DEF share
  <2>3. NonNegative(share) = share
    BY <2>1 DEF NonNegative
  <2>4. product \in Int
    BY <1>4, <2>1
  <2>5. weight = product \div window
    BY <2>2, <2>3
  <2> HIDE DEF product
  <2>6. product \div window \in Int
    BY <1>1, <2>4
  <2>7. QED
    BY <2>5, <2>6 DEF product, share
<1> HIDE DEF counted
<1>11. taken <=> QuotaAdmits(strategy, log, now, limit, window)
  <2>1. QuotaAdmits(strategy, log, now, limit, window)
           <=> SlidingCounterAdmits(log, now, limit, window)
    BY QuotaIs
  <2> HIDE DEF start
  <2>2. SlidingCounterAdmits(log, now, limit, window) <=> weight + hash.count < limit
    BY <1>7, <1>8, <1>9, <1>10 DEF SlidingCounterAdmits, Truncate
  <2>3. weight + hash.count < limit <=> weight + hash.count + 1 <= limit
    BY <1>1, <1>4, <1>10
  <2>4. QED
    BY <1>5, <2>1, <2>2, <2>3
<1>12. /\ counted = has(start - 1)
       /\ hash.prevCount = has(start - window - 1) - has(start - 1)
  <2> DEFINE a == start - 1
             b == start - window - 1
  <2>1. hash.count = had(a) /\ hash.prevCount = had(b) - had(a)
    BY <1>3
  <2> HIDE DEF start
  <2>2. a \in Int /\ b \in Int /\ now > a /\ now > b
    BY <1>1, <1>7
  <2> HIDE DEF a, b
  <2>3. had(a) \in Nat /\ had(b) \in Nat
    BY <1>6, <2>2, Zenon
  <2>4. /\ taken => has(a) = had(a) + 1 /\ has(b) = had(b) + 1
        /\ ~taken => has(a) = had(a) /\ has(b) = had(b)
    BY <1>6, <2>2, Zenon
  <2>5. /\ taken => counted = hash.count + 1
        /\ ~taken => counted = hash.count
    BY DEF counted
  <2>6. counted = has(a) /\ hash.prevCount = has(b) - has(a)
    BY <2>1, <2>3, <2>4, <2>5
  <2>7. QED
    BY <2>6 DEF a, b
<1>13. /\ Plain(key) \in DOMAIN after.db
       /\ after.db[Plain(key)].value = [hash EXCEPT !.count = counted]
       /\ after.db[Plain(key)].expireAt = at + 2 * window
  BY <1>5 DEF Updated
<1>14. /\ after.db[Plain(key)].value.window = n
       /\ after.db[Plain(key)].value.count = counted
       /\ after.db[Plain(key)].value.prevCount = hash.prevCount
  BY <1>3, <1>13 DEF Hashes
<1>15. \A i \in DOMAIN next : next[i] < start + window
  <2> HIDE DEF start
  <2>1. \A i \in DOMAIN next : next[i] \in Nat
    <3>1. next \in Seq(Nat)
      BY <1>6
    <3>2. QED
      BY <3>1
  <2>2. QED
    BY <1>1, <1>6, <1>7, <2>1
<1>16. now + 2 * window <= at + 2 * window
  BY <1>1
<1>17. CountsTwoWindows(next, now, after.db, at, key, policy)
  <2> DEFINE left == after.db[Plain(key)].value
  <2>1. /\ left.window * window = start
        /\ left.count = has(start - 1)
        /\ left.prevCount = has(start - window - 1) - has(start - 1)
    BY <1>12, <1>14
  <2>2. /\ left.window * window <= now
        /\ now + 2 * window <= after.db[Plain(key)].expireAt
        /\ \A i \in DOMAIN next : next[i] < left.window * window + window
        /\ left.count = has(left.window * window - 1)
        /\ left.prevCount = has(left.window * window - window - 1)
                              - has(left.window * window - 1)
    BY <1>7, <1>13, <1>15, <1>16, <2>1
  <2> HIDE DEF left, start
  <2>3. QED
    BY <1>13, <2>2 DEF CountsTwoWindows, has, left, window
<1>18. OnQuota(next, now, after.db, at, key, policy)
  BY <1>1, <1>6, <1>17 DEF OnQuota, Buckets
<1>19. QED
  BY <1>11, <1>18 DEF AnswersByQuota, after, taken, next, limit, window

(* The members that are alive are as many as the admissions of the window. *)
LEMMA LogAnswers ==
    ASSUME NEW keyspace, NEW at \in Nat, NEW key, NEW policy \in Policies, NEW now \in Nat,
           Typed(keyspace, key), strategy = "sliding_log",
           NEW log, NEW latest, OnQuota(log, latest, keyspace, at, key, policy),
           latest <= now, now <= at, at <= now + 1
    PROVE  AnswersByQuota(log, latest, keyspace, at, key, policy, now)
<1> DEFINE limit == policy.limit
           window == WindowMs(policy.window)
           after == Script(keyspace, at, key, policy, now)
           left == after.db
           taken == after.reply.allowed
           next == Grown(log, now, taken)
           live == Alive(keyspace, key, window, now)
           count == Cardinality(live)
           seq == NextSeq(keyspace, key)
           logged == Logged(keyspace, key, limit, window, now)
           old == LogOf(keyspace, key)
           numbered == SeqKey(key) \in DOMAIN keyspace
           number == keyspace[SeqKey(key)]
           had(c) == Cardinality(Later(log, c))
           has(c) == Cardinality(Later(next, c))
<1>1. /\ limit \in Nat \ {0} /\ window \in Nat \ {0}
      /\ log \in Seq(Nat) /\ latest \in Int /\ \A i \in DOMAIN log : log[i] <= latest
  BY PolicyIs DEF OnQuota
<1>2. Has(keyspace, Plain(key), Logs) /\ Has(keyspace, SeqKey(key), Nat \ {0})
  BY DEF Typed
<1>3. /\ \A c \in Int : c >= latest - window /\ c + 1 >= at - window =>
            Cardinality(Members(old, c)) = had(c)
      /\ \A m \in old :
            /\ ~numbered => m[1] + 2 * window < at
            /\ numbered => m[2] <= number.value /\ m[1] + 2 * window <= number.expireAt
  BY DEF OnQuota, KeepsWindow
<1>4. /\ Plain(key) \in DOMAIN left
      /\ left[Plain(key)] = [value |-> logged, expireAt |-> at + 2 * window]
      /\ LogOf(left, key) = logged
      /\ count < limit =>
            /\ SeqKey(key) \in DOMAIN left
            /\ left[SeqKey(key)] = [value |-> seq, expireAt |-> at + 2 * window]
      /\ ~(count < limit) =>
            /\ SeqKey(key) \in DOMAIN left <=> numbered
            /\ numbered => left[SeqKey(key)] = number
      /\ taken = (count < limit)
  <2> DEFINE before == Numbered(keyspace, at, key, window)
             run == SL!RedisScript(keyspace, at, key, limit, window, now)
  <2>1. after = run
    BY DEF Script
  <2>2. /\ Plain(key) \in DOMAIN run.db
        /\ run.db[Plain(key)] = [value |-> logged, expireAt |-> at + 2 * window]
        /\ LogOf(run.db, key) = logged
        /\ count < limit =>
              /\ SeqKey(key) \in DOMAIN run.db
              /\ run.db[SeqKey(key)] = [value |-> seq, expireAt |-> at + 2 * window]
        /\ ~(count < limit) =>
              /\ SeqKey(key) \in DOMAIN run.db <=> SeqKey(key) \in DOMAIN keyspace
              /\ SeqKey(key) \in DOMAIN keyspace =>
                    run.db[SeqKey(key)] = keyspace[SeqKey(key)]
    BY <1>2, SlidingLogLeaves
  <2>3. /\ run.reply.allowed = (count < limit)
        /\ run.reply.remaining = IF count < limit THEN limit - (count + 1) ELSE 0
        /\ run.reply.resetMs = NonNegative(SL!Oldest(logged) + window - now)
        /\ Updated(keyspace, before, SeqKey(key), seq, at + 2 * window)
        /\ Updated(IF count < limit THEN before ELSE keyspace, run.db, Plain(key), logged,
                   at + 2 * window)
    BY SlidingLogRuns
  <2> HIDE DEF after, run, logged, count, seq, before
  <2>4. QED
    BY <2>1, <2>2, <2>3
<1>5. old \subseteq Nat \X (Nat \ {0}) /\ IsFiniteSet(old)
  BY <1>2, LogsAre
<1>6. live = {m \in old : m[1] > now - window} /\ count \in Nat
  BY <1>2, AliveIs
<1>7. /\ taken => logged = live \cup {<<now, seq>>}
      /\ ~taken => logged = live
  <2>1. logged = IF count < limit THEN live \cup {<<now, seq>>} ELSE live
    BY DEF Logged
  <2>2. taken = (count < limit)
    BY <1>4
  <2> HIDE DEF taken, logged, live, count, limit
  <2>3. QED
    BY <2>1, <2>2
<1>8. /\ seq \in Nat
      /\ numbered => number.value \in Nat /\ seq = number.value + 1
  BY <1>2 DEF NextSeq, Get, Has
<1> HIDE DEF limit, window, after, left, taken, live, count, seq, logged, old, numbered, number
<1>9. /\ next \in Seq(Nat)
      /\ \A i \in DOMAIN next : next[i] <= now
      /\ \A c \in Int : /\ had(c) \in Nat
                        /\ taken /\ now > c => has(c) = had(c) + 1
                        /\ ~taken \/ ~(now > c) => has(c) = had(c)
  <2>1. log \in Seq(Nat)
    BY <1>1
  <2>2. /\ Grown(log, now, taken) \in Seq(Nat)
        /\ \A t \in Int : t <= now /\ (\A i \in DOMAIN log : log[i] <= t) =>
              \A i \in DOMAIN Grown(log, now, taken) : Grown(log, now, taken)[i] <= now
        /\ \A c \in Int :
              /\ Cardinality(Later(log, c)) \in Nat
              /\ taken /\ now > c => Cardinality(Later(Grown(log, now, taken), c))
                                      = Cardinality(Later(log, c)) + 1
              /\ ~taken \/ ~(now > c) => Cardinality(Later(Grown(log, now, taken), c))
                                            = Cardinality(Later(log, c))
    BY <2>1, GrownLater, Zenon
  <2>3. QED
    BY <1>1, <2>2, Zenon
<1> HIDE DEF next, had, has
<1>10. now - window \in Int /\ now - window >= latest - window /\ now - window + 1 >= at - window
  BY <1>1
<1>11. \A m \in old : m[1] \in Nat /\ m[2] \in Nat
  BY <1>5
<1>12. \A m \in live : /\ m \in old /\ m[1] \in Nat /\ m[2] \in Nat /\ m[1] > now - window
                       /\ numbered /\ m[2] <= number.value
                       /\ m[1] + 2 * window <= number.expireAt
  <2> SUFFICES ASSUME NEW m \in live
               PROVE  /\ m \in old /\ m[1] \in Nat /\ m[2] \in Nat /\ m[1] > now - window
                      /\ numbered /\ m[2] <= number.value
                      /\ m[1] + 2 * window <= number.expireAt
    OBVIOUS
  <2>1. m \in old /\ m[1] \in Nat /\ m[2] \in Nat /\ m[1] > now - window
    BY <1>6, <1>11
  <2>2. ~(m[1] + 2 * window < at)
    BY <1>1, <2>1
  <2>3. QED
    BY <1>3, <2>1, <2>2
<1>13. <<now, seq>> \notin live
  <2>1. ASSUME <<now, seq>> \in live PROVE FALSE
    <3>1. seq <= number.value /\ numbered
      BY <1>12, <2>1
    <3>2. QED
      BY <1>8, <3>1
  <2>2. QED
    BY <2>1
<1>14. taken <=> QuotaAdmits(strategy, log, now, limit, window)
  <2>1. QuotaAdmits(strategy, log, now, limit, window)
           <=> SlidingLogAdmits(log, now, limit, window)
    BY QuotaIs
  <2> DEFINE from == now - window + 1
  <2>2. now \div Milli - window \div Milli + 1 = from /\ from * Milli = from
    <3>1. Milli = 1
      BY RedisAssumption
    <3>2. now \div 1 = now /\ window \div 1 = window /\ from \in Int
      BY <1>1
    <3> HIDE DEF from
    <3>3. from * 1 = from
      BY <3>2
    <3>4. QED
      BY <3>1, <3>2, <3>3 DEF from
  <2>3. AdmittedIn(log, from, now) = had(now - window)
    <3>1. \A i \in DOMAIN log : log[i] \in Nat
      BY <1>1
    <3>2. /\ log \in Seq(Nat) /\ from \in Int /\ now \in Int
          /\ \A i \in DOMAIN log : log[i] <= now
      BY <1>1, <3>1
    <3>3. from - 1 = now - window
      BY <1>1
    <3> HIDE DEF from
    <3>4. Cardinality({i \in DOMAIN log : log[i] \in from .. now})
              = Cardinality(Later(log, from - 1))
      BY <3>2, CountedFrom, Zenon
    <3>5. QED
      BY <3>3, <3>4 DEF AdmittedIn, had
  <2> HIDE DEF from
  <2>4. SlidingLogAdmits(log, now, limit, window) <=> AdmittedIn(log, from, now) < limit
    BY <2>2 DEF SlidingLogAdmits
  <2>5. live = Members(old, now - window)
    BY <1>6 DEF Members
  <2>6. count = had(now - window)
    <3>1. Cardinality(Members(old, now - window)) = had(now - window)
      BY <1>3, <1>10
    <3>2. QED
      BY <2>5, <3>1 DEF count
  <2>7. QED
    BY <1>4, <2>1, <2>3, <2>4, <2>6
<1>15. ASSUME NEW c \in Int, c >= now - window
       PROVE  Cardinality(Members(logged, c)) = has(c)
  <2>1. Cardinality(Members(old, c)) = had(c)
    <3>1. c >= latest - window /\ c + 1 >= at - window
      BY <1>1, <1>15
    <3>2. QED
      BY <1>3, <3>1
  <2>2. Members(live, c) = Members(old, c)
    BY <1>1, <1>6, <1>11, <1>15 DEF Members
  <2>3. IsFiniteSet(Members(live, c))
    <3>1. Members(live, c) \subseteq old
      BY <1>6 DEF Members
    <3>2. QED
      BY <1>5, <3>1, FS_Subset
  <2>4. CASE taken /\ now > c
    <3>1. Members(logged, c) = Members(live, c) \cup {<<now, seq>>}
      BY <1>7, <2>4 DEF Members
    <3>2. <<now, seq>> \notin Members(live, c)
      BY <1>13 DEF Members
    <3>3. Cardinality(Members(logged, c)) = Cardinality(Members(live, c)) + 1
      BY <2>3, <3>1, <3>2, FS_AddElement
    <3>4. has(c) = had(c) + 1
      BY <1>9, <2>4, Zenon
    <3>5. QED
      BY <2>1, <2>2, <3>3, <3>4
  <2>5. CASE ~(taken /\ now > c)
    <3>1. Members(logged, c) = Members(live, c)
      <4>1. (logged = live \cup {<<now, seq>>} /\ ~(now > c)) \/ logged = live
        BY <1>7, <2>5
      <4>2. QED
        BY <4>1 DEF Members
    <3>2. has(c) = had(c)
      BY <1>9, <2>5, Zenon
    <3>3. QED
      BY <2>1, <2>2, <3>1, <3>2
  <2>6. QED
    BY <2>4, <2>5
<1>16. ASSUME NEW m \in logged
       PROVE  /\ m[1] <= now
              /\ SeqKey(key) \notin DOMAIN left => m[1] + 2 * window < at
              /\ SeqKey(key) \in DOMAIN left =>
                    /\ m[2] <= left[SeqKey(key)].value
                    /\ m[1] + 2 * window <= left[SeqKey(key)].expireAt
  <2>1. CASE taken
    <3>1. /\ SeqKey(key) \in DOMAIN left /\ left[SeqKey(key)].value = seq
          /\ left[SeqKey(key)].expireAt = at + 2 * window
      <4>1. count < limit
        BY <1>4, <2>1
      <4>2. /\ SeqKey(key) \in DOMAIN left
            /\ left[SeqKey(key)] = [value |-> seq, expireAt |-> at + 2 * window]
        BY <1>4, <4>1
      <4>3. QED
        BY <4>2
    <3>2. CASE m = <<now, seq>>
      <4>1. m[1] = now /\ m[2] = seq
        BY <3>2
      <4>2. now + 2 * window <= at + 2 * window /\ seq <= seq
        BY <1>1, <1>8
      <4>3. QED
        BY <3>1, <4>1, <4>2
    <3>3. CASE m \in live
      <4>1. m[1] \in Nat /\ m[2] \in Nat /\ m[2] <= seq
        BY <1>8, <1>12, <3>3
      <4>2. m[1] <= latest
        BY <1>12, <3>3 DEF OnQuota, KeepsWindow, old
      <4>3. m[1] <= now /\ m[1] + 2 * window <= at + 2 * window
        BY <1>1, <4>1, <4>2
      <4>4. QED
        BY <3>1, <4>1, <4>3
    <3>4. QED
      BY <1>4, <1>7, <2>1, <3>2, <3>3
  <2>2. CASE ~taken
    <3>1. m \in live
      BY <1>4, <1>7, <2>2
    <3>2. m[1] <= latest /\ m[1] \in Nat
      BY <1>12, <3>1 DEF OnQuota, KeepsWindow, old
    <3>3. m[1] <= now
      BY <1>1, <3>2
    <3>4. /\ numbered /\ m[2] <= number.value /\ m[1] + 2 * window <= number.expireAt
      BY <1>12, <3>1
    <3>5. SeqKey(key) \in DOMAIN left /\ left[SeqKey(key)] = number
      BY <1>4, <2>2, <3>4
    <3>6. QED
      BY <3>3, <3>4, <3>5
  <2>3. QED
    BY <2>1, <2>2
<1>17. KeepsWindow(next, now, left, at, key, policy)
  <2>1. now + 2 * window <= left[Plain(key)].expireAt
    BY <1>1, <1>4
  <2>2. \A c \in Int : c >= now - window /\ c + 1 >= at - window =>
              Cardinality(Members(LogOf(left, key), c)) = Cardinality(Later(next, c))
    BY <1>4, <1>15 DEF has
  <2>3. QED
    BY <1>4, <1>16, <2>1, <2>2 DEF KeepsWindow, window
<1>18. OnQuota(next, now, left, at, key, policy)
  BY <1>9, <1>17 DEF OnQuota, Buckets
<1>19. QED
  BY <1>14, <1>18 DEF AnswersByQuota, after, left, taken, next, limit, window

(* What a bucket holds is exactly what the quota leaves.                   *)
LEMMA BucketAnswers ==
    ASSUME NEW keyspace, NEW at \in Nat, NEW key, NEW policy \in Policies, NEW now \in Nat,
           Typed(keyspace, key), strategy \in Buckets,
           NEW log, NEW latest, OnQuota(log, latest, keyspace, at, key, policy),
           latest <= now, now <= at, at <= now + 1
    PROVE  AnswersByQuota(log, latest, keyspace, at, key, policy, now)
<1> DEFINE limit == policy.limit
           window == WindowMs(policy.window)
           full == FullOf(policy)
           rate == RateOf(policy)
           after == Script(keyspace, at, key, policy, now)
           taken == after.reply.allowed
           next == Grown(log, now, taken)
           held == HeldIn(keyspace, key, policy)
           found == FoundIn(keyspace, key, policy, now)
           left == HeldIn(after.db, key, policy)
<1>1. /\ limit \in Nat \ {0} /\ window \in Nat \ {0} /\ TokenUnit \in Nat \ {0}
      /\ TokenUnit % window = 0
      /\ rate \in Nat \ {0} /\ full \in Nat /\ TokenUnit <= full
      /\ log \in Seq(Nat) /\ latest \in Int /\ \A i \in DOMAIN log : log[i] <= latest
  BY PolicyIs, RateIs DEF OnQuota
<1>2. HoldsTheRest(log, latest, keyspace, at, key, policy)
  BY DEF OnQuota
<1>3. /\ Plain(key) \notin DOMAIN keyspace => Fits(log, full, at - 1, policy)
      /\ Plain(key) \in DOMAIN keyspace =>
            /\ LastIn(keyspace, key) = latest /\ held \in 0 .. full
            /\ Fits(log, held, latest, policy) /\ Tight(log, held, latest, policy)
  BY <1>2 DEF HoldsTheRest
<1>4. /\ found \in 0 .. full
      /\ taken = (found >= TokenUnit)
      /\ Plain(key) \in DOMAIN after.db
      /\ LastIn(after.db, key) = now
      /\ left = LeftIn(keyspace, key, policy, now)
      /\ after.db[Plain(key)].expireAt = at + 2 * window
  <2>1. Plain(key) \in DOMAIN keyspace => HeldIn(keyspace, key, policy) \in 0 .. FullOf(policy)
    BY <1>3
  <2>2. QED
    BY <2>1, BucketPays
<1>5. left = IF found >= TokenUnit THEN found - TokenUnit ELSE found
  BY <1>4 DEF LeftIn
<1>6. /\ Plain(key) \notin DOMAIN keyspace => found = full
      /\ Plain(key) \in DOMAIN keyspace =>
            \/ found = full /\ full <= held + (now - latest) * rate
            \/ found = held + (now - latest) * rate
  <2>1. Plain(key) \notin DOMAIN keyspace => found = full
    BY DEF FoundIn
  <2>2. ASSUME Plain(key) \in DOMAIN keyspace
        PROVE  \/ found = full /\ full <= held + (now - latest) * rate
               \/ found = held + (now - latest) * rate
    <3> DEFINE refill == (now - latest) * rate
    <3>1. now - latest \in Nat /\ NonNegative(now - latest) = now - latest
      BY <1>1 DEF NonNegative
    <3>2. found = Least(full, held + refill)
      BY <1>3, <2>2, <3>1 DEF FoundIn
    <3>3. refill \in Int
      BY <1>1, <3>1
    <3> HIDE DEF refill, found, held, full
    <3>4. \/ found = full /\ full <= held + refill
          \/ found = held + refill
      BY <1>1, <1>3, <2>2, <3>2, <3>3 DEF Least
    <3>5. QED
      BY <3>4 DEF refill
  <2>3. QED
    BY <2>1, <2>2
<1> HIDE DEF limit, window, full, rate, after, taken, held, found, left
<1>7. /\ next \in Seq(Nat) /\ \A i \in DOMAIN next : next[i] <= now
      /\ \A i \in DOMAIN log : log[i] <= now
  <2>1. log \in Seq(Nat)
    BY <1>1
  <2>2. /\ Grown(log, now, taken) \in Seq(Nat)
        /\ \A t \in Int : t <= now /\ (\A i \in DOMAIN log : log[i] <= t) =>
              \A i \in DOMAIN Grown(log, now, taken) : Grown(log, now, taken)[i] <= now
        /\ \A c \in Int :
              /\ Cardinality(Later(log, c)) \in Nat
              /\ taken /\ now > c => Cardinality(Later(Grown(log, now, taken), c))
                                      = Cardinality(Later(log, c)) + 1
              /\ ~taken \/ ~(now > c) => Cardinality(Later(Grown(log, now, taken), c))
                                            = Cardinality(Later(log, c))
    BY <2>1, GrownLater, Zenon
  <2>3. next \in Seq(Nat) /\ \A i \in DOMAIN next : next[i] <= now
    BY <1>1, <2>2, Zenon
  <2>4. \A i \in DOMAIN log : log[i] \in Nat
    BY <1>1
  <2>5. QED
    BY <1>1, <2>3, <2>4
<1>8. Fits(log, found, now, policy) /\ Tight(log, found, now, policy)
  <2>1. found \in Int /\ found <= full
    BY <1>1, <1>4
  <2>2. CASE Plain(key) \notin DOMAIN keyspace
    <3> DEFINE reach == at - 1
               refill == (now - reach) * rate
    <3>1. reach \in Int /\ reach <= now /\ now - reach \in Nat
      OBVIOUS
    <3>2. Fits(log, full, reach, policy) /\ found = full
      BY <1>3, <1>6, <2>2
    <3> HIDE DEF reach
    <3>3. refill \in Nat
      BY <1>1, <3>1
    <3> DEFINE more == full + refill
    <3>4. found <= more
      <4> HIDE DEF refill
      <4>1. QED
        BY <1>1, <3>2, <3>3
    <3>5. found <= full + (now - reach) * rate
      BY <3>4
    <3>6. Within(log, full, reach, TokenUnit, full, rate)
      BY <3>2 DEF Fits, full, rate
    <3>7. Within(log, found, now, TokenUnit, full, rate)
      BY <1>1, <2>1, <3>1, <3>5, <3>6, WithinLater
    <3>8. QED
      BY <3>2, <3>7 DEF Fits, Tight, Exact, full, rate
  <2>3. CASE Plain(key) \in DOMAIN keyspace
    <3>1. /\ held \in Int /\ held <= full
          /\ Within(log, held, latest, TokenUnit, full, rate)
          /\ Exact(log, held, latest, TokenUnit, full, rate)
      BY <1>1, <1>3, <2>3 DEF Fits, Tight, full, rate
    <3> DEFINE later == held + (now - latest) * rate
    <3>2. later \in Int
      BY <1>1, <3>1
    <3>3. (found = full /\ full <= later) \/ found = later
      BY <1>6, <2>3
    <3>4. found <= later /\ (found = full \/ found = later)
      <4> HIDE DEF later
      <4>1. QED
        BY <1>1, <2>1, <3>2, <3>3
    <3>5. Within(log, found, now, TokenUnit, full, rate)
      BY <1>1, <2>1, <3>1, <3>4, WithinLater
    <3>6. Exact(log, found, now, TokenUnit, full, rate)
      <4>1. found = full \/ found = held + (now - latest) * rate
        BY <3>4
      <4> HIDE DEF later
      <4>2. /\ TokenUnit \in Nat /\ full \in Nat /\ rate \in Nat
            /\ log \in Seq(Nat) /\ held \in Int /\ latest \in Int /\ held <= full
            /\ Exact(log, held, latest, TokenUnit, full, rate)
            /\ now \in Int /\ latest <= now /\ \A j \in DOMAIN log : log[j] <= now
            /\ found \in Int /\ found <= full
        BY <1>1, <1>7, <2>1, <3>1
      <4>3. QED
        BY <4>1, <4>2, ExactLater, Zenon
    <3>7. QED
      BY <3>5, <3>6 DEF Fits, Tight, full, rate
  <2>4. QED
    BY <2>2, <2>3
<1>9. taken <=> QuotaAdmits(strategy, log, now, limit, window)
  <2>1. QuotaAdmits(strategy, log, now, limit, window) <=> WithinRate(log, now, limit, window, 1)
    BY QuotaIs
  <2>2. found >= TokenUnit
           <=> \A i \in DOMAIN log :
                  (Len(log) - i + 1 + 1) * window
                     <= limit * (window + (now - Highest(log, i)))
    <3>1. /\ Within(log, found, now, TokenUnit, limit * TokenUnit,
                    limit * (TokenUnit \div window))
          /\ Exact(log, found, now, TokenUnit, limit * TokenUnit,
                   limit * (TokenUnit \div window))
      BY <1>8 DEF Fits, Tight, FullOf, RateOf, limit, window
    <3>2. found \in Int /\ now \in Int
      BY <1>1, <1>4
    <3>3. QED
      BY <1>1, <3>1, <3>2, RoomIsTheRate
  <2>3. ASSUME NEW i \in DOMAIN log
        PROVE  window + now - LatestBy(log, i) = window + (now - Highest(log, i))
    <3>1. Highest(log, i) \in Nat
      BY <1>1, <1>7, HighestIs
    <3>2. LatestBy(log, i) = Highest(log, i)
      BY DEF LatestBy, Highest
    <3>3. QED
      BY <1>1, <3>1, <3>2
  <2>4. QED
    BY <1>4, <2>1, <2>2, <2>3 DEF WithinRate
<1>10. /\ left \in 0 .. full
       /\ Fits(next, left, now, policy) /\ Tight(next, left, now, policy)
  <2>1. CASE taken
    <3>1. left = found - TokenUnit /\ found >= TokenUnit
      BY <1>4, <1>5, <2>1
    <3>2. next = Append(log, now)
      BY <2>1 DEF Grown
    <3>3. found \in Int /\ found <= full
      BY <1>1, <1>4
    <3>4. /\ Within(log, found, now, TokenUnit, full, rate)
          /\ Exact(log, found, now, TokenUnit, full, rate)
      BY <1>8 DEF Fits, Tight, full, rate
    <3>5. Within(Append(log, now), found - TokenUnit, now, TokenUnit, full, rate)
      BY <1>1, <3>3, <3>4, WithinOneMore
    <3>6. Exact(Append(log, now), found - TokenUnit, now, TokenUnit, full, rate)
      BY <1>1, <1>7, <3>3, <3>4, ExactOneMore
    <3>7. left \in 0 .. full
      BY <1>1, <1>4, <3>1
    <3> HIDE DEF next
    <3>8. QED
      BY <3>1, <3>2, <3>5, <3>6, <3>7 DEF Fits, Tight, full, rate
  <2>2. CASE ~taken
    <3>1. left = found
      BY <1>4, <1>5, <2>2
    <3>2. next = log
      BY <2>2 DEF Grown
    <3> HIDE DEF next
    <3>3. QED
      BY <1>4, <1>8, <3>1, <3>2
  <2>3. QED
    BY <2>1, <2>2
<1> HIDE DEF next
<1>11. HoldsTheRest(next, now, after.db, at, key, policy)
  <2>1. now + 2 * window <= after.db[Plain(key)].expireAt
    BY <1>1, <1>4
  <2>2. QED
    BY <1>4, <1>10, <2>1 DEF HoldsTheRest, left, full, window
<1>12. OnQuota(next, now, after.db, at, key, policy)
  BY <1>7, <1>11 DEF OnQuota, Buckets
<1>13. QED
  BY <1>9, <1>12 DEF AnswersByQuota, after, taken, next, limit, window

(* A script answers as the quota does, whatever the strategy.              *)
LEMMA ScriptAnswers ==
    ASSUME NEW keyspace, NEW at \in Nat, NEW key, NEW policy \in Policies, NEW now,
           Reading(now), Typed(keyspace, key), strategy \in AllStrategies,
           strategy = "fixed_window" => Positive(keyspace),
           NEW log, NEW latest, OnQuota(log, latest, keyspace, at, key, policy),
           latest <= now, now <= at, at <= now + 1
    PROVE  AnswersByQuota(log, latest, keyspace, at, key, policy, now)
<1>1. now \in Nat
  BY DEF Reading
<1>2. CASE strategy = "fixed_window"
  BY <1>1, <1>2, WindowsAnswer
<1>3. CASE strategy = "sliding_counter"
  BY <1>3, CountersAnswer
<1>4. CASE strategy = "sliding_log"
  BY <1>1, <1>4, LogAnswers
<1>5. CASE strategy \in Buckets
  BY <1>1, <1>5, BucketAnswers
<1>6. QED
  BY <1>2, <1>3, <1>4, <1>5 DEF AllStrategies, Buckets

(* A step that leaves the keys alone changes no account.                   *)
LEMMA QuotaKept ==
    ASSUME NEW keyspace, NEW left, NEW at, NEW key, NEW policy, Agree(keyspace, left, key),
           NEW log, NEW latest, OnQuota(log, latest, keyspace, at, key, policy)
    PROVE  OnQuota(log, latest, left, at, key, policy)
<1>1. /\ Plain(key) \in DOMAIN keyspace <=> Plain(key) \in DOMAIN left
      /\ Plain(key) \in DOMAIN keyspace => left[Plain(key)] = keyspace[Plain(key)]
      /\ SeqKey(key) \in DOMAIN keyspace <=> SeqKey(key) \in DOMAIN left
      /\ SeqKey(key) \in DOMAIN keyspace => left[SeqKey(key)] = keyspace[SeqKey(key)]
      /\ LogOf(left, key) = LogOf(keyspace, key)
  BY AgreeIs
<1>2. \A n : /\ WindowKey(key, n) \in DOMAIN keyspace <=> WindowKey(key, n) \in DOMAIN left
             /\ WindowKey(key, n) \in DOMAIN keyspace =>
                   left[WindowKey(key, n)] = keyspace[WindowKey(key, n)]
             /\ Get(left, WindowKey(key, n), 0) = Get(keyspace, WindowKey(key, n), 0)
  BY NamesOfKeys DEF Agree, Get
<1>3. CASE strategy = "fixed_window"
  <2>1. CountsWindows(log, latest, keyspace, at, key, policy)
    BY <1>3 DEF OnQuota
  <2>2. CountsWindows(log, latest, left, at, key, policy)
    BY <1>2, <2>1 DEF CountsWindows
  <2>3. QED
    BY <1>3, <2>2 DEF OnQuota, Buckets
<1>4. CASE strategy = "sliding_counter"
  <2>1. CountsTwoWindows(log, latest, keyspace, at, key, policy)
    BY <1>4 DEF OnQuota
  <2>2. CountsTwoWindows(log, latest, left, at, key, policy)
    BY <1>1, <2>1 DEF CountsTwoWindows
  <2>3. QED
    BY <1>4, <2>2 DEF OnQuota, Buckets
<1>5. CASE strategy = "sliding_log"
  <2>1. KeepsWindow(log, latest, keyspace, at, key, policy)
    BY <1>5 DEF OnQuota
  <2>2. KeepsWindow(log, latest, left, at, key, policy)
    BY <1>1, <2>1 DEF KeepsWindow
  <2>3. QED
    BY <1>5, <2>2 DEF OnQuota, Buckets
<1>6. CASE strategy \in Buckets
  <2>1. HoldsTheRest(log, latest, keyspace, at, key, policy)
    BY <1>6 DEF OnQuota
  <2>2. HoldsTheRest(log, latest, left, at, key, policy)
    BY <1>1, <2>1 DEF HoldsTheRest, HeldIn, LastIn
  <2>3. QED
    BY <1>6, <2>2 DEF OnQuota, Buckets
<1>7. CASE /\ strategy # "fixed_window" /\ strategy # "sliding_counter"
           /\ strategy # "sliding_log" /\ strategy \notin Buckets
  BY <1>7 DEF OnQuota
<1>8. QED
  BY <1>3, <1>4, <1>5, <1>6, <1>7

(* Without the plain key, nothing is held against an empty log.            *)
LEMMA QuotaCleared ==
    ASSUME NEW keyspace, NEW at \in Nat, NEW key, NEW policy, strategy # "fixed_window",
           Plain(key) \notin DOMAIN keyspace, NEW latest \in Int, latest <= at
    PROVE  OnQuota(<<>>, latest, keyspace, at, key, policy)
<1>1. /\ <<>> \in Seq(Nat) /\ DOMAIN <<>> = {} /\ LogOf(keyspace, key) = {}
      /\ \A c : Members(LogOf(keyspace, key), c) = {} /\ Later(<<>>, c) = {}
  BY DEF LogOf, Get, Members, Later
<1>2. CountsTwoWindows(<<>>, latest, keyspace, at, key, policy)
  BY <1>1 DEF CountsTwoWindows, Forgotten
<1>3. KeepsWindow(<<>>, latest, keyspace, at, key, policy)
  BY <1>1 DEF KeepsWindow, Forgotten
<1>4. HoldsTheRest(<<>>, latest, keyspace, at, key, policy)
  BY <1>1 DEF HoldsTheRest, Fits, Within
<1>5. QED
  BY <1>1, <1>2, <1>3, <1>4 DEF OnQuota

(* Time that goes by, and the keys that Redis drops, change no account.    *)
LEMMA WindowsTick ==
    ASSUME NEW keyspace, NEW at \in Nat, Bounded(keyspace, at), NEW key,
           NEW policy \in Policies, NEW log, NEW latest,
           CountsWindows(log, latest, keyspace, at, key, policy)
    PROVE  CountsWindows(log, latest, Live(keyspace, at + 1), at + 1, key, policy)
<1> DEFINE left == Live(keyspace, at + 1)
           window == WindowMs(policy.window)
<1>1. /\ DOMAIN left = {n \in DOMAIN keyspace : at + 1 <= keyspace[n].expireAt}
      /\ \A n \in DOMAIN left : left[n] = keyspace[n]
  <2>1. at + 1 \in Nat
    OBVIOUS
  <2>2. QED
    BY <2>1, LiveIs
<1>2. window \in Nat \ {0}
  BY PolicyIs
<1> HIDE DEF left, window
<1>3. ASSUME NEW n \in Nat, latest < (n + 1) * window, at + 1 <= (n + 1) * window
      PROVE  LET name == WindowKey(key, n)
                 seen == Get(left, name, 0)
             IN  /\ (IF seen < policy.limit THEN seen ELSE policy.limit)
                        = Cardinality(Later(log, n * window - 1))
                 /\ name \in DOMAIN left => (n + 1) * window <= left[name].expireAt
  <2> DEFINE name == WindowKey(key, n)
             seen == Get(keyspace, name, 0)
             end == (n + 1) * window
  <2>1. end \in Int
    BY <1>2
  <2>2. latest < end /\ at + 1 <= end
    BY <1>3
  <2>3. latest < end /\ at <= end
    <3> HIDE DEF end
    <3>1. QED
      BY <2>1, <2>2
  <2>4. /\ (IF seen < policy.limit THEN seen ELSE policy.limit)
               = Cardinality(Later(log, n * window - 1))
        /\ name \in DOMAIN keyspace => end <= keyspace[name].expireAt
    BY <2>3 DEF CountsWindows, window
  <2>5. name \in DOMAIN keyspace => keyspace[name].expireAt \in Int
    BY WindowsAreNumbers DEF Bounded
  <2>6. /\ name \in DOMAIN left <=> name \in DOMAIN keyspace
        /\ name \in DOMAIN left => left[name] = keyspace[name]
    <3> HIDE DEF end, name, seen
    <3>1. QED
      BY <1>1, <2>1, <2>2, <2>4, <2>5
  <2>7. Get(left, name, 0) = seen
    BY <2>6 DEF Get
  <2> HIDE DEF end, name, seen
  <2>8. QED
    BY <2>4, <2>6, <2>7 DEF end, name
<1>4. QED
  BY <1>3 DEF CountsWindows, window, left

(* What has gone with the key is forgotten.                                *)
LEMMA ForgottenNow ==
    ASSUME NEW keyspace, NEW at \in Nat, Bounded(keyspace, at), NEW key,
           NEW policy \in Policies, NEW log \in Seq(Nat), NEW latest \in Int,
           \A i \in DOMAIN log : log[i] <= latest,
           Plain(key) \notin DOMAIN keyspace => Forgotten(log, at, policy),
           Plain(key) \in DOMAIN keyspace =>
              latest + 2 * WindowMs(policy.window) <= keyspace[Plain(key)].expireAt,
           Plain(key) \notin DOMAIN Live(keyspace, at + 1)
    PROVE  Forgotten(log, at + 1, policy)
<1> DEFINE left == Live(keyspace, at + 1)
           window == WindowMs(policy.window)
           expireAt == keyspace[Plain(key)].expireAt
<1>1. /\ DOMAIN left = {n \in DOMAIN keyspace : at + 1 <= keyspace[n].expireAt}
      /\ \A n \in DOMAIN left : left[n] = keyspace[n]
  <2>1. at + 1 \in Nat
    OBVIOUS
  <2>2. QED
    BY <2>1, LiveIs
<1>2. window \in Nat \ {0} /\ \A i \in DOMAIN log : log[i] \in Nat
  BY PolicyIs
<1>3. SUFFICES ASSUME NEW i \in DOMAIN log PROVE log[i] + 2 * window < at + 1
  BY DEF Forgotten
<1>4. CASE Plain(key) \notin DOMAIN keyspace
  <2>1. log[i] + 2 * window < at
    BY <1>4 DEF Forgotten
  <2> HIDE DEF window
  <2>2. QED
    BY <1>2, <2>1
<1>5. CASE Plain(key) \in DOMAIN keyspace
  <2>1. expireAt \in Int
    BY <1>5, WindowsAreNumbers DEF Bounded
  <2>2. ~(at + 1 <= expireAt)
    BY <1>1, <1>5
  <2>3. latest + 2 * window <= expireAt
    BY <1>5
  <2> HIDE DEF window, expireAt
  <2>4. QED
    BY <1>2, <2>1, <2>2, <2>3
<1>6. QED
  BY <1>4, <1>5

LEMMA CountersTick ==
    ASSUME NEW keyspace, NEW at \in Nat, Bounded(keyspace, at), NEW key,
           NEW policy \in Policies, NEW log \in Seq(Nat), NEW latest \in Int,
           \A i \in DOMAIN log : log[i] <= latest,
           CountsTwoWindows(log, latest, keyspace, at, key, policy)
    PROVE  CountsTwoWindows(log, latest, Live(keyspace, at + 1), at + 1, key, policy)
<1> DEFINE left == Live(keyspace, at + 1)
<1>1. /\ DOMAIN left = {n \in DOMAIN keyspace : at + 1 <= keyspace[n].expireAt}
      /\ \A n \in DOMAIN left : left[n] = keyspace[n]
  <2>1. at + 1 \in Nat
    OBVIOUS
  <2>2. QED
    BY <2>1, LiveIs
<1>2. Plain(key) \notin DOMAIN left => Forgotten(log, at + 1, policy)
  <2>1. /\ Plain(key) \notin DOMAIN keyspace => Forgotten(log, at, policy)
        /\ Plain(key) \in DOMAIN keyspace =>
              latest + 2 * WindowMs(policy.window) <= keyspace[Plain(key)].expireAt
    BY DEF CountsTwoWindows
  <2>2. QED
    BY <2>1, ForgottenNow
<1>3. Plain(key) \in DOMAIN left =>
         Plain(key) \in DOMAIN keyspace /\ left[Plain(key)] = keyspace[Plain(key)]
  BY <1>1
<1> HIDE DEF left
<1>4. CountsTwoWindows(log, latest, left, at + 1, key, policy)
  BY <1>2, <1>3 DEF CountsTwoWindows
<1>5. QED
  BY <1>4 DEF left

LEMMA LogTicks ==
    ASSUME NEW keyspace, NEW at \in Nat, Bounded(keyspace, at), NEW key,
           NEW policy \in Policies, NEW log \in Seq(Nat), NEW latest \in Int,
           \A i \in DOMAIN log : log[i] <= latest, Has(keyspace, Plain(key), Logs),
           KeepsWindow(log, latest, keyspace, at, key, policy)
    PROVE  KeepsWindow(log, latest, Live(keyspace, at + 1), at + 1, key, policy)
<1> DEFINE left == Live(keyspace, at + 1)
           window == WindowMs(policy.window)
           old == LogOf(keyspace, key)
           kept == LogOf(left, key)
           numbered == SeqKey(key) \in DOMAIN keyspace
           number == keyspace[SeqKey(key)]
<1>1. /\ DOMAIN left = {n \in DOMAIN keyspace : at + 1 <= keyspace[n].expireAt}
      /\ \A n \in DOMAIN left : left[n] = keyspace[n]
  <2>1. at + 1 \in Nat
    OBVIOUS
  <2>2. QED
    BY <2>1, LiveIs
<1>2. window \in Nat \ {0} /\ \A i \in DOMAIN log : log[i] \in Nat
  BY PolicyIs
<1>3. Plain(key) \notin DOMAIN left => Forgotten(log, at + 1, policy)
  <2>1. /\ Plain(key) \notin DOMAIN keyspace => Forgotten(log, at, policy)
        /\ Plain(key) \in DOMAIN keyspace =>
              latest + 2 * WindowMs(policy.window) <= keyspace[Plain(key)].expireAt
    BY DEF KeepsWindow
  <2>2. QED
    BY <2>1, ForgottenNow
<1>4. Plain(key) \in DOMAIN left =>
         /\ Plain(key) \in DOMAIN keyspace /\ left[Plain(key)] = keyspace[Plain(key)]
         /\ kept = old
  BY <1>1 DEF LogOf, Get
<1>5. Plain(key) \notin DOMAIN left => kept = {}
  BY DEF LogOf, Get
<1>6. /\ Plain(key) \in DOMAIN keyspace => latest + 2 * window <= keyspace[Plain(key)].expireAt
      /\ \A c \in Int : c >= latest - window /\ c + 1 >= at - window =>
            Cardinality(Members(old, c)) = Cardinality(Later(log, c))
      /\ \A m \in old :
            /\ m[1] <= latest
            /\ ~numbered => m[1] + 2 * window < at
            /\ numbered => m[2] <= number.value /\ m[1] + 2 * window <= number.expireAt
  BY DEF KeepsWindow
<1>7. \A m \in old : m[1] \in Nat
  BY LogsAre
<1>8. numbered => number.expireAt \in Int
  BY WindowsAreNumbers DEF Bounded
<1>9. /\ SeqKey(key) \in DOMAIN left => numbered /\ left[SeqKey(key)] = number
      /\ numbered /\ SeqKey(key) \notin DOMAIN left => ~(at + 1 <= number.expireAt)
  BY <1>1
<1>10. Plain(key) \in DOMAIN left => latest + 2 * window <= left[Plain(key)].expireAt
  BY <1>4, <1>6
<1>11. Plain(key) \notin DOMAIN left => \A i \in DOMAIN log : log[i] + 2 * window < at + 1
  BY <1>3 DEF Forgotten
<1> HIDE DEF left, window, old, kept, numbered, number
<1>12. ASSUME NEW c \in Int, c >= latest - window, c + 1 >= (at + 1) - window
       PROVE  Cardinality(Members(kept, c)) = Cardinality(Later(log, c))
  <2>1. CASE Plain(key) \in DOMAIN left
    <3>1. c + 1 >= at - window
      BY <1>2, <1>12
    <3>2. QED
      BY <1>4, <1>6, <1>12, <2>1, <3>1
  <2>2. CASE Plain(key) \notin DOMAIN left
    <3>1. \A i \in DOMAIN log : log[i] <= c
      BY <1>2, <1>11, <1>12, <2>2
    <3>2. Cardinality(Later(log, c)) = 0
      BY <3>1, NoneLater
    <3>3. Members(kept, c) = {}
      BY <1>5, <2>2 DEF Members
    <3>4. QED
      BY <3>2, <3>3, FS_EmptySet
  <2>3. QED
    BY <2>1, <2>2
<1>13. ASSUME NEW m \in kept
       PROVE  /\ m[1] <= latest
              /\ SeqKey(key) \notin DOMAIN left => m[1] + 2 * window < at + 1
              /\ SeqKey(key) \in DOMAIN left =>
                    /\ m[2] <= left[SeqKey(key)].value
                    /\ m[1] + 2 * window <= left[SeqKey(key)].expireAt
  <2>1. m \in old
    BY <1>4, <1>5, <1>13
  <2>2. m[1] \in Nat /\ m[1] <= latest
    BY <1>6, <1>7, <2>1
  <2>3. SeqKey(key) \notin DOMAIN left => m[1] + 2 * window < at + 1
    <3>1. CASE numbered
      BY <1>2, <1>6, <1>8, <1>9, <2>1, <2>2, <3>1
    <3>2. CASE ~numbered
      BY <1>2, <1>6, <2>1, <2>2, <3>2
    <3>3. QED
      BY <3>1, <3>2
  <2>4. QED
    BY <1>6, <1>9, <2>1, <2>2, <2>3
<1>14. KeepsWindow(log, latest, left, at + 1, key, policy)
  BY <1>3, <1>10, <1>12, <1>13 DEF KeepsWindow, window, kept
<1>15. QED
  BY <1>14 DEF left

LEMMA BucketTicks ==
    ASSUME NEW keyspace, NEW at \in Nat, Bounded(keyspace, at), NEW key,
           NEW policy \in Policies, NEW log \in Seq(Nat), NEW latest \in Int,
           HoldsTheRest(log, latest, keyspace, at, key, policy)
    PROVE  HoldsTheRest(log, latest, Live(keyspace, at + 1), at + 1, key, policy)
<1> DEFINE left == Live(keyspace, at + 1)
           window == WindowMs(policy.window)
           full == FullOf(policy)
           rate == RateOf(policy)
           held == HeldIn(keyspace, key, policy)
           expireAt == keyspace[Plain(key)].expireAt
<1>1. /\ DOMAIN left = {n \in DOMAIN keyspace : at + 1 <= keyspace[n].expireAt}
      /\ \A n \in DOMAIN left : left[n] = keyspace[n]
  <2>1. at + 1 \in Nat
    OBVIOUS
  <2>2. QED
    BY <2>1, LiveIs
<1>2. full \in Nat /\ window \in Nat \ {0} /\ rate \in Nat /\ full = window * rate
  BY RateIs, PolicyIs
<1>3. /\ Plain(key) \notin DOMAIN keyspace => Fits(log, full, at - 1, policy)
      /\ Plain(key) \in DOMAIN keyspace =>
            /\ held \in 0 .. full /\ Fits(log, held, latest, policy)
            /\ latest + 2 * window <= expireAt
  BY DEF HoldsTheRest
<1>4. Plain(key) \in DOMAIN left =>
         /\ Plain(key) \in DOMAIN keyspace /\ left[Plain(key)] = keyspace[Plain(key)]
         /\ LastIn(left, key) = LastIn(keyspace, key) /\ HeldIn(left, key, policy) = held
  BY <1>1 DEF LastIn, HeldIn
<1>5. Plain(key) \in DOMAIN keyspace => expireAt \in Int
  BY WindowsAreNumbers DEF Bounded
<1>6. Plain(key) \in DOMAIN keyspace /\ Plain(key) \notin DOMAIN left => ~(at + 1 <= expireAt)
  BY <1>1
<1> HIDE DEF left, window, full, rate, held, expireAt
<1>7. ASSUME Plain(key) \in DOMAIN keyspace, Plain(key) \notin DOMAIN left
      PROVE  Fits(log, full, at, policy)
  <2>1. window <= at - latest /\ at - latest \in Nat /\ latest <= at
    BY <1>2, <1>3, <1>5, <1>6, <1>7
  <2>2. window * rate <= (at - latest) * rate
    BY <1>2, <2>1, MultiplyLess
  <2> DEFINE gained == (at - latest) * rate
  <2>3. gained \in Int
    BY <1>2, <2>1
  <2>4. full <= gained
    BY <1>2, <2>2
  <2> HIDE DEF gained
  <2>5. full <= held + gained /\ held \in Int /\ full \in Int
    BY <1>2, <1>3, <1>7, <2>3, <2>4
  <2>6. full <= held + (at - latest) * rate
    BY <2>5 DEF gained
  <2>7. Fits(log, held, latest, policy) /\ at \in Int
    BY <1>3, <1>7
  <2>8. QED
    BY <2>1, <2>5, <2>6, <2>7, FitsLater DEF rate
<1>8. ASSUME Plain(key) \notin DOMAIN keyspace PROVE Fits(log, full, at, policy)
  <2>1. Fits(log, full, at - 1, policy)
    BY <1>3, <1>8
  <2>2. at - 1 \in Int /\ at \in Int /\ at - 1 <= at /\ full \in Int /\ full <= full
    BY <1>2
  <2>3. QED
    BY <2>1, <2>2, FitsAsWell
<1>9. Plain(key) \notin DOMAIN left => Fits(log, full, (at + 1) - 1, policy)
  <2>1. (at + 1) - 1 = at
    OBVIOUS
  <2>2. QED
    BY <1>7, <1>8, <2>1
<1>10. HoldsTheRest(log, latest, left, at + 1, key, policy)
  BY <1>4, <1>9 DEF HoldsTheRest, full, held
<1>11. QED
  BY <1>10 DEF left

LEMMA QuotaTicks ==
    ASSUME NEW keyspace, NEW at \in Nat, Bounded(keyspace, at), NEW key,
           NEW policy \in Policies, Typed(keyspace, key), NEW log, NEW latest,
           OnQuota(log, latest, keyspace, at, key, policy)
    PROVE  OnQuota(log, latest, Live(keyspace, at + 1), at + 1, key, policy)
<1>1. /\ log \in Seq(Nat) /\ latest \in Int /\ latest <= at
      /\ \A i \in DOMAIN log : log[i] <= latest
  BY DEF OnQuota
<1>2. latest <= at + 1
  BY <1>1
<1>3. strategy = "fixed_window" =>
         CountsWindows(log, latest, Live(keyspace, at + 1), at + 1, key, policy)
  BY WindowsTick DEF OnQuota
<1>4. strategy = "sliding_counter" =>
         CountsTwoWindows(log, latest, Live(keyspace, at + 1), at + 1, key, policy)
  BY <1>1, CountersTick DEF OnQuota
<1>5. strategy = "sliding_log" =>
         KeepsWindow(log, latest, Live(keyspace, at + 1), at + 1, key, policy)
  BY <1>1, LogTicks DEF OnQuota, Typed
<1>6. strategy \in Buckets =>
         HoldsTheRest(log, latest, Live(keyspace, at + 1), at + 1, key, policy)
  BY <1>1, BucketTicks DEF OnQuota
<1>7. QED
  BY <1>1, <1>2, <1>3, <1>4, <1>5, <1>6 DEF OnQuota

(* The keys of every key that had only orderly requests say what its log   *)
(* says.                                                                   *)
QuotaInv ==
    \A key \in Keys, policy \in Policies :
        orderly[key] => OnQuota(admitted[key], horizon[key], db, clock, key, policy)

LEMMA QuotaStart == HistoryInit => QuotaInv
<1> SUFFICES ASSUME HistoryInit, NEW key \in Keys, NEW policy \in Policies
             PROVE  OnQuota(admitted[key], horizon[key], db, clock, key, policy)
  BY DEF QuotaInv
<1>1. /\ admitted[key] = <<>> /\ horizon[key] = NoTime /\ DOMAIN db = {} /\ clock = StartTime
  BY DEF HistoryInit, Init
<1>2. StartTime \in Nat
  BY RedisAssumption
<1>3. CASE strategy = "fixed_window"
  <2>1. <<>> \in Seq(Nat) /\ DOMAIN <<>> = {} /\ \A c : Later(<<>>, c) = {}
    BY DEF Later
  <2>2. policy.limit \in Nat \ {0}
    BY PolicyIs
  <2>3. CountsWindows(<<>>, NoTime, db, StartTime, key, policy)
    <3>1. ASSUME NEW n
          PROVE  LET name == WindowKey(key, n)
                     seen == Get(db, name, 0)
                 IN  /\ name \notin DOMAIN db
                     /\ (IF seen < policy.limit THEN seen ELSE policy.limit)
                            = Cardinality(Later(<<>>, n * WindowMs(policy.window) - 1))
      <4>1. WindowKey(key, n) \notin DOMAIN db /\ Get(db, WindowKey(key, n), 0) = 0
        BY <1>1 DEF Get
      <4>2. Cardinality(Later(<<>>, n * WindowMs(policy.window) - 1)) = 0
        BY <2>1, FS_EmptySet
      <4>3. (IF 0 < policy.limit THEN 0 ELSE policy.limit) = 0
        BY <2>2
      <4>4. QED
        BY <4>1, <4>2, <4>3
    <3>2. QED
      BY <3>1 DEF CountsWindows
  <2>4. QED
    BY <1>1, <1>2, <1>3, <2>1, <2>3 DEF OnQuota, NoTime, Buckets
<1>4. CASE strategy # "fixed_window"
  <2>1. Plain(key) \notin DOMAIN db /\ NoTime \in Int /\ NoTime <= StartTime
    BY <1>1, <1>2 DEF NoTime
  <2>2. QED
    BY <1>1, <1>2, <1>4, <2>1, QuotaCleared
<1>5. QED
  BY <1>3, <1>4

LEMMA QuotaStays ==
    ASSUME SamePolicy
    PROVE  HistoryInv /\ QuotaInv /\ [HistoryNext]_hvars => QuotaInv'
<1> SUFFICES ASSUME HistoryInv, QuotaInv, [HistoryNext]_hvars,
                    NEW key \in Keys, NEW policy \in Policies, orderly'[key]
             PROVE  OnQuota(admitted[key], horizon[key], db, clock, key, policy)'
  BY DEF QuotaInv
<1>0. SUFFICES OnQuota(admitted'[key], horizon'[key], db', clock', key, policy)
  <2>1. strategy' = strategy
    BY HistoryStepIs
  <2>2. QED
    BY <2>1 DEF OnQuota, CountsWindows, CountsTwoWindows, KeepsWindow, HoldsTheRest, Forgotten,
                Tight, HeldIn, LastIn, Fits
<1>1. /\ TypedInv /\ RedisInv /\ Sent /\ strategy \in AllStrategies
      /\ Bounded(db, clock) /\ clock \in Nat /\ Typed(db, key)
      /\ strategy = "fixed_window" => Positive(db)
      /\ horizon[key] \in Int
  BY TypedNow, HistoryStepIs DEF HistoryInv, HistoryTyped, TypedInv
<1>2. orderly[key] => OnQuota(admitted[key], horizon[key], db, clock, key, policy)
  BY DEF QuotaInv
<1>3. HistoryKeyStep(key)
  BY HistoryStepIs
<1>4. CASE Agree(db, db', key) /\ clock' = clock /\ KeptFor(key)
  BY <1>2, <1>4, QuotaKept DEF KeptFor
<1>5. ASSUME NEW r \in Callers, call[r] # NoCall, call[r].key = key, db' = Outcome(r).db,
             clock' = clock, RanOn(r, key)
      PROVE  OnQuota(admitted'[key], horizon'[key], db', clock', key, policy)
  <2> DEFINE now == call[r].now
             after == Script(db, clock, key, policy, now)
             next == Grown(admitted[key], now, after.reply.allowed)
  <2>1. call[r].policy = policy /\ Reading(now) /\ now \in Nat
    BY <1>1, <1>5, RequestIs DEF SamePolicy, Reading
  <2>2. Outcome(r) = after
    BY <1>5, <2>1 DEF Outcome
  <2>3. /\ admitted'[key] = next
        /\ horizon'[key] = IF now > horizon[key] THEN now ELSE horizon[key]
        /\ orderly[key] /\ OnTime(key, now) /\ db' = after.db
    BY <1>5, <2>2 DEF RanOn, Grown
  <2>4. horizon[key] <= now /\ now <= clock /\ clock <= now + 1
    <3> HIDE DEF now
    <3>1. QED
      BY <1>1, <2>1, <2>3 DEF OnTime
  <2>5. horizon'[key] = now
    <3> HIDE DEF now
    <3>1. QED
      BY <1>1, <2>1, <2>3, <2>4
  <2>6. OnQuota(admitted[key], horizon[key], db, clock, key, policy)
    BY <1>2, <2>3
  <2> HIDE DEF now
  <2>7. AnswersByQuota(admitted[key], horizon[key], db, clock, key, policy, now)
    BY <1>1, <2>1, <2>4, <2>6, ScriptAnswers
  <2>8. OnQuota(next, now, after.db, clock, key, policy)
    BY <2>7 DEF AnswersByQuota
  <2>9. QED
    BY <1>5, <2>3, <2>5, <2>8
<1>6. CASE /\ Reset(key)
           /\ admitted'[key] = <<>> /\ horizon'[key] = horizon[key]
           /\ orderly'[key] => orderly[key] /\ strategy # "fixed_window"
  <2>1. Plain(key) \notin DOMAIN db' /\ clock' = clock
    BY <1>6 DEF Reset, Del
  <2>2. horizon[key] <= clock
    BY <1>2, <1>6 DEF OnQuota
  <2>3. OnQuota(<<>>, horizon[key], db', clock, key, policy)
    BY <1>1, <1>6, <2>1, <2>2, QuotaCleared
  <2>4. QED
    BY <1>6, <2>1, <2>3
<1>7. CASE Tick /\ KeptFor(key)
  <2>1. clock' = clock + 1 /\ db' = Live(db, clock + 1)
    BY <1>7 DEF Tick
  <2>2. OnQuota(admitted[key], horizon[key], db, clock, key, policy)
    BY <1>2, <1>7 DEF KeptFor
  <2>3. OnQuota(admitted[key], horizon[key], Live(db, clock + 1), clock + 1, key, policy)
    BY <1>1, <2>2, QuotaTicks
  <2>4. QED
    BY <1>7, <2>1, <2>3 DEF KeptFor
<1>8. QED
  BY <1>3, <1>4, <1>5, <1>6, <1>7 DEF HistoryKeyStep

(* Redis' clock is past the first window, as Unix time is: the script of   *)
(* the sliding counter takes window number 0 for an absent hash.           *)
PastTheFirstWindow == \A policy \in Policies : WindowMs(policy.window) < StartTime

(* As long as the requests of a key run in the order of their readings and *)
(* within a millisecond of them, the next one is admitted exactly when the *)
(* documented quota has room for it, whatever Redis has expired in between *)
(* and however often a request was lost or repeated, whichever of the five *)
(* scripts runs, for any number of callers and keys.                       *)
THEOREM RedisVerdictIsQuota ==
    ASSUME SamePolicy, PastTheFirstWindow
    PROVE  HistorySpec => []VerdictIsQuota
<1>1. ASSUME HistoryInv, QuotaInv PROVE VerdictIsQuota
  <2> SUFFICES ASSUME NEW key \in Keys, NEW policy \in Policies,
                      NEW now \in {clock - 1, clock}, orderly[key], OnTime(key, now)
               PROVE  Script(db, clock, key, policy, now).reply.allowed
                         <=> QuotaAdmits(strategy, admitted[key], now, policy.limit,
                                         WindowMs(policy.window))
    BY DEF VerdictIsQuota
  <2>1. /\ strategy \in AllStrategies /\ clock \in Nat /\ clock >= StartTime
        /\ Typed(db, key) /\ (strategy = "fixed_window" => Positive(db))
        /\ horizon[key] \in Int
    BY <1>1, TypedNow DEF TypedInv, HistoryInv, HistoryTyped
  <2>2. StartTime \in Nat /\ \A p \in Policies : WindowMs(p.window) \in Nat
    BY RedisAssumption, WindowsAreNumbers
  <2>3. now \in Int /\ now >= StartTime - 1
    BY <2>1, <2>2
  <2>4. Reading(now)
    <3>1. now \in Nat
      <4>1. WindowMs(policy.window) < StartTime /\ WindowMs(policy.window) \in Nat
        BY <2>2 DEF PastTheFirstWindow
      <4>2. QED
        BY <2>2, <2>3, <4>1
    <3>2. ASSUME NEW p \in Policies PROVE now >= WindowMs(p.window)
      <4>1. WindowMs(p.window) < StartTime /\ WindowMs(p.window) \in Nat
        BY <2>2 DEF PastTheFirstWindow
      <4>2. QED
        BY <2>2, <2>3, <4>1
    <3>3. QED
      BY <3>1, <3>2 DEF Reading
  <2>5. horizon[key] <= now /\ now <= clock /\ clock <= now + 1
    BY <2>1, <2>3 DEF OnTime
  <2>6. OnQuota(admitted[key], horizon[key], db, clock, key, policy)
    BY <1>1 DEF QuotaInv
  <2>7. AnswersByQuota(admitted[key], horizon[key], db, clock, key, policy, now)
    BY <2>1, <2>4, <2>5, <2>6, ScriptAnswers
  <2>8. QED
    BY <2>7 DEF AnswersByQuota
<1>2. HistoryInit => HistoryInv /\ QuotaInv
  BY HistoryStart, QuotaStart
<1>3. HistoryInv /\ QuotaInv /\ [HistoryNext]_hvars => HistoryInv' /\ QuotaInv'
  BY HistoryStays, QuotaStays
<1>4. QED
  BY <1>1, <1>2, <1>3, PTL DEF HistorySpec
===============================================================================
