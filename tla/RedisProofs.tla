----------------------------- MODULE RedisProofs ------------------------------
(***************************************************************************)
(* Redis never fills up with the driver's keys, for any number of callers  *)
(* and keys, any policies, clocks and delays, and for all five scripts; and*)
(* Remaining tells the truth, if clocks and delays differ by no more than  *)
(* two windows.                                                            *)
(***************************************************************************)
EXTENDS RedisDriver, CountingLemmas

(* What lives in a keyspace lives two windows at most.                     *)
Bounded(keyspace, at) ==
    \A name \in DOMAIN keyspace :
        /\ \E key \in Keys : name[1] = key
        /\ \E policy \in Policies :
              keyspace[name].expireAt \in at .. at + 2 * WindowMs(policy.window)

LEMMA WindowsAreNumbers ==
    ASSUME NEW policy \in Policies
    PROVE  WindowMs(policy.window) \in Nat /\ WindowMs(policy.window) > 0
BY RedisAssumption DEF WindowMs

LEMMA NamesOfKeys ==
    ASSUME NEW key, NEW window
    PROVE  /\ Plain(key)[1] = key /\ SeqKey(key)[1] = key
           /\ WindowKey(key, window)[1] = key
           /\ SeqKey(key) # Plain(key)
BY DEF Plain, SeqKey, WindowKey

LEMMA StoredIsBounded ==
    ASSUME NEW keyspace, NEW at \in Nat, Bounded(keyspace, at),
           NEW key \in Keys, NEW policy \in Policies,
           NEW name, name[1] = key, NEW value,
           NEW windows \in {1, 2}
    PROVE  Bounded(PExpire(Put(keyspace, name, value), name, at,
                           windows * WindowMs(policy.window)), at)
<1> DEFINE ms == windows * WindowMs(policy.window)
           stored == PExpire(Put(keyspace, name, value), name, at, ms)
<1>1. ms \in Nat /\ ms <= 2 * WindowMs(policy.window)
  BY WindowsAreNumbers
<1>2. /\ DOMAIN stored = DOMAIN keyspace \cup {name}
      /\ stored[name].expireAt = at + ms
      /\ \A n \in DOMAIN keyspace : n # name => stored[n] = keyspace[n]
  BY DEF PExpire, Put
<1> HIDE DEF stored, ms
<1>3. stored[name].expireAt \in at .. at + 2 * WindowMs(policy.window)
  BY <1>1, <1>2, WindowsAreNumbers
<1>4. ASSUME NEW n \in DOMAIN stored
      PROVE  /\ \E k \in Keys : n[1] = k
             /\ \E p \in Policies : stored[n].expireAt \in at .. at + 2 * WindowMs(p.window)
  BY <1>2, <1>3, <1>4 DEF Bounded
<1>5. QED
  BY <1>4 DEF Bounded, stored, ms

-------------------------------------------------------------------------------
(* The strategies use the commands of Redis.                                *)
LEMMA FWCommands ==
    ASSUME NEW keyspace, NEW name, NEW value, NEW at, NEW ms, NEW key, NEW n
    PROVE  /\ FW!Put(keyspace, name, value) = Put(keyspace, name, value)
           /\ FW!PExpire(keyspace, name, at, ms) = PExpire(keyspace, name, at, ms)
           /\ FW!Get(keyspace, name, value) = Get(keyspace, name, value)
           /\ FW!WindowKey(key, n) = WindowKey(key, n)
BY DEF FW!Put, FW!PExpire, FW!Get, FW!WindowKey, FW!Never, Put, PExpire, Get, WindowKey, Never

LEMMA SCCommands ==
    ASSUME NEW keyspace, NEW name, NEW value, NEW at, NEW ms, NEW key
    PROVE  /\ SC!Put(keyspace, name, value) = Put(keyspace, name, value)
           /\ SC!PExpire(keyspace, name, at, ms) = PExpire(keyspace, name, at, ms)
           /\ SC!Get(keyspace, name, value) = Get(keyspace, name, value)
           /\ SC!Plain(key) = Plain(key)
BY DEF SC!Put, SC!PExpire, SC!Get, SC!Plain, SC!Never, Put, PExpire, Get, Plain, Never

LEMMA SLCommands ==
    ASSUME NEW keyspace, NEW name, NEW value, NEW at, NEW ms, NEW key
    PROVE  /\ SL!Put(keyspace, name, value) = Put(keyspace, name, value)
           /\ SL!PExpire(keyspace, name, at, ms) = PExpire(keyspace, name, at, ms)
           /\ SL!Get(keyspace, name, value) = Get(keyspace, name, value)
           /\ SL!Plain(key) = Plain(key)
BY DEF SL!Put, SL!PExpire, SL!Get, SL!Plain, SL!Never, Put, PExpire, Get, Plain, Never

LEMMA TBCommands ==
    ASSUME NEW keyspace, NEW name, NEW value, NEW at, NEW ms, NEW key
    PROVE  /\ TB!Put(keyspace, name, value) = Put(keyspace, name, value)
           /\ TB!PExpire(keyspace, name, at, ms) = PExpire(keyspace, name, at, ms)
           /\ TB!Get(keyspace, name, value) = Get(keyspace, name, value)
           /\ TB!Plain(key) = Plain(key)
BY DEF TB!Put, TB!PExpire, TB!Get, TB!Plain, TB!Never, Put, PExpire, Get, Plain, Never

LEMMA LBCommands ==
    ASSUME NEW keyspace, NEW name, NEW value, NEW at, NEW ms, NEW key
    PROVE  /\ LB!Put(keyspace, name, value) = Put(keyspace, name, value)
           /\ LB!PExpire(keyspace, name, at, ms) = PExpire(keyspace, name, at, ms)
           /\ LB!Get(keyspace, name, value) = Get(keyspace, name, value)
           /\ LB!Plain(key) = Plain(key)
BY DEF LB!Put, LB!PExpire, LB!Get, LB!Plain, LB!Never, Put, PExpire, Get, Plain, Never

(* The scripts.                                                            *)

(* The fixed window sets the expiry on the first request only: a counter   *)
(* that is there has counted one.                                          *)
Positive(keyspace) ==
    \A name \in DOMAIN keyspace : keyspace[name].value \in Nat \ {0}

LEMMA FixedWindowBounded ==
    ASSUME NEW keyspace, NEW at \in Nat, Bounded(keyspace, at), Positive(keyspace),
           NEW key \in Keys, NEW policy \in Policies, NEW now
    PROVE  LET left == FW!RedisScript(keyspace, at, key, policy.limit,
                                      WindowMs(policy.window), now).db
           IN  Bounded(left, at) /\ Positive(left)
<1> DEFINE window == WindowMs(policy.window)
           name == WindowKey(key, now \div window)
           count == Get(keyspace, name, 0) + 1
           counted == Put(keyspace, name, count)
           left == FW!RedisScript(keyspace, at, key, policy.limit, window, now).db
           fwName == FW!WindowKey(key, now \div window)
           fwCount == FW!Get(keyspace, fwName, 0) + 1
           fwCounted == FW!Put(keyspace, fwName, fwCount)
<1>1. left = IF count = 1 THEN PExpire(counted, name, at, window) ELSE counted
  <2>1. left = IF fwCount = 1 THEN FW!PExpire(fwCounted, fwName, at, window) ELSE fwCounted
    BY Zenon DEF FW!RedisScript, FW!Reply
  <2>2. fwName = name /\ fwCount = count /\ fwCounted = counted
    BY FWCommands
  <2>3. QED
    BY <2>1, <2>2, FWCommands
<1>2. name[1] = key
  BY NamesOfKeys
<1>3. count \in Nat \ {0} /\ (count # 1 => name \in DOMAIN keyspace)
  BY DEF Get, Positive
<1> HIDE DEF name, count, left
<1>4. CASE count = 1
  <2>1. left = PExpire(Put(keyspace, name, count), name, at, 1 * window)
    BY <1>1, <1>4, WindowsAreNumbers
  <2>2. Bounded(left, at)
    BY <1>2, <2>1, StoredIsBounded
  <2>3. Positive(left)
    BY <1>3, <2>1 DEF Positive, PExpire, Put
  <2>4. QED
    BY <2>2, <2>3 DEF left
<1>5. CASE count # 1
  <2>1. /\ DOMAIN left = DOMAIN keyspace
        /\ \A n \in DOMAIN keyspace : left[n].expireAt = keyspace[n].expireAt
        /\ left[name].value = count
        /\ \A n \in DOMAIN keyspace : n # name => left[n].value = keyspace[n].value
    BY <1>1, <1>3, <1>5 DEF Put
  <2>2. Bounded(left, at) /\ Positive(left)
    BY <1>3, <2>1 DEF Bounded, Positive
  <2>3. QED
    BY <2>2 DEF left
<1>6. QED
  BY <1>4, <1>5

LEMMA SlidingLogBounded ==
    ASSUME NEW keyspace, NEW at \in Nat, Bounded(keyspace, at),
           NEW key \in Keys, NEW policy \in Policies, NEW now
    PROVE  Bounded(SL!RedisScript(keyspace, at, key, policy.limit,
                                  WindowMs(policy.window), now).db, at)
<1> DEFINE window == WindowMs(policy.window)
           live == SL!Newer(SL!Get(keyspace, SL!Plain(key), {}), now - window)
           seq == SL!Get(keyspace, SL!SeqKey(key), 0) + 1
           before == PExpire(Put(keyspace, SeqKey(key), seq), SeqKey(key), at, 2 * window)
           log == live \cup {<<now, seq>>}
           left == SL!RedisScript(keyspace, at, key, policy.limit, window, now).db
           Written(earlier, value) ==
               PExpire(Put(earlier, Plain(key), value), Plain(key), at, 2 * window)
<1>1. \/ left = SL!PExpire(SL!Add(keyspace, at, key, window, live, now), SL!Plain(key),
                          at, 2 * window)
      \/ left = SL!PExpire(SL!Put(keyspace, SL!Plain(key), live), SL!Plain(key),
                          at, 2 * window)
  BY Zenon DEF SL!RedisScript, SL!Reply
<1>2. left \in {Written(before, log), Written(keyspace, live)}
  <2>1. SL!Add(keyspace, at, key, window, live, now) = Put(before, Plain(key), log)
    <3>1. SL!Add(keyspace, at, key, window, live, now)
             = SL!Put(SL!PExpire(SL!Put(keyspace, SL!SeqKey(key), seq), SL!SeqKey(key),
                                 at, 2 * window), SL!Plain(key), log)
      BY Zenon DEF SL!Add
    <3>2. SL!SeqKey(key) = SeqKey(key)
      BY DEF SL!SeqKey, SeqKey
    <3>3. SL!Put(keyspace, SL!SeqKey(key), seq) = Put(keyspace, SeqKey(key), seq)
      BY <3>2, SLCommands
    <3>4. SL!PExpire(SL!Put(keyspace, SL!SeqKey(key), seq), SL!SeqKey(key), at, 2 * window)
             = before
      BY <3>2, <3>3, SLCommands
    <3>5. SL!Put(before, SL!Plain(key), log) = Put(before, Plain(key), log)
      BY SLCommands
    <3>6. QED
      BY <3>1, <3>4, <3>5
  <2> HIDE DEF before, log, live, left
  <2>2. SL!Put(keyspace, SL!Plain(key), live) = Put(keyspace, Plain(key), live)
    BY SLCommands
  <2>3. \A stored : SL!PExpire(stored, SL!Plain(key), at, 2 * window)
                        = PExpire(stored, Plain(key), at, 2 * window)
    BY SLCommands
  <2>4. QED
    BY <1>1, <2>1, <2>2, <2>3
<1>3. Bounded(before, at)
  BY StoredIsBounded, NamesOfKeys
<1>4. \A value : Bounded(Written(keyspace, value), at)
  BY StoredIsBounded, NamesOfKeys
<1> HIDE DEF before, log, live, left
<1>5. Bounded(Written(before, log), at)
  BY <1>3, StoredIsBounded, NamesOfKeys
<1> HIDE DEF Written
<1>6. Bounded(left, at)
  BY <1>2, <1>4, <1>5
<1>7. QED
  BY <1>6 DEF left

LEMMA SlidingCounterBounded ==
    ASSUME NEW keyspace, NEW at \in Nat, Bounded(keyspace, at),
           NEW key \in Keys, NEW policy \in Policies, NEW now
    PROVE  Bounded(SC!RedisScript(keyspace, at, key, policy.limit,
                                  WindowMs(policy.window), now).db, at)
<1> DEFINE window == WindowMs(policy.window)
           left == SC!RedisScript(keyspace, at, key, policy.limit, window, now).db
<1>1. \E value : left = SC!PExpire(SC!Put(keyspace, SC!Plain(key), value),
                                  SC!Plain(key), at, 2 * window)
  BY Zenon DEF SC!RedisScript, SC!Reply
<1>2. \A value : SC!PExpire(SC!Put(keyspace, SC!Plain(key), value), SC!Plain(key), at, 2 * window)
                    = PExpire(Put(keyspace, Plain(key), value), Plain(key), at, 2 * window)
  BY SCCommands
<1>3. \A value : Bounded(PExpire(Put(keyspace, Plain(key), value), Plain(key), at, 2 * window), at)
  BY StoredIsBounded, NamesOfKeys
<1> HIDE DEF left
<1>4. Bounded(left, at)
  BY <1>1, <1>2, <1>3
<1>5. QED
  BY <1>4 DEF left

LEMMA TokenBucketBounded ==
    ASSUME NEW keyspace, NEW at \in Nat, Bounded(keyspace, at),
           NEW key \in Keys, NEW policy \in Policies, NEW now
    PROVE  Bounded(TB!RedisScript(keyspace, at, key, policy.limit,
                                  WindowMs(policy.window), now).db, at)
<1> DEFINE window == WindowMs(policy.window)
           left == TB!RedisScript(keyspace, at, key, policy.limit, window, now).db
<1>1. \E value : left = TB!PExpire(TB!Put(keyspace, TB!Plain(key), value),
                                  TB!Plain(key), at, 2 * window)
  BY Zenon DEF TB!RedisScript, TB!Reply
<1>2. \A value : TB!PExpire(TB!Put(keyspace, TB!Plain(key), value), TB!Plain(key), at, 2 * window)
                    = PExpire(Put(keyspace, Plain(key), value), Plain(key), at, 2 * window)
  BY TBCommands
<1>3. \A value : Bounded(PExpire(Put(keyspace, Plain(key), value), Plain(key), at, 2 * window), at)
  BY StoredIsBounded, NamesOfKeys
<1> HIDE DEF left
<1>4. Bounded(left, at)
  BY <1>1, <1>2, <1>3
<1>5. QED
  BY <1>4 DEF left

LEMMA LeakyBucketBounded ==
    ASSUME NEW keyspace, NEW at \in Nat, Bounded(keyspace, at),
           NEW key \in Keys, NEW policy \in Policies, NEW now
    PROVE  Bounded(LB!RedisScript(keyspace, at, key, policy.limit,
                                  WindowMs(policy.window), now).db, at)
<1> DEFINE window == WindowMs(policy.window)
           left == LB!RedisScript(keyspace, at, key, policy.limit, window, now).db
<1>1. \E value : left = LB!PExpire(LB!Put(keyspace, LB!Plain(key), value),
                                  LB!Plain(key), at, 2 * window)
  BY Zenon DEF LB!RedisScript, LB!Reply
<1>2. \A value : LB!PExpire(LB!Put(keyspace, LB!Plain(key), value), LB!Plain(key), at, 2 * window)
                    = PExpire(Put(keyspace, Plain(key), value), Plain(key), at, 2 * window)
  BY LBCommands
<1>3. \A value : Bounded(PExpire(Put(keyspace, Plain(key), value), Plain(key), at, 2 * window), at)
  BY StoredIsBounded, NamesOfKeys
<1> HIDE DEF left
<1>4. Bounded(left, at)
  BY <1>1, <1>2, <1>3
<1>5. QED
  BY <1>4 DEF left

-------------------------------------------------------------------------------
(* The driver.                                                             *)

RedisInv ==
    /\ TypeOK
    /\ Bounded(db, clock)
    /\ strategy = "fixed_window" => Positive(db)
    /\ call = [r \in Callers |-> call[r]]
    /\ \A r \in Callers : call[r] # NoCall => call[r].sent \in Nat

LEMMA InitBounded == Init => RedisInv
<1> SUFFICES ASSUME Init PROVE RedisInv
  OBVIOUS
<1>1. DOMAIN db = {}
  BY DEF Init
<1>2. TypeOK
  BY <1>1, RedisAssumption DEF Init, TypeOK
<1>3. QED
  BY <1>1, <1>2 DEF Init, RedisInv, Bounded, Positive

(* Every script leaves bounded keys.                                       *)
LEMMA ScriptBounded ==
    ASSUME NEW keyspace, NEW at \in Nat, Bounded(keyspace, at),
           strategy = "fixed_window" => Positive(keyspace), strategy \in AllStrategies,
           NEW key \in Keys, NEW policy \in Policies, NEW now
    PROVE  /\ Bounded(Script(keyspace, at, key, policy, now).db, at)
           /\ strategy = "fixed_window"
                 => Positive(Script(keyspace, at, key, policy, now).db)
<1> DEFINE window == WindowMs(policy.window)
           left == Script(keyspace, at, key, policy, now)
<1>1. CASE strategy = "fixed_window"
  <2>1. left = FW!RedisScript(keyspace, at, key, policy.limit, window, now)
    BY <1>1 DEF Script
  <2>2. QED
    BY <1>1, <2>1, FixedWindowBounded
<1>2. CASE strategy = "sliding_counter"
  <2>1. left = SC!RedisScript(keyspace, at, key, policy.limit, window, now)
    BY <1>2 DEF Script
  <2>2. QED
    BY <1>2, <2>1, SlidingCounterBounded
<1>3. CASE strategy = "sliding_log"
  <2>1. left = SL!RedisScript(keyspace, at, key, policy.limit, window, now)
    BY <1>3 DEF Script
  <2>2. QED
    BY <1>3, <2>1, SlidingLogBounded
<1>4. CASE strategy = "token_bucket"
  <2>1. left = TB!RedisScript(keyspace, at, key, policy.limit, window, now)
    BY <1>4 DEF Script
  <2>2. QED
    BY <1>4, <2>1, TokenBucketBounded
<1>5. CASE strategy = "leaky_bucket"
  <2>1. left = LB!RedisScript(keyspace, at, key, policy.limit, window, now)
    BY <1>5 DEF Script
  <2>2. QED
    BY <1>5, <2>1, LeakyBucketBounded
<1>6. QED
  BY <1>1, <1>2, <1>3, <1>4, <1>5 DEF AllStrategies

LEMMA OutcomeBounded ==
    ASSUME RedisInv, NEW r \in Callers, call[r] # NoCall
    PROVE  /\ Bounded(Outcome(r).db, clock)
           /\ strategy = "fixed_window" => Positive(Outcome(r).db)
<1>1. call[r].key \in Keys /\ call[r].policy \in Policies /\ clock \in Nat
  BY RedisAssumption DEF RedisInv, TypeOK
<1>2. /\ strategy \in AllStrategies /\ Bounded(db, clock)
      /\ strategy = "fixed_window" => Positive(db)
  BY RedisAssumption DEF RedisInv, TypeOK
<1>3. QED
  BY <1>1, <1>2, ScriptBounded DEF Outcome

(* What a keyspace keeps is what it had.                                   *)
LEMMA LessIsBounded ==
    ASSUME NEW keyspace, NEW names, NEW at, Bounded(keyspace, at)
    PROVE  /\ Bounded(Del(keyspace, names), at)
           /\ Positive(keyspace) => Positive(Del(keyspace, names))
BY DEF Bounded, Positive, Del

LEMMA LiveIsBounded ==
    ASSUME NEW keyspace, NEW at \in Nat, Bounded(keyspace, at)
    PROVE  /\ Bounded(Live(keyspace, at + 1), at + 1)
           /\ Positive(keyspace) => Positive(Live(keyspace, at + 1))
<1> DEFINE left == Live(keyspace, at + 1)
<1>1. /\ DOMAIN left \subseteq DOMAIN keyspace
      /\ \A name \in DOMAIN left : left[name] = keyspace[name]
  BY DEF Live, Del
<1>2. \A name \in DOMAIN left :
         keyspace[name].expireAt = Never \/ ~(keyspace[name].expireAt < at + 1)
  BY DEF Live, Del
<1> HIDE DEF left
<1>3. ASSUME NEW name \in DOMAIN left
      PROVE  /\ \E key \in Keys : name[1] = key
             /\ \E policy \in Policies :
                   left[name].expireAt \in at + 1 .. (at + 1) + 2 * WindowMs(policy.window)
  <2>1. PICK policy \in Policies :
            keyspace[name].expireAt \in at .. at + 2 * WindowMs(policy.window)
    BY <1>1 DEF Bounded
  <2>2. WindowMs(policy.window) \in Nat
    BY WindowsAreNumbers
  <2>3. left[name].expireAt \in at + 1 .. (at + 1) + 2 * WindowMs(policy.window)
    BY <1>1, <1>2, <2>1, <2>2 DEF Never
  <2>4. QED
    BY <1>1, <2>3 DEF Bounded
<1>4. Bounded(left, at + 1)
  BY <1>3 DEF Bounded
<1>5. Positive(keyspace) => Positive(left)
  BY <1>1 DEF Positive
<1>6. QED
  BY <1>4, <1>5 DEF left

LEMMA RedisStep == RedisInv /\ [Next]_vars => RedisInv'
<1> SUFFICES ASSUME RedisInv, [Next]_vars PROVE RedisInv'
  OBVIOUS
<1>1. clock \in Nat
  BY RedisAssumption DEF RedisInv, TypeOK
<1>2. ASSUME NEW r \in Callers, NEW key \in Keys, NEW policy \in Policies,
             NEW error \in ClockErrors, Send(r, key, policy, error)
      PROVE  RedisInv'
  <2>1. /\ call'[r] = [key |-> key, policy |-> policy, now |-> clock + error, sent |-> clock]
        /\ \A s \in Callers : s # r => call'[s] = call[s]
        /\ call' = [s \in Callers |-> call'[s]]
    BY <1>2 DEF Send, RedisInv
  <2>2. (clock + error) - clock = error /\ clock - clock = 0 /\ 0 \in 0 .. MaxDelay
    BY <1>1, RedisAssumption
  <2>3. UNCHANGED <<strategy, clock, db>> /\ calls' \in 0 .. MaxCalls
    BY <1>2, RedisAssumption DEF Send, RedisInv, TypeOK
  <2>4. TypeOK'
    BY <2>1, <2>2, <2>3 DEF RedisInv, TypeOK
  <2>5. QED
    BY <1>1, <2>1, <2>3, <2>4 DEF RedisInv, Bounded, Positive
<1>3. ASSUME NEW r \in Callers, call[r] # NoCall, db' = Outcome(r).db,
             UNCHANGED <<strategy, clock>>, calls' \in 0 .. MaxCalls,
             call' = [s \in Callers |-> call'[s]],
             \A s \in Callers : call'[s] = NoCall \/ call'[s] = call[s]
      PROVE  RedisInv'
  <2>1. Bounded(db', clock) /\ (strategy = "fixed_window" => Positive(db'))
    BY <1>3, OutcomeBounded
  <2>2. TypeOK'
    BY <1>3, <2>1 DEF RedisInv, TypeOK, Bounded
  <2>3. QED
    BY <1>3, <2>1, <2>2 DEF RedisInv, Bounded, Positive
<1>4. ASSUME NEW r \in Callers, Execute(r) PROVE RedisInv'
  BY <1>3, <1>4 DEF Execute, RedisInv, TypeOK
<1>5. ASSUME NEW r \in Callers, Repeat(r) PROVE RedisInv'
  BY <1>3, <1>5, RedisAssumption DEF Repeat, RedisInv, TypeOK
<1>6. ASSUME NEW r \in Callers, Lose(r) PROVE RedisInv'
  BY <1>6 DEF Lose, RedisInv, TypeOK, Bounded, Positive
<1>7. ASSUME NEW key \in Keys, Reset(key) PROVE RedisInv'
  <2>1. Bounded(db', clock) /\ (strategy = "fixed_window" => Positive(db'))
    BY <1>7, LessIsBounded DEF Reset, RedisInv
  <2>2. UNCHANGED <<strategy, clock, call, calls>>
    BY <1>7 DEF Reset
  <2>3. TypeOK'
    BY <2>1, <2>2 DEF RedisInv, TypeOK, Bounded
  <2>4. QED
    BY <2>1, <2>2, <2>3 DEF RedisInv, Bounded, Positive
<1>8. ASSUME Tick PROVE RedisInv'
  <2>1. clock' = clock + 1 /\ clock' \in StartTime .. MaxTime
    BY <1>1, <1>8, RedisAssumption DEF Tick, RedisInv, TypeOK
  <2>2. Bounded(db', clock') /\ (strategy = "fixed_window" => Positive(db'))
    BY <1>1, <1>8, <2>1, LiveIsBounded DEF Tick, RedisInv
  <2>3. UNCHANGED <<strategy, call, calls>>
    BY <1>8 DEF Tick
  <2>4. ASSUME NEW r \in Callers, call[r] # NoCall
        PROVE  clock' - call[r].sent \in 0 .. MaxDelay
    <3>1. /\ clock - call[r].sent \in 0 .. MaxDelay /\ call[r].sent \in Nat
          /\ clock < call[r].sent + MaxDelay
      BY <1>8, <2>4 DEF Tick, RedisInv, TypeOK
    <3>2. QED
      BY <1>1, <2>1, <3>1, RedisAssumption
  <2>5. TypeOK'
    BY <2>1, <2>2, <2>3, <2>4 DEF RedisInv, TypeOK, Bounded
  <2>6. QED
    BY <2>2, <2>3, <2>5 DEF RedisInv, Bounded, Positive
<1>9. CASE UNCHANGED vars
  BY <1>9 DEF vars, RedisInv, TypeOK, Bounded, Positive
<1>10. QED
  BY <1>2, <1>4, <1>5, <1>6, <1>7, <1>8, <1>9 DEF Next

(* Every key that the driver leaves in Redis is gone at the latest two     *)
(* windows after its last use, also when Reset and lost or repeated        *)
(* requests come between (redis.go:57-116 and the five scripts).           *)
THEOREM RedisKeysExpire == Spec => []TypeOK
<1>1. RedisInv => TypeOK
  BY DEF RedisInv
<1>2. QED
  BY <1>1, InitBounded, RedisStep, PTL DEF Spec

-------------------------------------------------------------------------------
(* What the scripts leave and answer, command by command.                  *)

(* A keyspace that differs in one name.                                    *)
Updated(before, after, name, value, expireAt) ==
    /\ DOMAIN after = DOMAIN before \cup {name}
    /\ after[name] = [value |-> value, expireAt |-> expireAt]
    /\ \A n \in DOMAIN before : n # name => after[n] = before[n]

LEMMA StoredIsUpdated ==
    ASSUME NEW keyspace, NEW name, NEW value, NEW at, NEW ms
    PROVE  Updated(keyspace, PExpire(Put(keyspace, name, value), name, at, ms),
                   name, value, at + ms)
<1> DEFINE put == Put(keyspace, name, value)
           stored == PExpire(put, name, at, ms)
<1>1. /\ DOMAIN put = DOMAIN keyspace \cup {name}
      /\ \E e : put[name] = [value |-> value, expireAt |-> e]
      /\ \A n \in DOMAIN keyspace : n # name => put[n] = keyspace[n]
  BY DEF Put
<1> HIDE DEF put
<1>2. PICK e : put[name] = [value |-> value, expireAt |-> e]
  BY <1>1
<1>3. /\ DOMAIN stored = DOMAIN put
      /\ stored[name] = [put[name] EXCEPT !.expireAt = at + ms]
      /\ \A n \in DOMAIN put : n # name => stored[n] = put[n]
  BY <1>1 DEF PExpire
<1> HIDE DEF stored
<1>4. stored[name] = [value |-> value, expireAt |-> at + ms]
  BY <1>2, <1>3
<1>5. Updated(keyspace, stored, name, value, at + ms)
  BY <1>1, <1>3, <1>4 DEF Updated
<1>6. QED
  BY <1>5 DEF stored, put

LEMMA FixedWindowRuns ==
    ASSUME NEW keyspace, Positive(keyspace), NEW at, NEW key, NEW limit, NEW window, NEW now
    PROVE  LET name == WindowKey(key, now \div window)
               count == Get(keyspace, name, 0) + 1
               after == FW!RedisScript(keyspace, at, key, limit, window, now)
           IN  /\ count \in Nat \ {0} /\ (count # 1 <=> name \in DOMAIN keyspace)
               /\ after.reply.allowed = (count <= limit)
               /\ after.reply.remaining = NonNegative(limit - count)
               /\ after.reply.resetMs
                     = NonNegative((now \div window + 1) * window - now)
               /\ Updated(keyspace, after.db, name, count,
                          IF count = 1 THEN at + window ELSE keyspace[name].expireAt)
<1> DEFINE name == WindowKey(key, now \div window)
           count == Get(keyspace, name, 0) + 1
           counted == Put(keyspace, name, count)
           after == FW!RedisScript(keyspace, at, key, limit, window, now)
           fwName == FW!WindowKey(key, now \div window)
           fwCount == FW!Get(keyspace, fwName, 0) + 1
           fwCounted == FW!Put(keyspace, fwName, fwCount)
<1>1. /\ after.db = IF fwCount = 1 THEN FW!PExpire(fwCounted, fwName, at, window) ELSE fwCounted
      /\ after.reply.allowed = (fwCount <= limit)
      /\ after.reply.remaining = FW!NonNegative(limit - fwCount)
      /\ after.reply.resetMs = FW!NonNegative((now \div window + 1) * window - now)
  BY Zenon DEF FW!RedisScript, FW!Reply
<1>2. fwName = name /\ fwCount = count /\ fwCounted = counted
  BY FWCommands
<1>3. \A n : FW!NonNegative(n) = NonNegative(n)
  BY DEF FW!NonNegative, NonNegative
<1>4. after.db = IF count = 1 THEN PExpire(counted, name, at, window) ELSE counted
  BY <1>1, <1>2, FWCommands
<1>5. count \in Nat \ {0} /\ (count # 1 <=> name \in DOMAIN keyspace)
  BY DEF Get, Positive
<1> HIDE DEF after, name, count, fwCount
<1>6. Updated(keyspace, after.db, name, count,
              IF count = 1 THEN at + window ELSE keyspace[name].expireAt)
  <2>1. CASE count = 1
    BY <1>4, <2>1, StoredIsUpdated
  <2>2. CASE count # 1
    BY <1>4, <1>5, <2>2 DEF Updated, Put
  <2>3. QED
    BY <2>1, <2>2
<1>7. QED
  BY <1>1, <1>2, <1>3, <1>5, <1>6 DEF after, name, count

(* The counters a request finds, moved to its window, and what they count. *)
Moved(keyspace, key, window, now) ==
    SC!Shift(Get(keyspace, Plain(key), SC!NoHash), now \div window)
Weight(hash, window, now) ==
    (hash.prevCount * NonNegative(window - (now - hash.window * window))) \div window
Estimate(hash, window, now) == Weight(hash, window, now) + hash.count

LEMMA SlidingCounterRuns ==
    ASSUME NEW keyspace, NEW at, NEW key, NEW limit, NEW window, NEW now
    PROVE  LET hash == Moved(keyspace, key, window, now)
               estimate == Estimate(hash, window, now)
               spent == IF estimate + 1 <= limit THEN 1 ELSE 0
               after == SC!RedisScript(keyspace, at, key, limit, window, now)
           IN  /\ after.reply.allowed = (estimate + 1 <= limit)
               /\ after.reply.remaining = NonNegative(limit - estimate - spent)
               /\ after.reply.resetMs = NonNegative(hash.window * window + window - now)
               /\ Updated(keyspace, after.db, Plain(key),
                          [hash EXCEPT !.count = @ + spent], at + 2 * window)
<1> DEFINE scHash == SC!Shift(SC!Get(keyspace, SC!Plain(key), SC!NoHash), now \div window)
           scWeighted == (scHash.prevCount * SC!NonNegative(window - (now - scHash.window * window)))
                           \div window
           scEstimate == scWeighted + scHash.count
           scSpent == IF scEstimate + 1 <= limit THEN 1 ELSE 0
           scStored == [scHash EXCEPT !.count = @ + scSpent]
           after == SC!RedisScript(keyspace, at, key, limit, window, now)
<1>1. /\ after.db = SC!PExpire(SC!Put(keyspace, SC!Plain(key), scStored),
                               SC!Plain(key), at, 2 * window)
      /\ after.reply.allowed = (scEstimate + 1 <= limit)
      /\ after.reply.remaining = SC!NonNegative(limit - scEstimate - scSpent)
      /\ after.reply.resetMs = SC!NonNegative(scHash.window * window + window - now)
  BY Zenon DEF SC!RedisScript, SC!Reply
<1> DEFINE hash == Moved(keyspace, key, window, now)
           estimate == Estimate(hash, window, now)
           spent == IF estimate + 1 <= limit THEN 1 ELSE 0
           stored == [hash EXCEPT !.count = @ + spent]
<1>2. \A n : SC!NonNegative(n) = NonNegative(n)
  BY DEF SC!NonNegative, NonNegative
<1>3. scHash = hash
  BY SCCommands DEF Moved
<1> HIDE DEF scHash, hash, after
<1>4. scWeighted = Weight(hash, window, now)
  BY <1>2, <1>3 DEF Weight
<1> HIDE DEF scWeighted
<1>5. scEstimate = estimate
  BY <1>3, <1>4 DEF Estimate
<1> HIDE DEF scEstimate, estimate
<1>6. scSpent = spent
  BY <1>5
<1> HIDE DEF scSpent, spent
<1>7. scStored = stored
  BY <1>3, <1>6
<1> HIDE DEF scStored, stored
<1>8. after.db = PExpire(Put(keyspace, Plain(key), stored), Plain(key), at, 2 * window)
  BY <1>1, <1>7, SCCommands
<1>9. Updated(keyspace, after.db, Plain(key), stored, at + 2 * window)
  BY <1>8, StoredIsUpdated
<1>10. /\ after.reply.allowed = (estimate + 1 <= limit)
       /\ after.reply.remaining = NonNegative(limit - estimate - spent)
       /\ after.reply.resetMs = NonNegative(hash.window * window + window - now)
  BY <1>1, <1>2, <1>3, <1>5, <1>6
<1>11. QED
  BY <1>9, <1>10 DEF after, stored, spent, estimate, hash

LEMMA SLCardinality ==
    ASSUME NEW S
    PROVE  SL!Cardinality(S) = Cardinality(S)
BY DEF SL!Cardinality, Cardinality

(* The sorted set of a key, the part of it that a request still counts, and *)
(* what it leaves; the keyspace after it has taken a number.                *)
LogOf(keyspace, key) == Get(keyspace, Plain(key), {})
Alive(keyspace, key, window, now) == SL!Newer(LogOf(keyspace, key), now - window)
NextSeq(keyspace, key) == Get(keyspace, SeqKey(key), 0) + 1
Logged(keyspace, key, limit, window, now) ==
    LET live == Alive(keyspace, key, window, now)
    IN  IF Cardinality(live) < limit THEN live \cup {<<now, NextSeq(keyspace, key)>>} ELSE live
Numbered(keyspace, at, key, window) ==
    PExpire(Put(keyspace, SeqKey(key), NextSeq(keyspace, key)), SeqKey(key), at, 2 * window)

LEMMA SlidingLogRuns ==
    ASSUME NEW keyspace, NEW at, NEW key, NEW limit, NEW window, NEW now
    PROVE  LET count == Cardinality(Alive(keyspace, key, window, now))
               log == Logged(keyspace, key, limit, window, now)
               before == Numbered(keyspace, at, key, window)
               after == SL!RedisScript(keyspace, at, key, limit, window, now)
           IN  /\ after.reply.allowed = (count < limit)
               /\ after.reply.remaining = IF count < limit THEN limit - (count + 1) ELSE 0
               /\ after.reply.resetMs = NonNegative(SL!Oldest(log) + window - now)
               /\ Updated(keyspace, before, SeqKey(key), NextSeq(keyspace, key), at + 2 * window)
               /\ Updated(IF count < limit THEN before ELSE keyspace, after.db,
                          Plain(key), log, at + 2 * window)
<1> DEFINE live == Alive(keyspace, key, window, now)
           seq == NextSeq(keyspace, key)
           before == Numbered(keyspace, at, key, window)
           added == live \cup {<<now, seq>>}
           slLive == SL!Newer(SL!Get(keyspace, SL!Plain(key), {}), now - window)
           slCount == SL!Cardinality(slLive)
           slStored == IF slCount < limit THEN SL!Add(keyspace, at, key, window, slLive, now)
                       ELSE SL!Put(keyspace, SL!Plain(key), slLive)
           slLog == SL!Get(slStored, SL!Plain(key), {})
           after == SL!RedisScript(keyspace, at, key, limit, window, now)
<1>1. /\ after.db = SL!PExpire(slStored, SL!Plain(key), at, 2 * window)
      /\ after.reply.allowed = (slCount < limit)
      /\ after.reply.remaining = IF slCount < limit THEN limit - (slCount + 1) ELSE 0
      /\ after.reply.resetMs = SL!NonNegative(SL!Oldest(slLog) + window - now)
  BY Zenon DEF SL!RedisScript, SL!Reply
<1>2. slLive = live
  BY SLCommands DEF Alive, LogOf
<1>3. SL!Add(keyspace, at, key, window, live, now) = Put(before, Plain(key), added)
  <2>1. SL!Add(keyspace, at, key, window, live, now)
           = SL!Put(SL!PExpire(SL!Put(keyspace, SL!SeqKey(key),
                                      SL!Get(keyspace, SL!SeqKey(key), 0) + 1),
                               SL!SeqKey(key), at, 2 * window),
                    SL!Plain(key), live \cup {<<now, SL!Get(keyspace, SL!SeqKey(key), 0) + 1>>})
    BY Zenon DEF SL!Add
  <2>2. SL!SeqKey(key) = SeqKey(key)
    BY DEF SL!SeqKey, SeqKey
  <2>3. SL!Get(keyspace, SL!SeqKey(key), 0) + 1 = seq
    BY <2>2, SLCommands DEF NextSeq
  <2>4. SL!PExpire(SL!Put(keyspace, SL!SeqKey(key), seq), SL!SeqKey(key), at, 2 * window) = before
    BY <2>2, SLCommands DEF Numbered
  <2> HIDE DEF seq, before, live
  <2>5. SL!Put(before, SL!Plain(key), added) = Put(before, Plain(key), added)
    BY SLCommands
  <2>6. QED
    BY <2>1, <2>2, <2>3, <2>4, <2>5
<1> HIDE DEF slLive, after
<1> DEFINE count == Cardinality(live)
           log == IF count < limit THEN added ELSE live
           stored == Put(IF count < limit THEN before ELSE keyspace, Plain(key), log)
<1> HIDE DEF live, before, seq
<1>4. slStored = stored
  BY <1>2, <1>3, SLCommands, SLCardinality
<1>5. slLog = log
  <2>1. \A ks, v : Get(Put(ks, Plain(key), v), Plain(key), {}) = v
    BY DEF Get, Put
  <2>2. SL!Get(stored, SL!Plain(key), {}) = Get(stored, Plain(key), {})
    BY SLCommands
  <2> HIDE DEF log, slStored
  <2>3. Get(stored, Plain(key), {}) = log
    BY <2>1
  <2>4. QED
    BY <1>4, <2>2, <2>3
<1>6. slCount = count
  BY <1>2, SLCardinality
<1> HIDE DEF slStored, slLog, slCount
<1>7. after.db = PExpire(stored, Plain(key), at, 2 * window)
  BY <1>1, <1>4, SLCommands
<1> HIDE DEF log, count
<1>8. Updated(IF count < limit THEN before ELSE keyspace, after.db,
              Plain(key), log, at + 2 * window)
  BY <1>7, StoredIsUpdated
<1>9. Updated(keyspace, before, SeqKey(key), seq, at + 2 * window)
  BY StoredIsUpdated DEF before, seq, Numbered
<1>10. /\ after.reply.allowed = (count < limit)
       /\ after.reply.remaining = IF count < limit THEN limit - (count + 1) ELSE 0
       /\ after.reply.resetMs = NonNegative(SL!Oldest(log) + window - now)
  BY <1>1, <1>5, <1>6 DEF SL!NonNegative, NonNegative
<1>11. log = Logged(keyspace, key, limit, window, now)
  BY DEF log, count, seq, live, Logged
<1>12. QED
  BY <1>8, <1>9, <1>10, <1>11 DEF after, count, before, seq, live

(* What a bucket holds once it has been brought up to a request.           *)
Filled(keyspace, key, limit, window, now) ==
    TB!RedisRefill(Get(keyspace, Plain(key), [tokens |-> 0, lastUpdated |-> NoTime]),
                   limit, window, now)
Drained(keyspace, key, limit, window, now) ==
    LB!RedisLeak(Get(keyspace, Plain(key), [water |-> 0, lastUpdated |-> NoTime]),
                 limit, window, now)

LEMMA TokenBucketRuns ==
    ASSUME NEW keyspace, NEW at, NEW key, NEW limit, NEW window, NEW now
    PROVE  LET filled == Filled(keyspace, key, limit, window, now)
               allowed == filled >= TokenUnit
               left == IF allowed THEN filled - TokenUnit ELSE filled
               missing == IF allowed THEN TB!Capacity(limit) - left ELSE TokenUnit - left
               after == TB!RedisScript(keyspace, at, key, limit, window, now)
           IN  /\ after.reply.allowed = allowed
               /\ after.reply.remaining = left \div TokenUnit
               /\ after.reply.resetMs = CeilDiv(missing, TB!FillRate(limit, window))
               /\ Updated(keyspace, after.db, Plain(key),
                          [tokens |-> left, lastUpdated |-> now], at + 2 * window)
<1> DEFINE tbAbsent == [tokens |-> 0, lastUpdated |-> TB!NoTime]
           tbFilled == TB!RedisRefill(TB!Get(keyspace, TB!Plain(key), tbAbsent), limit, window, now)
           tbAllowed == tbFilled >= TokenUnit
           tbLeft == IF tbAllowed THEN tbFilled - TokenUnit ELSE tbFilled
           tbMissing == IF tbAllowed THEN TB!Capacity(limit) - tbLeft ELSE TokenUnit - tbLeft
           after == TB!RedisScript(keyspace, at, key, limit, window, now)
           filled == Filled(keyspace, key, limit, window, now)
           stored == [tokens |-> tbLeft, lastUpdated |-> now]
<1>1. /\ after.db = TB!PExpire(TB!Put(keyspace, TB!Plain(key), stored), TB!Plain(key), at, 2 * window)
      /\ after.reply.allowed = tbAllowed
      /\ after.reply.remaining = tbLeft \div TokenUnit
      /\ after.reply.resetMs = TB!CeilDiv(tbMissing, TB!FillRate(limit, window))
  BY Zenon DEF TB!RedisScript, TB!Reply
<1>2. tbFilled = filled
  BY TBCommands DEF TB!NoTime, NoTime, Filled
<1> HIDE DEF tbFilled, filled, after
<1>3. Updated(keyspace, after.db, Plain(key), stored, at + 2 * window)
  <2> HIDE DEF stored
  <2>1. after.db = PExpire(Put(keyspace, Plain(key), stored), Plain(key), at, 2 * window)
    BY <1>1, TBCommands
  <2>2. QED
    BY <2>1, StoredIsUpdated
<1>4. \A a, b : TB!CeilDiv(a, b) = CeilDiv(a, b)
  BY DEF TB!CeilDiv, CeilDiv
<1> DEFINE allowed == filled >= TokenUnit
           left == IF allowed THEN filled - TokenUnit ELSE filled
           missing == IF allowed THEN TB!Capacity(limit) - left ELSE TokenUnit - left
<1>5. tbAllowed = allowed /\ tbLeft = left /\ tbMissing = missing
  BY <1>2
<1>6. /\ after.reply.allowed = allowed
      /\ after.reply.remaining = left \div TokenUnit
      /\ after.reply.resetMs = CeilDiv(missing, TB!FillRate(limit, window))
      /\ Updated(keyspace, after.db, Plain(key),
                 [tokens |-> left, lastUpdated |-> now], at + 2 * window)
  BY <1>1, <1>3, <1>4, <1>5
<1>7. QED
  BY <1>6 DEF after, filled

LEMMA LeakyBucketRuns ==
    ASSUME NEW keyspace, NEW at, NEW key, NEW limit, NEW window, NEW now
    PROVE  LET drained == Drained(keyspace, key, limit, window, now)
               allowed == drained + TokenUnit <= LB!Capacity(limit)
               level == IF allowed THEN drained + TokenUnit ELSE drained
               excess == IF allowed THEN level ELSE level + TokenUnit - LB!Capacity(limit)
               after == LB!RedisScript(keyspace, at, key, limit, window, now)
           IN  /\ after.reply.allowed = allowed
               /\ after.reply.remaining = NonNegative((LB!Capacity(limit) - level) \div TokenUnit)
               /\ after.reply.resetMs = CeilDiv(excess, LB!LeakRate(limit, window))
               /\ Updated(keyspace, after.db, Plain(key),
                          [water |-> level, lastUpdated |-> now], at + 2 * window)
<1> DEFINE lbAbsent == [water |-> 0, lastUpdated |-> LB!NoTime]
           lbDrained == LB!RedisLeak(LB!Get(keyspace, LB!Plain(key), lbAbsent), limit, window, now)
           lbAllowed == lbDrained + TokenUnit <= LB!Capacity(limit)
           lbLevel == IF lbAllowed THEN lbDrained + TokenUnit ELSE lbDrained
           lbExcess == IF lbAllowed THEN lbLevel ELSE lbLevel + TokenUnit - LB!Capacity(limit)
           after == LB!RedisScript(keyspace, at, key, limit, window, now)
           drained == Drained(keyspace, key, limit, window, now)
           stored == [water |-> lbLevel, lastUpdated |-> now]
<1>1. /\ after.db = LB!PExpire(LB!Put(keyspace, LB!Plain(key), stored), LB!Plain(key), at, 2 * window)
      /\ after.reply.allowed = lbAllowed
      /\ after.reply.remaining = LB!NonNegative((LB!Capacity(limit) - lbLevel) \div TokenUnit)
      /\ after.reply.resetMs = LB!CeilDiv(lbExcess, LB!LeakRate(limit, window))
  BY Zenon DEF LB!RedisScript, LB!Reply
<1>2. lbDrained = drained
  BY LBCommands DEF LB!NoTime, NoTime, Drained
<1> HIDE DEF lbDrained, drained, after
<1>3. Updated(keyspace, after.db, Plain(key), stored, at + 2 * window)
  <2> HIDE DEF stored
  <2>1. after.db = PExpire(Put(keyspace, Plain(key), stored), Plain(key), at, 2 * window)
    BY <1>1, LBCommands
  <2>2. QED
    BY <2>1, StoredIsUpdated
<1>4. /\ \A a, b : LB!CeilDiv(a, b) = CeilDiv(a, b)
      /\ \A n : LB!NonNegative(n) = NonNegative(n)
  BY DEF LB!CeilDiv, CeilDiv, LB!NonNegative, NonNegative
<1> DEFINE allowed == drained + TokenUnit <= LB!Capacity(limit)
           level == IF allowed THEN drained + TokenUnit ELSE drained
           excess == IF allowed THEN level ELSE level + TokenUnit - LB!Capacity(limit)
<1>5. lbAllowed = allowed /\ lbLevel = level /\ lbExcess = excess
  BY <1>2
<1>6. /\ after.reply.allowed = allowed
      /\ after.reply.remaining = NonNegative((LB!Capacity(limit) - level) \div TokenUnit)
      /\ after.reply.resetMs = CeilDiv(excess, LB!LeakRate(limit, window))
      /\ Updated(keyspace, after.db, Plain(key),
                 [water |-> level, lastUpdated |-> now], at + 2 * window)
  BY <1>1, <1>3, <1>4, <1>5
<1>7. QED
  BY <1>6 DEF after, drained

-------------------------------------------------------------------------------
(* A step seen from one key.                                               *)

(* Two keyspaces hold the same of a rate limit key.                        *)
Agree(before, after, key) ==
    \A name : name[1] = key =>
        /\ name \in DOMAIN before <=> name \in DOMAIN after
        /\ name \in DOMAIN before => after[name] = before[name]

LEMMA UpdatedElsewhere ==
    ASSUME NEW before, NEW after, NEW name, NEW value, NEW expireAt,
           Updated(before, after, name, value, expireAt), NEW key, name[1] # key
    PROVE  Agree(before, after, key)
BY DEF Updated, Agree

LEMMA AgreeTwice ==
    ASSUME NEW before, NEW between, NEW after, NEW key,
           Agree(before, between, key), Agree(between, after, key)
    PROVE  Agree(before, after, key)
BY DEF Agree

(* A script leaves the other keys alone.                                   *)
LEMMA ScriptAgrees ==
    ASSUME NEW keyspace, strategy = "fixed_window" => Positive(keyspace),
           strategy \in AllStrategies,
           NEW at, NEW key, NEW policy, NEW now, NEW other, other # key
    PROVE  Agree(keyspace, Script(keyspace, at, key, policy, now).db, other)
<1> DEFINE limit == policy.limit
           window == WindowMs(policy.window)
           after == Script(keyspace, at, key, policy, now).db
<1> HIDE DEF limit, window
<1>1. \A n : Plain(key)[1] # other /\ SeqKey(key)[1] # other /\ WindowKey(key, n)[1] # other
  BY NamesOfKeys
<1>2. CASE strategy = "fixed_window"
  <2>1. after = FW!RedisScript(keyspace, at, key, limit, window, now).db
    BY <1>2 DEF Script, limit, window
  <2> HIDE DEF after
  <2>2. \E v, e : Updated(keyspace, after, WindowKey(key, now \div window), v, e)
    BY <1>2, <2>1, FixedWindowRuns
  <2>3. QED
    BY <1>1, <2>2, UpdatedElsewhere DEF after
<1>3. CASE strategy = "sliding_counter"
  <2>1. after = SC!RedisScript(keyspace, at, key, limit, window, now).db
    BY <1>3 DEF Script, limit, window
  <2> HIDE DEF after
  <2>2. \E v, e : Updated(keyspace, after, Plain(key), v, e)
    BY <2>1, SlidingCounterRuns
  <2>3. QED
    BY <1>1, <2>2, UpdatedElsewhere DEF after
<1>4. CASE strategy = "sliding_log"
  <2>1. after = SL!RedisScript(keyspace, at, key, limit, window, now).db
    BY <1>4 DEF Script, limit, window
  <2> HIDE DEF after
  <2>2. PICK between : /\ \/ between = keyspace
                          \/ \E v, e : Updated(keyspace, between, SeqKey(key), v, e)
                       /\ \E v, e : Updated(between, after, Plain(key), v, e)
    <3> DEFINE before == Numbered(keyspace, at, key, window)
               count == Cardinality(Alive(keyspace, key, window, now))
               between == IF count < limit THEN before ELSE keyspace
    <3>1. /\ Updated(keyspace, before, SeqKey(key), NextSeq(keyspace, key), at + 2 * window)
          /\ Updated(between, after, Plain(key), Logged(keyspace, key, limit, window, now),
                     at + 2 * window)
      BY <2>1, SlidingLogRuns
    <3> HIDE DEF before, count
    <3>2. QED
      BY <3>1
  <2>3. Agree(keyspace, between, other)
    <3>1. Agree(keyspace, keyspace, other)
      BY DEF Agree
    <3>2. QED
      BY <1>1, <2>2, <3>1, UpdatedElsewhere
  <2>4. Agree(between, after, other)
    BY <1>1, <2>2, UpdatedElsewhere
  <2>5. QED
    BY <2>3, <2>4, AgreeTwice DEF after
<1>5. CASE strategy = "token_bucket"
  <2>1. after = TB!RedisScript(keyspace, at, key, limit, window, now).db
    BY <1>5 DEF Script, limit, window
  <2> HIDE DEF after
  <2>2. \E v, e : Updated(keyspace, after, Plain(key), v, e)
    BY <2>1, TokenBucketRuns
  <2>3. QED
    BY <1>1, <2>2, UpdatedElsewhere DEF after
<1>6. CASE strategy = "leaky_bucket"
  <2>1. after = LB!RedisScript(keyspace, at, key, limit, window, now).db
    BY <1>6 DEF Script, limit, window
  <2> HIDE DEF after
  <2>2. \E v, e : Updated(keyspace, after, Plain(key), v, e)
    BY <2>1, LeakyBucketRuns
  <2>3. QED
    BY <1>1, <2>2, UpdatedElsewhere DEF after
<1>7. QED
  BY <1>2, <1>3, <1>4, <1>5, <1>6 DEF AllStrategies

(* What is left at a later instant.                                        *)
LEMMA LiveIs ==
    ASSUME NEW keyspace, NEW at \in Nat, Bounded(keyspace, at), NEW later \in Nat
    PROVE  LET left == Live(keyspace, later)
           IN  /\ DOMAIN left = {n \in DOMAIN keyspace : later <= keyspace[n].expireAt}
               /\ \A n \in DOMAIN left : left[n] = keyspace[n]
<1> DEFINE left == Live(keyspace, later)
           dead == {n \in DOMAIN keyspace : keyspace[n].expireAt # Never /\ keyspace[n].expireAt < later}
<1>1. ASSUME NEW n \in DOMAIN keyspace
      PROVE  keyspace[n].expireAt \in Nat /\ at <= keyspace[n].expireAt
  <2>1. PICK p \in Policies : keyspace[n].expireAt \in at .. at + 2 * WindowMs(p.window)
    BY DEF Bounded
  <2>2. QED
    BY <2>1, WindowsAreNumbers
<1>2. left = [n \in DOMAIN keyspace \ dead |-> keyspace[n]]
  BY DEF Live, Del
<1>3. DOMAIN keyspace \ dead = {n \in DOMAIN keyspace : later <= keyspace[n].expireAt}
  BY <1>1 DEF Never
<1> HIDE DEF left, dead
<1>4. QED
  BY <1>2, <1>3 DEF left

-------------------------------------------------------------------------------
(* What the scripts keep in their keys.                                    *)
Hashes == [window : Nat \ {0}, count : Nat, prevCount : Nat]
Fills == [tokens : Nat, lastUpdated : Nat]
Levels == [water : Nat, lastUpdated : Nat]
Logs == {log \in SUBSET (Nat \X (Nat \ {0})) : IsFiniteSet(log)}

Has(keyspace, name, values) ==
    name \in DOMAIN keyspace => keyspace[name].value \in values

Typed(keyspace, key) ==
    /\ strategy = "sliding_counter" => Has(keyspace, Plain(key), Hashes)
    /\ strategy = "sliding_log" => /\ Has(keyspace, Plain(key), Logs)
                                   /\ Has(keyspace, SeqKey(key), Nat \ {0})
    /\ strategy = "token_bucket" => Has(keyspace, Plain(key), Fills)
    /\ strategy = "leaky_bucket" => Has(keyspace, Plain(key), Levels)

(* A clock reading that a request may come with.                           *)
Reading(now) == now \in Nat /\ \A policy \in Policies : now >= WindowMs(policy.window)

LEMMA PolicyIs ==
    ASSUME NEW policy \in Policies
    PROVE  LET window == WindowMs(policy.window)
           IN  /\ window \in Nat \ {0}
               /\ policy.limit \in Nat \ {0}
               /\ TokenUnit \in Nat \ {0}
               /\ TokenUnit % window = 0
BY RedisAssumption, AlgorithmAssumption, WindowsAreNumbers

(* The rate of a bucket in units per tick.                                 *)
RateOf(policy) == policy.limit * (TokenUnit \div WindowMs(policy.window))
FullOf(policy) == policy.limit * TokenUnit

LEMMA RateIs ==
    ASSUME NEW policy \in Policies
    PROVE  LET window == WindowMs(policy.window)
           IN  /\ RateOf(policy) \in Nat \ {0} /\ FullOf(policy) \in Nat
               /\ TokenUnit <= FullOf(policy)
               /\ FullOf(policy) = window * RateOf(policy)
               /\ TB!Capacity(policy.limit) = FullOf(policy)
               /\ LB!Capacity(policy.limit) = FullOf(policy)
               /\ TB!FillRate(policy.limit, window) = RateOf(policy)
               /\ LB!LeakRate(policy.limit, window) = RateOf(policy)
<1> DEFINE window == WindowMs(policy.window)
           limit == policy.limit
           tick == TokenUnit \div window
<1>1. window \in Nat \ {0} /\ limit \in Nat \ {0} /\ TokenUnit \in Nat \ {0} /\ TokenUnit % window = 0
  BY PolicyIs
<1> HIDE DEF window, limit
<1>2. /\ tick \in Nat \ {0} /\ TokenUnit = window * tick
      /\ limit * tick \in Nat \ {0}
      /\ limit * TokenUnit \in Nat /\ TokenUnit <= limit * TokenUnit
  BY <1>1, WholeRate, Zenon
<1> HIDE DEF tick
<1>3. limit * TokenUnit = window * (limit * tick)
  BY <1>1, <1>2, FullIsAWindow
<1>4. QED
  BY <1>2, <1>3
     DEF RateOf, FullOf, TB!Capacity, LB!Capacity, TB!FillRate, LB!LeakRate, tick, window, limit

(* The reply announces what the next request at the same instant gets.     *)
Truthful(first, next) ==
    /\ next.allowed <=> first.remaining > 0
    /\ next.allowed => next.remaining = first.remaining - 1

LEMMA FixedWindowTells ==
    ASSUME NEW keyspace, NEW left, Positive(keyspace), Positive(left),
           NEW at, NEW key, NEW policy \in Policies, NEW now,
           Agree(FW!RedisScript(keyspace, at, key, policy.limit, WindowMs(policy.window), now).db,
                 left, key)
    PROVE  LET limit == policy.limit
               window == WindowMs(policy.window)
           IN  Truthful(FW!RedisScript(keyspace, at, key, limit, window, now).reply,
                        FW!RedisScript(left, at, key, limit, window, now).reply)
<1> DEFINE limit == policy.limit
           window == WindowMs(policy.window)
           name == WindowKey(key, now \div window)
           count == Get(keyspace, name, 0) + 1
           again == Get(left, name, 0) + 1
           first == FW!RedisScript(keyspace, at, key, limit, window, now)
           next == FW!RedisScript(left, at, key, limit, window, now)
<1>1. limit \in Nat
  BY PolicyIs
<1>2. /\ count \in Nat
      /\ first.reply.remaining = NonNegative(limit - count)
      /\ \E e : Updated(keyspace, first.db, name, count, e)
  BY FixedWindowRuns
<1>3. /\ next.reply.allowed = (again <= limit)
      /\ next.reply.remaining = NonNegative(limit - again)
  BY FixedWindowRuns
<1>4. again = count + 1
  <2>1. name \in DOMAIN first.db /\ first.db[name].value = count
    BY <1>2 DEF Updated
  <2>2. name[1] = key
    BY NamesOfKeys
  <2>3. name \in DOMAIN left /\ left[name].value = count
    BY <2>1, <2>2 DEF Agree
  <2> HIDE DEF name, count
  <2>4. QED
    BY <2>3 DEF Get
<1> HIDE DEF limit, window, name, count, again, first, next
<1>5. /\ again <= limit <=> NonNegative(limit - count) > 0
      /\ again <= limit => NonNegative(limit - again) = NonNegative(limit - count) - 1
  BY <1>1, <1>2, <1>4 DEF NonNegative
<1>6. Truthful(first.reply, next.reply)
  BY <1>2, <1>3, <1>5 DEF Truthful
<1>7. QED
  BY <1>6 DEF first, next, limit, window

LEMMA ShiftIs ==
    ASSUME NEW hash \in Hashes \cup {SC!NoHash}, NEW current \in Nat \ {0}
    PROVE  LET shifted == SC!Shift(hash, current)
           IN  /\ shifted \in Hashes
               /\ current <= shifted.window
               /\ \A h \in Hashes : current <= h.window => SC!Shift(h, current) = h
<1>1. SC!NoHash = [window |-> 0, count |-> 0, prevCount |-> 0]
  BY DEF SC!NoHash
<1>2. \A h \in Hashes : h.window # 0 /\ h.window \in Nat
  BY DEF Hashes
<1>3. SC!Shift(hash, current) \in Hashes /\ current <= SC!Shift(hash, current).window
  <2>1. CASE hash = SC!NoHash
    BY <1>1, <2>1 DEF SC!Shift, Hashes
  <2>2. CASE hash \in Hashes
    BY <1>2, <2>2 DEF SC!Shift, Hashes
  <2>3. QED
    BY <2>1, <2>2
<1>4. ASSUME NEW h \in Hashes, current <= h.window PROVE SC!Shift(h, current) = h
  BY <1>2, <1>4 DEF SC!Shift
<1>5. QED
  BY <1>3, <1>4

LEMMA WeightIs ==
    ASSUME NEW hash \in Hashes, NEW window \in Nat \ {0}, NEW now \in Int
    PROVE  Weight(hash, window, now) \in Nat
<1> DEFINE share == NonNegative(window - (now - hash.window * window))
           p == hash.prevCount * share
<1>1. hash.prevCount \in Nat /\ hash.window \in Nat
  BY DEF Hashes
<1>2. share \in Nat
  <2> DEFINE d == window - (now - hash.window * window)
  <2>1. d \in Int
    BY <1>1
  <2>2. share = NonNegative(d)
    OBVIOUS
  <2> HIDE DEF d, share
  <2>3. QED
    BY <2>1, <2>2 DEF NonNegative
<1> HIDE DEF share
<1>3. p \in Nat
  BY <1>1, <1>2
<1> HIDE DEF p
<1>4. p \div window \in Nat
  BY <1>3
<1>5. QED
  BY <1>4 DEF Weight, p, share

LEMMA SlidingCounterTells ==
    ASSUME NEW keyspace, NEW left, NEW at, NEW key, NEW policy \in Policies, NEW now,
           Reading(now), Has(keyspace, Plain(key), Hashes),
           Agree(SC!RedisScript(keyspace, at, key, policy.limit, WindowMs(policy.window), now).db,
                 left, key)
    PROVE  LET limit == policy.limit
               window == WindowMs(policy.window)
           IN  Truthful(SC!RedisScript(keyspace, at, key, limit, window, now).reply,
                        SC!RedisScript(left, at, key, limit, window, now).reply)
<1> DEFINE limit == policy.limit
           window == WindowMs(policy.window)
           current == now \div window
           found == Get(keyspace, Plain(key), SC!NoHash)
           hash == Moved(keyspace, key, window, now)
           estimate == Estimate(hash, window, now)
           spent == IF estimate + 1 <= limit THEN 1 ELSE 0
           stored == [hash EXCEPT !.count = @ + spent]
           later == Moved(left, key, window, now)
           used == Estimate(later, window, now)
           more == IF used + 1 <= limit THEN 1 ELSE 0
           first == SC!RedisScript(keyspace, at, key, limit, window, now)
           next == SC!RedisScript(left, at, key, limit, window, now)
<1>1. limit \in Nat /\ window \in Nat \ {0} /\ now \in Nat /\ now >= window
  BY PolicyIs DEF Reading
<1>2. current \in Nat \ {0}
  <2>1. 1 * window <= now
    BY <1>1
  <2> HIDE DEF window
  <2>2. current \in Int /\ 1 <= current
    BY <1>1, <2>1, QuotientAtLeast
  <2>3. QED
    BY <2>2
<1>3. found \in Hashes \cup {SC!NoHash}
  BY DEF Get, Has
<1>4. /\ first.reply.remaining = NonNegative(limit - estimate - spent)
      /\ Updated(keyspace, first.db, Plain(key), stored, at + 2 * window)
  BY SlidingCounterRuns
<1>5. /\ next.reply.allowed = (used + 1 <= limit)
      /\ next.reply.remaining = NonNegative(limit - used - more)
      /\ Updated(left, next.db, Plain(key), [later EXCEPT !.count = @ + more], at + 2 * window)
  BY SlidingCounterRuns
<1>15. /\ hash = SC!Shift(found, current)
       /\ later = SC!Shift(Get(left, Plain(key), SC!NoHash), current)
  BY DEF Moved
<1> HIDE DEF limit, window, current, found, first, next, hash, later
<1>6. hash \in Hashes /\ current <= hash.window
  BY <1>2, <1>3, <1>15, ShiftIs
<1>7. Weight(hash, window, now) \in Nat /\ hash.count \in Nat
  BY <1>1, <1>6, WeightIs DEF Hashes
<1>8. stored \in Hashes /\ current <= stored.window /\ stored.count = hash.count + spent
      /\ stored.window = hash.window /\ stored.prevCount = hash.prevCount
  BY <1>6, <1>7 DEF Hashes
<1> HIDE DEF stored
<1>9. later = stored
  <2>1. Plain(key) \in DOMAIN first.db /\ first.db[Plain(key)].value = stored
    BY <1>4 DEF Updated
  <2>2. Plain(key) \in DOMAIN left /\ left[Plain(key)].value = stored
    BY <2>1, NamesOfKeys DEF Agree, first, limit, window
  <2>3. Get(left, Plain(key), SC!NoHash) = stored
    BY <2>2 DEF Get
  <2>4. QED
    BY <1>2, <1>3, <1>8, <1>15, <2>3, ShiftIs
<1>10. used = estimate + spent
  BY <1>7, <1>8, <1>9 DEF Weight, Estimate
<1>11. estimate \in Nat
  BY <1>7 DEF Estimate
<1> HIDE DEF estimate, used
<1>12. /\ used + 1 <= limit <=> NonNegative(limit - estimate - spent) > 0
       /\ used + 1 <= limit => NonNegative(limit - used - more)
                                 = NonNegative(limit - estimate - spent) - 1
  BY <1>1, <1>10, <1>11 DEF NonNegative
<1> HIDE DEF spent, more
<1>13. Truthful(first.reply, next.reply)
  BY <1>4, <1>5, <1>12 DEF Truthful
<1>14. QED
  BY <1>13 DEF first, next, limit, window

LEMMA SlidingLogTells ==
    ASSUME NEW keyspace, NEW left, NEW at, NEW key, NEW policy \in Policies, NEW now \in Nat,
           Has(keyspace, Plain(key), Logs),
           <<now, NextSeq(keyspace, key)>> \notin LogOf(keyspace, key),
           Agree(SL!RedisScript(keyspace, at, key, policy.limit, WindowMs(policy.window), now).db,
                 left, key)
    PROVE  LET limit == policy.limit
               window == WindowMs(policy.window)
           IN  Truthful(SL!RedisScript(keyspace, at, key, limit, window, now).reply,
                        SL!RedisScript(left, at, key, limit, window, now).reply)
<1> DEFINE limit == policy.limit
           window == WindowMs(policy.window)
           live == Alive(keyspace, key, window, now)
           count == Cardinality(live)
           seq == NextSeq(keyspace, key)
           before == Numbered(keyspace, at, key, window)
           log == Logged(keyspace, key, limit, window, now)
           still == Alive(left, key, window, now)
           again == Cardinality(still)
           seq2 == NextSeq(left, key)
           before2 == Numbered(left, at, key, window)
           log2 == Logged(left, key, limit, window, now)
           first == SL!RedisScript(keyspace, at, key, limit, window, now)
           next == SL!RedisScript(left, at, key, limit, window, now)
<1>1. limit \in Nat /\ window \in Nat \ {0}
  BY PolicyIs
<1>2. /\ first.reply.remaining = IF count < limit THEN limit - (count + 1) ELSE 0
      /\ Updated(keyspace, before, SeqKey(key), seq, at + 2 * window)
      /\ Updated(IF count < limit THEN before ELSE keyspace, first.db, Plain(key), log,
                 at + 2 * window)
  BY SlidingLogRuns
<1>3. /\ next.reply.allowed = (again < limit)
      /\ next.reply.remaining = IF again < limit THEN limit - (again + 1) ELSE 0
      /\ Updated(left, before2, SeqKey(key), seq2, at + 2 * window)
      /\ Updated(IF again < limit THEN before2 ELSE left, next.db, Plain(key), log2,
                 at + 2 * window)
  BY SlidingLogRuns
<1>4. /\ live \subseteq LogOf(keyspace, key) /\ IsFiniteSet(live) /\ count \in Nat
      /\ \A m \in live : m[1] \in Nat /\ m[1] > now - window
  <2>1. LogOf(keyspace, key) \subseteq Nat \X (Nat \ {0}) /\ IsFiniteSet(LogOf(keyspace, key))
    BY FS_EmptySet DEF LogOf, Get, Has, Logs
  <2>2. live = {m \in LogOf(keyspace, key) : m[1] < 0 \/ m[1] > now - window}
    BY DEF SL!Newer, LogOf, Alive
  <2> HIDE DEF live
  <2>3. live \subseteq LogOf(keyspace, key) /\ \A m \in live : m[1] \in Nat /\ m[1] > now - window
    BY <2>1, <2>2
  <2>4. IsFiniteSet(live) /\ count \in Nat
    BY <2>1, <2>3, FS_Subset, FS_CardinalityType
  <2>5. QED
    BY <2>3, <2>4
<1>5. LogOf(left, key) = log
  <2> HIDE DEF log
  <2>1. Plain(key) \in DOMAIN first.db /\ first.db[Plain(key)].value = log
    BY <1>2 DEF Updated
  <2>2. Plain(key) \in DOMAIN left /\ left[Plain(key)].value = log
    BY <2>1, NamesOfKeys DEF Agree
  <2>3. QED
    BY <2>2 DEF Get, LogOf
<1>6. log = IF count < limit THEN live \cup {<<now, seq>>} ELSE live
  BY DEF Logged
<1>7. still = {m \in log : m[1] < 0 \/ m[1] > now - window}
  BY <1>5 DEF SL!Newer, Alive
<1> HIDE DEF live, seq, log, still, limit, window, before, before2, first, next
<1>8. still = log
  <2>1. now > now - window
    BY <1>1
  <2>2. \A m \in log : m[1] > now - window
    BY <1>4, <1>6, <2>1
  <2>3. QED
    BY <1>7, <2>2
<1>9. again = IF count < limit THEN count + 1 ELSE count
  <2>1. <<now, seq>> \notin live
    BY <1>4 DEF seq
  <2>2. Cardinality(live \cup {<<now, seq>>}) = Cardinality(live) + 1
    BY <1>4, <2>1, FS_AddElement
  <2>3. QED
    BY <1>6, <1>8, <2>2
<1> HIDE DEF count, again, log2
<1>10. /\ again < limit <=> (IF count < limit THEN limit - (count + 1) ELSE 0) > 0
       /\ again < limit => limit - (again + 1)
                              = (IF count < limit THEN limit - (count + 1) ELSE 0) - 1
  BY <1>1, <1>4, <1>9
<1>11. Truthful(first.reply, next.reply)
  BY <1>2, <1>3, <1>10 DEF Truthful
<1>12. QED
  BY <1>11 DEF first, next, limit, window

LEMMA FilledIs ==
    ASSUME NEW keyspace, NEW key, NEW policy \in Policies, NEW now \in Nat,
           Has(keyspace, Plain(key), Fills)
    PROVE  LET filled == Filled(keyspace, key, policy.limit, WindowMs(policy.window), now)
               hash == keyspace[Plain(key)].value
           IN  /\ filled \in 0 .. FullOf(policy)
               /\ Plain(key) \notin DOMAIN keyspace => filled = FullOf(policy)
               /\ Plain(key) \in DOMAIN keyspace =>
                     /\ hash \in Fills
                     /\ NonNegative(now - hash.lastUpdated) * RateOf(policy) \in Nat
                     /\ filled = Least(FullOf(policy),
                           hash.tokens + NonNegative(now - hash.lastUpdated) * RateOf(policy))
<1> DEFINE filled == Filled(keyspace, key, policy.limit, WindowMs(policy.window), now)
           hash == keyspace[Plain(key)].value
<1>1. /\ FullOf(policy) \in Nat /\ RateOf(policy) \in Nat
      /\ TB!Capacity(policy.limit) = FullOf(policy)
      /\ TB!FillRate(policy.limit, WindowMs(policy.window)) = RateOf(policy)
  BY RateIs
<1>2. CASE Plain(key) \notin DOMAIN keyspace
  <2>1. Get(keyspace, Plain(key), [tokens |-> 0, lastUpdated |-> NoTime]).lastUpdated = NoTime
    BY <1>2 DEF Get
  <2>2. filled = FullOf(policy)
    BY <1>1, <2>1 DEF Filled, TB!RedisRefill, TB!NoTime, NoTime
  <2>3. QED
    BY <1>1, <1>2, <2>2
<1>3. CASE Plain(key) \in DOMAIN keyspace
  <2>1. Get(keyspace, Plain(key), [tokens |-> 0, lastUpdated |-> NoTime]) = hash /\ hash \in Fills
    BY <1>3 DEF Get, Has
  <2> HIDE DEF hash
  <2>2. hash.tokens \in Nat /\ hash.lastUpdated \in Nat /\ hash.lastUpdated # NoTime
    BY <2>1 DEF Fills, NoTime
  <2> DEFINE elapsed == NonNegative(now - hash.lastUpdated)
             gained == elapsed * RateOf(policy)
  <2>3. filled = Least(FullOf(policy), hash.tokens + gained)
    BY <1>1, <2>1, <2>2 DEF Filled, TB!RedisRefill, TB!NoTime, NoTime, TB!NonNegative, NonNegative,
                            TB!Least, Least
  <2>4. elapsed \in Nat
    BY <2>2 DEF NonNegative
  <2> HIDE DEF elapsed
  <2>5. gained \in Nat
    BY <1>1, <2>4
  <2> HIDE DEF gained, filled
  <2>6. filled \in 0 .. FullOf(policy)
    BY <1>1, <2>2, <2>3, <2>5 DEF Least
  <2>7. QED
    BY <1>3, <2>1, <2>3, <2>5, <2>6 DEF filled, gained, elapsed, hash
<1>4. QED
  BY <1>2, <1>3

LEMMA DrainedIs ==
    ASSUME NEW keyspace, NEW key, NEW policy \in Policies, NEW now \in Nat,
           Has(keyspace, Plain(key), Levels)
    PROVE  LET drained == Drained(keyspace, key, policy.limit, WindowMs(policy.window), now)
               hash == keyspace[Plain(key)].value
           IN  /\ drained \in Nat
               /\ Plain(key) \notin DOMAIN keyspace => drained = 0
               /\ Plain(key) \in DOMAIN keyspace =>
                     /\ hash \in Levels
                     /\ NonNegative(now - hash.lastUpdated) * RateOf(policy) \in Nat
                     /\ drained = NonNegative(
                           hash.water - NonNegative(now - hash.lastUpdated) * RateOf(policy))
<1> DEFINE drained == Drained(keyspace, key, policy.limit, WindowMs(policy.window), now)
           hash == keyspace[Plain(key)].value
<1>1. /\ FullOf(policy) \in Nat /\ RateOf(policy) \in Nat
      /\ LB!LeakRate(policy.limit, WindowMs(policy.window)) = RateOf(policy)
  BY RateIs
<1>2. CASE Plain(key) \notin DOMAIN keyspace
  <2>1. Get(keyspace, Plain(key), [water |-> 0, lastUpdated |-> NoTime]).lastUpdated = NoTime
    BY <1>2 DEF Get
  <2>2. drained = 0
    BY <1>1, <2>1 DEF Drained, LB!RedisLeak, LB!NoTime, NoTime
  <2>3. QED
    BY <1>1, <1>2, <2>2
<1>3. CASE Plain(key) \in DOMAIN keyspace
  <2>1. Get(keyspace, Plain(key), [water |-> 0, lastUpdated |-> NoTime]) = hash /\ hash \in Levels
    BY <1>3 DEF Get, Has
  <2> HIDE DEF hash
  <2>2. hash.water \in Nat /\ hash.lastUpdated \in Nat /\ hash.lastUpdated # NoTime
    BY <2>1 DEF Levels, NoTime
  <2> DEFINE elapsed == NonNegative(now - hash.lastUpdated)
             leaked == elapsed * RateOf(policy)
  <2>3. drained = NonNegative(hash.water - leaked)
    BY <1>1, <2>1, <2>2 DEF Drained, LB!RedisLeak, LB!NoTime, NoTime, LB!NonNegative, NonNegative
  <2>4. elapsed \in Nat
    BY <2>2 DEF NonNegative
  <2> HIDE DEF elapsed
  <2>5. leaked \in Nat
    BY <1>1, <2>4
  <2> HIDE DEF leaked, drained
  <2>6. drained \in Nat
    BY <2>2, <2>3, <2>5 DEF NonNegative
  <2>7. QED
    BY <1>3, <2>1, <2>3, <2>5, <2>6 DEF drained, leaked, elapsed, hash
<1>4. QED
  BY <1>2, <1>3

(* A bucket that has been brought up to now is left as it is at now.       *)
LEMMA TokenBucketTells ==
    ASSUME NEW keyspace, NEW left, NEW at, NEW key, NEW policy \in Policies, NEW now \in Nat,
           Has(keyspace, Plain(key), Fills),
           Agree(TB!RedisScript(keyspace, at, key, policy.limit, WindowMs(policy.window), now).db,
                 left, key)
    PROVE  LET limit == policy.limit
               window == WindowMs(policy.window)
           IN  Truthful(TB!RedisScript(keyspace, at, key, limit, window, now).reply,
                        TB!RedisScript(left, at, key, limit, window, now).reply)
<1> DEFINE limit == policy.limit
           window == WindowMs(policy.window)
           full == FullOf(policy)
           filled == Filled(keyspace, key, limit, window, now)
           rest == IF filled >= TokenUnit THEN filled - TokenUnit ELSE filled
           again == Filled(left, key, limit, window, now)
           rest2 == IF again >= TokenUnit THEN again - TokenUnit ELSE again
           first == TB!RedisScript(keyspace, at, key, limit, window, now)
           next == TB!RedisScript(left, at, key, limit, window, now)
           hash == [tokens |-> rest, lastUpdated |-> now]
<1>1. TokenUnit \in Nat \ {0} /\ full \in Nat /\ RateOf(policy) \in Nat
  BY AlgorithmAssumption, RateIs
<1>2. filled \in 0 .. full
  BY FilledIs
<1>3. /\ first.reply.remaining = rest \div TokenUnit
      /\ Updated(keyspace, first.db, Plain(key), hash, at + 2 * window)
  BY TokenBucketRuns
<1>4. /\ next.reply.allowed = (again >= TokenUnit)
      /\ next.reply.remaining = rest2 \div TokenUnit
      /\ Updated(left, next.db, Plain(key), [tokens |-> rest2, lastUpdated |-> now],
                 at + 2 * window)
  BY TokenBucketRuns
<1> HIDE DEF filled
<1>5. rest \in 0 .. full
  BY <1>1, <1>2
<1> HIDE DEF rest
<1>6. Plain(key) \in DOMAIN left /\ left[Plain(key)].value = hash
  <2> HIDE DEF hash
  <2>1. Plain(key) \in DOMAIN first.db /\ first.db[Plain(key)].value = hash
    BY <1>3 DEF Updated
  <2>2. QED
    BY <2>1, NamesOfKeys DEF Agree
<1>7. Has(left, Plain(key), Fills)
  BY <1>5, <1>6 DEF Has, Fills
<1>8. again = Least(full, rest + NonNegative(now - now) * RateOf(policy))
  <2>1. left[Plain(key)].value.tokens = rest /\ left[Plain(key)].value.lastUpdated = now
    BY <1>6
  <2>2. again = Least(FullOf(policy),
                      left[Plain(key)].value.tokens
                        + NonNegative(now - left[Plain(key)].value.lastUpdated)
                            * RateOf(policy))
    BY <1>6, <1>7, FilledIs
  <2>3. QED
    BY <2>1, <2>2
<1> HIDE DEF full, again
<1>9. again = rest
  <2>1. NonNegative(now - now) = 0
    BY DEF NonNegative
  <2>2. 0 * RateOf(policy) = 0
    BY <1>1
  <2>3. QED
    BY <1>1, <1>5, <1>8, <2>1, <2>2 DEF Least
<1> HIDE DEF first, next, limit, window
<1>10. /\ rest \div TokenUnit \in Nat
       /\ rest >= TokenUnit <=> rest \div TokenUnit > 0
       /\ rest >= TokenUnit => (rest - TokenUnit) \div TokenUnit = (rest \div TokenUnit) - 1
  <2>1. rest \in Nat
    BY <1>1, <1>5
  <2>2. QED
    BY <1>1, <2>1, WholeTokens
<1>11. again >= TokenUnit => rest2 = rest - TokenUnit
  BY <1>9
<1> HIDE DEF rest2
<1>12. Truthful(first.reply, next.reply)
  BY <1>3, <1>4, <1>9, <1>10, <1>11 DEF Truthful
<1>13. QED
  BY <1>12 DEF first, next, limit, window

LEMMA LeakyBucketTells ==
    ASSUME NEW keyspace, NEW left, NEW at, NEW key, NEW policy \in Policies, NEW now \in Nat,
           Has(keyspace, Plain(key), Levels),
           Agree(LB!RedisScript(keyspace, at, key, policy.limit, WindowMs(policy.window), now).db,
                 left, key)
    PROVE  LET limit == policy.limit
               window == WindowMs(policy.window)
           IN  Truthful(LB!RedisScript(keyspace, at, key, limit, window, now).reply,
                        LB!RedisScript(left, at, key, limit, window, now).reply)
<1> DEFINE limit == policy.limit
           window == WindowMs(policy.window)
           full == FullOf(policy)
           drained == Drained(keyspace, key, limit, window, now)
           allowed == drained + TokenUnit <= LB!Capacity(limit)
           level == IF allowed THEN drained + TokenUnit ELSE drained
           again == Drained(left, key, limit, window, now)
           allowed2 == again + TokenUnit <= LB!Capacity(limit)
           level2 == IF allowed2 THEN again + TokenUnit ELSE again
           first == LB!RedisScript(keyspace, at, key, limit, window, now)
           next == LB!RedisScript(left, at, key, limit, window, now)
           hash == [water |-> level, lastUpdated |-> now]
<1>1. /\ TokenUnit \in Nat \ {0} /\ full \in Nat /\ RateOf(policy) \in Nat
      /\ LB!Capacity(limit) = full
  BY AlgorithmAssumption, RateIs
<1>2. drained \in Nat
  BY DrainedIs
<1>3. /\ first.reply.remaining = NonNegative((LB!Capacity(limit) - level) \div TokenUnit)
      /\ Updated(keyspace, first.db, Plain(key), hash, at + 2 * window)
  BY LeakyBucketRuns
<1>4. /\ next.reply.allowed = allowed2
      /\ next.reply.remaining = NonNegative((LB!Capacity(limit) - level2) \div TokenUnit)
      /\ Updated(left, next.db, Plain(key), [water |-> level2, lastUpdated |-> now],
                 at + 2 * window)
  BY LeakyBucketRuns
<1> HIDE DEF drained
<1>5. level \in Nat
  BY <1>1, <1>2
<1> HIDE DEF level
<1>6. Plain(key) \in DOMAIN left /\ left[Plain(key)].value = hash
  <2> HIDE DEF hash
  <2>1. Plain(key) \in DOMAIN first.db /\ first.db[Plain(key)].value = hash
    BY <1>3 DEF Updated
  <2>2. QED
    BY <2>1, NamesOfKeys DEF Agree
<1>7. Has(left, Plain(key), Levels)
  BY <1>5, <1>6 DEF Has, Levels
<1>8. again = NonNegative(level - NonNegative(now - now) * RateOf(policy))
  <2>1. left[Plain(key)].value.water = level /\ left[Plain(key)].value.lastUpdated = now
    BY <1>6
  <2>2. again = NonNegative(left[Plain(key)].value.water
                              - NonNegative(now - left[Plain(key)].value.lastUpdated)
                                  * RateOf(policy))
    BY <1>6, <1>7, DrainedIs
  <2>3. QED
    BY <2>1, <2>2
<1> HIDE DEF full, again
<1>9. again = level
  <2>1. NonNegative(now - now) = 0
    BY DEF NonNegative
  <2>2. 0 * RateOf(policy) = 0
    BY <1>1
  <2>3. QED
    BY <1>5, <1>8, <2>1, <2>2 DEF NonNegative
<1> HIDE DEF first, next, limit, window
<1> DEFINE room == full - level
<1>10. room \in Int /\ (allowed2 <=> room >= TokenUnit)
         /\ (allowed2 => full - level2 = room - TokenUnit)
  BY <1>1, <1>5, <1>9
<1>11. /\ allowed2 <=> NonNegative(room \div TokenUnit) > 0
       /\ allowed2 => NonNegative((room - TokenUnit) \div TokenUnit)
                        = NonNegative(room \div TokenUnit) - 1
  <2> HIDE DEF allowed2, room
  <2>1. CASE room >= 0
    <3>1. room \in Nat
      BY <1>10, <2>1
    <3>2. /\ room \div TokenUnit \in Nat
          /\ room >= TokenUnit <=> room \div TokenUnit > 0
          /\ room >= TokenUnit => (room - TokenUnit) \div TokenUnit = (room \div TokenUnit) - 1
      BY <1>1, <3>1, WholeTokens
    <3>3. QED
      BY <1>10, <3>2 DEF NonNegative
  <2>2. CASE room < 0
    <3>1. room \div TokenUnit \in Int /\ room \div TokenUnit < 0
      <4>1. room < 0 * TokenUnit
        BY <1>1, <2>2
      <4>2. QED
        BY <1>1, <1>10, <4>1, QuotientBelow
    <3>2. ~allowed2
      BY <1>1, <1>10, <2>2
    <3>3. QED
      BY <3>1, <3>2 DEF NonNegative
  <2>3. QED
    BY <1>10, <2>1, <2>2
<1>12. /\ first.reply.remaining = NonNegative(room \div TokenUnit)
       /\ allowed2 => next.reply.remaining = NonNegative((room - TokenUnit) \div TokenUnit)
  BY <1>1, <1>3, <1>4, <1>10
<1> HIDE DEF room, allowed2, level2
<1>13. Truthful(first.reply, next.reply)
  BY <1>4, <1>11, <1>12 DEF Truthful
<1>14. QED
  BY <1>13 DEF first, next, limit, window

(* The verdict of any script, with what the next one at that instant gets. *)
LEMMA ScriptTells ==
    ASSUME NEW keyspace, NEW left, NEW at, NEW key, NEW policy \in Policies,
           NEW now, Reading(now), strategy \in AllStrategies, Typed(keyspace, key),
           strategy = "fixed_window" => Positive(keyspace) /\ Positive(left),
           strategy = "sliding_log" => <<now, NextSeq(keyspace, key)>> \notin LogOf(keyspace, key),
           Agree(Script(keyspace, at, key, policy, now).db, left, key)
    PROVE  Truthful(Script(keyspace, at, key, policy, now).reply,
                    Script(left, at, key, policy, now).reply)
<1> DEFINE limit == policy.limit
           window == WindowMs(policy.window)
<1>1. now \in Nat
  BY DEF Reading
<1>2. CASE strategy = "fixed_window"
  <2>1. \A ks : Script(ks, at, key, policy, now) = FW!RedisScript(ks, at, key, limit, window, now)
    BY <1>2 DEF Script
  <2>2. QED
    BY <1>2, <2>1, FixedWindowTells
<1>3. CASE strategy = "sliding_counter"
  <2>1. \A ks : Script(ks, at, key, policy, now) = SC!RedisScript(ks, at, key, limit, window, now)
    BY <1>3 DEF Script
  <2>2. QED
    BY <1>3, <2>1, SlidingCounterTells DEF Typed
<1>4. CASE strategy = "sliding_log"
  <2>1. \A ks : Script(ks, at, key, policy, now) = SL!RedisScript(ks, at, key, limit, window, now)
    BY <1>4 DEF Script
  <2>2. QED
    BY <1>1, <1>4, <2>1, SlidingLogTells DEF Typed
<1>5. CASE strategy = "token_bucket"
  <2>1. \A ks : Script(ks, at, key, policy, now) = TB!RedisScript(ks, at, key, limit, window, now)
    BY <1>5 DEF Script
  <2>2. QED
    BY <1>1, <1>5, <2>1, TokenBucketTells DEF Typed
<1>6. CASE strategy = "leaky_bucket"
  <2>1. \A ks : Script(ks, at, key, policy, now) = LB!RedisScript(ks, at, key, limit, window, now)
    BY <1>6 DEF Script
  <2>2. QED
    BY <1>1, <1>6, <2>1, LeakyBucketTells DEF Typed
<1>7. QED
  BY <1>2, <1>3, <1>4, <1>5, <1>6 DEF AllStrategies

-------------------------------------------------------------------------------
(* What a step is to one key: nothing, a request, a reset, or time.        *)
KeyStep(key) ==
    \/ Agree(db, db', key) /\ clock' = clock
    \/ \E r \in Callers :
          call[r] # NoCall /\ call[r].key = key /\ db' = Outcome(r).db /\ clock' = clock
    \/ Reset(key)
    \/ Tick

LEMMA StepIsKeyStep ==
    ASSUME RedisInv, [Next]_vars, NEW key \in Keys
    PROVE  KeyStep(key) /\ strategy' = strategy
<1>1. strategy \in AllStrategies /\ (strategy = "fixed_window" => Positive(db))
  BY RedisAssumption DEF RedisInv, TypeOK
<1>2. db' = db => Agree(db, db', key)
  BY DEF Agree
<1>3. ASSUME NEW r \in Callers, call[r] # NoCall, db' = Outcome(r).db,
             UNCHANGED <<strategy, clock>>
      PROVE  KeyStep(key) /\ strategy' = strategy
  <2>1. CASE call[r].key = key
    BY <1>3, <2>1 DEF KeyStep
  <2>2. CASE call[r].key # key
    <3>1. Agree(db, Script(db, clock, call[r].key, call[r].policy, call[r].now).db, key)
      BY <1>1, <2>2, ScriptAgrees
    <3>2. Agree(db, db', key)
      BY <1>3, <3>1 DEF Outcome
    <3>3. QED
      BY <1>3, <3>2 DEF KeyStep
  <2>3. QED
    BY <2>1, <2>2
<1>4. ASSUME NEW other \in Keys, Reset(other) PROVE KeyStep(key) /\ strategy' = strategy
  <2>1. CASE other = key
    BY <1>4, <2>1 DEF KeyStep, Reset
  <2>2. CASE other # key
    <3>1. db' = Del(db, {Plain(other), SeqKey(other)})
      BY <1>4 DEF Reset
    <3>2. Plain(other)[1] # key /\ SeqKey(other)[1] # key
      BY <2>2, NamesOfKeys
    <3>3. Agree(db, db', key)
      BY <3>1, <3>2 DEF Del, Agree
    <3>4. QED
      BY <1>4, <3>3 DEF KeyStep, Reset
  <2>3. QED
    BY <2>1, <2>2
<1>5. CASE Tick
  BY <1>5 DEF KeyStep, Tick
<1>6. ASSUME NEW r \in Callers, Execute(r) \/ Repeat(r) PROVE KeyStep(key) /\ strategy' = strategy
  BY <1>3, <1>6 DEF Execute, Repeat
<1>7. CASE UNCHANGED <<strategy, clock, db>>
  BY <1>2, <1>7 DEF KeyStep
<1>8. QED
  BY <1>4, <1>5, <1>6, <1>7 DEF Next, vars, Send, Lose

(* A request under way was sent with a reading of its caller's clock.      *)
Sent ==
    \A r \in Callers : call[r] # NoCall =>
        /\ call[r].sent >= StartTime
        /\ \E error \in ClockErrors : call[r].now = call[r].sent + error

LEMMA ReadingIs ==
    ASSUME NEW at \in Nat, at >= StartTime, NEW error \in ClockErrors,
           NEW policy \in Policies
    PROVE  Reading(at + error) /\ error \in Int
<1>1. /\ error \in Int /\ StartTime \in Nat
      /\ \A p \in Policies : /\ StartTime + error >= WindowMs(p.window)
                             /\ WindowMs(p.window) \in Nat
  BY RedisAssumption, WindowsAreNumbers
<1>2. \A p \in Policies : at + error >= WindowMs(p.window)
  BY <1>1
<1>3. at + error \in Nat
  BY <1>1, <1>2
<1>4. QED
  BY <1>1, <1>2, <1>3 DEF Reading

LEMMA RequestIs ==
    ASSUME RedisInv, Sent, NEW r \in Callers, call[r] # NoCall
    PROVE  /\ call[r].key \in Keys /\ call[r].policy \in Policies
           /\ Reading(call[r].now)
           /\ \E error \in ClockErrors :
                 /\ call[r].now <= clock + error
                 /\ clock - MaxDelay + error <= call[r].now
<1>1. /\ call[r].key \in Keys /\ call[r].policy \in Policies
      /\ clock - call[r].sent \in 0 .. MaxDelay
      /\ call[r].sent \in Nat /\ call[r].sent >= StartTime /\ clock \in Nat
  BY RedisAssumption DEF RedisInv, TypeOK, Sent
<1>2. PICK error \in ClockErrors : call[r].now = call[r].sent + error
  BY DEF Sent
<1>3. Reading(call[r].now) /\ error \in Int
  BY <1>1, <1>2, ReadingIs
<1>4. MaxDelay \in Nat
  BY RedisAssumption
<1>5. call[r].now <= clock + error /\ clock - MaxDelay + error <= call[r].now
  BY <1>1, <1>2, <1>3, <1>4
<1>6. QED
  BY <1>1, <1>3, <1>5

LEMMA SentStays == RedisInv /\ Sent /\ [Next]_vars => Sent'
<1> SUFFICES ASSUME RedisInv, Sent, [Next]_vars PROVE Sent'
  OBVIOUS
<1>1. ASSUME NEW r \in Callers, NEW key \in Keys, NEW policy \in Policies,
             NEW error \in ClockErrors, Send(r, key, policy, error)
      PROVE  Sent'
  <2>1. /\ call'[r] = [key |-> key, policy |-> policy, now |-> clock + error, sent |-> clock]
        /\ \A s \in Callers : s # r => call'[s] = call[s]
    BY <1>1 DEF Send, RedisInv
  <2>2. clock >= StartTime
    BY RedisAssumption DEF RedisInv, TypeOK
  <2>3. QED
    BY <2>1, <2>2 DEF Sent
<1>2. ASSUME \A r \in Callers : call'[r] = NoCall \/ call'[r] = call[r] PROVE Sent'
  BY <1>2 DEF Sent
<1>3. ASSUME NEW r \in Callers, Execute(r) \/ Repeat(r) \/ Lose(r) PROVE Sent'
  BY <1>2, <1>3 DEF Execute, Repeat, Lose, RedisInv
<1>4. CASE UNCHANGED call
  BY <1>2, <1>4
<1>5. QED
  BY <1>1, <1>3, <1>4 DEF Next, vars, Reset, Tick

-------------------------------------------------------------------------------
(* The values stay what the scripts take them for.                         *)
LEMMA LogsAre ==
    ASSUME NEW keyspace, NEW key, Has(keyspace, Plain(key), Logs)
    PROVE  /\ LogOf(keyspace, key) \subseteq Nat \X (Nat \ {0})
           /\ IsFiniteSet(LogOf(keyspace, key))
BY FS_EmptySet DEF LogOf, Get, Has, Logs

LEMMA AliveIs ==
    ASSUME NEW keyspace, NEW key, Has(keyspace, Plain(key), Logs), NEW window, NEW now
    PROVE  /\ Alive(keyspace, key, window, now) \subseteq LogOf(keyspace, key)
           /\ Alive(keyspace, key, window, now)
                = {m \in LogOf(keyspace, key) : m[1] > now - window}
           /\ IsFiniteSet(Alive(keyspace, key, window, now))
           /\ Cardinality(Alive(keyspace, key, window, now)) \in Nat
<1> DEFINE log == LogOf(keyspace, key)
           live == Alive(keyspace, key, window, now)
<1>1. log \subseteq Nat \X (Nat \ {0}) /\ IsFiniteSet(log)
  BY LogsAre
<1>2. live = {m \in log : m[1] < 0 \/ m[1] > now - window}
  BY DEF SL!Newer, Alive
<1> HIDE DEF live, log
<1>3. \A m \in log : m[1] \in Nat
  BY <1>1
<1>4. live = {m \in log : m[1] > now - window} /\ live \subseteq log
  BY <1>2, <1>3
<1>5. IsFiniteSet(live) /\ Cardinality(live) \in Nat
  BY <1>1, <1>4, FS_Subset, FS_CardinalityType
<1>6. QED
  BY <1>4, <1>5 DEF live, log

(* What a request of the sliding log leaves in the two keys.               *)
LEMMA SlidingLogLeaves ==
    ASSUME NEW keyspace, NEW at, NEW key, NEW limit, NEW window, NEW now,
           Has(keyspace, Plain(key), Logs)
    PROVE  LET left == SL!RedisScript(keyspace, at, key, limit, window, now).db
               count == Cardinality(Alive(keyspace, key, window, now))
               seq == NextSeq(keyspace, key)
           IN  /\ Plain(key) \in DOMAIN left
               /\ left[Plain(key)] = [value |-> Logged(keyspace, key, limit, window, now),
                                      expireAt |-> at + 2 * window]
               /\ LogOf(left, key) = Logged(keyspace, key, limit, window, now)
               /\ count < limit =>
                     /\ SeqKey(key) \in DOMAIN left
                     /\ left[SeqKey(key)] = [value |-> seq, expireAt |-> at + 2 * window]
               /\ ~(count < limit) =>
                     /\ SeqKey(key) \in DOMAIN left <=> SeqKey(key) \in DOMAIN keyspace
                     /\ SeqKey(key) \in DOMAIN keyspace =>
                           left[SeqKey(key)] = keyspace[SeqKey(key)]
<1> DEFINE left == SL!RedisScript(keyspace, at, key, limit, window, now).db
           count == Cardinality(Alive(keyspace, key, window, now))
           seq == NextSeq(keyspace, key)
           log == Logged(keyspace, key, limit, window, now)
           numbered == Numbered(keyspace, at, key, window)
           before == IF count < limit THEN numbered ELSE keyspace
<1>1. /\ Updated(keyspace, numbered, SeqKey(key), seq, at + 2 * window)
      /\ Updated(before, left, Plain(key), log, at + 2 * window)
  BY SlidingLogRuns
<1>2. SeqKey(key) # Plain(key)
  BY NamesOfKeys
<1> HIDE DEF left, count, seq, log, numbered
<1>3. /\ Plain(key) \in DOMAIN left
      /\ left[Plain(key)] = [value |-> log, expireAt |-> at + 2 * window]
      /\ LogOf(left, key) = log
  <2> HIDE DEF before
  <2>1. Plain(key) \in DOMAIN left
        /\ left[Plain(key)] = [value |-> log, expireAt |-> at + 2 * window]
    BY <1>1 DEF Updated
  <2>2. QED
    BY <2>1 DEF LogOf, Get
<1>4. ASSUME count < limit
      PROVE  /\ SeqKey(key) \in DOMAIN left
             /\ left[SeqKey(key)] = [value |-> seq, expireAt |-> at + 2 * window]
  BY <1>1, <1>2, <1>4 DEF Updated
<1>5. ASSUME ~(count < limit)
      PROVE  /\ SeqKey(key) \in DOMAIN left <=> SeqKey(key) \in DOMAIN keyspace
             /\ SeqKey(key) \in DOMAIN keyspace => left[SeqKey(key)] = keyspace[SeqKey(key)]
  BY <1>1, <1>2, <1>5 DEF Updated
<1>6. QED
  BY <1>3, <1>4, <1>5 DEF left, count, seq, log

LEMMA ScriptKeepsTypes ==
    ASSUME NEW keyspace, NEW at, NEW key, Typed(keyspace, key), strategy \in AllStrategies,
           NEW policy \in Policies, NEW now, Reading(now)
    PROVE  Typed(Script(keyspace, at, key, policy, now).db, key)
<1> DEFINE limit == policy.limit
           window == WindowMs(policy.window)
           left == Script(keyspace, at, key, policy, now).db
<1>1. now \in Nat /\ limit \in Nat /\ window \in Nat \ {0} /\ now >= window
        /\ TokenUnit \in Nat \ {0}
  BY PolicyIs DEF Reading
<1>2. ASSUME NEW value, NEW values, value \in values, NEW e,
             Updated(keyspace, left, Plain(key), value, e)
      PROVE  Has(left, Plain(key), values)
  BY <1>2 DEF Updated, Has
<1>3. CASE strategy = "fixed_window"
  BY <1>3 DEF Typed
<1>4. CASE strategy = "sliding_counter"
  <2> DEFINE found == Get(keyspace, Plain(key), SC!NoHash)
             hash == Moved(keyspace, key, window, now)
             spent == IF Estimate(hash, window, now) + 1 <= limit THEN 1 ELSE 0
             stored == [hash EXCEPT !.count = @ + spent]
  <2>1. left = SC!RedisScript(keyspace, at, key, limit, window, now).db
    BY <1>4 DEF Script
  <2>2. Updated(keyspace, left, Plain(key), stored, at + 2 * window)
    BY <2>1, SlidingCounterRuns
  <2>3. found \in Hashes \cup {SC!NoHash}
    BY <1>4 DEF Typed, Has, Get
  <2>4. now \div window \in Nat \ {0}
    <3>1. 1 * window <= now
      BY <1>1
    <3> HIDE DEF window
    <3>2. now \div window \in Int /\ 1 <= now \div window
      BY <1>1, <3>1, QuotientAtLeast
    <3>3. QED
      BY <3>2
  <2>5. hash = SC!Shift(found, now \div window)
    BY DEF Moved
  <2> HIDE DEF hash, found, left
  <2>6. hash \in Hashes
    BY <2>3, <2>4, <2>5, ShiftIs
  <2>7. spent \in Nat
    OBVIOUS
  <2> HIDE DEF spent
  <2>8. stored \in Hashes
    BY <2>6, <2>7 DEF Hashes
  <2> HIDE DEF stored
  <2>9. Has(left, Plain(key), Hashes)
    BY <2>2, <2>8 DEF Updated, Has
  <2>10. QED
    BY <1>4, <2>9 DEF Typed, left
<1>5. CASE strategy = "sliding_log"
  <2> DEFINE live == Alive(keyspace, key, window, now)
             seq == NextSeq(keyspace, key)
             log == Logged(keyspace, key, limit, window, now)
  <2>1. left = SL!RedisScript(keyspace, at, key, limit, window, now).db
    BY <1>5 DEF Script
  <2>2. Has(keyspace, Plain(key), Logs) /\ Has(keyspace, SeqKey(key), Nat \ {0})
    BY <1>5 DEF Typed
  <2>3. seq \in Nat \ {0}
    BY <2>2 DEF NextSeq, Get, Has
  <2>4. log = live \/ log = live \cup {<<now, seq>>}
    BY DEF Logged
  <2>5. live \subseteq Nat \X (Nat \ {0}) /\ IsFiniteSet(live)
    <3> HIDE DEF live
    <3>1. live \subseteq LogOf(keyspace, key) /\ IsFiniteSet(live)
      BY <2>2, AliveIs DEF live
    <3>2. QED
      BY <2>2, <3>1, LogsAre
  <2> HIDE DEF live, seq, log, left
  <2>6. log \in Logs
    <3>1. <<now, seq>> \in Nat \X (Nat \ {0})
      BY <1>1, <2>3
    <3>2. IsFiniteSet(live \cup {<<now, seq>>})
      BY <2>5, FS_AddElement
    <3>3. QED
      BY <2>4, <2>5, <3>1, <3>2 DEF Logs
  <2> DEFINE count == Cardinality(Alive(keyspace, key, window, now))
  <2>7. /\ Plain(key) \in DOMAIN left
        /\ left[Plain(key)] = [value |-> log, expireAt |-> at + 2 * window]
        /\ count < limit =>
              /\ SeqKey(key) \in DOMAIN left
              /\ left[SeqKey(key)] = [value |-> seq, expireAt |-> at + 2 * window]
        /\ ~(count < limit) =>
              /\ SeqKey(key) \in DOMAIN left <=> SeqKey(key) \in DOMAIN keyspace
              /\ SeqKey(key) \in DOMAIN keyspace => left[SeqKey(key)] = keyspace[SeqKey(key)]
    BY <2>1, <2>2, SlidingLogLeaves DEF log, seq
  <2> HIDE DEF count
  <2>8. Has(left, Plain(key), Logs) /\ Has(left, SeqKey(key), Nat \ {0})
    BY <2>2, <2>3, <2>6, <2>7 DEF Has
  <2>9. QED
    BY <1>5, <2>8 DEF Typed, left
<1>6. CASE strategy = "token_bucket"
  <2> DEFINE filled == Filled(keyspace, key, limit, window, now)
             rest == IF filled >= TokenUnit THEN filled - TokenUnit ELSE filled
             stored == [tokens |-> rest, lastUpdated |-> now]
  <2>1. left = TB!RedisScript(keyspace, at, key, limit, window, now).db
    BY <1>6 DEF Script
  <2>2. Updated(keyspace, left, Plain(key), stored, at + 2 * window)
    BY <2>1, TokenBucketRuns
  <2>3. filled \in 0 .. FullOf(policy) /\ FullOf(policy) \in Nat
    BY <1>1, <1>6, FilledIs, RateIs DEF Typed
  <2> HIDE DEF filled, left
  <2>4. rest \in Nat
    BY <1>1, <2>3
  <2> HIDE DEF rest
  <2>5. stored \in Fills
    BY <1>1, <2>4 DEF Fills
  <2> HIDE DEF stored
  <2>6. Has(left, Plain(key), Fills)
    BY <2>2, <2>5 DEF Updated, Has
  <2>7. QED
    BY <1>6, <2>6 DEF Typed, left
<1>7. CASE strategy = "leaky_bucket"
  <2> DEFINE drained == Drained(keyspace, key, limit, window, now)
             level == IF drained + TokenUnit <= LB!Capacity(limit) THEN drained + TokenUnit
                      ELSE drained
             stored == [water |-> level, lastUpdated |-> now]
  <2>1. left = LB!RedisScript(keyspace, at, key, limit, window, now).db
    BY <1>7 DEF Script
  <2>2. Updated(keyspace, left, Plain(key), stored, at + 2 * window)
    BY <2>1, LeakyBucketRuns
  <2>3. drained \in Nat
    BY <1>1, <1>7, DrainedIs DEF Typed
  <2> HIDE DEF drained, left
  <2>4. level \in Nat
    BY <1>1, <2>3
  <2> HIDE DEF level
  <2>5. stored \in Levels
    BY <1>1, <2>4 DEF Levels
  <2> HIDE DEF stored
  <2>6. Has(left, Plain(key), Levels)
    BY <2>2, <2>5 DEF Updated, Has
  <2>7. QED
    BY <1>7, <2>6 DEF Typed, left
<1>8. QED
  BY <1>3, <1>4, <1>5, <1>6, <1>7 DEF AllStrategies

(* No caller's clock is so far behind another's, and no script so late,    *)
(* that a reading comes again when the numbers of the log start again.     *)
ClocksAgree ==
    \A policy \in Policies, behind \in ClockErrors, ahead \in ClockErrors :
        MaxDelay + ahead - behind <= 2 * WindowMs(policy.window)

(* A member of the log has a number that was taken from the counter that   *)
(* is still there, or a reading that no request comes with any more.       *)
Counted(keyspace, key, member) ==
    /\ SeqKey(key) \in DOMAIN keyspace
    /\ member[2] <= keyspace[SeqKey(key)].value
    /\ \E ahead \in ClockErrors, policy \in Policies :
          member[1] + 2 * WindowMs(policy.window) <= keyspace[SeqKey(key)].expireAt + ahead
Past(at, member) == \A behind \in ClockErrors : member[1] < at - MaxDelay + behind

Numbers(keyspace, at, key) ==
    \A member \in LogOf(keyspace, key) :
        /\ \E ahead \in ClockErrors : member[1] <= at + ahead
        /\ Counted(keyspace, key, member) \/ Past(at, member)

(* So no member of the log is the next one.                                *)
LEMMA NextIsNew ==
    ASSUME NEW keyspace, NEW at \in Nat, NEW key, Numbers(keyspace, at, key),
           Has(keyspace, Plain(key), Logs), Has(keyspace, SeqKey(key), Nat \ {0}),
           NEW now \in Nat, NEW error \in ClockErrors, at - MaxDelay + error <= now
    PROVE  <<now, NextSeq(keyspace, key)>> \notin LogOf(keyspace, key)
<1> DEFINE member == <<now, NextSeq(keyspace, key)>>
<1>1. SUFFICES ASSUME member \in LogOf(keyspace, key) PROVE FALSE
  OBVIOUS
<1>2. member[1] = now /\ member[2] = NextSeq(keyspace, key)
  OBVIOUS
<1> HIDE DEF member
<1>3. Counted(keyspace, key, member) \/ Past(at, member)
  BY <1>1 DEF Numbers
<1>4. error \in Int /\ MaxDelay \in Nat
  BY RedisAssumption
<1>5. ~Past(at, member)
  BY <1>2, <1>4 DEF Past
<1>6. CASE Counted(keyspace, key, member)
  <2>1. SeqKey(key) \in DOMAIN keyspace /\ member[2] <= keyspace[SeqKey(key)].value
    BY <1>6 DEF Counted
  <2>2. keyspace[SeqKey(key)].value \in Nat
    BY <2>1 DEF Has
  <2>3. NextSeq(keyspace, key) = keyspace[SeqKey(key)].value + 1
    BY <2>1 DEF NextSeq, Get
  <2>4. QED
    BY <1>2, <2>1, <2>2, <2>3
<1>7. QED
  BY <1>3, <1>5, <1>6

LEMMA SlidingLogNumbers ==
    ASSUME NEW keyspace, NEW at \in Nat, Bounded(keyspace, at), NEW key,
           Numbers(keyspace, at, key),
           Has(keyspace, Plain(key), Logs), Has(keyspace, SeqKey(key), Nat \ {0}),
           NEW policy \in Policies, NEW now \in Nat,
           NEW error \in ClockErrors, now <= at + error
    PROVE  Numbers(SL!RedisScript(keyspace, at, key, policy.limit,
                                  WindowMs(policy.window), now).db, at, key)
<1> DEFINE limit == policy.limit
           window == WindowMs(policy.window)
           left == SL!RedisScript(keyspace, at, key, limit, window, now).db
           count == Cardinality(Alive(keyspace, key, window, now))
           seq == NextSeq(keyspace, key)
           log == Logged(keyspace, key, limit, window, now)
           live == Alive(keyspace, key, window, now)
<1>1. window \in Nat /\ error \in Int /\ (\A e \in ClockErrors : e \in Int)
  BY PolicyIs, RedisAssumption
<1>2. /\ Plain(key) \in DOMAIN left
      /\ left[Plain(key)] = [value |-> log, expireAt |-> at + 2 * window]
      /\ LogOf(left, key) = log
      /\ count < limit =>
            /\ SeqKey(key) \in DOMAIN left
            /\ left[SeqKey(key)] = [value |-> seq, expireAt |-> at + 2 * window]
      /\ ~(count < limit) =>
            /\ SeqKey(key) \in DOMAIN left <=> SeqKey(key) \in DOMAIN keyspace
            /\ SeqKey(key) \in DOMAIN keyspace => left[SeqKey(key)] = keyspace[SeqKey(key)]
  BY SlidingLogLeaves DEF left, count, seq, log
<1>3. live \subseteq LogOf(keyspace, key)
  BY AliveIs
<1>4. log = IF count < limit THEN live \cup {<<now, seq>>} ELSE live
  BY DEF Logged
<1>5. seq \in Nat
  BY DEF NextSeq, Get, Has
<1>11. SeqKey(key) \in DOMAIN keyspace =>
          keyspace[SeqKey(key)].value \in Nat /\ seq = keyspace[SeqKey(key)].value + 1
  BY DEF NextSeq, Get, Has
<1> HIDE DEF left, count, seq, log, live
<1>6. ASSUME NEW m \in LogOf(keyspace, key)
      PROVE  m[1] \in Nat /\ m[2] \in Nat
  BY LogsAre
<1>7. ASSUME NEW m \in live
      PROVE  /\ \E ahead \in ClockErrors : m[1] <= at + ahead
             /\ Counted(left, key, m) \/ Past(at, m)
  <2>1. /\ m \in LogOf(keyspace, key) /\ m[1] \in Nat /\ m[2] \in Nat
        /\ \E ahead \in ClockErrors : m[1] <= at + ahead
        /\ Counted(keyspace, key, m) \/ Past(at, m)
    BY <1>3, <1>6, <1>7 DEF Numbers
  <2>2. ASSUME Counted(keyspace, key, m), ~(count < limit) PROVE Counted(left, key, m)
    BY <1>2, <2>2 DEF Counted
  <2>3. ASSUME Counted(keyspace, key, m), count < limit PROVE Counted(left, key, m)
    <3>1. m[2] <= seq
      BY <1>5, <1>11, <2>1, <2>3 DEF Counted
    <3>2. PICK ahead \in ClockErrors : m[1] <= at + ahead
      BY <2>1
    <3>3. m[1] + 2 * window <= (at + 2 * window) + ahead
      BY <1>1, <2>1, <3>2
    <3>4. /\ SeqKey(key) \in DOMAIN left /\ left[SeqKey(key)].value = seq
          /\ left[SeqKey(key)].expireAt = at + 2 * window
      BY <1>2, <2>3
    <3>5. QED
      BY <3>1, <3>3, <3>4 DEF Counted, window
  <2>4. QED
    BY <2>1, <2>2, <2>3
<1>8. ASSUME count < limit
      PROVE  LET m == <<now, seq>>
             IN  /\ \E ahead \in ClockErrors : m[1] <= at + ahead
                 /\ Counted(left, key, m) \/ Past(at, m)
  <2> DEFINE m == <<now, seq>>
  <2>1. m[1] = now /\ m[2] = seq
    OBVIOUS
  <2> HIDE DEF m
  <2>2. m[1] + 2 * window <= (at + 2 * window) + error
    BY <1>1, <2>1
  <2>3. /\ SeqKey(key) \in DOMAIN left /\ left[SeqKey(key)].value = seq
        /\ left[SeqKey(key)].expireAt = at + 2 * window
    BY <1>2, <1>8
  <2>4. m[2] <= seq
    BY <1>5, <2>1
  <2>5. Counted(left, key, m)
    BY <2>2, <2>3, <2>4 DEF Counted, window
  <2>6. QED
    BY <2>1, <2>5 DEF m
<1>9. ASSUME NEW m \in LogOf(left, key)
      PROVE  /\ \E ahead \in ClockErrors : m[1] <= at + ahead
             /\ Counted(left, key, m) \/ Past(at, m)
  <2>1. m \in live \/ (count < limit /\ m = <<now, seq>>)
    BY <1>2, <1>4, <1>9
  <2>2. QED
    BY <1>7, <1>8, <2>1
<1>10. QED
  BY <1>9 DEF Numbers, left, limit, window

LEMMA TickNumbers ==
    ASSUME ClocksAgree, NEW keyspace, NEW at \in Nat, Bounded(keyspace, at), NEW key,
           Numbers(keyspace, at, key), Has(keyspace, Plain(key), Logs)
    PROVE  Numbers(Live(keyspace, at + 1), at + 1, key)
<1> DEFINE left == Live(keyspace, at + 1)
<1>1. /\ DOMAIN left = {n \in DOMAIN keyspace : at + 1 <= keyspace[n].expireAt}
      /\ \A n \in DOMAIN left : left[n] = keyspace[n]
  <2>1. at + 1 \in Nat
    OBVIOUS
  <2>2. QED
    BY <2>1, LiveIs
<1> HIDE DEF left
<1>2. LogOf(left, key) \subseteq LogOf(keyspace, key)
  BY <1>1 DEF LogOf, Get
<1>3. /\ MaxDelay \in Nat /\ (\A e \in ClockErrors : e \in Int)
      /\ \A p \in Policies : WindowMs(p.window) \in Nat
  BY RedisAssumption, WindowsAreNumbers
<1>4. ASSUME NEW m \in LogOf(left, key)
      PROVE  /\ \E ahead \in ClockErrors : m[1] <= at + 1 + ahead
             /\ Counted(left, key, m) \/ Past(at + 1, m)
  <2>1. /\ \E ahead \in ClockErrors : m[1] <= at + ahead
        /\ Counted(keyspace, key, m) \/ Past(at, m)
        /\ m[1] \in Nat /\ m[2] \in Nat
    BY <1>2, <1>4, LogsAre DEF Numbers
  <2>2. \E ahead \in ClockErrors : m[1] <= at + 1 + ahead
    BY <1>3, <2>1
  <2>3. ASSUME Past(at, m) PROVE Past(at + 1, m)
    BY <1>3, <2>1, <2>3 DEF Past
  <2>4. ASSUME Counted(keyspace, key, m), SeqKey(key) \in DOMAIN left
        PROVE  Counted(left, key, m)
    BY <1>1, <2>4 DEF Counted
  <2>5. ASSUME Counted(keyspace, key, m), SeqKey(key) \notin DOMAIN left
        PROVE  Past(at + 1, m)
    <3> DEFINE expireAt == keyspace[SeqKey(key)].expireAt
    <3>1. SeqKey(key) \in DOMAIN keyspace /\ expireAt \in Nat
      <4>1. SeqKey(key) \in DOMAIN keyspace
        BY <2>5 DEF Counted
      <4>2. PICK p \in Policies : expireAt \in at .. at + 2 * WindowMs(p.window)
        BY <4>1 DEF Bounded
      <4>3. QED
        BY <1>3, <4>1, <4>2
    <3>2. PICK ahead \in ClockErrors, policy \in Policies :
            m[1] + 2 * WindowMs(policy.window) <= expireAt + ahead
      BY <2>5 DEF Counted
    <3>3. expireAt < at + 1
      BY <1>1, <2>5, <3>1
    <3> HIDE DEF expireAt
    <3>4. ASSUME NEW behind \in ClockErrors PROVE m[1] < (at + 1) - MaxDelay + behind
      <4>1. MaxDelay + ahead - behind <= 2 * WindowMs(policy.window)
        BY DEF ClocksAgree
      <4> DEFINE w == WindowMs(policy.window)
      <4>2. w \in Nat /\ ahead \in Int /\ behind \in Int
        BY <1>3
      <4> HIDE DEF w
      <4>3. m[1] + 2 * w <= expireAt + ahead /\ MaxDelay + ahead - behind <= 2 * w
        BY <3>2, <4>1 DEF w
      <4>4. QED
        BY <1>3, <2>1, <3>1, <3>3, <4>2, <4>3
    <3>5. QED
      BY <3>4 DEF Past
  <2>6. QED
    BY <2>1, <2>2, <2>3, <2>4, <2>5
<1>5. QED
  BY <1>4 DEF Numbers, left

TypedInv ==
    /\ RedisInv
    /\ Sent
    /\ \A key \in Keys : Typed(db, key)

NumbersInv == strategy = "sliding_log" => \A key \in Keys : Numbers(db, clock, key)

LEMMA TypedInit == Init => TypedInv /\ NumbersInv
<1> SUFFICES ASSUME Init PROVE TypedInv /\ NumbersInv
  OBVIOUS
<1>1. RedisInv
  BY InitBounded
<1>2. /\ DOMAIN db = {} /\ Sent
  BY DEF Init, Sent
<1>3. QED
  BY <1>1, <1>2 DEF TypedInv, NumbersInv, Typed, Has, Numbers, LogOf, Get

LEMMA TypedNow ==
    ASSUME TypedInv
    PROVE  /\ RedisInv /\ Sent /\ clock \in Nat /\ clock >= StartTime
           /\ strategy \in AllStrategies /\ Bounded(db, clock)
           /\ strategy = "fixed_window" => Positive(db)
BY RedisAssumption DEF TypedInv, RedisInv, TypeOK

(* Less than a keyspace has the types that it has.                         *)
LEMMA FewerAreTyped ==
    ASSUME NEW keyspace, NEW left, NEW key, Typed(keyspace, key),
           DOMAIN left \subseteq DOMAIN keyspace,
           \A name \in DOMAIN left : left[name] = keyspace[name]
    PROVE  Typed(left, key)
BY DEF Typed, Has

(* The values of a key that agrees are the same.                           *)
LEMMA AgreeIs ==
    ASSUME NEW keyspace, NEW left, NEW key, Agree(keyspace, left, key)
    PROVE  /\ Plain(key) \in DOMAIN keyspace <=> Plain(key) \in DOMAIN left
           /\ Plain(key) \in DOMAIN keyspace => left[Plain(key)] = keyspace[Plain(key)]
           /\ SeqKey(key) \in DOMAIN keyspace <=> SeqKey(key) \in DOMAIN left
           /\ SeqKey(key) \in DOMAIN keyspace => left[SeqKey(key)] = keyspace[SeqKey(key)]
           /\ LogOf(left, key) = LogOf(keyspace, key)
<1>1. /\ Plain(key) \in DOMAIN keyspace <=> Plain(key) \in DOMAIN left
      /\ Plain(key) \in DOMAIN keyspace => left[Plain(key)] = keyspace[Plain(key)]
      /\ SeqKey(key) \in DOMAIN keyspace <=> SeqKey(key) \in DOMAIN left
      /\ SeqKey(key) \in DOMAIN keyspace => left[SeqKey(key)] = keyspace[SeqKey(key)]
  BY NamesOfKeys DEF Agree
<1>2. QED
  BY <1>1 DEF LogOf, Get

LEMMA TypedStep == TypedInv /\ [Next]_vars => TypedInv'
<1> SUFFICES ASSUME TypedInv, [Next]_vars PROVE TypedInv'
  OBVIOUS
<1>1. RedisInv /\ Sent /\ RedisInv' /\ Sent' /\ strategy \in AllStrategies
  BY RedisStep, SentStays, TypedNow
<1>2. SUFFICES ASSUME NEW key \in Keys PROVE Typed(db, key)'
  BY <1>1 DEF TypedInv
<1>3. KeyStep(key) /\ strategy' = strategy
  BY <1>1, StepIsKeyStep
<1>4. Typed(db, key)
  BY DEF TypedInv
<1>5. SUFFICES Typed(db', key)
  BY <1>3 DEF Typed
<1>6. CASE Agree(db, db', key)
  BY <1>4, <1>6, AgreeIs DEF Typed, Has
<1>7. ASSUME NEW r \in Callers, call[r] # NoCall, call[r].key = key, db' = Outcome(r).db
      PROVE  Typed(db', key)
  <2>1. call[r].policy \in Policies /\ Reading(call[r].now)
    BY <1>1, <1>7, RequestIs
  <2>2. Typed(Script(db, clock, key, call[r].policy, call[r].now).db, key)
    BY <1>1, <1>4, <2>1, ScriptKeepsTypes
  <2>3. QED
    BY <1>7, <2>2 DEF Outcome
<1>8. CASE Reset(key) \/ Tick
  <2>1. /\ DOMAIN db' \subseteq DOMAIN db
        /\ \A name \in DOMAIN db' : db'[name] = db[name]
    BY <1>8 DEF Reset, Tick, Live, Del
  <2>2. QED
    BY <1>4, <2>1, FewerAreTyped
<1>9. QED
  BY <1>3, <1>6, <1>7, <1>8 DEF KeyStep

LEMMA NumbersStep == ClocksAgree /\ TypedInv /\ NumbersInv /\ [Next]_vars => NumbersInv'
<1> SUFFICES ASSUME ClocksAgree, TypedInv, NumbersInv, [Next]_vars PROVE NumbersInv'
  OBVIOUS
<1>1. RedisInv /\ Sent /\ clock \in Nat /\ Bounded(db, clock)
  BY TypedNow
<1>2. SUFFICES ASSUME strategy' = "sliding_log", NEW key \in Keys
               PROVE  Numbers(db', clock', key)
  BY DEF NumbersInv
<1>3. KeyStep(key) /\ strategy' = strategy
  BY <1>1, StepIsKeyStep
<1>4. /\ Numbers(db, clock, key)
      /\ Has(db, Plain(key), Logs) /\ Has(db, SeqKey(key), Nat \ {0})
  BY <1>2, <1>3 DEF NumbersInv, TypedInv, Typed
<1>5. CASE Agree(db, db', key) /\ clock' = clock
  <2>1. LogOf(db', key) = LogOf(db, key)
    BY <1>5, AgreeIs
  <2>2. \A m : Counted(db, key, m) => Counted(db', key, m)
    BY <1>5, AgreeIs DEF Counted
  <2>3. QED
    BY <1>4, <1>5, <2>1, <2>2 DEF Numbers
<1>6. ASSUME NEW r \in Callers, call[r] # NoCall, call[r].key = key, db' = Outcome(r).db,
             clock' = clock
      PROVE  Numbers(db', clock', key)
  <2> DEFINE policy == call[r].policy
             now == call[r].now
  <2>1. policy \in Policies /\ Reading(now)
    BY <1>1, <1>6, RequestIs
  <2>2. PICK error \in ClockErrors : now <= clock + error
    BY <1>1, <1>6, RequestIs
  <2>3. db' = SL!RedisScript(db, clock, key, policy.limit, WindowMs(policy.window), now).db
    BY <1>2, <1>3, <1>6 DEF Outcome, Script
  <2> HIDE DEF policy, now
  <2>4. now \in Nat
    BY <2>1 DEF Reading
  <2>5. QED
    BY <1>1, <1>4, <1>6, <2>1, <2>2, <2>3, <2>4, SlidingLogNumbers
<1>7. CASE Reset(key)
  <2>1. Plain(key) \notin DOMAIN db'
    BY <1>7 DEF Reset, Del
  <2>2. LogOf(db', key) = {}
    BY <2>1 DEF LogOf, Get
  <2>3. QED
    BY <2>2 DEF Numbers
<1>8. CASE Tick
  <2>1. clock' = clock + 1 /\ db' = Live(db, clock + 1)
    BY <1>8 DEF Tick
  <2>2. QED
    BY <1>1, <1>4, <2>1, TickNumbers
<1>9. QED
  BY <1>3, <1>5, <1>6, <1>7, <1>8 DEF KeyStep

(* The driver's Remaining is true under every script, whatever clocks the  *)
(* callers have, however late and however often their requests arrive and  *)
(* whatever Redis has expired: the next request at the same reading is     *)
(* admitted exactly if the answer left some (interface.go:12-13).  Only the*)
(* sliding log needs ClocksAgree: its counter starts again at one, two     *)
(* windows after the last admission (slidinglog.go:108-109).               *)
THEOREM RedisRemainingIsTrue ==
    ASSUME ClocksAgree
    PROVE  Spec => []RemainingIsTrue
<1>1. ASSUME TypedInv, NumbersInv PROVE RemainingIsTrue
  <2>1. SUFFICES ASSUME NEW key \in Keys, NEW policy \in Policies, NEW error \in ClockErrors
                 PROVE  Truthful(Verdict(key, policy, error).reply,
                                 FollowUp(key, policy, error, 0))
    BY DEF RemainingIsTrue, Truthful
  <2> DEFINE now == clock + error
             after == Script(db, clock, key, policy, now)
             left == Live(after.db, clock)
  <2>2. /\ clock \in Nat /\ clock >= StartTime /\ strategy \in AllStrategies
        /\ Bounded(db, clock) /\ (strategy = "fixed_window" => Positive(db))
        /\ Typed(db, key)
        /\ strategy = "sliding_log" => Numbers(db, clock, key)
    BY <1>1, TypedNow DEF TypedInv, NumbersInv
  <2>3. Reading(now) /\ error \in Int /\ now \in Nat
    BY <2>2, ReadingIs DEF Reading
  <2>4. /\ Verdict(key, policy, error) = after
        /\ FollowUp(key, policy, error, 0) = Script(left, clock, key, policy, now).reply
    <3>1. clock + 0 = clock
      BY <2>2
    <3>2. QED
      BY <3>1 DEF Verdict, FollowUp
  <2> HIDE DEF now
  <2>5. /\ Bounded(after.db, clock)
        /\ strategy = "fixed_window" => Positive(after.db)
    BY <2>2, ScriptBounded
  <2> DEFINE final == after.db
  <2> HIDE DEF after
  <2>6. /\ DOMAIN left = DOMAIN final
        /\ \A name \in DOMAIN final : left[name] = final[name]
    <3>1. /\ DOMAIN left = {name \in DOMAIN final : clock <= final[name].expireAt}
          /\ \A name \in DOMAIN left : left[name] = final[name]
      BY <2>2, <2>5, LiveIs
    <3>2. \A name \in DOMAIN final : clock <= final[name].expireAt
      BY <2>2, <2>5, WindowsAreNumbers DEF Bounded
    <3>3. QED
      BY <3>1, <3>2
  <2> HIDE DEF left
  <2>7. /\ Agree(final, left, key)
        /\ strategy = "fixed_window" => Positive(left)
    BY <2>5, <2>6 DEF Agree, Positive
  <2>8. strategy = "sliding_log" => <<now, NextSeq(db, key)>> \notin LogOf(db, key)
    <3>1. clock - MaxDelay + error <= now /\ MaxDelay \in Nat
      BY <2>2, <2>3, RedisAssumption DEF now
    <3>2. QED
      BY <2>2, <2>3, <3>1, NextIsNew DEF Typed
  <2>9. Truthful(after.reply, Script(left, clock, key, policy, now).reply)
    BY <2>2, <2>3, <2>7, <2>8, ScriptTells DEF after
  <2>10. QED
    BY <2>4, <2>9 DEF after
<1>2. QED
  BY TypedInit, TypedStep, NumbersStep, <1>1, PTL DEF Spec
===============================================================================
