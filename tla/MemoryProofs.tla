---------------------------- MODULE MemoryProofs ------------------------------
(***************************************************************************)
(* The memory driver keeps its entries well-formed and its answers are true*)
(* under every strategy, for any policy, any number of callers, keys and   *)
(* shards, in any state that late calls and evictions may leave behind: no *)
(* bucket overflows, Remaining and ResetIn hold, and the buckets admit no  *)
(* more than their rate. Requests in the order of their clock readings are *)
(* admitted exactly when the documented quota has room; late ones make the *)
(* sliding log stricter by no more than they are late.                     *)
(***************************************************************************)
EXTENDS QuotaHistory, CountingLemmas

(* A state that may be stored when the clock shows an instant.             *)
Sound(state, instant) == state \in States /\ state.lastUpdate <= instant

LEMMA NewIsSound ==
    ASSUME NEW instant \in Nat
    PROVE  Sound(NewState, instant)
BY MemoryAssumption, AlgorithmAssumption DEF Sound, NewState, States, NoTime

LEMMA StateFields ==
    ASSUME NEW state \in States
    PROVE  /\ state.count \in Nat /\ state.prevCount \in Nat
           /\ state.lastUpdate \in Nat \cup {NoTime}
           /\ state.tokens \in 0 .. Limit * TokenUnit
           /\ state.timestamps \in Seq(Nat)
BY DEF States

LEMMA TruncateGoesBack ==
    ASSUME NEW now \in Nat
    PROVE  now - (now % Window) \in Nat /\ now - (now % Window) <= now
<1>1. Window \in Nat \ {0}
  BY MemoryAssumption
<1>2. now % Window \in Nat /\ now % Window <= now
  BY <1>1
<1>3. QED
  BY <1>2

LEMMA FixedWindowSound ==
    ASSUME NEW instant \in Nat, NEW now \in 0 .. instant, NEW state, Sound(state, instant)
    PROVE  Sound(FW!EvaluateMemory(now, state, Limit, Window).state, instant)
<1> DEFINE boundary == now - (now % Window)
           counted == IF state.lastUpdate = boundary THEN state.count + 1 ELSE 1
<1>1. boundary \in Nat /\ boundary <= instant
  BY TruncateGoesBack
<1>2. counted \in Nat
  BY StateFields DEF Sound
<1>3. FW!EvaluateMemory(now, state, Limit, Window).state
         = [state EXCEPT !.count = counted, !.lastUpdate = boundary]
  BY DEF FW!EvaluateMemory, FW!Evaluation, FW!Truncate
<1> HIDE DEF boundary, counted
<1>4. QED
  BY <1>1, <1>2, <1>3 DEF Sound, States

LEMMA SlidingCounterRotates ==
    ASSUME NEW instant \in Nat, NEW now \in 0 .. instant, NEW state, Sound(state, instant)
    PROVE  Sound(SC!Rotate(now, state, Window), instant)
<1> DEFINE boundary == now - (now % Window)
           rotated == SC!Rotate(now, state, Window)
<1>1. boundary \in Nat /\ boundary <= instant
  BY TruncateGoesBack
<1>2. rotated \in {[state EXCEPT !.prevCount = 0, !.count = 0, !.lastUpdate = boundary],
                   [state EXCEPT !.prevCount = state.count, !.count = 0,
                                 !.lastUpdate = boundary],
                   state}
  BY DEF SC!Rotate, SC!Truncate
<1>3. state.count \in Nat
  BY StateFields DEF Sound
<1> HIDE DEF boundary, rotated
<1>4. Sound(rotated, instant)
  <2>1. CASE rotated = [state EXCEPT !.prevCount = 0, !.count = 0, !.lastUpdate = boundary]
    BY <1>1, <2>1 DEF Sound, States
  <2>2. CASE rotated = [state EXCEPT !.prevCount = state.count, !.count = 0,
                                     !.lastUpdate = boundary]
    BY <1>1, <1>3, <2>2 DEF Sound, States
  <2>3. CASE rotated = state
    BY <2>3
  <2>4. QED
    BY <1>2, <2>1, <2>2, <2>3
<1>5. QED
  BY <1>4 DEF rotated

LEMMA SlidingCounterSound ==
    ASSUME NEW instant \in Nat, NEW now \in 0 .. instant, NEW state, Sound(state, instant)
    PROVE  Sound(SC!EvaluateMemory(now, state, Limit, Window).state, instant)
<1> DEFINE rotated == SC!Rotate(now, state, Window)
<1>1. Sound(rotated, instant)
  BY SlidingCounterRotates
<1>2. PICK count \in {rotated.count, rotated.count + 1} :
          SC!EvaluateMemory(now, state, Limit, Window).state = [rotated EXCEPT !.count = count]
  BY DEF SC!EvaluateMemory, SC!Evaluation
<1> HIDE DEF rotated
<1>3. QED
  BY <1>1, <1>2 DEF Sound, States

(* Logs of instants stay logs of instants.                                 *)
LEMMA TrimKeepsLogs ==
    ASSUME NEW log \in Seq(Nat), NEW cutoff
    PROVE  SL!Trim(log, cutoff) \in Seq(Nat)
<1> DEFINE fresh == {i \in DOMAIN log : log[i] > cutoff}
           first == IF fresh = {} THEN Len(log) + 1
                    ELSE CHOOSE i \in fresh : \A j \in fresh : i <= j
<1>1. SL!Trim(log, cutoff) = SubSeq(log, first, Len(log))
  BY DEF SL!Trim
<1>2. CASE fresh = {}
  <2>1. SubSeq(log, Len(log) + 1, Len(log)) \in Seq(Nat)
    OBVIOUS
  <2>2. QED
    BY <1>1, <1>2, <2>1
<1>3. CASE fresh # {}
  <2>1. fresh \subseteq Nat
    OBVIOUS
  <2>2. \E i \in fresh : \A j \in fresh : i <= j
    BY <1>3, <2>1, LeastIndex
  <2>3. first \in fresh
    BY <1>3, <2>2
  <2>4. fresh \subseteq 1 .. Len(log)
    OBVIOUS
  <2> HIDE DEF first, fresh
  <2>5. SubSeq(log, first, Len(log)) \in Seq(Nat)
    BY <2>3, <2>4
  <2>6. QED
    BY <1>1, <2>5
<1>4. QED
  BY <1>2, <1>3

LEMMA Rates ==
    /\ Limit * TokenUnit \in Nat /\ TokenUnit \in Nat \ {0}
    /\ TokenUnit <= Limit * TokenUnit
    /\ Limit * (TokenUnit \div Window) \in Nat
<1>1. Limit \in Nat \ {0} /\ Window \in Nat \ {0} /\ TokenUnit \in Nat \ {0}
  BY MemoryAssumption, AlgorithmAssumption
<1>2. TokenUnit \div Window \in Nat
  BY <1>1
<1>3. Limit * TokenUnit \in Nat /\ Limit * (TokenUnit \div Window) \in Nat
  BY <1>1, <1>2, ProductOfNats
<1>4. TokenUnit <= Limit * TokenUnit
  <2>1. Limit * TokenUnit = (Limit - 1) * TokenUnit + TokenUnit
    BY <1>1
  <2>2. (Limit - 1) * TokenUnit \in Nat
    BY <1>1, ProductOfNats
  <2>3. QED
    BY <1>1, <2>1, <2>2
<1>5. QED
  BY <1>1, <1>3, <1>4

LEMMA SlidingLogSound ==
    ASSUME NEW instant \in Nat, NEW now \in 0 .. instant, NEW state, Sound(state, instant)
    PROVE  Sound(SL!EvaluateMemory(now, state, Limit, Window).state, instant)
<1> DEFINE nowMs == now \div Milli
           live == SL!Trim(state.timestamps, nowMs - (Window \div Milli))
           log == IF Len(live) < Limit THEN Append(live, nowMs) ELSE live
<1>1. nowMs \in Nat
  BY AlgorithmAssumption
<1>2. live \in Seq(Nat)
  BY TrimKeepsLogs, StateFields DEF Sound
<1>3. SL!EvaluateMemory(now, state, Limit, Window).state = [state EXCEPT !.timestamps = log]
  BY DEF SL!EvaluateMemory, SL!Evaluation
<1> HIDE DEF nowMs, live
<1>4. log \in Seq(Nat)
  BY <1>1, <1>2
<1> HIDE DEF log
<1>5. QED
  BY <1>3, <1>4 DEF Sound, States

(* A level within the capacity, stored with the instant of its request.    *)
LEMMA LevelIsSound ==
    ASSUME NEW instant \in Nat, NEW now \in 0 .. instant, NEW state, Sound(state, instant),
           NEW level \in 0 .. Limit * TokenUnit
    PROVE  Sound([state EXCEPT !.tokens = level, !.lastUpdate = now], instant)
<1> DEFINE levelled == [state EXCEPT !.tokens = level]
<1>1. Sound(levelled, instant)
  BY DEF Sound, States
<1>2. Sound([levelled EXCEPT !.lastUpdate = now], instant)
  <2>1. now \in Nat /\ now <= instant
    OBVIOUS
  <2> HIDE DEF levelled
  <2>2. QED
    BY <1>1, <2>1 DEF Sound, States
<1>3. [state EXCEPT !.tokens = level, !.lastUpdate = now] = [levelled EXCEPT !.lastUpdate = now]
  BY DEF Sound, States
<1>4. QED
  BY <1>2, <1>3

(* A bucket that fills stays between empty and full.                       *)
LEMMA RefillIsSound ==
    ASSUME NEW instant \in Nat, NEW now \in 0 .. instant, NEW state, Sound(state, instant)
    PROVE  Sound(TB!Refill(now, state, Limit, Window), instant)
<1> DEFINE full == Limit * TokenUnit
           rate == Limit * (TokenUnit \div Window)
           filled == TB!Refill(now, state, Limit, Window)
           grown == state.tokens + (now - state.lastUpdate) * rate
<1>1. full \in Nat /\ rate \in Nat
  BY Rates
<1>2. CASE state.lastUpdate = NoTime
  <2>1. filled = [state EXCEPT !.tokens = full, !.lastUpdate = now]
    BY <1>2 DEF TB!Refill, TB!Capacity, TB!NoTime, NoTime
  <2> HIDE DEF filled, full
  <2>2. full \in 0 .. full
    BY <1>1
  <2>3. Sound(filled, instant)
    BY <2>1, <2>2, LevelIsSound DEF full
  <2>4. QED
    BY <2>3 DEF filled
<1>3. CASE state.lastUpdate # NoTime /\ now - state.lastUpdate > 0
  <2>1. filled = [state EXCEPT !.tokens = TB!Least(full, grown), !.lastUpdate = now]
    BY <1>3 DEF TB!Refill, TB!Capacity, TB!FillRate, TB!NoTime, NoTime
  <2>2. state.tokens \in Nat /\ now - state.lastUpdate \in Nat
    BY <1>1, <1>3, StateFields DEF Sound
  <2>3. (now - state.lastUpdate) * rate \in Nat
    BY <1>1, <2>2, ProductOfNats
  <2>4. grown \in Nat
    BY <2>2, <2>3
  <2> HIDE DEF filled, full, grown
  <2>5. TB!Least(full, grown) \in 0 .. full
    BY <1>1, <2>4 DEF TB!Least
  <2>6. Sound(filled, instant)
    BY <2>1, <2>5, LevelIsSound DEF full
  <2>7. QED
    BY <2>6 DEF filled
<1>4. CASE state.lastUpdate # NoTime /\ ~(now - state.lastUpdate > 0)
  BY <1>4 DEF TB!Refill, TB!NoTime, NoTime
<1>5. QED
  BY <1>2, <1>3, <1>4

LEMMA TokenBucketSound ==
    ASSUME NEW instant \in Nat, NEW now \in 0 .. instant, NEW state, Sound(state, instant)
    PROVE  Sound(TB!EvaluateMemory(now, state, Limit, Window).state, instant)
<1> DEFINE full == Limit * TokenUnit
           filled == TB!Refill(now, state, Limit, Window)
           left == IF filled.tokens >= TokenUnit THEN filled.tokens - TokenUnit
                   ELSE filled.tokens
<1>1. full \in Nat /\ TokenUnit \in Nat
  BY Rates
<1>2. Sound(filled, instant)
  BY RefillIsSound
<1>3. TB!EvaluateMemory(now, state, Limit, Window).state = [filled EXCEPT !.tokens = left]
  BY DEF TB!EvaluateMemory, TB!Evaluation
<1>4. filled.tokens \in 0 .. full
  BY <1>2, StateFields DEF Sound
<1> HIDE DEF filled, full
<1>5. left \in 0 .. full
  BY <1>1, <1>4
<1> HIDE DEF left
<1>6. QED
  BY <1>2, <1>3, <1>5 DEF Sound, States, full

(* So does one that drains.                                                *)
LEMMA LeakIsSound ==
    ASSUME NEW instant \in Nat, NEW now \in 0 .. instant, NEW state, Sound(state, instant)
    PROVE  Sound(LB!Leak(now, state, Limit, Window), instant)
<1> DEFINE full == Limit * TokenUnit
           rate == Limit * (TokenUnit \div Window)
           drained == LB!Leak(now, state, Limit, Window)
           leaked == state.tokens - (now - state.lastUpdate) * rate
<1>1. full \in Nat /\ rate \in Nat
  BY Rates
<1>2. CASE state.lastUpdate = NoTime
  <2>1. drained = [state EXCEPT !.tokens = 0, !.lastUpdate = now]
    BY <1>2 DEF LB!Leak, LB!NoTime, NoTime
  <2>2. 0 \in 0 .. full
    BY <1>1
  <2> HIDE DEF drained, full
  <2>3. Sound(drained, instant)
    BY <2>1, <2>2, LevelIsSound DEF full
  <2>4. QED
    BY <2>3 DEF drained
<1>3. CASE state.lastUpdate # NoTime /\ now - state.lastUpdate > 0
  <2>1. drained = [state EXCEPT !.tokens = LB!NonNegative(leaked), !.lastUpdate = now]
    BY <1>3 DEF LB!Leak, LB!LeakRate, LB!NoTime, NoTime
  <2>2. state.tokens \in 0 .. full /\ now - state.lastUpdate \in Nat
    BY <1>1, <1>3, StateFields DEF Sound
  <2>3. (now - state.lastUpdate) * rate \in Nat
    BY <1>1, <2>2, ProductOfNats
  <2> HIDE DEF full
  <2>4. leaked \in Int /\ leaked <= full
    BY <1>1, <2>2, <2>3
  <2> HIDE DEF drained, leaked
  <2>5. LB!NonNegative(leaked) \in 0 .. full
    BY <1>1, <2>4 DEF LB!NonNegative
  <2>6. Sound(drained, instant)
    BY <2>1, <2>5, LevelIsSound DEF full
  <2>7. QED
    BY <2>6 DEF drained
<1>4. CASE state.lastUpdate # NoTime /\ ~(now - state.lastUpdate > 0)
  BY <1>4 DEF LB!Leak, LB!NoTime, NoTime
<1>5. QED
  BY <1>2, <1>3, <1>4

LEMMA LeakyBucketSound ==
    ASSUME NEW instant \in Nat, NEW now \in 0 .. instant, NEW state, Sound(state, instant)
    PROVE  Sound(LB!EvaluateMemory(now, state, Limit, Window).state, instant)
<1> DEFINE full == Limit * TokenUnit
           drained == LB!Leak(now, state, Limit, Window)
           level == IF drained.tokens + TokenUnit <= full THEN drained.tokens + TokenUnit
                    ELSE drained.tokens
<1>1. full \in Nat /\ TokenUnit \in Nat
  BY Rates
<1>2. Sound(drained, instant)
  BY LeakIsSound
<1>3. LB!EvaluateMemory(now, state, Limit, Window).state = [drained EXCEPT !.tokens = level]
  BY DEF LB!EvaluateMemory, LB!Evaluation, LB!Capacity
<1>4. drained.tokens \in 0 .. full
  BY <1>2, StateFields DEF Sound
<1> HIDE DEF drained, full
<1>5. level \in 0 .. full
  BY <1>1, <1>4
<1> HIDE DEF level
<1>6. QED
  BY <1>2, <1>3, <1>5 DEF Sound, States, full

LEMMA EvaluateIsSound ==
    ASSUME NEW instant \in Nat, NEW now \in 0 .. instant, NEW state, Sound(state, instant),
           strategy \in Strategies
    PROVE  Sound(Evaluate(now, state).state, instant)
<1>1. strategy \in AllStrategies
  BY MemoryAssumption
<1>2. CASE strategy = "fixed_window"
  BY <1>2, FixedWindowSound DEF Evaluate
<1>3. CASE strategy = "sliding_counter"
  BY <1>3, SlidingCounterSound DEF Evaluate
<1>4. CASE strategy = "sliding_log"
  BY <1>4, SlidingLogSound DEF Evaluate
<1>5. CASE strategy = "token_bucket"
  BY <1>5, TokenBucketSound DEF Evaluate
<1>6. CASE strategy = "leaky_bucket"
  BY <1>6, LeakyBucketSound DEF Evaluate
<1>7. QED
  BY <1>1, <1>2, <1>3, <1>4, <1>5, <1>6 DEF AllStrategies

-------------------------------------------------------------------------------
(* TypeOK says nothing of the domains of the two maps, which an update of  *)
(* one entry relies on.                                                    *)
MemoryInv == TypeOK /\ DOMAIN store = Keys /\ DOMAIN call = Callers

LEMMA MemoryInit == Init => MemoryInv
<1> SUFFICES ASSUME Init PROVE MemoryInv
  OBVIOUS
<1>1. MaxTime \in Nat /\ MaxCalls \in Nat
  BY MemoryAssumption
<1>2. \A key \in Keys : store[key] = NoEntry
  BY DEF Init
<1>3. \A r \in Callers : call[r] = NoCall
  BY DEF Init
<1>4. DOMAIN store = Keys /\ DOMAIN call = Callers
  BY DEF Init
<1>5. strategy \in Strategies /\ clock = 0 /\ calls = 0 /\ tickPending = FALSE
        /\ closed = FALSE /\ janitor = [at |-> "select"]
  BY DEF Init
<1>6. /\ clock \in 0 .. MaxTime
      /\ calls \in 0 .. MaxCalls
      /\ {tickPending, closed} \subseteq BOOLEAN
  <2>1. clock \in 0 .. MaxTime /\ calls \in 0 .. MaxCalls
    BY <1>1, <1>5
  <2>2. tickPending \in BOOLEAN /\ closed \in BOOLEAN
    BY <1>5
  <2>3. QED
    BY <2>1, <2>2
<1>7. janitor \in [at : {"select", "stopped"}]
  <2>1. janitor = [at |-> "select"]
    BY <1>5
  <2>2. "select" \in {"select", "stopped"}
    OBVIOUS
  <2>3. QED
    BY <2>1, <2>2, Zenon
<1>8. TypeOK
  <2>1. \A key \in Keys : store[key] # NoEntry =>
            /\ store[key].lastAccess \in 0 .. clock
            /\ store[key].state \in States
            /\ store[key].state.lastUpdate <= clock
    BY <1>2
  <2>2. \A r \in Callers : call[r] # NoCall =>
            /\ call[r].key \in Keys /\ call[r].now \in 0 .. clock
            /\ clock - call[r].now <= MaxDelay
    BY <1>3
  <2>3. strategy \in Strategies
    BY <1>5
  <2>4. QED
    BY <1>6, <1>7, <2>1, <2>2, <2>3 DEF TypeOK
<1>9. QED
  BY <1>4, <1>8 DEF MemoryInv

LEMMA StateOfIsSound ==
    ASSUME MemoryInv, NEW key \in Keys
    PROVE  Sound(StateOf(key), clock)
<1>1. clock \in Nat
  BY DEF MemoryInv, TypeOK
<1>2. CASE store[key] = NoEntry
  BY <1>1, <1>2, NewIsSound DEF StateOf
<1>3. CASE store[key] # NoEntry
  BY <1>3 DEF StateOf, MemoryInv, TypeOK, Sound
<1>4. QED
  BY <1>2, <1>3

LEMMA EvaluateLockedKeeps ==
    ASSUME MemoryInv, NEW r \in Callers, EvaluateLocked(r)
    PROVE  MemoryInv'
<1> DEFINE key == call[r].key
           now == call[r].now
           entry == [lastAccess |-> now, state |-> Evaluate(now, StateOf(key)).state]
<1>1. key \in Keys /\ now \in 0 .. clock /\ clock \in Nat /\ strategy \in Strategies
  BY MemoryAssumption DEF EvaluateLocked, MemoryInv, TypeOK
<1>2. Sound(entry.state, clock)
  BY <1>1, StateOfIsSound, EvaluateIsSound
<1>3. /\ store' = [store EXCEPT ![key] = entry]
      /\ call' = [call EXCEPT ![r] = NoCall]
      /\ UNCHANGED <<strategy, clock, calls, tickPending, closed, janitor>>
  BY DEF EvaluateLocked
<1>4. entry.lastAccess \in 0 .. clock
  BY <1>1
<1> HIDE DEF key, now, entry
<1>5. ASSUME NEW k \in Keys, store'[k] # NoEntry
      PROVE  /\ store'[k].lastAccess \in 0 .. clock
             /\ Sound(store'[k].state, clock)
  BY <1>1, <1>2, <1>3, <1>4, <1>5 DEF MemoryInv, TypeOK, Sound
<1>6. ASSUME NEW c \in Callers, call'[c] # NoCall
      PROVE  /\ call'[c].key \in Keys /\ call'[c].now \in 0 .. clock
             /\ clock - call'[c].now <= MaxDelay
  BY <1>3, <1>6 DEF MemoryInv, TypeOK
<1>7. QED
  BY <1>3, <1>5, <1>6 DEF MemoryInv, TypeOK, Sound, NoEntry, NoCall

(* An entry that is removed, and a clock that moves on, harm no other one. *)
LEMMA OtherActionsKeep ==
    ASSUME MemoryInv, [Next]_vars, ~(\E r \in Callers : EvaluateLocked(r))
    PROVE  MemoryInv'
<1> USE MemoryAssumption DEF MemoryInv, TypeOK
<1>1. ASSUME NEW r \in Callers, NEW key \in Keys, Enter(r, key)
      PROVE  MemoryInv'
  BY <1>1 DEF Enter, NoCall
<1>2. ASSUME NEW key \in Keys, Reset(key)
      PROVE  MemoryInv'
  BY <1>2 DEF Reset, NoCall, NoEntry
<1>3. CASE Close
  BY <1>3 DEF Close, NoCall, NoEntry
<1>4. CASE BeginCleanup
  <2>1. janitor' \in [at : {"cleanup"}, now : 0 .. clock, shard : 0 .. ShardCount - 1]
    BY <1>4 DEF BeginCleanup
  <2>2. UNCHANGED <<strategy, clock, store, call, calls, closed>> /\ tickPending' = FALSE
    BY <1>4 DEF BeginCleanup
  <2>3. QED
    BY <2>1, <2>2 DEF NoCall, NoEntry
<1>5. CASE CleanShard
  <2>1. \A key \in Keys : store'[key] \in {NoEntry, store[key]}
    BY <1>5 DEF CleanShard
  <2>2. \/ janitor' \in [at : {"select", "stopped"}]
        \/ janitor' \in [at : {"cleanup"}, now : 0 .. clock, shard : 0 .. ShardCount - 1]
    BY <1>5 DEF CleanShard
  <2>3. DOMAIN store' = Keys
    BY <1>5 DEF CleanShard
  <2>4. UNCHANGED <<strategy, clock, call, calls, tickPending, closed>>
    BY <1>5 DEF CleanShard
  <2>5. QED
    BY <2>1, <2>2, <2>3, <2>4 DEF NoCall, NoEntry
<1>6. CASE StopJanitor
  BY <1>6 DEF StopJanitor, NoCall, NoEntry
<1>7. CASE Tick
  <2>1. clock \in Nat /\ clock' = clock + 1 /\ clock' \in 0 .. MaxTime
    BY <1>7 DEF Tick
  <2>2. \A n : n \in 0 .. clock => n \in 0 .. clock'
    BY <2>1
  <2>3. UNCHANGED <<strategy, store, call, calls, closed, janitor>> /\ tickPending' \in BOOLEAN
    BY <1>7 DEF Tick
  <2>4. \A key \in Keys : store'[key] # NoEntry =>
            /\ store'[key].lastAccess \in 0 .. clock'
            /\ store'[key].state \in States
            /\ store'[key].state.lastUpdate <= clock'
    <3>1. SUFFICES ASSUME NEW key \in Keys, store[key] # NoEntry
                   PROVE  /\ store[key].lastAccess \in 0 .. clock'
                          /\ store[key].state \in States
                          /\ store[key].state.lastUpdate <= clock'
      BY <2>3 DEF NoEntry
    <3>2. store[key].state.lastUpdate \in Int
      BY <3>1, StateFields DEF NoTime
    <3>3. QED
      BY <2>1, <2>2, <3>1, <3>2
  <2>5. ASSUME NEW r \in Callers, call'[r] # NoCall
        PROVE  /\ call'[r].key \in Keys /\ call'[r].now \in 0 .. clock'
               /\ clock' - call'[r].now <= MaxDelay
    <3>1. call[r] # NoCall /\ call' = call
      BY <2>3, <2>5 DEF NoCall
    <3>2. clock < call[r].now + MaxDelay
      BY <1>7, <3>1 DEF Tick
    <3>3. QED
      BY <2>1, <2>2, <3>1, <3>2
  <2>6. QED
    BY <2>1, <2>2, <2>3, <2>4, <2>5 DEF NoCall, NoEntry
<1>8. CASE UNCHANGED vars
  BY <1>8 DEF vars, NoCall, NoEntry, States
<1>9. QED
  BY <1>1, <1>2, <1>3, <1>4, <1>5, <1>6, <1>7, <1>8 DEF Next, Refuse, Janitor

(* Under every strategy, for any policy and any number of callers, keys and*)
(* shards: the state of each key is one that the strategies can leave      *)
(* behind, its level between empty and full and its instants not in the    *)
(* future, whatever the order in which late calls and the janitor lock     *)
(* (memory.go:78-146).                                                     *)
THEOREM EntriesStaySound == Spec => []TypeOK
<1>1. ASSUME MemoryInv, [Next]_vars
      PROVE  MemoryInv'
  BY <1>1, EvaluateLockedKeeps, OtherActionsKeep
<1>2. MemoryInv => TypeOK
  BY DEF MemoryInv
<1>3. QED
  BY MemoryInit, <1>1, <1>2, PTL DEF Spec

(* An evaluation announces what the next one at the same instant gets.     *)
Truthful(first, next) ==
    /\ next.allowed <=> first.remaining > 0
    /\ next.allowed => next.remaining = first.remaining - 1

LEMMA FixedWindowTruthful ==
    ASSUME NEW now \in Nat, NEW state, Sound(state, now)
    PROVE  LET first == FW!EvaluateMemory(now, state, Limit, Window)
           IN  Truthful(first.result, FW!EvaluateMemory(now, first.state, Limit, Window).result)
<1> DEFINE boundary == now - (now % Window)
           counted == IF state.lastUpdate = boundary THEN state.count + 1 ELSE 1
           first == FW!EvaluateMemory(now, state, Limit, Window)
           next == FW!EvaluateMemory(now, first.state, Limit, Window).result
<1>1. counted \in Nat /\ Limit \in Nat
  BY StateFields, MemoryAssumption DEF Sound
<1>2. /\ first.state = [state EXCEPT !.count = counted, !.lastUpdate = boundary]
      /\ first.result.remaining = FW!NonNegative(Limit - counted)
  BY DEF FW!EvaluateMemory, FW!Evaluation, FW!Truncate
<1>3. first.state.count = counted /\ first.state.lastUpdate = boundary
  BY <1>2 DEF Sound, States
<1>4. /\ next.allowed <=> counted + 1 <= Limit
      /\ next.remaining = FW!NonNegative(Limit - (counted + 1))
  <2> HIDE DEF first, counted
  <2>1. QED
    BY <1>3 DEF FW!EvaluateMemory, FW!Evaluation, FW!Truncate
<1> HIDE DEF first, next, counted
<1>5. Truthful(first.result, next)
  BY <1>1, <1>2, <1>4 DEF Truthful, FW!NonNegative
<1>6. QED
  BY <1>5 DEF first, next

(* What has been moved to the window of now stays there.                   *)
LEMMA RotatesOnce ==
    ASSUME NEW now \in Nat, NEW state, Sound(state, now), NEW count
    PROVE  LET rotated == SC!Rotate(now, state, Window)
               counted == [rotated EXCEPT !.count = count]
           IN  /\ SC!Rotate(now, counted, Window) = counted
               /\ SC!Weighted(now, counted, Window) = SC!Weighted(now, rotated, Window)
               /\ counted.count = count
<1> DEFINE boundary == now - (now % Window)
           rotated == SC!Rotate(now, state, Window)
           counted == [rotated EXCEPT !.count = count]
<1>1. /\ Window \in Nat \ {0}
      /\ now % Window \in 0 .. Window - 1
      /\ boundary \in Nat
  <2>1. Window \in Nat \ {0}
    BY MemoryAssumption
  <2>2. now % Window \in 0 .. Window - 1
    BY <2>1
  <2>3. QED
    BY <2>1, <2>2, TruncateGoesBack
<1>2. /\ rotated.lastUpdate # NoTime
      /\ now - rotated.lastUpdate < Window
      /\ counted.lastUpdate = rotated.lastUpdate
      /\ counted.prevCount = rotated.prevCount
      /\ counted.count = count
  <2>1. CASE rotated = state
    <3>1. state.lastUpdate # NoTime /\ ~(now - state.lastUpdate >= Window)
      <4>1. state.lastUpdate = NoTime \/ now - state.lastUpdate >= Window
                => rotated.lastUpdate = boundary
        BY DEF SC!Rotate, SC!Truncate, SC!NoTime, NoTime, Sound, States
      <4>2. boundary # NoTime /\ ~(now - boundary >= Window)
        BY <1>1 DEF NoTime
      <4>3. QED
        BY <2>1, <4>1, <4>2
    <3>2. state.lastUpdate \in Int
      BY <3>1, StateFields DEF Sound, NoTime
    <3>3. QED
      BY <1>1, <2>1, <3>1, <3>2 DEF Sound, States
  <2>2. CASE \E prev : rotated = [state EXCEPT !.prevCount = prev, !.count = 0,
                                               !.lastUpdate = boundary]
    BY <1>1, <2>2 DEF Sound, States, NoTime
  <2>3. QED
    BY <2>1, <2>2 DEF SC!Rotate, SC!Truncate
<1> HIDE DEF rotated, counted
<1>3. SC!Weighted(now, counted, Window) = SC!Weighted(now, rotated, Window)
  BY <1>2 DEF SC!Weighted
<1>4. SC!Rotate(now, counted, Window) = counted
  <2>1. counted.lastUpdate # NoTime /\ ~(now - counted.lastUpdate >= Window)
    <3>1. rotated.lastUpdate \in Int
      BY SlidingCounterRotates, StateFields DEF Sound, NoTime, rotated
    <3>2. QED
      BY <1>1, <1>2, <3>1
  <2>2. ~(now - counted.lastUpdate >= 2 * Window)
    <3>1. rotated.lastUpdate \in Int
      BY SlidingCounterRotates, StateFields DEF Sound, NoTime, rotated
    <3>2. QED
      BY <1>1, <1>2, <3>1
  <2>3. QED
    BY <2>1, <2>2 DEF SC!Rotate, SC!NoTime, NoTime
<1>5. QED
  BY <1>2, <1>3, <1>4 DEF rotated, counted

LEMMA SlidingCounterTruthful ==
    ASSUME NEW now \in Nat, NEW state, Sound(state, now)
    PROVE  LET first == SC!EvaluateMemory(now, state, Limit, Window)
           IN  Truthful(first.result, SC!EvaluateMemory(now, first.state, Limit, Window).result)
<1> DEFINE rotated == SC!Rotate(now, state, Window)
           weight == SC!Weighted(now, rotated, Window)
           estimate == weight + rotated.count
           after == IF estimate + 1 <= Limit THEN rotated.count + 1 ELSE rotated.count
           used == IF estimate + 1 <= Limit THEN estimate + 1 ELSE estimate
           counted == [rotated EXCEPT !.count = after]
           first == SC!EvaluateMemory(now, state, Limit, Window)
           next == SC!EvaluateMemory(now, first.state, Limit, Window).result
<1>1. Sound(rotated, now) /\ Limit \in Nat /\ Window \in Nat \ {0}
  BY SlidingCounterRotates, MemoryAssumption
<1>2. weight \in Int /\ rotated.count \in Nat
  <2>1. rotated.prevCount \in Nat /\ rotated.count \in Nat /\ rotated.lastUpdate \in Int
    BY <1>1, StateFields DEF Sound, NoTime
  <2> DEFINE share == SC!NonNegative(Window - (now - rotated.lastUpdate))
  <2>2. share \in Nat
    BY <1>1, <2>1 DEF SC!NonNegative
  <2> HIDE DEF share
  <2>3. rotated.prevCount * share \in Nat
    BY <2>1, <2>2, ProductOfNats
  <2>4. (rotated.prevCount * share) \div Window \in Int
    BY <1>1, <2>3
  <2>5. weight = (rotated.prevCount * share) \div Window
    BY DEF SC!Weighted, share
  <2>6. QED
    BY <2>1, <2>4, <2>5
<1>3. first.state = counted /\ first.result.remaining = SC!NonNegative(Limit - used)
  BY DEF SC!EvaluateMemory, SC!Evaluation
<1>4. /\ SC!Rotate(now, counted, Window) = counted
      /\ SC!Weighted(now, counted, Window) = weight
      /\ counted.count = after
  BY RotatesOnce
<1> HIDE DEF rotated, weight, after, counted, first
<1>5. /\ next.allowed <=> weight + after + 1 <= Limit
      /\ next.allowed => next.remaining = SC!NonNegative(Limit - (weight + after + 1))
  BY <1>3, <1>4 DEF SC!EvaluateMemory, SC!Evaluation
<1> HIDE DEF next
<1>6. weight + after = used
  BY <1>2 DEF after
<1>7. used \in Int /\ (~(estimate + 1 <= Limit) => used + 1 > Limit)
  BY <1>1, <1>2
<1> HIDE DEF used
<1>8. Truthful(first.result, next)
  BY <1>1, <1>3, <1>5, <1>6, <1>7 DEF Truthful, SC!NonNegative
<1>9. QED
  BY <1>8 DEF first, next

(* A log that has been trimmed, and holds the present, is not trimmed more.*)
LEMMA TrimsOnce ==
    ASSUME NEW log \in Seq(Nat), NEW cutoff \in Int, NEW nowMs \in Nat, cutoff < nowMs,
           NEW next \in {SL!Trim(log, cutoff), Append(SL!Trim(log, cutoff), nowMs)}
    PROVE  SL!Trim(next, cutoff) = next
<1> DEFINE live == SL!Trim(log, cutoff)
           Fresh(l) == {i \in DOMAIN l : l[i] > cutoff}
           First(l) == IF Fresh(l) = {} THEN Len(l) + 1
                       ELSE CHOOSE i \in Fresh(l) : \A j \in Fresh(l) : i <= j
<1>1. \A l : SL!Trim(l, cutoff) = SubSeq(l, First(l), Len(l))
  BY DEF SL!Trim
<1>2. live \in Seq(Nat)
  BY TrimKeepsLogs
<1>3. live = <<>> \/ live[1] > cutoff
  <2>1. CASE Fresh(log) = {}
    <3>1. live = SubSeq(log, Len(log) + 1, Len(log))
      BY <1>1, <2>1
    <3>2. QED
      BY <3>1
  <2>2. CASE Fresh(log) # {}
    <3>1. Fresh(log) \subseteq Nat /\ Fresh(log) \subseteq 1 .. Len(log)
      OBVIOUS
    <3>2. \E i \in Fresh(log) : \A j \in Fresh(log) : i <= j
      BY <2>2, <3>1, LeastIndex
    <3>3. First(log) \in Fresh(log)
      BY <2>2, <3>2
    <3>4. log[First(log)] > cutoff
      BY <3>3
    <3>5. live = SubSeq(log, First(log), Len(log)) /\ First(log) \in 1 .. Len(log)
      BY <1>1, <3>1, <3>3
    <3> HIDE DEF First, Fresh, live
    <3>6. live[1] = log[First(log)]
      BY <3>5
    <3>7. QED
      BY <3>4, <3>6
  <2>3. QED
    BY <2>1, <2>2
<1> HIDE DEF live
<1>4. next \in Seq(Nat) /\ (next = <<>> \/ next[1] > cutoff)
  <2>1. next = live \/ next = Append(live, nowMs)
    BY DEF live
  <2>2. CASE next = live
    BY <1>2, <1>3, <2>2
  <2>3. CASE next = Append(live, nowMs) /\ live = <<>>
    BY <2>3
  <2>4. CASE next = Append(live, nowMs) /\ live # <<>>
    <3>1. next \in Seq(Nat) /\ next[1] = live[1]
      BY <1>2, <2>4
    <3>2. QED
      BY <1>3, <2>4, <3>1
  <2>5. QED
    BY <2>1, <2>2, <2>3, <2>4
<1>5. CASE next = <<>>
  <2>1. Fresh(next) = {}
    BY <1>5
  <2>2. SL!Trim(next, cutoff) = SubSeq(next, Len(next) + 1, Len(next))
    BY <1>1, <2>1
  <2>3. QED
    BY <1>5, <2>2
<1>6. CASE next # <<>>
  <2>1. 1 \in Fresh(next) /\ Fresh(next) \subseteq 1 .. Len(next)
    BY <1>4, <1>6
  <2> HIDE DEF Fresh
  <2>2. First(next) \in Fresh(next) /\ \A j \in Fresh(next) : First(next) <= j
    <3>1. \A j \in Fresh(next) : 1 <= j
      BY <2>1
    <3>2. QED
      BY <2>1, <3>1
  <2>3. First(next) = 1
    BY <2>1, <2>2
  <2> HIDE DEF First
  <2>4. SubSeq(next, 1, Len(next)) = next
    BY <1>4
  <2>5. QED
    BY <1>1, <2>3, <2>4
<1>7. QED
  BY <1>5, <1>6

(* A window of less than a millisecond would trim the present as well.     *)
LEMMA SlidingLogTruthful ==
    ASSUME NEW now \in Nat, NEW state, Sound(state, now), Window >= Milli
    PROVE  LET first == SL!EvaluateMemory(now, state, Limit, Window)
           IN  Truthful(first.result, SL!EvaluateMemory(now, first.state, Limit, Window).result)
<1> DEFINE nowMs == now \div Milli
           cutoff == nowMs - (Window \div Milli)
           live == SL!Trim(state.timestamps, cutoff)
           log == IF Len(live) < Limit THEN Append(live, nowMs) ELSE live
           first == SL!EvaluateMemory(now, state, Limit, Window)
           next == SL!EvaluateMemory(now, first.state, Limit, Window).result
<1>1. Window \div Milli \in Nat /\ Window \div Milli > 0 /\ nowMs \in Nat
  <2>1. Window \in Nat /\ Milli \in Nat \ {0}
    BY MemoryAssumption, AlgorithmAssumption
  <2>2. QED
    BY <2>1
<1>2. cutoff \in Int /\ cutoff < nowMs
  BY <1>1
<1>3. first.state = [state EXCEPT !.timestamps = log]
        /\ first.result.remaining = SL!NonNegative(Limit - Len(log))
  BY DEF SL!EvaluateMemory, SL!Evaluation
<1>4. first.state.timestamps = log
  BY <1>3 DEF Sound, States
<1> HIDE DEF nowMs, cutoff
<1>5. live \in Seq(Nat) /\ SL!Trim(log, cutoff) = log
  <2>1. state.timestamps \in Seq(Nat)
    BY StateFields DEF Sound
  <2>2. live \in Seq(Nat)
    BY <2>1, TrimKeepsLogs
  <2>3. log \in {live, Append(live, nowMs)}
    OBVIOUS
  <2>4. QED
    BY <1>1, <1>2, <2>1, <2>2, <2>3, TrimsOnce
<1> HIDE DEF first
<1>6. /\ next.allowed <=> Len(log) < Limit
      /\ next.allowed => next.remaining = SL!NonNegative(Limit - Len(Append(log, nowMs)))
  BY <1>4, <1>5 DEF SL!EvaluateMemory, SL!Evaluation, nowMs, cutoff
<1> HIDE DEF next, live
<1>7. /\ log \in Seq(Nat) /\ Limit \in Nat
      /\ Len(log) \in Nat /\ Len(Append(log, nowMs)) = Len(log) + 1
  BY <1>1, <1>5, MemoryAssumption
<1> HIDE DEF log
<1>8. Truthful(first.result, next)
  BY <1>3, <1>6, <1>7 DEF Truthful, SL!NonNegative
<1>9. QED
  BY <1>8 DEF first, next

(* A bucket that has been filled, or drained, is one of now.               *)
LEMMA RefillIsCurrent ==
    ASSUME NEW now \in Nat, NEW state, Sound(state, now)
    PROVE  LET filled == TB!Refill(now, state, Limit, Window)
           IN  filled \in States /\ filled.lastUpdate = now
<1> DEFINE filled == TB!Refill(now, state, Limit, Window)
<1>1. CASE ~(state.lastUpdate = NoTime) /\ ~(now - state.lastUpdate > 0)
  <2>1. filled = state
    BY <1>1 DEF TB!Refill, TB!NoTime, NoTime
  <2>2. state.lastUpdate \in Nat
    BY <1>1, StateFields DEF Sound
  <2>3. QED
    BY <1>1, <2>1, <2>2 DEF Sound
<1>2. CASE state.lastUpdate = NoTime \/ now - state.lastUpdate > 0
  <2>1. PICK level : filled = [state EXCEPT !.tokens = level, !.lastUpdate = now]
    BY <1>2 DEF TB!Refill, TB!NoTime, NoTime
  <2>2. filled.lastUpdate = now
    BY <2>1 DEF Sound, States
  <2>3. filled \in States
    BY RefillIsSound DEF Sound
  <2>4. QED
    BY <2>2, <2>3
<1>3. QED
  BY <1>1, <1>2

LEMMA LeakIsCurrent ==
    ASSUME NEW now \in Nat, NEW state, Sound(state, now)
    PROVE  LET drained == LB!Leak(now, state, Limit, Window)
           IN  drained \in States /\ drained.lastUpdate = now
<1> DEFINE drained == LB!Leak(now, state, Limit, Window)
<1>1. CASE ~(state.lastUpdate = NoTime) /\ ~(now - state.lastUpdate > 0)
  <2>1. drained = state
    BY <1>1 DEF LB!Leak, LB!NoTime, NoTime
  <2>2. state.lastUpdate \in Nat
    BY <1>1, StateFields DEF Sound
  <2>3. QED
    BY <1>1, <2>1, <2>2 DEF Sound
<1>2. CASE state.lastUpdate = NoTime \/ now - state.lastUpdate > 0
  <2>1. PICK water : drained = [state EXCEPT !.tokens = water, !.lastUpdate = now]
    BY <1>2 DEF LB!Leak, LB!NoTime, NoTime
  <2>2. drained.lastUpdate = now
    BY <2>1 DEF Sound, States
  <2>3. drained \in States
    BY LeakIsSound DEF Sound
  <2>4. QED
    BY <2>2, <2>3
<1>3. QED
  BY <1>1, <1>2

(* A bucket that has been filled up to now gets nothing more at now.       *)
LEMMA TokenBucketTruthful ==
    ASSUME NEW now \in Nat, NEW state, Sound(state, now)
    PROVE  LET first == TB!EvaluateMemory(now, state, Limit, Window)
           IN  Truthful(first.result, TB!EvaluateMemory(now, first.state, Limit, Window).result)
<1> DEFINE filled == TB!Refill(now, state, Limit, Window)
           left == IF filled.tokens >= TokenUnit THEN filled.tokens - TokenUnit
                   ELSE filled.tokens
           after == [filled EXCEPT !.tokens = left]
           first == TB!EvaluateMemory(now, state, Limit, Window)
           next == TB!EvaluateMemory(now, first.state, Limit, Window).result
<1>1. filled \in States /\ filled.lastUpdate = now
  BY RefillIsCurrent
<1>2. /\ first.state = after
      /\ first.result.remaining = TB!NonNegative(left \div TokenUnit)
  BY DEF TB!EvaluateMemory, TB!Evaluation
<1>3. filled.tokens \in Nat /\ left \in Nat
  BY <1>1, StateFields, Rates
<1> HIDE DEF filled, left
<1>4. after.lastUpdate = now /\ after.tokens = left
  BY <1>1 DEF States
<1> HIDE DEF after, first
<1>5. TB!Refill(now, after, Limit, Window) = after
  BY <1>4 DEF TB!Refill, TB!NoTime
<1>6. /\ next.allowed <=> left >= TokenUnit
      /\ next.allowed => next.remaining = TB!NonNegative((left - TokenUnit) \div TokenUnit)
  BY <1>2, <1>4, <1>5 DEF TB!EvaluateMemory, TB!Evaluation
<1> HIDE DEF next
<1>7. /\ left \div TokenUnit \in Nat
      /\ left >= TokenUnit <=> left \div TokenUnit > 0
      /\ left >= TokenUnit => (left - TokenUnit) \div TokenUnit = (left \div TokenUnit) - 1
  BY <1>3, WholeTokens, AlgorithmAssumption
<1>8. Truthful(first.result, next)
  BY <1>2, <1>6, <1>7 DEF Truthful, TB!NonNegative
<1>9. QED
  BY <1>8 DEF first, next

(* The room above the water is what a leaky bucket has left.               *)
LEMMA LeakyBucketTruthful ==
    ASSUME NEW now \in Nat, NEW state, Sound(state, now)
    PROVE  LET first == LB!EvaluateMemory(now, state, Limit, Window)
           IN  Truthful(first.result, LB!EvaluateMemory(now, first.state, Limit, Window).result)
<1> DEFINE full == Limit * TokenUnit
           drained == LB!Leak(now, state, Limit, Window)
           level == IF drained.tokens + TokenUnit <= full THEN drained.tokens + TokenUnit
                    ELSE drained.tokens
           after == [drained EXCEPT !.tokens = level]
           room == full - level
           first == LB!EvaluateMemory(now, state, Limit, Window)
           next == LB!EvaluateMemory(now, first.state, Limit, Window).result
<1>1. drained \in States /\ drained.lastUpdate = now
  BY LeakIsCurrent
<1>2. /\ first.state = after
      /\ first.result.remaining = LB!NonNegative(LB!NonNegative(room) \div TokenUnit)
  BY DEF LB!EvaluateMemory, LB!Evaluation, LB!Capacity
<1>3. drained.tokens \in 0 .. full /\ full \in Nat /\ TokenUnit \in Nat \ {0}
  BY <1>1, StateFields, Rates
<1> HIDE DEF drained, full
<1>4. level \in Nat /\ room \in Nat
  BY <1>3
<1>5. level + TokenUnit <= full <=> room >= TokenUnit
  BY <1>3, <1>4
<1>6. full - (level + TokenUnit) = room - TokenUnit
  BY <1>3, <1>4
<1> HIDE DEF level
<1>7. after.lastUpdate = now /\ after.tokens = level
  BY <1>1 DEF States
<1> HIDE DEF after, first
<1>8. LB!Leak(now, after, Limit, Window) = after
  BY <1>7 DEF LB!Leak, LB!NoTime
<1>9. /\ next.allowed <=> level + TokenUnit <= full
      /\ next.allowed => next.remaining
             = LB!NonNegative(LB!NonNegative(full - (level + TokenUnit)) \div TokenUnit)
  BY <1>2, <1>7, <1>8 DEF LB!EvaluateMemory, LB!Evaluation, LB!Capacity, full
<1> HIDE DEF next, room
<1>10. /\ room \div TokenUnit \in Nat
       /\ room >= TokenUnit <=> room \div TokenUnit > 0
       /\ room >= TokenUnit => (room - TokenUnit) \div TokenUnit = (room \div TokenUnit) - 1
  BY <1>4, WholeTokens, AlgorithmAssumption
<1>11. LB!NonNegative(room) = room
  BY <1>4 DEF LB!NonNegative
<1>12. ASSUME next.allowed
       PROVE  next.remaining = (room \div TokenUnit) - 1 /\ room \div TokenUnit > 0
  <2>1. room >= TokenUnit
    BY <1>5, <1>9, <1>12
  <2>2. LB!NonNegative(room - TokenUnit) = room - TokenUnit
    BY <1>3, <1>4, <2>1 DEF LB!NonNegative
  <2>3. next.remaining = LB!NonNegative((room \div TokenUnit) - 1)
    BY <1>6, <1>9, <1>10, <1>12, <2>1, <2>2
  <2>4. QED
    BY <1>10, <2>1, <2>3 DEF LB!NonNegative
<1>13. first.result.remaining = room \div TokenUnit
  BY <1>2, <1>10, <1>11 DEF LB!NonNegative
<1>14. Truthful(first.result, next)
  BY <1>5, <1>9, <1>10, <1>12, <1>13 DEF Truthful
<1>15. QED
  BY <1>14 DEF first, next

LEMMA EvaluateIsTruthful ==
    ASSUME NEW now \in Nat, NEW state, Sound(state, now), strategy \in Strategies,
           Window >= Milli
    PROVE  LET first == Evaluate(now, state)
           IN  Truthful(first.result, Evaluate(now, first.state).result)
<1>1. strategy \in AllStrategies
  BY MemoryAssumption
<1>2. CASE strategy = "fixed_window"
  BY <1>2, FixedWindowTruthful DEF Evaluate
<1>3. CASE strategy = "sliding_counter"
  BY <1>3, SlidingCounterTruthful DEF Evaluate
<1>4. CASE strategy = "sliding_log"
  BY <1>4, SlidingLogTruthful DEF Evaluate
<1>5. CASE strategy = "token_bucket"
  BY <1>5, TokenBucketTruthful DEF Evaluate
<1>6. CASE strategy = "leaky_bucket"
  BY <1>6, LeakyBucketTruthful DEF Evaluate
<1>7. QED
  BY <1>1, <1>2, <1>3, <1>4, <1>5, <1>6 DEF AllStrategies

(* Under every strategy, and whatever late calls, resets and evictions have*)
(* left of a key's state: the next request at the same instant is admitted *)
(* exactly when the last Result left some (interface.go:12-13), provided   *)
(* that the window has a millisecond, the unit of the log's timestamps.    *)
THEOREM RemainingIsAlwaysTrue ==
    ASSUME Window >= Milli
    PROVE  Spec => []RemainingIsTrue
<1>1. ASSUME MemoryInv PROVE RemainingIsTrue
  <2>1. SUFFICES ASSUME NEW key \in Keys
                 PROVE  Truthful(Verdict(key).result, FollowUp(key, clock))
    BY DEF RemainingIsTrue, Truthful
  <2>2. clock \in Nat /\ strategy \in Strategies
    BY <1>1 DEF MemoryInv, TypeOK
  <2>3. Sound(StateOf(key), clock)
    BY <1>1, StateOfIsSound
  <2>4. QED
    BY <2>2, <2>3, EvaluateIsTruthful DEF Verdict, FollowUp
<1>2. ASSUME MemoryInv, [Next]_vars
      PROVE  MemoryInv'
  BY <1>2, EvaluateLockedKeeps, OtherActionsKeep
<1>3. QED
  BY MemoryInit, <1>1, <1>2, PTL DEF Spec

-------------------------------------------------------------------------------
(* What the strategies keep to besides: a counter within the limit that    *)
(* starts with a window, and a log within the limit.                       *)
Regular(state) ==
    /\ strategy = "sliding_counter" =>
          /\ state.count <= Limit
          /\ state.lastUpdate = NoTime \/ state.lastUpdate % Window = 0
    /\ strategy = "sliding_log" => Len(state.timestamps) <= Limit

LEMMA BoundaryIsAligned ==
    ASSUME NEW now \in Nat
    PROVE  (now - (now % Window)) % Window = 0
<1> DEFINE boundary == now - (now % Window)
<1>1. Window \in Nat \ {0}
  BY MemoryAssumption
<1>2. now = Window * (now \div Window) + (now % Window) /\ now \div Window \in Int
        /\ now % Window \in 0 .. Window - 1
  BY <1>1, DivMod
<1>3. boundary = Window * (now \div Window) + 0
  BY <1>1, <1>2
<1>4. (Window * (now \div Window) + 0) % Window = 0
  <2>1. 0 \in 0 .. Window - 1
    BY <1>1
  <2>2. QED
    BY <1>1, <1>2, <2>1, Recompose
<1> HIDE DEF boundary
<1>5. boundary % Window = 0
  BY <1>3, <1>4
<1>6. QED
  BY <1>5 DEF boundary

LEMMA RotationIsRegular ==
    ASSUME NEW instant \in Nat, NEW now \in 0 .. instant, NEW state, Sound(state, instant),
           strategy = "sliding_counter", Regular(state)
    PROVE  LET rotated == SC!Rotate(now, state, Window)
           IN  /\ Sound(rotated, instant)
               /\ Regular(rotated)
               /\ rotated.lastUpdate # NoTime
               /\ SC!Weighted(now, rotated, Window) \in Nat
<1> DEFINE boundary == now - (now % Window)
           rotated == SC!Rotate(now, state, Window)
           share == SC!NonNegative(Window - (now - rotated.lastUpdate))
<1>1. Sound(rotated, instant) /\ Window \in Nat \ {0} /\ Limit \in Nat
  BY SlidingCounterRotates, MemoryAssumption
<1>2. boundary \in Nat /\ boundary % Window = 0
  BY TruncateGoesBack, BoundaryIsAligned
<1>3. /\ rotated.count <= Limit
      /\ rotated.lastUpdate # NoTime
      /\ rotated.lastUpdate % Window = 0
  <2>1. CASE rotated = state
    <3>1. state.lastUpdate = NoTime => rotated.lastUpdate = boundary
      BY DEF SC!Rotate, SC!Truncate, SC!NoTime, NoTime, Sound, States
    <3>2. QED
      BY <1>2, <2>1, <3>1 DEF Regular, NoTime
  <2>2. CASE \E prev : rotated = [state EXCEPT !.prevCount = prev, !.count = 0,
                                               !.lastUpdate = boundary]
    <3>1. rotated.count = 0 /\ rotated.lastUpdate = boundary
      BY <2>2 DEF Sound, States
    <3>2. QED
      BY <1>1, <1>2, <3>1 DEF NoTime
  <2>3. QED
    BY <2>1, <2>2 DEF SC!Rotate, SC!Truncate
<1>4. rotated.prevCount \in Nat /\ rotated.lastUpdate \in Nat
  BY <1>1, <1>3, StateFields DEF Sound
<1> HIDE DEF rotated
<1>5. share \in Nat
  BY <1>1, <1>4 DEF SC!NonNegative
<1>6. SC!Weighted(now, rotated, Window) = (rotated.prevCount * share) \div Window
  BY DEF SC!Weighted
<1> HIDE DEF share
<1>7. rotated.prevCount * share \in Nat
  BY <1>4, <1>5, ProductOfNats
<1>8. (rotated.prevCount * share) \div Window \in Nat
  BY <1>1, <1>7
<1>9. QED
  BY <1>1, <1>3, <1>6, <1>8 DEF Regular, rotated

LEMMA SlidingCounterRegular ==
    ASSUME NEW instant \in Nat, NEW now \in 0 .. instant, NEW state, Sound(state, instant),
           strategy = "sliding_counter", Regular(state)
    PROVE  Regular(SC!EvaluateMemory(now, state, Limit, Window).state)
<1> DEFINE rotated == SC!Rotate(now, state, Window)
           weight == SC!Weighted(now, rotated, Window)
           after == IF weight + rotated.count + 1 <= Limit THEN rotated.count + 1
                    ELSE rotated.count
<1>1. Sound(rotated, instant) /\ Regular(rotated) /\ weight \in Nat /\ Limit \in Nat
  BY RotationIsRegular, MemoryAssumption
<1>2. SC!EvaluateMemory(now, state, Limit, Window).state = [rotated EXCEPT !.count = after]
  BY DEF SC!EvaluateMemory, SC!Evaluation
<1>3. rotated.count \in Nat
  BY <1>1, StateFields DEF Sound
<1> HIDE DEF rotated, weight
<1>4. after <= Limit
  BY <1>1, <1>3 DEF Regular
<1> HIDE DEF after
<1>5. QED
  BY <1>1, <1>2, <1>4 DEF Regular, Sound, States

(* A log is not longer after a trim.                                       *)
LEMMA TrimShortens ==
    ASSUME NEW log \in Seq(Nat), NEW cutoff
    PROVE  /\ Len(SL!Trim(log, cutoff)) \in Nat
           /\ Len(SL!Trim(log, cutoff)) <= Len(log)
           /\ log # <<>> /\ ~(log[1] > cutoff) => Len(SL!Trim(log, cutoff)) < Len(log)
<1> DEFINE fresh == {i \in DOMAIN log : log[i] > cutoff}
           first == IF fresh = {} THEN Len(log) + 1
                    ELSE CHOOSE i \in fresh : \A j \in fresh : i <= j
<1> Len(log) \in Nat
  OBVIOUS
<1>1. SL!Trim(log, cutoff) = SubSeq(log, first, Len(log))
  BY DEF SL!Trim
<1>2. first \in 1 .. Len(log) + 1 /\ (log # <<>> /\ ~(log[1] > cutoff) => first # 1)
  <2>1. CASE fresh = {}
    <3>1. first = Len(log) + 1
      BY <2>1
    <3>2. log # <<>> => Len(log) # 0
      OBVIOUS
    <3> HIDE DEF first
    <3>3. QED
      BY <3>1, <3>2
  <2>2. CASE fresh # {}
    <3>1. fresh \subseteq Nat /\ fresh \subseteq 1 .. Len(log)
      OBVIOUS
    <3>2. \E i \in fresh : \A j \in fresh : i <= j
      BY <2>2, <3>1, LeastIndex
    <3>3. first \in fresh
      BY <2>2, <3>2
    <3>4. ~(log[1] > cutoff) => 1 \notin fresh
      OBVIOUS
    <3> HIDE DEF first, fresh
    <3>5. QED
      BY <3>1, <3>3, <3>4
  <2>3. QED
    BY <2>1, <2>2
<1> HIDE DEF first
<1>3. Len(SubSeq(log, first, Len(log))) = Len(log) + 1 - first
  BY <1>2
<1>4. QED
  BY <1>1, <1>2, <1>3

LEMMA SlidingLogRegular ==
    ASSUME NEW instant \in Nat, NEW now \in 0 .. instant, NEW state, Sound(state, instant),
           strategy = "sliding_log", Regular(state)
    PROVE  Regular(SL!EvaluateMemory(now, state, Limit, Window).state)
<1> DEFINE nowMs == now \div Milli
           live == SL!Trim(state.timestamps, nowMs - (Window \div Milli))
           log == IF Len(live) < Limit THEN Append(live, nowMs) ELSE live
<1>1. nowMs \in Nat /\ Limit \in Nat /\ state.timestamps \in Seq(Nat)
  <2>1. nowMs \in Nat
    BY AlgorithmAssumption
  <2>2. QED
    BY <2>1, MemoryAssumption, StateFields DEF Sound
<1>2. /\ live \in Seq(Nat) /\ Len(live) \in Nat /\ Len(live) <= Limit
  BY <1>1, TrimKeepsLogs, TrimShortens DEF Regular
<1>3. SL!EvaluateMemory(now, state, Limit, Window).state = [state EXCEPT !.timestamps = log]
  BY DEF SL!EvaluateMemory, SL!Evaluation
<1> HIDE DEF nowMs, live
<1>4. Len(log) <= Limit
  BY <1>1, <1>2
<1> HIDE DEF log
<1>5. QED
  BY <1>3, <1>4 DEF Regular, Sound, States

LEMMA EvaluateIsRegular ==
    ASSUME NEW instant \in Nat, NEW now \in 0 .. instant, NEW state, Sound(state, instant),
           Regular(state)
    PROVE  Regular(Evaluate(now, state).state)
<1>1. CASE strategy = "sliding_counter"
  BY <1>1, SlidingCounterRegular DEF Evaluate
<1>2. CASE strategy = "sliding_log"
  BY <1>2, SlidingLogRegular DEF Evaluate
<1>3. QED
  BY <1>1, <1>2 DEF Regular

LEMMA FixedWindowRetries ==
    ASSUME NEW now \in Nat, NEW state, Sound(state, now)
    PROVE  LET first == FW!EvaluateMemory(now, state, Limit, Window)
               later == now + first.result.resetIn + 1
           IN  FW!EvaluateMemory(later, first.state, Limit, Window).result.allowed
<1> DEFINE boundary == now - (now % Window)
           first == FW!EvaluateMemory(now, state, Limit, Window)
           later == now + first.result.resetIn + 1
           next == FW!EvaluateMemory(later, first.state, Limit, Window)
<1>1. /\ Window \in Nat \ {0} /\ Limit \in Nat \ {0}
      /\ now % Window \in 0 .. Window - 1 /\ boundary \in Nat
  <2>1. Window \in Nat \ {0} /\ Limit \in Nat \ {0}
    BY MemoryAssumption
  <2>2. QED
    BY <2>1, TruncateGoesBack
<1>2. first.result.resetIn = FW!NonNegative(boundary + Window - now)
  BY DEF FW!EvaluateMemory, FW!Evaluation, FW!Truncate
<1>3. first.state.lastUpdate = boundary
  BY DEF FW!EvaluateMemory, FW!Evaluation, FW!Truncate, Sound, States
<1>4. later = boundary + Window + 1
  BY <1>1, <1>2 DEF FW!NonNegative
<1> HIDE DEF boundary, first, later
<1>5. later - (later % Window) # boundary
  <2>1. later % Window \in 0 .. Window - 1
    BY <1>1, <1>4
  <2>2. QED
    BY <1>1, <1>4, <2>1
<1> DEFINE counted == IF first.state.lastUpdate = later - (later % Window)
                      THEN first.state.count + 1 ELSE 1
<1>6. next.result.allowed <=> counted <= Limit
  BY DEF FW!EvaluateMemory, FW!Evaluation, FW!Truncate
<1>7. counted = 1
  BY <1>3, <1>5
<1> HIDE DEF counted, next
<1>8. next.result.allowed
  BY <1>1, <1>6, <1>7
<1>9. QED
  BY <1>8 DEF first, later, next

(* The counted window is the previous one by then, and weighs less than it *)
(* counts.                                                                 *)
LEMMA SlidingCounterRetries ==
    ASSUME NEW now \in Nat, NEW state, Sound(state, now),
           strategy = "sliding_counter", Regular(state)
    PROVE  LET first == SC!EvaluateMemory(now, state, Limit, Window)
               later == now + first.result.resetIn + 1
           IN  ~first.result.allowed
                 => SC!EvaluateMemory(later, first.state, Limit, Window).result.allowed
<1> DEFINE boundary == now - (now % Window)
           rotated == SC!Rotate(now, state, Window)
           first == SC!EvaluateMemory(now, state, Limit, Window)
           later == now + first.result.resetIn + 1
           next == SC!EvaluateMemory(later, first.state, Limit, Window)
<1>1. /\ Window \in Nat \ {0} /\ Limit \in Nat \ {0}
      /\ now % Window \in 0 .. Window - 1 /\ boundary \in Nat
  <2>1. Window \in Nat \ {0} /\ Limit \in Nat \ {0}
    BY MemoryAssumption
  <2>2. QED
    BY <2>1, TruncateGoesBack
<1>2. /\ Sound(rotated, now) /\ Regular(rotated) /\ rotated.lastUpdate # NoTime
  BY RotationIsRegular
<1>3. rotated.lastUpdate \in Nat /\ rotated.count \in Nat /\ rotated.count <= Limit
  BY <1>2, StateFields DEF Sound, Regular
<1>4. SUFFICES ASSUME ~first.result.allowed PROVE next.result.allowed
  OBVIOUS
<1>5. first.state = rotated
  <2>1. first.state = [rotated EXCEPT !.count = rotated.count]
    BY <1>4 DEF SC!EvaluateMemory, SC!Evaluation
  <2> HIDE DEF first, rotated
  <2>2. QED
    BY <1>2, <2>1 DEF Sound, States
<1>6. later = boundary + Window + 1
  <2>1. first.result.resetIn = SC!NonNegative(boundary + Window - now)
    BY DEF SC!EvaluateMemory, SC!Evaluation, SC!Truncate
  <2>2. QED
    BY <1>1, <2>1 DEF SC!NonNegative
<1>7. rotated.lastUpdate <= boundary
  <2> DEFINE u == rotated.lastUpdate
  <2>1. u % Window = 0 /\ u <= now
    BY <1>2 DEF Regular, Sound
  <2> DEFINE a == u \div Window
             b == now \div Window
  <2>2. u = Window * a /\ a \in Int
    <3>1. \A x \in Int : x = Window * (x \div Window) + (x % Window) /\ x \div Window \in Int
      BY <1>1, DivMod
    <3>2. u = Window * a + 0 /\ a \in Int
      BY <1>3, <2>1, <3>1
    <3>3. Window * a \in Int
      BY <1>1, <3>2
    <3> HIDE DEF a, u
    <3>4. QED
      BY <3>2, <3>3
  <2>3. now = Window * b + (now % Window) /\ b \in Int
    BY <1>1, DivMod
  <2>4. boundary = Window * b
    BY <1>1, <2>3
  <2>5. a <= b
    <3>1. SUFFICES ASSUME a >= b + 1 PROVE FALSE
      BY <2>2, <2>3
    <3>2. Window * a >= Window * (b + 1)
      BY <1>1, <2>2, <2>3, <3>1, MultiplyLess
    <3>3. Window * (b + 1) = Window * b + Window
      BY <1>1, <2>3
    <3>4. QED
      BY <1>1, <1>3, <2>1, <2>2, <2>4, <3>2, <3>3
  <2>6. Window * a <= Window * b
    BY <1>1, <2>2, <2>3, <2>5, MultiplyLess
  <2> HIDE DEF u, a, b, boundary
  <2>7. u <= boundary
    BY <2>2, <2>4, <2>6
  <2>8. QED
    BY <2>7 DEF u
<1> HIDE DEF boundary, rotated, first, later
<1> DEFINE moved == SC!Rotate(later, rotated, Window)
           weight == SC!Weighted(later, moved, Window)
           start == later - (later % Window)
<1>8. /\ moved.count = 0 /\ moved.prevCount \in 0 .. Limit
      /\ moved.lastUpdate = start
  <2>1. later - rotated.lastUpdate >= Window
    BY <1>1, <1>3, <1>6, <1>7
  <2>2. PICK prev \in {0, rotated.count} :
            moved = [rotated EXCEPT !.prevCount = prev, !.count = 0, !.lastUpdate = start]
    BY <2>1 DEF SC!Rotate, SC!Truncate
  <2> HIDE DEF moved, start
  <2>3. moved.count = 0 /\ moved.prevCount = prev /\ moved.lastUpdate = start
    BY <1>2, <2>2 DEF Sound, States
  <2>4. QED
    BY <1>1, <1>3, <2>3
<1>9. weight \in Int /\ weight < Limit
  <2> DEFINE passed == later % Window
             prev == moved.prevCount
  <2>1. passed \in 0 .. Window - 1 /\ later \in Nat
    BY <1>1, <1>6
  <2>2. weight = (prev * SC!NonNegative(Window - passed)) \div Window
    <3>1. later - start = passed
      BY <2>1
    <3>2. QED
      BY <1>8, <3>1 DEF SC!Weighted
  <2>3. SC!NonNegative(Window - passed) = Window - passed
    BY <1>1, <2>1 DEF SC!NonNegative
  <2>4. passed > 0 \/ moved.prevCount = 0
    <3>1. CASE Window = 1
      <4>1. later - rotated.lastUpdate >= 2 * Window
        BY <1>1, <1>3, <1>6, <1>7, <3>1
      <4>2. moved = [rotated EXCEPT !.prevCount = 0, !.count = 0, !.lastUpdate = start]
        BY <4>1 DEF SC!Rotate, SC!Truncate
      <4>3. QED
        BY <1>2, <4>2 DEF Sound, States
    <3>2. CASE Window > 1
      <4>1. boundary % Window = 0
        BY BoundaryIsAligned DEF boundary
      <4>2. boundary = Window * (boundary \div Window) + 0 /\ boundary \div Window \in Int
        <5>1. \A x \in Int : x = Window * (x \div Window) + (x % Window) /\ x \div Window \in Int
          BY <1>1, DivMod
        <5>2. QED
          BY <1>1, <4>1, <5>1
      <4>3. later = Window * ((boundary \div Window) + 1) + 1
        BY <1>1, <1>6, <4>2
      <4>4. (Window * ((boundary \div Window) + 1) + 1) % Window = 1
        <5>1. (boundary \div Window) + 1 \in Int /\ 1 \in 0 .. Window - 1
          BY <1>1, <3>2, <4>2
        <5>2. QED
          BY <1>1, <5>1, Recompose
      <4>5. passed = 1
        BY <4>3, <4>4
      <4>6. QED
        BY <4>5
    <3>3. QED
      BY <1>1, <3>1, <3>2
  <2> HIDE DEF passed, weight, moved
  <2>5. prev * (Window - passed) < Limit * Window /\ prev * (Window - passed) \in Nat
    <3>1. prev \in Nat /\ prev <= Limit /\ Window - passed \in Nat
      BY <1>1, <1>8, <2>1
    <3>2. prev * (Window - passed) \in Nat
      BY <3>1, ProductOfNats
    <3>3. CASE prev = 0
      <4>1. prev * (Window - passed) = 0
        BY <3>1, <3>3
      <4>2. Limit * Window > 0
        BY <1>1, MultiplyPositive
      <4>3. QED
        BY <3>2, <4>1, <4>2
    <3>4. CASE passed > 0
      <4>1. prev * (Window - passed) <= Limit * (Window - passed)
        BY <1>1, <3>1, MultiplyLess
      <4>2. Limit * (Window - passed) = Limit * Window - Limit * passed
        BY <1>1, <2>1
      <4>3. Limit * passed > 0
        BY <1>1, <2>1, <3>4, MultiplyPositive
      <4>4. QED
        BY <1>1, <2>1, <3>2, <4>1, <4>2, <4>3
    <3>5. QED
      BY <2>4, <3>3, <3>4
  <2>6. weight = (prev * (Window - passed)) \div Window
    BY <2>2, <2>3
  <2>7. QED
    BY <1>1, <2>5, <2>6, QuotientBelow
<1> HIDE DEF moved, weight
<1>10. weight + moved.count + 1 <= Limit
  BY <1>1, <1>8, <1>9
<1>11. next.result.allowed
  BY <1>5, <1>10 DEF SC!EvaluateMemory, SC!Evaluation, moved, weight
<1>12. QED
  BY <1>11

(* The oldest timestamp is what a refusal waits for.                       *)
LEMMA SlidingLogRetries ==
    ASSUME NEW now \in Nat, NEW state, Sound(state, now),
           strategy = "sliding_log", Regular(state)
    PROVE  LET first == SL!EvaluateMemory(now, state, Limit, Window)
               later == now + first.result.resetIn + 1
           IN  ~first.result.allowed
                 => SL!EvaluateMemory(later, first.state, Limit, Window).result.allowed
<1> DEFINE nowMs == now \div Milli
           windowMs == Window \div Milli
           live == SL!Trim(state.timestamps, nowMs - windowMs)
           left == SL!NonNegative(live[1] + windowMs - nowMs)
           first == SL!EvaluateMemory(now, state, Limit, Window)
           later == now + first.result.resetIn + 1
           laterMs == later \div Milli
           next == SL!EvaluateMemory(later, first.state, Limit, Window)
<1>1. SUFFICES ASSUME ~first.result.allowed PROVE next.result.allowed
  OBVIOUS
<1>2. /\ Milli \in Nat \ {0} /\ Window \in Nat /\ Limit \in Nat \ {0}
      /\ state.timestamps \in Seq(Nat)
  BY AlgorithmAssumption, MemoryAssumption, StateFields DEF Sound
<1>3. nowMs \in Nat /\ windowMs \in Nat /\ now = Milli * nowMs + (now % Milli)
        /\ now % Milli \in Nat
  BY <1>2
<1>4. live \in Seq(Nat) /\ Len(live) = Limit /\ live # <<>>
  <2>1. first.result.allowed <=> Len(live) < Limit
    BY DEF SL!EvaluateMemory, SL!Evaluation
  <2> HIDE DEF nowMs, windowMs, first
  <2>2. live \in Seq(Nat) /\ Len(live) \in Nat /\ Len(live) <= Len(state.timestamps)
    BY <1>2, TrimKeepsLogs, TrimShortens
  <2>3. Len(state.timestamps) <= Limit /\ Len(state.timestamps) \in Nat
    BY <1>2 DEF Regular
  <2> HIDE DEF live
  <2>4. Len(live) = Limit
    BY <1>1, <1>2, <2>1, <2>2, <2>3
  <2>5. QED
    BY <1>2, <2>2, <2>4
<1>5. first.state.timestamps = live /\ first.result.resetIn = SL!NonNegative(left * Milli)
  <2>1. ~(Len(live) < Limit)
    BY <1>2, <1>4
  <2>2. /\ first.state = [state EXCEPT !.timestamps = live]
        /\ first.result.resetIn = SL!NonNegative(left * Milli)
    BY <1>4, <2>1 DEF SL!EvaluateMemory, SL!Evaluation
  <2> HIDE DEF first, live
  <2>3. QED
    BY <2>2 DEF Sound, States
<1> HIDE DEF nowMs, windowMs, live, first
<1>6. live[1] \in Nat /\ left \in Nat /\ live[1] + windowMs <= nowMs + left
  <2>1. live[1] \in Nat
    BY <1>4
  <2>2. QED
    BY <1>3, <2>1 DEF SL!NonNegative
<1> HIDE DEF left
<1>7. later = now + left * Milli + 1 /\ left * Milli \in Nat
  <2>1. left * Milli \in Nat
    BY <1>2, <1>6, ProductOfNats
  <2>2. SL!NonNegative(left * Milli) = left * Milli
    BY <2>1 DEF SL!NonNegative
  <2>3. QED
    BY <1>5, <2>1, <2>2
<1> HIDE DEF later
<1>8. laterMs \in Int /\ nowMs + left <= laterMs
  <2>1. (nowMs + left) * Milli = Milli * nowMs + left * Milli
    BY <1>2, <1>3, <1>6
  <2> DEFINE passed == Milli * nowMs
             waited == left * Milli
             reached == (nowMs + left) * Milli
  <2>2. passed \in Nat /\ waited \in Nat
    BY <1>2, <1>3, <1>7, ProductOfNats
  <2>3. reached = passed + waited /\ now = passed + (now % Milli)
          /\ later = now + waited + 1
    BY <1>3, <1>7, <2>1
  <2> HIDE DEF passed, waited, reached
  <2>4. reached <= later /\ later \in Int
    BY <1>3, <2>2, <2>3
  <2>5. (nowMs + left) * Milli <= later /\ nowMs + left \in Int
    BY <1>3, <1>6, <2>4 DEF reached
  <2>6. QED
    BY <1>2, <2>4, <2>5, QuotientAtLeast
<1> HIDE DEF laterMs
<1>9. ~(live[1] > laterMs - windowMs)
  BY <1>3, <1>6, <1>8
<1>10. /\ Len(SL!Trim(live, laterMs - windowMs)) \in Nat
       /\ Len(SL!Trim(live, laterMs - windowMs)) < Limit
  BY <1>4, <1>9, TrimShortens
<1>11. next.result.allowed <=> Len(SL!Trim(live, laterMs - windowMs)) < Limit
  BY <1>5 DEF SL!EvaluateMemory, SL!Evaluation, laterMs, windowMs
<1>12. QED
  BY <1>10, <1>11 DEF first, later

LEMMA PositiveRate == Limit * (TokenUnit \div Window) \in Nat \ {0}
<1>1. /\ Limit \in Nat \ {0} /\ Window \in Nat \ {0} /\ TokenUnit \in Nat \ {0}
      /\ TokenUnit % Window = 0
  BY MemoryAssumption, AlgorithmAssumption
<1>2. QED
  BY <1>1, WholeRate, Zenon

(* The missing part of a token is there after the time that it takes.      *)
LEMMA TokenBucketRetries ==
    ASSUME NEW now \in Nat, NEW state, Sound(state, now)
    PROVE  LET first == TB!EvaluateMemory(now, state, Limit, Window)
               later == now + first.result.resetIn + 1
           IN  ~first.result.allowed
                 => TB!EvaluateMemory(later, first.state, Limit, Window).result.allowed
<1> DEFINE full == Limit * TokenUnit
           rate == Limit * (TokenUnit \div Window)
           filled == TB!Refill(now, state, Limit, Window)
           level == filled.tokens
           missing == TokenUnit - level
           first == TB!EvaluateMemory(now, state, Limit, Window)
           later == now + first.result.resetIn + 1
           refilled == TB!Refill(later, filled, Limit, Window)
           next == TB!EvaluateMemory(later, first.state, Limit, Window)
<1>1. SUFFICES ASSUME ~first.result.allowed PROVE next.result.allowed
  OBVIOUS
<1>2. /\ TokenUnit \in Nat \ {0} /\ full \in Nat /\ TokenUnit <= full /\ rate \in Nat \ {0}
  BY Rates, PositiveRate
<1>3. filled \in States /\ filled.lastUpdate = now /\ level \in 0 .. full
  BY RefillIsCurrent, StateFields
<1>4. ~(level >= TokenUnit)
  <2>1. first.result.allowed <=> level >= TokenUnit
    BY DEF TB!EvaluateMemory, TB!Evaluation
  <2>2. QED
    BY <1>1, <2>1
<1>5. first.state = filled /\ first.result.resetIn = TB!NonNegative(missing \div rate)
  <2>1. /\ first.state = [filled EXCEPT !.tokens = level]
        /\ first.result.resetIn = TB!NonNegative(missing \div rate)
    BY <1>4 DEF TB!EvaluateMemory, TB!Evaluation, TB!FillRate
  <2> HIDE DEF first, filled
  <2>2. QED
    BY <1>3, <2>1 DEF States
<1> HIDE DEF full, rate, filled, level, first
<1>6. missing \in Nat /\ missing > 0
  BY <1>2, <1>3, <1>4
<1> HIDE DEF missing
<1> DEFINE wait == missing \div rate
<1>7. wait \in Nat /\ (wait + 1) * rate > missing
  <2>1. wait \in Int /\ (wait + 1) * rate > missing
    BY <1>2, <1>6, QuotientAbove
  <2>2. 0 * rate <= missing
    BY <1>2, <1>6
  <2>3. wait >= 0
    BY <1>2, <1>6, <2>2, QuotientAtLeast
  <2>4. QED
    BY <2>1, <2>3
<1> HIDE DEF wait
<1>8. later = now + (wait + 1)
  BY <1>5, <1>7 DEF TB!NonNegative, wait
<1> HIDE DEF later
<1>9. refilled.tokens = TB!Least(full, level + (wait + 1) * rate)
  <2>1. ~(filled.lastUpdate = NoTime) /\ later - filled.lastUpdate = wait + 1
    BY <1>3, <1>7, <1>8 DEF NoTime
  <2>2. wait + 1 > 0
    BY <1>7
  <2>3. refilled = [filled EXCEPT !.tokens = TB!Least(full, level + (wait + 1) * rate),
                                  !.lastUpdate = later]
    BY <2>1, <2>2 DEF TB!Refill, TB!Capacity, TB!FillRate, TB!NoTime, NoTime, full, rate,
                      level
  <2> HIDE DEF refilled
  <2>4. QED
    BY <1>3, <2>3 DEF States
<1>10. refilled.tokens >= TokenUnit
  <2> DEFINE added == (wait + 1) * rate
  <2>1. added \in Int /\ added > missing
    BY <1>2, <1>7
  <2> HIDE DEF added
  <2>2. refilled.tokens = TB!Least(full, level + added)
    BY <1>9 DEF added
  <2>3. level + added >= TokenUnit /\ level + added \in Int
    BY <1>2, <1>3, <2>1 DEF missing
  <2>4. QED
    BY <1>2, <2>2, <2>3 DEF TB!Least
<1>11. next.result.allowed <=> refilled.tokens >= TokenUnit
  BY <1>5 DEF TB!EvaluateMemory, TB!Evaluation
<1>12. QED
  BY <1>10, <1>11 DEF first, later

(* So is the room for one more.                                            *)
LEMMA LeakyBucketRetries ==
    ASSUME NEW now \in Nat, NEW state, Sound(state, now)
    PROVE  LET first == LB!EvaluateMemory(now, state, Limit, Window)
               later == now + first.result.resetIn + 1
           IN  ~first.result.allowed
                 => LB!EvaluateMemory(later, first.state, Limit, Window).result.allowed
<1> DEFINE full == Limit * TokenUnit
           rate == Limit * (TokenUnit \div Window)
           drained == LB!Leak(now, state, Limit, Window)
           level == drained.tokens
           excess == level + TokenUnit - full
           first == LB!EvaluateMemory(now, state, Limit, Window)
           later == now + first.result.resetIn + 1
           emptied == LB!Leak(later, drained, Limit, Window)
           next == LB!EvaluateMemory(later, first.state, Limit, Window)
<1>1. SUFFICES ASSUME ~first.result.allowed PROVE next.result.allowed
  OBVIOUS
<1>2. /\ TokenUnit \in Nat \ {0} /\ full \in Nat /\ TokenUnit <= full /\ rate \in Nat \ {0}
  BY Rates, PositiveRate
<1>3. drained \in States /\ drained.lastUpdate = now /\ level \in 0 .. full
  BY LeakIsCurrent, StateFields
<1>4. ~(level + TokenUnit <= full)
  <2>1. first.result.allowed <=> level + TokenUnit <= full
    BY DEF LB!EvaluateMemory, LB!Evaluation, LB!Capacity
  <2>2. QED
    BY <1>1, <2>1
<1>5. first.state = drained /\ first.result.resetIn = LB!NonNegative(excess \div rate)
  <2>1. /\ first.state = [drained EXCEPT !.tokens = level]
        /\ first.result.resetIn = LB!NonNegative(excess \div rate)
    BY <1>4 DEF LB!EvaluateMemory, LB!Evaluation, LB!Capacity, LB!LeakRate
  <2> HIDE DEF first, drained
  <2>2. QED
    BY <1>3, <2>1 DEF States
<1> HIDE DEF full, rate, drained, level, first
<1>6. excess \in Nat /\ excess > 0
  BY <1>2, <1>3, <1>4
<1> HIDE DEF excess
<1> DEFINE wait == excess \div rate
<1>7. wait \in Nat /\ (wait + 1) * rate > excess
  <2>1. wait \in Int /\ (wait + 1) * rate > excess
    BY <1>2, <1>6, QuotientAbove
  <2>2. 0 * rate <= excess
    BY <1>2, <1>6
  <2>3. wait >= 0
    BY <1>2, <1>6, <2>2, QuotientAtLeast
  <2>4. QED
    BY <2>1, <2>3
<1> HIDE DEF wait
<1>8. later = now + (wait + 1)
  BY <1>5, <1>7 DEF LB!NonNegative, wait
<1> HIDE DEF later
<1>9. emptied.tokens = LB!NonNegative(level - (wait + 1) * rate)
  <2>1. ~(drained.lastUpdate = NoTime) /\ later - drained.lastUpdate = wait + 1
    BY <1>3, <1>7, <1>8 DEF NoTime
  <2>2. wait + 1 > 0
    BY <1>7
  <2>3. emptied = [drained EXCEPT !.tokens = LB!NonNegative(level - (wait + 1) * rate),
                                  !.lastUpdate = later]
    BY <2>1, <2>2 DEF LB!Leak, LB!LeakRate, LB!NoTime, NoTime, rate, level
  <2> HIDE DEF emptied
  <2>4. QED
    BY <1>3, <2>3 DEF States
<1>10. emptied.tokens + TokenUnit <= full
  <2> DEFINE leaked == (wait + 1) * rate
  <2>1. leaked \in Int /\ leaked > excess
    BY <1>2, <1>7
  <2> HIDE DEF leaked
  <2>2. emptied.tokens = LB!NonNegative(level - leaked)
    BY <1>9 DEF leaked
  <2>3. level - leaked + TokenUnit <= full /\ level - leaked \in Int
    BY <1>2, <1>3, <2>1 DEF excess
  <2>4. QED
    BY <1>2, <2>2, <2>3 DEF LB!NonNegative
<1>11. next.result.allowed <=> emptied.tokens + TokenUnit <= full
  BY <1>5 DEF LB!EvaluateMemory, LB!Evaluation, LB!Capacity, full
<1>12. QED
  BY <1>10, <1>11 DEF first, later

LEMMA EvaluateRetries ==
    ASSUME NEW now \in Nat, NEW state, Sound(state, now), Regular(state),
           strategy \in Strategies
    PROVE  LET first == Evaluate(now, state)
               later == now + first.result.resetIn + 1
           IN  ~first.result.allowed => Evaluate(later, first.state).result.allowed
<1>1. strategy \in AllStrategies
  BY MemoryAssumption
<1>2. CASE strategy = "fixed_window"
  BY <1>2, FixedWindowRetries DEF Evaluate
<1>3. CASE strategy = "sliding_counter"
  BY <1>3, SlidingCounterRetries DEF Evaluate
<1>4. CASE strategy = "sliding_log"
  BY <1>4, SlidingLogRetries DEF Evaluate
<1>5. CASE strategy = "token_bucket"
  BY <1>5, TokenBucketRetries DEF Evaluate
<1>6. CASE strategy = "leaky_bucket"
  BY <1>6, LeakyBucketRetries DEF Evaluate
<1>7. QED
  BY <1>1, <1>2, <1>3, <1>4, <1>5, <1>6 DEF AllStrategies

(* What a late call, a reset or an eviction leaves behind is regular too.  *)
RegularInv == MemoryInv /\ \A key \in Keys : Regular(StateOf(key))

LEMMA NewIsRegular == Regular(NewState)
BY MemoryAssumption DEF Regular, NewState

LEMMA RegularInit == Init => RegularInv
BY MemoryInit, NewIsRegular DEF Init, RegularInv, StateOf

LEMMA RegularNext ==
    ASSUME RegularInv, [Next]_vars
    PROVE  RegularInv'
<1>1. MemoryInv'
  BY EvaluateLockedKeeps, OtherActionsKeep DEF RegularInv
<1>2. /\ DOMAIN store = Keys
      /\ \A key \in Keys : Regular(StateOf(key))
  BY DEF RegularInv, MemoryInv
<1>3. strategy' = strategy
  BY DEF Next, vars, Refuse, EvaluateLocked, Enter, Reset, Close, Janitor, BeginCleanup,
         CleanShard, StopJanitor, Tick
<1>4. ASSUME NEW key \in Keys PROVE Regular(StateOf(key))'
  <2>1. CASE StateOf(key)' = StateOf(key)
    BY <1>2, <1>3, <2>1 DEF Regular
  <2>2. CASE StateOf(key)' = NewState
    BY <1>3, <2>2, NewIsRegular DEF Regular
  <2>3. ASSUME NEW r \in Callers, EvaluateLocked(r), key = call[r].key
        PROVE  Regular(StateOf(key))'
    <3> DEFINE now == call[r].now
               after == Evaluate(now, StateOf(key)).state
    <3>1. now \in 0 .. clock /\ clock \in Nat /\ Sound(StateOf(key), clock)
      BY <2>3, StateOfIsSound DEF RegularInv, MemoryInv, TypeOK, EvaluateLocked
    <3>2. Regular(after)
      BY <1>2, <3>1, EvaluateIsRegular
    <3>3. store'[key] = [lastAccess |-> now, state |-> after]
      BY <1>2, <2>3 DEF EvaluateLocked
    <3> HIDE DEF after
    <3>4. StateOf(key)' = after
      BY <3>3 DEF StateOf, NoEntry
    <3>5. QED
      BY <1>3, <3>2, <3>4 DEF Regular
  <2>4. ASSUME NEW r \in Callers, EvaluateLocked(r), key # call[r].key
        PROVE  store'[key] = store[key]
    BY <1>2, <2>4 DEF EvaluateLocked
  <2>5. ASSUME NEW k \in Keys, Reset(k)
        PROVE  store'[key] \in {store[key], NoEntry}
    BY <1>2, <2>5 DEF Reset
  <2>6. ASSUME CleanShard
        PROVE  store'[key] \in {store[key], NoEntry}
    BY <2>6 DEF CleanShard
  <2>7. CASE store'[key] \in {store[key], NoEntry}
    BY <2>1, <2>2, <2>7 DEF StateOf
  <2>8. QED
    BY <2>3, <2>4, <2>5, <2>6, <2>7
       DEF Next, vars, Refuse, Enter, Close, Janitor, BeginCleanup, StopJanitor, Tick
<1>5. QED
  BY <1>1, <1>4 DEF RegularInv

(* Under every strategy and in any state that calls, evictions and resets  *)
(* can leave behind: whoever is refused, waits for ResetIn and a tick, and *)
(* finds no other request in between, is admitted (interface.go:14).       *)
THEOREM RetryIsAlwaysAdmitted == Spec => []RetryIsAdmitted
<1>1. ASSUME RegularInv PROVE RetryIsAdmitted
  <2>1. SUFFICES ASSUME NEW key \in Keys
                 PROVE  LET result == Verdict(key).result
                        IN  ~result.allowed
                              => FollowUp(key, clock + result.resetIn + 1).allowed
    BY DEF RetryIsAdmitted
  <2>2. clock \in Nat /\ strategy \in Strategies /\ Regular(StateOf(key))
    BY <1>1 DEF RegularInv, MemoryInv, TypeOK
  <2>3. Sound(StateOf(key), clock)
    BY <1>1, StateOfIsSound DEF RegularInv
  <2>4. QED
    BY <2>2, <2>3, EvaluateRetries DEF Verdict, FollowUp
<1>2. QED
  BY RegularInit, RegularNext, <1>1, PTL DEF Spec

-------------------------------------------------------------------------------
(* What a bucket can still give, in units, and the instant up to which its *)
(* state has been brought; a state of a key without an entry is full, and  *)
(* is brought up to the earliest instant that a call may still come with.  *)
Full == Limit * TokenUnit
Rate == Limit * (TokenUnit \div Window)
Held(state) ==
    IF state.lastUpdate = NoTime THEN Full
    ELSE IF strategy = "token_bucket" THEN state.tokens ELSE Full - state.tokens
Reach(state, floor) == IF state.lastUpdate = NoTime THEN floor ELSE state.lastUpdate

Fits(log, held, reach) == Within(log, held, reach, TokenUnit, Full, Rate)

LEMMA BucketUnits ==
    /\ TokenUnit \in Nat \ {0} /\ Full \in Nat /\ TokenUnit <= Full /\ Rate \in Nat \ {0}
    /\ Window \in Nat \ {0}
    /\ Full = Window * Rate
<1>1. /\ Limit \in Nat \ {0} /\ Window \in Nat \ {0} /\ TokenUnit \in Nat \ {0}
      /\ TokenUnit % Window = 0
  BY MemoryAssumption, AlgorithmAssumption
<1>2. /\ Limit * (TokenUnit \div Window) \in Nat \ {0}
      /\ Limit * TokenUnit \in Nat /\ TokenUnit <= Limit * TokenUnit
  BY <1>1, WholeRate, Zenon
<1>3. Full = Window * Rate
  <2> DEFINE tick == TokenUnit \div Window
  <2>1. tick \in Nat /\ TokenUnit = Window * tick
    BY <1>1, WholeRate, Zenon
  <2>2. Rate = Limit * tick /\ Full = Limit * TokenUnit
    BY DEF Rate, Full
  <2> HIDE DEF tick
  <2>3. QED
    BY <1>1, <2>1, <2>2, FullIsAWindow
<1>4. QED
  BY <1>1, <1>2, <1>3, Zenon DEF Full, Rate

(* What a request at some instant finds, and leaves: the bucket brought to *)
(* a reach that is not before it, and a token less if it is admitted.      *)
Gives(state, floor, now, after) ==
    \E reach \in Nat, held \in 0 .. Full :
        /\ now <= reach
        /\ reach \in {now, state.lastUpdate}
        /\ Reach(state, floor) <= reach
        /\ held <= Held(state) + (reach - Reach(state, floor)) * Rate
        /\ after.state.lastUpdate = reach
        /\ Held(after.state) = IF after.result.allowed THEN held - TokenUnit ELSE held

LEMMA TokenBucketGives ==
    ASSUME NEW instant \in Nat, NEW now \in 0 .. instant, NEW state, Sound(state, instant),
           NEW floor \in Int, state.lastUpdate = NoTime => floor <= now,
           strategy = "token_bucket"
    PROVE  Gives(state, floor, now, TB!EvaluateMemory(now, state, Limit, Window))
<1> DEFINE filled == TB!Refill(now, state, Limit, Window)
           after == TB!EvaluateMemory(now, state, Limit, Window)
           reach == filled.lastUpdate
           held == filled.tokens
           added == (reach - Reach(state, floor)) * Rate
<1>1. /\ TokenUnit \in Nat \ {0} /\ Full \in Nat /\ Rate \in Nat \ {0}
      /\ now \in Nat
  BY BucketUnits
<1>2. Sound(filled, instant) /\ state \in States /\ state.tokens \in 0 .. Full
        /\ state.lastUpdate \in Nat \cup {NoTime}
  BY RefillIsSound, StateFields DEF Sound, Full
<1>3. held \in 0 .. Full
  BY <1>2, StateFields DEF Sound, Full
<1>4. /\ reach \in Nat /\ now <= reach /\ reach \in {now, state.lastUpdate}
      /\ Reach(state, floor) <= reach
      /\ held <= Held(state) + added
  <2>1. CASE state.lastUpdate = NoTime
    <3>1. filled = [state EXCEPT !.tokens = Full, !.lastUpdate = now]
      BY <2>1 DEF TB!Refill, TB!Capacity, TB!NoTime, NoTime, Full
    <3>2. held = Full /\ reach = now
      BY <1>2, <3>1 DEF States
    <3>3. Reach(state, floor) = floor /\ Held(state) = Full
      BY <2>1 DEF Reach, Held
    <3> HIDE DEF filled
    <3>4. added \in Nat
      <4>1. reach - Reach(state, floor) \in Nat
        BY <1>1, <2>1, <3>2, <3>3
      <4>2. QED
        BY <1>1, <4>1, ProductOfNats
    <3> HIDE DEF added
    <3>5. QED
      BY <1>1, <2>1, <3>2, <3>3, <3>4
  <2>2. CASE state.lastUpdate # NoTime /\ now - state.lastUpdate > 0
    <3> DEFINE gained == (now - state.lastUpdate) * Rate
    <3>1. filled = [state EXCEPT !.tokens = TB!Least(Full, state.tokens + gained),
                                 !.lastUpdate = now]
      BY <2>2 DEF TB!Refill, TB!Capacity, TB!FillRate, TB!NoTime, NoTime, Full, Rate
    <3>2. held = TB!Least(Full, state.tokens + gained) /\ reach = now
      BY <1>2, <3>1 DEF States
    <3>3. Reach(state, floor) = state.lastUpdate /\ Held(state) = state.tokens
      BY <2>2 DEF Reach, Held
    <3>4. added = gained
      BY <3>2, <3>3
    <3>5. gained \in Int
      BY <1>1, <1>2, <2>2
    <3> HIDE DEF filled, added, gained
    <3>6. held <= state.tokens + gained
      BY <1>1, <1>2, <3>2, <3>5 DEF TB!Least
    <3>7. QED
      BY <1>1, <1>2, <2>2, <3>2, <3>3, <3>4, <3>6
  <2>3. CASE state.lastUpdate # NoTime /\ ~(now - state.lastUpdate > 0)
    <3>1. filled = state
      BY <2>3 DEF TB!Refill, TB!NoTime, NoTime
    <3>2. Reach(state, floor) = reach /\ Held(state) = held
      BY <2>3, <3>1 DEF Reach, Held
    <3>3. reach \in Nat /\ now <= reach
      BY <1>1, <1>2, <2>3, <3>1
    <3> HIDE DEF filled
    <3>4. added = 0
      BY <1>1, <3>2, <3>3
    <3>5. QED
      BY <1>3, <3>1, <3>2, <3>3, <3>4
  <2>4. QED
    BY <2>1, <2>2, <2>3
<1>5. /\ after.state = [filled EXCEPT !.tokens = IF after.result.allowed THEN held - TokenUnit
                                                 ELSE held]
  BY DEF TB!EvaluateMemory, TB!Evaluation
<1> HIDE DEF after, added
<1>6. /\ after.state.lastUpdate = reach
      /\ after.state.tokens = IF after.result.allowed THEN held - TokenUnit ELSE held
  <2> HIDE DEF filled
  <2>1. QED
    BY <1>2, <1>5 DEF Sound, States
<1>7. Held(after.state) = after.state.tokens
  BY <1>4, <1>6 DEF Held, NoTime
<1> HIDE DEF filled, held, reach
<1>8. Gives(state, floor, now, after)
  BY <1>3, <1>4, <1>6, <1>7 DEF Gives, added
<1>9. QED
  BY <1>8 DEF after

LEMMA LeakyBucketGives ==
    ASSUME NEW instant \in Nat, NEW now \in 0 .. instant, NEW state, Sound(state, instant),
           NEW floor \in Int, state.lastUpdate = NoTime => floor <= now,
           strategy = "leaky_bucket"
    PROVE  Gives(state, floor, now, LB!EvaluateMemory(now, state, Limit, Window))
<1> DEFINE drained == LB!Leak(now, state, Limit, Window)
           after == LB!EvaluateMemory(now, state, Limit, Window)
           reach == drained.lastUpdate
           level == drained.tokens
           held == Full - level
           added == (reach - Reach(state, floor)) * Rate
<1>1. /\ TokenUnit \in Nat \ {0} /\ Full \in Nat /\ Rate \in Nat \ {0}
      /\ now \in Nat
  BY BucketUnits
<1>2. Sound(drained, instant) /\ state \in States /\ state.tokens \in 0 .. Full
        /\ state.lastUpdate \in Nat \cup {NoTime}
  BY LeakIsSound, StateFields DEF Sound, Full
<1>3. level \in 0 .. Full /\ held \in 0 .. Full
  <2>1. level \in 0 .. Full
    BY <1>2, StateFields DEF Sound, Full
  <2> HIDE DEF level
  <2>2. QED
    BY <1>1, <2>1
<1>4. /\ reach \in Nat /\ now <= reach /\ reach \in {now, state.lastUpdate}
      /\ Reach(state, floor) <= reach
      /\ held <= Held(state) + added
  <2>1. CASE state.lastUpdate = NoTime
    <3>1. drained = [state EXCEPT !.tokens = 0, !.lastUpdate = now]
      BY <2>1 DEF LB!Leak, LB!NoTime, NoTime
    <3>2. level = 0 /\ reach = now
      BY <1>2, <3>1 DEF States
    <3>3. Reach(state, floor) = floor /\ Held(state) = Full
      BY <2>1 DEF Reach, Held
    <3> HIDE DEF drained
    <3>4. added \in Nat
      <4>1. reach - Reach(state, floor) \in Nat
        BY <1>1, <2>1, <3>2, <3>3
      <4>2. QED
        BY <1>1, <4>1, ProductOfNats
    <3> HIDE DEF added
    <3>5. QED
      BY <1>1, <2>1, <3>2, <3>3, <3>4
  <2>2. CASE state.lastUpdate # NoTime /\ now - state.lastUpdate > 0
    <3> DEFINE gained == (now - state.lastUpdate) * Rate
    <3>1. drained = [state EXCEPT !.tokens = LB!NonNegative(state.tokens - gained),
                                  !.lastUpdate = now]
      BY <2>2 DEF LB!Leak, LB!LeakRate, LB!NoTime, NoTime, Rate
    <3>2. level = LB!NonNegative(state.tokens - gained) /\ reach = now
      BY <1>2, <3>1 DEF States
    <3>3. Reach(state, floor) = state.lastUpdate /\ Held(state) = Full - state.tokens
      BY <2>2 DEF Reach, Held
    <3>4. added = gained
      BY <3>2, <3>3
    <3>5. gained \in Int
      BY <1>1, <1>2, <2>2
    <3> HIDE DEF drained, added, gained, level
    <3>6. held <= (Full - state.tokens) + gained
      BY <1>1, <1>2, <1>3, <3>2, <3>5 DEF LB!NonNegative
    <3>7. QED
      BY <1>1, <1>2, <2>2, <3>2, <3>3, <3>4, <3>6
  <2>3. CASE state.lastUpdate # NoTime /\ ~(now - state.lastUpdate > 0)
    <3>1. drained = state
      BY <2>3 DEF LB!Leak, LB!NoTime, NoTime
    <3>2. Reach(state, floor) = reach /\ Held(state) = held
      BY <2>3, <3>1 DEF Reach, Held
    <3>3. reach \in Nat /\ now <= reach
      BY <1>1, <1>2, <2>3, <3>1
    <3> HIDE DEF drained
    <3>4. added = 0
      BY <1>1, <3>2, <3>3
    <3> HIDE DEF held
    <3>5. QED
      BY <1>3, <3>1, <3>2, <3>3, <3>4
  <2>4. QED
    BY <2>1, <2>2, <2>3
<1>5. after.state = [drained EXCEPT !.tokens = IF after.result.allowed THEN level + TokenUnit
                                               ELSE level]
  BY DEF LB!EvaluateMemory, LB!Evaluation
<1> HIDE DEF after, added
<1>6. /\ after.state.lastUpdate = reach
      /\ after.state.tokens = IF after.result.allowed THEN level + TokenUnit ELSE level
  <2> HIDE DEF drained
  <2>1. QED
    BY <1>2, <1>5 DEF Sound, States
<1> HIDE DEF drained, level, reach
<1>7. Held(after.state) = IF after.result.allowed THEN held - TokenUnit ELSE held
  <2>1. Held(after.state) = Full - after.state.tokens
    BY <1>4, <1>6 DEF Held, NoTime
  <2>2. CASE after.result.allowed
    BY <1>1, <1>3, <1>6, <2>1, <2>2
  <2>3. CASE ~after.result.allowed
    BY <1>1, <1>3, <1>6, <2>1, <2>3
  <2>4. QED
    BY <2>2, <2>3
<1> HIDE DEF held
<1>8. Gives(state, floor, now, after)
  BY <1>3, <1>4, <1>6, <1>7 DEF Gives, added
<1>9. QED
  BY <1>8 DEF after

(* So what fits before a request fits after it.                            *)
LEMMA FitsAfter ==
    ASSUME NEW log, NEW state, NEW floor \in Int, NEW now \in Nat, NEW after,
           state.lastUpdate \in Nat \cup {NoTime}, Held(state) \in Int,
           Fits(log, Held(state), Reach(state, floor)), Gives(state, floor, now, after)
    PROVE  Fits(IF after.result.allowed THEN Append(log, now) ELSE log,
                Held(after.state), after.state.lastUpdate)
<1>1. PICK reach \in Nat, held \in 0 .. Full :
        /\ now <= reach
        /\ Reach(state, floor) <= reach
        /\ held <= Held(state) + (reach - Reach(state, floor)) * Rate
        /\ after.state.lastUpdate = reach
        /\ Held(after.state) = IF after.result.allowed THEN held - TokenUnit ELSE held
  BY DEF Gives
<1>2. Reach(state, floor) \in Int
  BY DEF Reach, NoTime
<1>3. held \in Int /\ held <= Full
  BY BucketUnits
<1>4. Fits(log, held, reach)
  BY <1>1, <1>2, <1>3, BucketUnits, WithinLater DEF Fits
<1>5. Fits(Append(log, now), held - TokenUnit, reach)
  BY <1>1, <1>3, <1>4, BucketUnits, WithinOneMore DEF Fits
<1>6. QED
  BY <1>1, <1>4, <1>5

-------------------------------------------------------------------------------
(* Every key keeps within its bucket; an entry was brought up to no later  *)
(* an instant than a call that was under way at its last access may have.  *)
KeyFits(key) ==
    /\ Fits(admitted[key], Held(StateOf(key)), Reach(StateOf(key), clock - MaxDelay))
    /\ store[key] # NoEntry =>
          /\ store[key].state.lastUpdate # NoTime
          /\ store[key].state.lastUpdate <= store[key].lastAccess + MaxDelay

BucketInv ==
    /\ MemoryInv
    /\ DOMAIN admitted = Keys
    /\ strategy \in Buckets => \A key \in Keys : KeyFits(key)

LEMMA NoneFit ==
    ASSUME NEW held, NEW reach
    PROVE  Fits(<<>>, held, reach)
BY DEF Fits, Within

LEMMA BucketInit == HistoryInit => BucketInv
<1> SUFFICES ASSUME HistoryInit PROVE BucketInv
  OBVIOUS
<1>1. /\ Init /\ DOMAIN admitted = Keys
      /\ \A key \in Keys : admitted[key] = <<>> /\ store[key] = NoEntry
  BY DEF HistoryInit, Init
<1>2. QED
  BY <1>1, MemoryInit, NoneFit DEF BucketInv, KeyFits

LEMMA HeldIsALevel ==
    ASSUME MemoryInv, NEW key \in Keys, strategy \in Buckets
    PROVE  /\ Sound(StateOf(key), clock)
           /\ StateOf(key).lastUpdate \in Nat \cup {NoTime}
           /\ Held(StateOf(key)) \in 0 .. Full
<1> DEFINE state == StateOf(key)
<1>1. Sound(state, clock) /\ Full \in Nat
  BY StateOfIsSound, BucketUnits
<1> HIDE DEF state
<1>2. state.lastUpdate \in Nat \cup {NoTime} /\ state.tokens \in 0 .. Full
  BY <1>1, StateFields DEF Sound, Full
<1>3. Held(state) \in 0 .. Full
  BY <1>1, <1>2 DEF Held
<1>4. QED
  BY <1>1, <1>2, <1>3 DEF state

LEMMA EntryFits ==
    ASSUME NEW k \in Keys, NEW CONSTANT state, NEW CONSTANT now, NEW CONSTANT log,
           UNCHANGED strategy,
           store'[k] = [lastAccess |-> now, state |-> state], admitted'[k] = log,
           Fits(log, Held(state), state.lastUpdate),
           state.lastUpdate # NoTime, state.lastUpdate <= now + MaxDelay
    PROVE  KeyFits(k)'
<1>1. /\ store'[k] # NoEntry /\ store'[k].lastAccess = now
      /\ store'[k].state = state
  BY DEF NoEntry
<1>2. StateOf(k)' = state
  BY <1>1 DEF StateOf, NoEntry
<1>3. Held(state)' = Held(state)
  BY DEF Held
<1>4. Fits(log, Held(state)', state.lastUpdate)
  BY <1>3
<1>5. QED
  BY <1>1, <1>2, <1>4 DEF KeyFits, Held, Reach, NoEntry

LEMMA EvaluateLockedFits ==
    ASSUME BucketInv, strategy \in Buckets, NEW r \in Callers, EvaluateLocked(r), Served(r),
           NEW k \in Keys
    PROVE  KeyFits(k)'
<1> DEFINE key == call[r].key
           now == call[r].now
           state == StateOf(key)
           after == Evaluate(now, state)
           floor == clock - MaxDelay
           log == admitted[key]
           next == IF after.result.allowed THEN Append(log, now) ELSE log
<1>1. /\ key \in Keys /\ now \in 0 .. clock /\ clock \in Nat /\ MaxDelay \in Nat
      /\ clock - now <= MaxDelay
  BY MemoryAssumption DEF EvaluateLocked, BucketInv, MemoryInv, TypeOK
<1>2. /\ DOMAIN store = Keys /\ DOMAIN admitted = Keys
      /\ KeyFits(key) /\ KeyFits(k)
  BY <1>1 DEF BucketInv, MemoryInv
<1>3. /\ UNCHANGED <<strategy, clock>>
      /\ store' = [store EXCEPT ![key] = [lastAccess |-> now, state |-> after.state]]
      /\ admitted' = IF after.result.allowed THEN [admitted EXCEPT ![key] = Append(log, now)]
                     ELSE admitted
  BY DEF EvaluateLocked, Served
<1>4. CASE k # key
  <2>1. store'[k] = store[k] /\ admitted'[k] = admitted[k]
    BY <1>2, <1>3, <1>4
  <2>2. QED
    BY <1>2, <1>3, <2>1 DEF KeyFits, StateOf, Held, Reach
<1>5. CASE k = key
  <2>1. /\ Sound(state, clock) /\ state.lastUpdate \in Nat \cup {NoTime}
        /\ Held(state) \in 0 .. Full /\ Full \in Nat
    BY <1>1, HeldIsALevel, BucketUnits DEF BucketInv
  <2>2. Fits(log, Held(state), Reach(state, floor))
    BY <1>2 DEF KeyFits
  <2>3. floor \in Int /\ floor <= now
    BY <1>1
  <2> HIDE DEF state, floor, now
  <2>4. Gives(state, floor, now, after)
    <3>1. CASE strategy = "token_bucket"
      BY <1>1, <2>1, <2>3, <3>1, TokenBucketGives DEF Evaluate
    <3>2. CASE strategy = "leaky_bucket"
      BY <1>1, <2>1, <2>3, <3>2, LeakyBucketGives DEF Evaluate
    <3>3. QED
      BY <3>1, <3>2 DEF Buckets
  <2> HIDE DEF after
  <2>5. Fits(next, Held(after.state), after.state.lastUpdate)
    <3>1. Held(state) \in Int /\ now \in Nat
      BY <1>1, <2>1
    <3> HIDE DEF log
    <3>2. QED
      BY <2>1, <2>2, <2>3, <2>4, <3>1, FitsAfter
  <2>6. /\ after.state.lastUpdate \in Nat
        /\ after.state.lastUpdate \in {now, state.lastUpdate}
    BY <2>4 DEF Gives
  <2>7. after.state.lastUpdate <= now + MaxDelay
    BY <1>1, <2>1, <2>6 DEF Sound
  <2>8. /\ store'[k] = [lastAccess |-> now, state |-> after.state]
        /\ admitted'[k] = next
    BY <1>2, <1>3, <1>5
  <2> HIDE DEF next
  <2>9. after.state.lastUpdate # NoTime
    BY <2>6 DEF NoTime
  <2>10. QED
    BY <1>3, <2>5, <2>7, <2>8, <2>9, EntryFits
<1>6. QED
  BY <1>4, <1>5

(* An entry that is evicted has been idle for long enough to fill up, even *)
(* for the latest call that may still come.                                *)
LEMMA EvictionFits ==
    ASSUME TTL >= Window + 2 * MaxDelay, BucketInv, strategy \in Buckets, CleanShard,
           NEW key \in Keys, Expired(key)
    PROVE  Fits(admitted[key], Full, clock - MaxDelay)
<1> DEFINE state == store[key].state
           reach == state.lastUpdate
           latest == clock - MaxDelay
           idle == latest - reach
<1>1. /\ clock \in Nat /\ MaxDelay \in Nat /\ Window \in Nat /\ TTL \in Nat
      /\ janitor.now \in 0 .. clock
  BY MemoryAssumption DEF CleanShard, BucketInv, MemoryInv, TypeOK
<1>2. /\ store[key] # NoEntry /\ store[key].lastAccess \in 0 .. clock
      /\ janitor.now - store[key].lastAccess > TTL
  BY DEF Expired, BucketInv, MemoryInv, TypeOK
<1>3. /\ StateOf(key) = state /\ KeyFits(key)
  BY <1>2 DEF StateOf, BucketInv
<1>4. /\ reach \in Nat /\ reach <= store[key].lastAccess + MaxDelay
      /\ Held(state) \in 0 .. Full /\ Full \in Nat /\ Rate \in Nat
      /\ Full = Window * Rate
  BY <1>2, <1>3, HeldIsALevel, BucketUnits DEF KeyFits, BucketInv
<1>5. Fits(admitted[key], Held(state), reach)
  BY <1>3, <1>4 DEF KeyFits, Reach, NoTime
<1> HIDE DEF state, reach
<1>6. latest \in Int /\ idle \in Int /\ idle >= Window /\ reach <= latest
  BY <1>1, <1>2, <1>4
<1> HIDE DEF latest
<1>7. Full <= Held(state) + (latest - reach) * Rate
  <2>1. Window * Rate <= idle * Rate
    BY <1>1, <1>4, <1>6, MultiplyLess
  <2> DEFINE gained == idle * Rate
  <2>2. gained \in Int
    BY <1>4, <1>6
  <2>3. Full <= gained
    BY <1>4, <2>1
  <2> HIDE DEF gained, idle
  <2>4. Full <= Held(state) + gained
    BY <1>4, <2>2, <2>3
  <2>5. QED
    BY <2>4 DEF gained, idle
<1>8. Fits(admitted[key], Full, latest)
  <2>1. Held(state) \in Int /\ Full \in Int
    BY <1>4
  <2>2. QED
    BY <1>4, <1>5, <1>6, <1>7, <2>1, BucketUnits, WithinLater DEF Fits
<1>9. QED
  BY <1>8 DEF latest

LEMMA TickFits ==
    ASSUME BucketInv, strategy \in Buckets, Tick, UNCHANGED admitted, NEW key \in Keys
    PROVE  KeyFits(key)'
<1>1. /\ clock \in Nat /\ clock' = clock + 1 /\ MaxDelay \in Nat
      /\ UNCHANGED <<store, strategy>>
      /\ KeyFits(key)
  BY MemoryAssumption DEF Tick, BucketInv, MemoryInv, TypeOK
<1>2. CASE store[key] = NoEntry
  <2>1. StateOf(key) = NewState /\ StateOf(key)' = NewState
    BY <1>1, <1>2 DEF StateOf
  <2>2. NewState.lastUpdate = NoTime
    BY DEF NewState
  <2>3. Fits(admitted[key], Full, clock - MaxDelay)
    BY <1>1, <2>1, <2>2 DEF KeyFits, Held, Reach
  <2>4. Fits(admitted[key], Full, clock' - MaxDelay)
    <3> DEFINE reach == clock - MaxDelay
               more == clock' - MaxDelay
    <3>1. reach \in Int /\ more \in Int /\ reach <= more /\ more - reach = 1
      BY <1>1
    <3>2. Full \in Int /\ Rate \in Nat
      BY BucketUnits
    <3> HIDE DEF reach, more
    <3>3. Full <= Full + (more - reach) * Rate
      BY <3>1, <3>2
    <3>4. Fits(admitted[key], Full, reach)
      BY <2>3 DEF reach
    <3>5. Fits(admitted[key], Full, more)
      BY <3>1, <3>2, <3>3, <3>4, BucketUnits, WithinLater DEF Fits
    <3>6. QED
      BY <3>5 DEF more
  <2>5. Held(NewState)' = Full /\ Reach(NewState, clock' - MaxDelay) = clock' - MaxDelay
    BY <2>2 DEF Held, Reach
  <2>6. QED
    BY <1>1, <1>2, <2>1, <2>2, <2>4 DEF KeyFits, Held, Reach, NoEntry
<1>3. CASE store[key] # NoEntry
  <2>1. StateOf(key)' = StateOf(key) /\ StateOf(key).lastUpdate # NoTime
    BY <1>1, <1>3 DEF StateOf, KeyFits, NoEntry
  <2>2. QED
    BY <1>1, <1>3, <2>1 DEF KeyFits, Held, Reach, NoEntry, NoTime
<1>4. QED
  BY <1>2, <1>3

LEMMA BucketNext ==
    ASSUME TTL >= Window + 2 * MaxDelay, BucketInv, [HistoryNext]_hvars
    PROVE  BucketInv'
<1>1. [Next]_vars
  BY DEF HistoryNext, Next, hvars
<1>2. MemoryInv'
  BY <1>1, EvaluateLockedKeeps, OtherActionsKeep DEF BucketInv
<1>3. strategy' = strategy
  BY <1>1 DEF Next, vars, Refuse, EvaluateLocked, Enter, Reset, Close, Janitor,
              BeginCleanup, CleanShard, StopJanitor, Tick
<1>4. DOMAIN admitted' = Keys
  BY DEF HistoryNext, Served, hvars, BucketInv
<1>5. ASSUME strategy \in Buckets, NEW key \in Keys PROVE KeyFits(key)'
  <2>1. KeyFits(key) /\ DOMAIN store = Keys /\ DOMAIN admitted = Keys
    BY <1>5 DEF BucketInv, MemoryInv
  <2>2. CASE UNCHANGED <<clock, store, admitted>>
    BY <1>3, <2>1, <2>2 DEF KeyFits, StateOf, Held, Reach, NoEntry
  <2>3. ASSUME NEW r \in Callers, EvaluateLocked(r), Served(r)
        PROVE  KeyFits(key)'
    BY <1>5, <2>3, EvaluateLockedFits
  <2>4. ASSUME NEW k \in Keys, Reset(k), admitted' = [admitted EXCEPT ![k] = <<>>]
        PROVE  KeyFits(key)'
    <3>1. /\ clock' = clock
          /\ store'[key] = IF key = k THEN NoEntry ELSE store[key]
          /\ admitted'[key] = IF key = k THEN <<>> ELSE admitted[key]
      BY <2>1, <2>4 DEF Reset
    <3>2. CASE key = k
      BY <3>1, <3>2, NoneFit DEF KeyFits, NoEntry
    <3>3. CASE key # k
      BY <1>3, <2>1, <3>1, <3>3 DEF KeyFits, StateOf, Held, Reach, NoEntry
    <3>4. QED
      BY <3>2, <3>3
  <2>5. ASSUME CleanShard, UNCHANGED admitted
        PROVE  KeyFits(key)'
    <3>1. /\ clock' = clock
          /\ store'[key] = store[key] \/ (Expired(key) /\ store'[key] = NoEntry)
      BY <2>5 DEF CleanShard
    <3>2. CASE store'[key] = store[key]
      BY <1>3, <2>1, <2>5, <3>1, <3>2 DEF KeyFits, StateOf, Held, Reach, NoEntry
    <3>3. CASE Expired(key) /\ store'[key] = NoEntry
      <4>1. Fits(admitted[key], Full, clock - MaxDelay)
        BY <1>5, <2>5, <3>3, EvictionFits
      <4>2. StateOf(key)' = NewState
        BY <3>3 DEF StateOf, NoEntry
      <4>3. QED
        BY <2>5, <3>1, <3>3, <4>1, <4>2 DEF KeyFits, Held, Reach, NewState, NoEntry
    <3>4. QED
      BY <3>1, <3>2, <3>3
  <2>6. ASSUME Tick, UNCHANGED admitted
        PROVE  KeyFits(key)'
    BY <1>5, <2>6, TickFits
  <2>7. QED
    BY <2>2, <2>3, <2>4, <2>5, <2>6
       DEF HistoryNext, hvars, vars, Enter, Close, Janitor, BeginCleanup, StopJanitor
<1>6. QED
  BY <1>2, <1>3, <1>4, <1>5 DEF BucketInv

LEMMA FitsIsWithinRate ==
    ASSUME NEW log, NEW held \in Nat, NEW reach \in Int, NEW now \in Int, reach <= now,
           Fits(log, held, reach)
    PROVE  WithinRate(log, now, Limit, Window, 0)
<1>1. \A i \in DOMAIN log :
        /\ Len(log) - i + 1 \in Int
        /\ (Len(log) - i + 1) * Window <= Limit * (Window + now - Highest(log, i))
  BY WithinIsTheRate, MemoryAssumption, AlgorithmAssumption DEF Fits, Full, Rate
<1>2. SUFFICES ASSUME NEW i \in DOMAIN log
               PROVE  (Len(log) - i + 1 + 0) * Window
                          <= Limit * (Window + now - LatestBy(log, i))
  BY DEF WithinRate
<1>3. Len(log) - i + 1 + 0 = Len(log) - i + 1
  BY <1>1
<1>4. LatestBy(log, i) = Highest(log, i)
  BY DEF LatestBy, Highest
<1>5. QED
  BY <1>1, <1>3, <1>4

(* However calls overlap, and when they lock up to MaxDelay after reading  *)
(* the clock: a bucket never admits more than its capacity and what the    *)
(* rate adds (tokenbucket.go:37-49, leakybucket.go:37-49), provided that   *)
(* the TTL leaves an idle key the time to fill up before it is forgotten.  *)
THEOREM BucketsHoldTheirRate ==
    ASSUME TTL >= Window + 2 * MaxDelay
    PROVE  HistorySpec => []BucketBound
<1>1. ASSUME BucketInv PROVE BucketBound
  <2>1. SUFFICES ASSUME strategy \in Buckets, NEW key \in Keys
                 PROVE  WithinRate(admitted[key], clock, Limit, Window, 0)
    BY DEF BucketBound
  <2> DEFINE state == StateOf(key)
             reach == Reach(state, clock - MaxDelay)
  <2>2. /\ clock \in Nat /\ MaxDelay \in Nat
        /\ Sound(state, clock) /\ state.lastUpdate \in Nat \cup {NoTime}
        /\ Held(state) \in 0 .. Full
    BY <1>1, <2>1, HeldIsALevel, MemoryAssumption DEF BucketInv, MemoryInv, TypeOK
  <2>3. Fits(admitted[key], Held(state), reach)
    BY <1>1, <2>1 DEF BucketInv, KeyFits
  <2> HIDE DEF state
  <2>4. reach \in Int /\ reach <= clock
    BY <2>2 DEF Reach, Sound, NoTime
  <2>5. Held(state) \in Nat
    BY <2>2
  <2> HIDE DEF reach
  <2>6. QED
    BY <2>2, <2>3, <2>4, <2>5, FitsIsWithinRate
<1>2. QED
  BY BucketInit, BucketNext, <1>1, PTL DEF HistorySpec

-------------------------------------------------------------------------------
(* What a state says of the requests still to come, from at on, against    *)
(* what the log of the admissions says.                                    *)
CountsTheWindow(state, log, at) ==
    \A t \in Nat : t >= at =>
        LET boundary == t - (t % Window)
            seen == IF state.lastUpdate = boundary THEN state.count ELSE 0
        IN  (IF seen < Limit THEN seen ELSE Limit)
                = Cardinality(Later(log, boundary - 1))

CountsTwoWindows(state, log, at) ==
    \A t \in Nat : t >= at =>
        LET boundary == t - (t % Window)
            rotated == SC!Rotate(t, state, Window)
        IN  /\ rotated.lastUpdate = boundary
            /\ rotated.count = Cardinality(Later(log, boundary - 1))
            /\ rotated.prevCount = Cardinality(Later(log, boundary - Window - 1))
                                     - Cardinality(Later(log, boundary - 1))

LogsTheWindow(state, log, at) ==
    /\ \A i \in DOMAIN state.timestamps : state.timestamps[i] * Milli <= at
    /\ \A t \in Nat : t >= at =>
        LET cutoff == t \div Milli - (Window \div Milli)
        IN  Len(SL!Trim(state.timestamps, cutoff))
                = Cardinality(Later(log, (cutoff + 1) * Milli - 1))

Tight(log, held, reach) == Exact(log, held, reach, TokenUnit, Full, Rate)

Mirrors(state, log, at) ==
    /\ log \in Seq(Nat)
    /\ \A i \in DOMAIN log : log[i] <= at
    /\ state.lastUpdate # NoTime => state.lastUpdate <= at
    /\ strategy = "fixed_window" => CountsTheWindow(state, log, at)
    /\ strategy = "sliding_counter" => CountsTwoWindows(state, log, at)
    /\ strategy = "sliding_log" => LogsTheWindow(state, log, at)
    /\ strategy \in Buckets => Tight(log, Held(state), Reach(state, at))

(* A key without an entry has been idle for two windows, for any call that *)
(* may still come; an entry mirrors the log from its last access on.       *)
Idle(log, at) == log \in Seq(Nat) /\ \A i \in DOMAIN log : log[i] + 2 * Window <= at

LEMMA IdleFrom ==
    ASSUME NEW log \in Seq(Nat), NEW at \in Int, NEW floor \in Int,
           \A i \in DOMAIN log : log[i] <= at, at + 2 * Window <= floor
    PROVE  Idle(log, floor)
<1> DEFINE width == 2 * Window
<1>1. width \in Nat /\ at + width <= floor
  BY MemoryAssumption
<1>2. ASSUME NEW i \in DOMAIN log PROVE log[i] + width <= floor
  <2> DEFINE last == log[i]
  <2>1. last \in Nat /\ last <= at
    OBVIOUS
  <2> HIDE DEF last, width
  <2>2. last + width <= floor
    BY <1>1, <2>1
  <2>3. QED
    BY <2>2 DEF last
<1>3. QED
  BY <1>2 DEF Idle

LEMMA StaysIdle ==
    ASSUME NEW log, NEW at \in Int, Idle(log, at), NEW later \in Int, at <= later
    PROVE  Idle(log, later)
<1>1. Window \in Nat /\ log \in Seq(Nat)
  BY MemoryAssumption DEF Idle
<1>2. \A i \in DOMAIN log : log[i] <= at - 2 * Window
  <2>1. ASSUME NEW i \in DOMAIN log PROVE log[i] <= at - 2 * Window
    <3>1. log[i] \in Nat /\ log[i] + 2 * Window <= at
      BY <1>1 DEF Idle
    <3>2. QED
      BY <1>1, <3>1
  <2>2. QED
    BY <2>1
<1>3. at - 2 * Window \in Int /\ (at - 2 * Window) + 2 * Window <= later
  BY <1>1
<1>4. QED
  BY <1>1, <1>2, <1>3, IdleFrom

KeyMirrors(key) ==
    /\ store[key] = NoEntry => Idle(admitted[key], clock - MaxDelay)
    /\ store[key] # NoEntry =>
          Mirrors(store[key].state, admitted[key], store[key].lastAccess)

(* Requests are evaluated in the order of their readings of the clock: they*)
(* come one at a time, or wait for no lock.                                *)
InOrder == MaxDelay = 0 \/ \A r, s \in Callers : r = s

Ordered ==
    \A r \in Callers, key \in Keys :
        call[r] # NoCall /\ store[key] # NoEntry => store[key].lastAccess <= call[r].now

MirrorInv ==
    /\ BucketInv
    /\ Ordered
    /\ \A key \in Keys : KeyMirrors(key)

(* The window of an instant and the window of a later one.                 *)
LEMMA WindowsOf ==
    ASSUME NEW now \in Nat, NEW t \in Nat, now <= t
    PROVE  LET this == now - (now % Window)
               that == t - (t % Window)
           IN  /\ this \in Nat /\ this <= now /\ now < this + Window
               /\ that \in Nat /\ that <= t /\ t < that + Window
               /\ t - this < Window => that = this
               /\ t - this >= Window => that >= this + Window
               /\ t - this >= Window /\ t - this < 2 * Window => that = this + Window
               /\ t - this >= 2 * Window => that >= this + 2 * Window
               /\ that = this \/ that >= this + Window
<1> DEFINE this == now - (now % Window)
           that == t - (t % Window)
           a == now \div Window
           b == t \div Window
           p == Window * a
           q == Window * b
<1>1. Window \in Nat \ {0}
  BY MemoryAssumption
<1>2. /\ this = p /\ that = q /\ a \in Int /\ b \in Int /\ this \in Nat /\ that \in Nat
      /\ this <= now /\ now < this + Window /\ that <= t /\ t < that + Window
  <2>1. /\ now = p + (now % Window) /\ a \in Int /\ now % Window \in 0 .. Window - 1
        /\ t = q + (t % Window) /\ b \in Int /\ t % Window \in 0 .. Window - 1
    BY <1>1, DivMod
  <2>2. p \in Int /\ q \in Int
    BY <1>1, <2>1
  <2>3. this \in Nat /\ that \in Nat
    BY TruncateGoesBack
  <2> HIDE DEF a, b, p, q
  <2>4. QED
    BY <1>1, <2>1, <2>2, <2>3
<1> HIDE DEF this, that, a, b
<1>3. ASSUME NEW n \in Int, b >= a + n
      PROVE  that >= this + n * Window
  <2>1. Window * (a + n) <= Window * b
    BY <1>1, <1>2, <1>3, MultiplyLess
  <2>2. Window * (a + n) = Window * a + n * Window
    BY <1>1, <1>2
  <2>3. QED
    BY <1>1, <1>2, <2>1, <2>2
<1>4. ASSUME NEW n \in Int, b <= a + n
      PROVE  that <= this + n * Window
  <2>1. Window * b <= Window * (a + n)
    BY <1>1, <1>2, <1>4, MultiplyLess
  <2>2. Window * (a + n) = Window * a + n * Window
    BY <1>1, <1>2
  <2>3. QED
    BY <1>1, <1>2, <2>1, <2>2
<1>5. b >= a
  <2>1. SUFFICES ASSUME b <= a - 1 PROVE FALSE
    BY <1>2
  <2>2. that <= this + (-1) * Window
    BY <1>2, <1>4, <2>1
  <2>3. QED
    BY <1>1, <1>2, <2>2
<1> HIDE DEF p, q
<1>6. CASE b = a
  <2>1. that <= this + 0 * Window /\ that >= this + 0 * Window
    BY <1>2, <1>3, <1>4, <1>6
  <2>2. QED
    BY <1>1, <1>2, <2>1 DEF this, that
<1>7. CASE b = a + 1
  <2>1. that <= this + 1 * Window /\ that >= this + 1 * Window
    BY <1>2, <1>3, <1>4, <1>7
  <2>2. that = this + Window
    BY <1>1, <1>2, <2>1
  <2>3. QED
    BY <1>1, <1>2, <2>2 DEF this, that
<1>8. CASE b >= a + 2
  <2>1. that >= this + 2 * Window
    BY <1>2, <1>3, <1>8
  <2>2. QED
    BY <1>1, <1>2, <2>1 DEF this, that
<1>9. b = a \/ b = a + 1 \/ b >= a + 2
  BY <1>2, <1>5
<1>10. QED
  BY <1>6, <1>7, <1>8, <1>9

(* What an evaluation leaves of the log.                                   *)
Logged(log, now, result) == Grown(log, now, result.allowed)

LEMMA LoggedSince ==
    ASSUME NEW log \in Seq(Nat), NEW now \in Nat, NEW result
    PROVE  /\ Logged(log, now, result) \in Seq(Nat)
           /\ \A t \in Int : t <= now /\ (\A i \in DOMAIN log : log[i] <= t) =>
                 \A i \in DOMAIN Logged(log, now, result) : Logged(log, now, result)[i] <= now
           /\ \A c \in Int :
                 /\ Cardinality(Later(log, c)) \in Nat
                 /\ result.allowed /\ now > c =>
                       Cardinality(Later(Logged(log, now, result), c))
                           = Cardinality(Later(log, c)) + 1
                 /\ ~result.allowed \/ ~(now > c) =>
                       Cardinality(Later(Logged(log, now, result), c))
                           = Cardinality(Later(log, c))
BY GrownLater, Zenon DEF Logged

LEMMA WindowOf ==
    ASSUME NEW now \in Nat
    PROVE  LET this == now - (now % Window)
           IN  this \in Nat /\ this <= now /\ now < this + Window
<1> DEFINE this == now - (now % Window)
<1>1. this \in Nat /\ this <= now
  BY TruncateGoesBack
<1>2. now <= now
  OBVIOUS
<1>3. now < this + Window
  BY <1>2, WindowsOf
<1>4. QED
  BY <1>1, <1>3

(* The fixed window counts what it admits, and the refusals above that.    *)
LEMMA FixedWindowMirrors ==
    ASSUME NEW log \in Seq(Nat), NEW state \in States, NEW at \in Int, NEW now \in Nat,
           at <= now, \A i \in DOMAIN log : log[i] <= at,
           CountsTheWindow(state, log, at)
    PROVE  LET after == FW!EvaluateMemory(now, state, Limit, Window)
           IN  /\ after.result.allowed <=> FixedWindowAdmits(log, now, Limit, Window)
               /\ CountsTheWindow(after.state, Logged(log, now, after.result), now)
<1> DEFINE after == FW!EvaluateMemory(now, state, Limit, Window)
           next == Logged(log, now, after.result)
           boundary == now - (now % Window)
           seen == IF state.lastUpdate = boundary THEN state.count ELSE 0
           had(c) == Cardinality(Later(log, c))
           has(c) == Cardinality(Later(next, c))
<1>1. /\ Limit \in Nat \ {0} /\ Window \in Nat \ {0} /\ boundary \in Nat /\ boundary <= now
      /\ now < boundary + Window
  <2>1. Limit \in Nat \ {0} /\ Window \in Nat \ {0}
    BY MemoryAssumption
  <2>2. QED
    BY <2>1, WindowOf
<1>2. seen \in Nat
  BY StateFields
<1>3. /\ after.state = [state EXCEPT !.count = seen + 1, !.lastUpdate = boundary]
      /\ after.result.allowed <=> seen + 1 <= Limit
  <2>1. (IF state.lastUpdate = boundary THEN state.count + 1 ELSE 1) = seen + 1
    BY StateFields
  <2>2. QED
    BY <2>1 DEF FW!EvaluateMemory, FW!Evaluation, FW!Truncate
<1>4. after.state.count = seen + 1 /\ after.state.lastUpdate = boundary
  BY <1>3 DEF States
<1>5. (IF seen < Limit THEN seen ELSE Limit) = had(boundary - 1)
  BY DEF CountsTheWindow
<1>6. /\ \A i \in DOMAIN next : next[i] <= now
      /\ next \in Seq(Nat)
      /\ \A c \in Int : /\ had(c) \in Nat
                        /\ after.result.allowed /\ now > c => has(c) = had(c) + 1
                        /\ ~after.result.allowed \/ ~(now > c) => has(c) = had(c)
  BY LoggedSince
<1>7. had(boundary - 1) \in Nat /\ boundary - 1 \in Int
  <2> HIDE DEF had, has, boundary, next, after
  <2>1. boundary - 1 \in Int
    BY <1>1
  <2>2. had(boundary - 1) \in Nat
    BY <1>6, <2>1, Zenon
  <2>3. QED
    BY <2>1, <2>2
<1>8. AdmittedIn(log, boundary, now) = had(boundary - 1)
  <2>1. \A i \in DOMAIN log : log[i] \in Int /\ log[i] <= now
    OBVIOUS
  <2> HIDE DEF boundary
  <2>2. QED
    <3>1. Cardinality({i \in DOMAIN log : log[i] \in boundary .. now})
             = Cardinality(Later(log, boundary - 1))
      <4>1. boundary \in Int /\ now \in Int /\ \A i \in DOMAIN log : log[i] <= now
        BY <1>1, <2>1
      <4>2. QED
        BY <4>1, CountedFrom, Zenon
    <3>2. QED
      BY <3>1 DEF AdmittedIn
<1> HIDE DEF after, next, seen, had, has
<1>9. after.result.allowed <=> FixedWindowAdmits(log, now, Limit, Window)
  <2>1. FixedWindowAdmits(log, now, Limit, Window) <=> had(boundary - 1) < Limit
    BY <1>8 DEF FixedWindowAdmits, Truncate
  <2> HIDE DEF boundary
  <2>2. seen + 1 <= Limit <=> had(boundary - 1) < Limit
    BY <1>1, <1>2, <1>5, <1>7
  <2>3. QED
    BY <1>3, <2>1, <2>2
<1>10. ASSUME NEW t \in Nat, t >= now
       PROVE  LET start == t - (t % Window)
                  found == IF after.state.lastUpdate = start THEN after.state.count ELSE 0
              IN  (IF found < Limit THEN found ELSE Limit) = has(start - 1)
  <2> DEFINE start == t - (t % Window)
             found == IF after.state.lastUpdate = start THEN after.state.count ELSE 0
  <2>1. start \in Nat /\ (start = boundary \/ start >= boundary + Window)
    BY <1>10, WindowsOf
  <2> HIDE DEF start, boundary
  <2>2. CASE start = boundary
    <3>1. found = seen + 1
      BY <1>4, <2>2
    <3>2. /\ after.result.allowed => has(boundary - 1) = had(boundary - 1) + 1
          /\ ~after.result.allowed => has(boundary - 1) = had(boundary - 1)
      <4>1. now > boundary - 1
        BY <1>1
      <4>2. QED
        BY <1>6, <1>7, <4>1
    <3> HIDE DEF found
    <3>3. (IF found < Limit THEN found ELSE Limit) = has(boundary - 1)
      BY <1>1, <1>2, <1>3, <1>5, <1>7, <3>1, <3>2
    <3>4. (IF found < Limit THEN found ELSE Limit) = has(start - 1)
      BY <2>2, <3>3
    <3>5. QED
      BY <3>4 DEF found, start
  <2>3. CASE start >= boundary + Window
    <3>1. found = 0
      BY <1>1, <1>4, <2>1, <2>3
    <3>2. start - 1 \in Int /\ \A i \in DOMAIN next : next[i] <= start - 1
      <4>1. \A i \in DOMAIN next : next[i] \in Nat
        <5>1. next \in Seq(Nat)
          BY <1>6
        <5>2. QED
          BY <5>1
      <4>2. QED
        BY <1>1, <1>6, <2>1, <2>3, <4>1
    <3>3. has(start - 1) = 0
      BY <1>6, <3>2, NoneLater DEF has
    <3> HIDE DEF found
    <3>4. (IF found < Limit THEN found ELSE Limit) = has(start - 1)
      BY <1>1, <3>1, <3>3
    <3>5. QED
      BY <3>4 DEF found, start
  <2>4. QED
    BY <2>1, <2>2, <2>3
<1>11. CountsTheWindow(after.state, next, now)
  BY <1>10 DEF CountsTheWindow, has
<1>12. QED
  BY <1>9, <1>11 DEF after, next

(* The sliding counter counts the admissions of two windows.               *)
LEMMA SlidingCounterMirrors ==
    ASSUME NEW log \in Seq(Nat), NEW at \in Int, NEW now \in Nat,
           NEW state, Sound(state, now),
           at <= now, \A i \in DOMAIN log : log[i] <= at,
           CountsTwoWindows(state, log, at)
    PROVE  LET after == SC!EvaluateMemory(now, state, Limit, Window)
           IN  /\ after.result.allowed <=> SlidingCounterAdmits(log, now, Limit, Window)
               /\ CountsTwoWindows(after.state, Logged(log, now, after.result), now)
<1> DEFINE after == SC!EvaluateMemory(now, state, Limit, Window)
           rotated == SC!Rotate(now, state, Window)
           next == Logged(log, now, after.result)
           boundary == now - (now % Window)
           had(c) == Cardinality(Later(log, c))
           has(c) == Cardinality(Later(next, c))
           weight == SC!Weighted(now, rotated, Window)
           counted == IF weight + rotated.count + 1 <= Limit THEN rotated.count + 1
                      ELSE rotated.count
<1>1. /\ Limit \in Nat \ {0} /\ Window \in Nat \ {0} /\ boundary \in Nat /\ boundary <= now
      /\ now < boundary + Window
  <2>1. Limit \in Nat \ {0} /\ Window \in Nat \ {0}
    BY MemoryAssumption
  <2>2. QED
    BY <2>1, WindowOf
<1>2. rotated \in States /\ rotated.count \in Nat /\ rotated.prevCount \in Nat
  <2>1. now \in 0 .. now
    OBVIOUS
  <2>2. rotated \in States
    BY <2>1, SlidingCounterRotates DEF Sound
  <2>3. QED
    BY <2>2, StateFields
<1>3. /\ rotated.lastUpdate = boundary
      /\ rotated.count = had(boundary - 1)
      /\ rotated.prevCount = had(boundary - Window - 1) - had(boundary - 1)
  BY DEF CountsTwoWindows
<1>4. /\ after.state = [rotated EXCEPT !.count = counted]
      /\ after.result.allowed <=> weight + rotated.count + 1 <= Limit
  BY DEF SC!EvaluateMemory, SC!Evaluation
<1>5. /\ next \in Seq(Nat)
      /\ \A i \in DOMAIN next : next[i] <= now
      /\ \A c \in Int : /\ had(c) \in Nat
                        /\ after.result.allowed /\ now > c => has(c) = had(c) + 1
                        /\ ~after.result.allowed \/ ~(now > c) => has(c) = had(c)
  BY LoggedSince
<1>6. AdmittedIn(log, boundary, now) = rotated.count
  <2>1. \A i \in DOMAIN log : log[i] \in Int /\ log[i] <= now
    OBVIOUS
  <2> HIDE DEF boundary, rotated
  <2>2. AdmittedIn(log, boundary, now) = had(boundary - 1)
    <3>1. Cardinality({i \in DOMAIN log : log[i] \in boundary .. now})
             = Cardinality(Later(log, boundary - 1))
      <4>1. boundary \in Int /\ now \in Int /\ \A i \in DOMAIN log : log[i] <= now
        BY <1>1, <2>1
      <4>2. QED
        BY <4>1, CountedFrom, Zenon
    <3>2. QED
      BY <3>1 DEF AdmittedIn
  <2>3. QED
    BY <1>3, <2>2
<1>7. AdmittedIn(log, boundary - Window, boundary - 1) = rotated.prevCount
  <2> DEFINE from == boundary - Window
             to == boundary - 1
  <2>1. from \in Int /\ to \in Int /\ from <= to + 1
    BY <1>1
  <2> HIDE DEF from, to
  <2>2. AdmittedIn(log, from, to) = had(from - 1) - had(to)
    BY <2>1, CountedBetween DEF AdmittedIn
  <2>3. QED
    BY <1>3, <2>2 DEF from, to
<1>8. weight = (rotated.prevCount * (Window - (now - boundary))) \div Window
  <2> DEFINE share == Window - (now - boundary)
  <2>1. share \in Int /\ ~(share < 0)
    BY <1>1
  <2> HIDE DEF rotated
  <2>2. weight = (rotated.prevCount * SC!NonNegative(share)) \div Window
    BY <1>3 DEF SC!Weighted
  <2> HIDE DEF share
  <2>3. SC!NonNegative(share) = share
    BY <2>1 DEF SC!NonNegative
  <2>4. QED
    BY <2>2, <2>3 DEF share
<1>9. weight \in Int
  <2> DEFINE product == rotated.prevCount * (Window - (now - boundary))
  <2>1. product \in Int
    BY <1>1, <1>2
  <2>2. weight = product \div Window
    BY <1>8
  <2> HIDE DEF product, weight
  <2>3. QED
    BY <1>1, <2>1, <2>2
<1> HIDE DEF after, next, weight, rotated, had, has
<1>10. after.result.allowed <=> SlidingCounterAdmits(log, now, Limit, Window)
  <2>1. SlidingCounterAdmits(log, now, Limit, Window) <=> weight + rotated.count < Limit
    BY <1>6, <1>7, <1>8 DEF SlidingCounterAdmits, Truncate
  <2>2. weight + rotated.count < Limit <=> weight + rotated.count + 1 <= Limit
    BY <1>1, <1>2, <1>9
  <2>3. QED
    BY <1>4, <2>1, <2>2
<1>11. /\ after.state \in States /\ after.state.lastUpdate = boundary
       /\ after.state.count = has(boundary - 1)
       /\ after.state.prevCount = has(boundary - Window - 1) - has(boundary - 1)
  <2> DEFINE a == boundary - 1
             b == boundary - Window - 1
  <2>1. counted \in Nat
    BY <1>2
  <2>2. a \in Int /\ b \in Int /\ now > a /\ now > b
    BY <1>1
  <2> HIDE DEF a, b
  <2>3. had(a) \in Nat /\ had(b) \in Nat
    BY <1>5, <2>2, Zenon
  <2>4. /\ after.result.allowed => has(a) = had(a) + 1 /\ has(b) = had(b) + 1
        /\ ~after.result.allowed => has(a) = had(a) /\ has(b) = had(b)
    BY <1>5, <2>2, Zenon
  <2>5. /\ after.result.allowed => counted = rotated.count + 1
        /\ ~after.result.allowed => counted = rotated.count
    BY <1>4
  <2>6. rotated.count = had(a) /\ rotated.prevCount = had(b) - had(a)
    BY <1>3 DEF a, b
  <2> HIDE DEF counted
  <2>7. counted = has(a) /\ rotated.prevCount = has(b) - has(a)
    BY <2>3, <2>4, <2>5, <2>6
  <2> HIDE DEF boundary
  <2>8. /\ after.state \in States /\ after.state.lastUpdate = boundary
        /\ after.state.count = counted /\ after.state.prevCount = rotated.prevCount
    BY <1>2, <1>3, <1>4, <2>1 DEF States
  <2>9. QED
    BY <2>7, <2>8 DEF a, b
<1> HIDE DEF boundary
<1>12. ASSUME NEW t \in Nat, t >= now
       PROVE  LET start == t - (t % Window)
                  turned == SC!Rotate(t, after.state, Window)
              IN  /\ turned.lastUpdate = start
                  /\ turned.count = has(start - 1)
                  /\ turned.prevCount = has(start - Window - 1) - has(start - 1)
  <2> DEFINE start == t - (t % Window)
             turned == SC!Rotate(t, after.state, Window)
             age == t - boundary
             Moved(prev) == [after.state EXCEPT !.prevCount = prev, !.count = 0,
                                                !.lastUpdate = start]
  <2>1. /\ start \in Nat
        /\ age < Window => start = boundary
        /\ age >= Window => start >= boundary + Window
        /\ age >= Window /\ age < 2 * Window => start = boundary + Window
        /\ age >= 2 * Window => start >= boundary + 2 * Window
    <3>1. now <= t
      BY <1>12
    <3>2. QED
      BY <3>1, WindowsOf DEF boundary
  <2>2. turned = IF age >= 2 * Window THEN Moved(0)
                 ELSE IF age >= Window THEN Moved(after.state.count) ELSE after.state
    <3>1. after.state.lastUpdate # SC!NoTime
      BY <1>1, <1>11 DEF SC!NoTime
    <3>2. QED
      BY <1>11, <3>1 DEF SC!Rotate, SC!Truncate
  <2>3. age \in Nat
    BY <1>1, <1>12
  <2>4. \A prev : /\ Moved(prev).lastUpdate = start /\ Moved(prev).count = 0
                  /\ Moved(prev).prevCount = prev
    BY <1>11 DEF States
  <2>5. ASSUME NEW c \in Int, c >= now PROVE has(c) = 0
    <3>1. \A i \in DOMAIN next : next[i] <= c
      <4>1. \A i \in DOMAIN next : next[i] \in Nat
        <5>1. next \in Seq(Nat)
          BY <1>5
        <5>2. QED
          BY <5>1
      <4>2. QED
        BY <1>5, <2>5, <4>1
    <3>2. QED
      BY <1>5, <3>1, NoneLater DEF has
  <2> HIDE DEF start, turned, age, Moved
  <2>6. CASE age < Window
    <3>1. turned = after.state /\ start = boundary
      BY <1>1, <2>1, <2>2, <2>3, <2>6
    <3>2. QED
      BY <1>11, <3>1 DEF start, turned
  <2>7. CASE age >= Window /\ age < 2 * Window
    <3>1. turned = Moved(after.state.count) /\ start = boundary + Window
      BY <1>1, <2>1, <2>2, <2>3, <2>7
    <3>2. start - 1 \in Int /\ start - 1 >= now /\ start - Window - 1 = boundary - 1
      BY <1>1, <3>1
    <3>3. has(start - 1) = 0 /\ has(start - Window - 1) = has(boundary - 1)
      BY <2>5, <3>2
    <3>4. turned.prevCount = has(start - Window - 1) - has(start - 1)
      <4>1. turned.prevCount = has(boundary - 1) /\ has(boundary - 1) \in Nat
        BY <1>11, <2>4, <3>1, StateFields
      <4>2. QED
        BY <3>3, <4>1
    <3>5. QED
      BY <2>4, <3>1, <3>3, <3>4 DEF start, turned
  <2>8. CASE age >= 2 * Window
    <3>1. turned = Moved(0) /\ start >= boundary + 2 * Window
      BY <2>1, <2>2, <2>8
    <3>2. /\ start - 1 \in Int /\ start - 1 >= now
          /\ start - Window - 1 \in Int /\ start - Window - 1 >= now
      BY <1>1, <2>1, <3>1
    <3>3. has(start - 1) = 0 /\ has(start - Window - 1) = 0
      BY <2>5, <3>2
    <3>4. QED
      BY <2>4, <3>1, <3>3 DEF start, turned
  <2>9. age < Window \/ (age >= Window /\ age < 2 * Window) \/ age >= 2 * Window
    BY <1>1, <2>3
  <2>10. QED
    BY <2>6, <2>7, <2>8, <2>9
<1>13. CountsTwoWindows(after.state, next, now)
  BY <1>12 DEF CountsTwoWindows, has
<1>14. QED
  BY <1>10, <1>13 DEF after, next

(* Where a trimmed log starts.                                             *)
LEMMA TrimStarts ==
    ASSUME NEW log \in Seq(Nat), NEW cutoff \in Int
    PROVE  \E first \in 1 .. Len(log) + 1 :
              /\ SL!Trim(log, cutoff) = SubSeq(log, first, Len(log))
              /\ \A j \in DOMAIN log : j < first => log[j] <= cutoff
              /\ first <= Len(log) => log[first] > cutoff
<1> DEFINE fresh == {i \in DOMAIN log : log[i] > cutoff}
           first == IF fresh = {} THEN Len(log) + 1
                    ELSE CHOOSE i \in fresh : \A j \in fresh : i <= j
           n == Len(log)
<1>1. SL!Trim(log, cutoff) = SubSeq(log, first, n)
  BY DEF SL!Trim
<1>2. /\ n \in Nat /\ DOMAIN log = 1 .. n /\ fresh \subseteq 1 .. n
      /\ \A j \in 1 .. n : log[j] \in Nat
  OBVIOUS
<1>3. CASE fresh = {}
  <2>1. first = n + 1
    BY <1>3
  <2>2. \A j \in DOMAIN log : log[j] <= cutoff
    BY <1>2, <1>3
  <2> HIDE DEF first, fresh
  <2>3. first \in 1 .. n + 1 /\ ~(first <= n)
    BY <1>2, <2>1
  <2>4. QED
    BY <1>1, <2>2, <2>3
<1>4. CASE fresh # {}
  <2>1. \E i \in fresh : \A j \in fresh : i <= j
    <3>1. fresh \subseteq Nat
      BY <1>2
    <3> HIDE DEF fresh
    <3>2. QED
      BY <1>4, <3>1, LeastIndex
  <2>2. first \in fresh /\ \A j \in fresh : first <= j
    BY <1>4, <2>1
  <2>3. log[first] > cutoff
    BY <2>2
  <2> HIDE DEF first
  <2>4. first \in 1 .. n + 1
    BY <1>2, <2>2
  <2>5. \A j \in DOMAIN log : j < first => log[j] <= cutoff
    <3>1. SUFFICES ASSUME NEW j \in DOMAIN log, j < first, ~(log[j] <= cutoff) PROVE FALSE
      OBVIOUS
    <3>2. j \in fresh
      BY <1>2, <3>1
    <3> HIDE DEF fresh
    <3>3. QED
      BY <1>2, <2>2, <2>4, <3>1, <3>2
  <2>6. QED
    BY <1>1, <2>3, <2>4, <2>5
<1>5. QED
  BY <1>3, <1>4

LEMMA TrimLength ==
    ASSUME NEW log \in Seq(Nat), NEW cutoff \in Int, NEW first \in 1 .. Len(log) + 1,
           \A j \in DOMAIN log : j < first => log[j] <= cutoff,
           first <= Len(log) => log[first] > cutoff
    PROVE  Len(SL!Trim(log, cutoff)) = Len(log) - first + 1
<1> DEFINE n == Len(log)
<1>1. n \in Nat /\ DOMAIN log = 1 .. n /\ \A j \in 1 .. n : log[j] \in Nat
  OBVIOUS
<1>2. PICK start \in 1 .. n + 1 :
              /\ SL!Trim(log, cutoff) = SubSeq(log, start, n)
              /\ \A j \in DOMAIN log : j < start => log[j] <= cutoff
              /\ start <= n => log[start] > cutoff
  BY TrimStarts
<1>3. start = first
  <2> HIDE DEF n
  <2>1. ASSUME start < first PROVE FALSE
    <3>1. start \in DOMAIN log
      BY <1>1, <2>1 DEF n
    <3>2. QED
      BY <1>1, <1>2, <2>1, <3>1
  <2>2. ASSUME first < start PROVE FALSE
    <3>1. first \in DOMAIN log /\ first <= Len(log)
      BY <1>1, <1>2, <2>2 DEF n
    <3>2. QED
      BY <1>1, <1>2, <2>2, <3>1
  <2>3. QED
    BY <1>1, <1>2, <2>1, <2>2 DEF n
<1>4. Len(SubSeq(log, first, n)) = n - first + 1
  <2>1. first \in 1 .. n + 1
    OBVIOUS
  <2>2. QED
    BY <1>1, <2>1
<1>5. QED
  BY <1>2, <1>3, <1>4

(* Trimming in two steps is trimming once.                                 *)
LEMMA TrimsFurther ==
    ASSUME NEW log \in Seq(Nat), NEW sooner \in Int, NEW later \in Int, sooner <= later
    PROVE  Len(SL!Trim(SL!Trim(log, sooner), later)) = Len(SL!Trim(log, later))
<1> DEFINE n == Len(log)
           live == SL!Trim(log, sooner)
           m == Len(live)
<1>1. n \in Nat /\ DOMAIN log = 1 .. n /\ \A j \in 1 .. n : log[j] \in Nat
  OBVIOUS
<1>2. PICK start \in 1 .. n + 1 :
              /\ live = SubSeq(log, start, n)
              /\ \A j \in DOMAIN log : j < start => log[j] <= sooner
  BY TrimStarts
<1>3. /\ live \in Seq(Nat) /\ m = n - start + 1
      /\ \A j \in 1 .. m : live[j] = log[start + j - 1]
  BY <1>1, <1>2
<1> HIDE DEF live
<1>4. PICK first \in 1 .. m + 1 :
              /\ SL!Trim(live, later) = SubSeq(live, first, m)
              /\ \A j \in DOMAIN live : j < first => live[j] <= later
              /\ first <= m => live[first] > later
  BY <1>3, TrimStarts
<1>5. Len(SL!Trim(live, later)) = m - first + 1
  BY <1>3, <1>4, TrimLength
<1> DEFINE whole == start + first - 1
<1>6. /\ m \in Nat /\ DOMAIN live = 1 .. m
  BY <1>3
<1> HIDE DEF m, n
<1>7. whole \in 1 .. n + 1 /\ whole <= n => first <= m
  BY <1>1, <1>2, <1>3, <1>4, <1>6
<1>8. whole \in 1 .. n + 1
  BY <1>1, <1>2, <1>3, <1>4, <1>6
<1>9. ASSUME NEW j \in DOMAIN log, j < whole
      PROVE  log[j] <= later
  <2>1. CASE j < start
    BY <1>1, <1>2, <1>9, <2>1
  <2>2. CASE j >= start
    <3> DEFINE k == j - start + 1
    <3>1. k \in 1 .. m /\ k < first /\ start + k - 1 = j
      BY <1>1, <1>2, <1>3, <1>6, <1>9, <2>2
    <3> HIDE DEF k
    <3>2. live[k] <= later /\ live[k] = log[j]
      BY <1>3, <1>4, <1>6, <3>1
    <3>3. QED
      BY <3>2
  <2>3. QED
    BY <1>1, <1>2, <2>1, <2>2
<1>10. whole <= n => log[whole] > later
  <2>1. SUFFICES ASSUME whole <= n PROVE log[whole] > later
    OBVIOUS
  <2>2. first <= m /\ first \in 1 .. m
    BY <1>4, <1>6, <1>7, <1>8, <2>1
  <2>3. live[first] = log[whole]
    BY <1>3, <2>2
  <2>4. QED
    BY <1>4, <2>2, <2>3
<1>11. Len(SL!Trim(log, later)) = n - whole + 1
  <2> HIDE DEF whole
  <2>1. QED
    BY <1>8, <1>9, <1>10, TrimLength DEF n
<1>12. m - first + 1 = n - whole + 1
  BY <1>1, <1>2, <1>3, <1>4, <1>6
<1>13. QED
  BY <1>5, <1>11, <1>12 DEF live

(* A latest timestamp stays if it is after the cutoff; else none does.     *)
LEMMA TrimsAppended ==
    ASSUME NEW log \in Seq(Nat), NEW last \in Nat, NEW cutoff \in Int,
           \A j \in DOMAIN log : log[j] <= last
    PROVE  /\ last > cutoff =>
                 Len(SL!Trim(Append(log, last), cutoff)) = Len(SL!Trim(log, cutoff)) + 1
           /\ ~(last > cutoff) =>
                 Len(SL!Trim(Append(log, last), cutoff)) = 0 /\ Len(SL!Trim(log, cutoff)) = 0
<1> DEFINE n == Len(log)
           next == Append(log, last)
<1>1. /\ n \in Nat /\ DOMAIN log = 1 .. n /\ \A j \in 1 .. n : log[j] \in Nat
      /\ next \in Seq(Nat) /\ Len(next) = n + 1 /\ DOMAIN next = 1 .. n + 1
      /\ next[n + 1] = last /\ \A j \in 1 .. n : next[j] = log[j]
  OBVIOUS
<1>2. \A j \in 1 .. n : log[j] <= last
  BY <1>1
<1>3. PICK first \in 1 .. n + 1 :
              /\ \A j \in DOMAIN log : j < first => log[j] <= cutoff
              /\ first <= n => log[first] > cutoff
  BY TrimStarts
<1>4. Len(SL!Trim(log, cutoff)) = n - first + 1
  BY <1>3, TrimLength
<1> HIDE DEF next
<1>5. CASE last > cutoff
  <2>1. /\ first \in 1 .. Len(next) + 1
        /\ \A j \in DOMAIN next : j < first => next[j] <= cutoff
        /\ first <= Len(next) => next[first] > cutoff
    <3> HIDE DEF n
    <3>1. QED
      BY <1>1, <1>3, <1>5
  <2>2. Len(SL!Trim(next, cutoff)) = Len(next) - first + 1
    BY <1>1, <2>1, TrimLength
  <2> HIDE DEF n
  <2>3. Len(SL!Trim(next, cutoff)) = Len(SL!Trim(log, cutoff)) + 1
    BY <1>1, <1>3, <1>4, <2>2
  <2>4. QED
    BY <1>5, <2>3 DEF next
<1>6. CASE ~(last > cutoff)
  <2> DEFINE end == n + 2
  <2>1. /\ end \in 1 .. Len(next) + 1
        /\ \A j \in DOMAIN next : j < end => next[j] <= cutoff
        /\ end <= Len(next) => next[end] > cutoff
    <3> HIDE DEF n
    <3>1. QED
      BY <1>1, <1>2, <1>6
  <2>2. Len(SL!Trim(next, cutoff)) = Len(next) - end + 1
    <3> HIDE DEF end
    <3>1. QED
      BY <1>1, <2>1, TrimLength
  <2>3. first = n + 1
    <3> HIDE DEF n
    <3>1. SUFFICES ASSUME first <= n PROVE FALSE
      BY <1>1, <1>3
    <3>2. log[first] > cutoff /\ log[first] <= last /\ log[first] \in Nat
      BY <1>1, <1>2, <1>3, <3>1
    <3>3. QED
      BY <1>6, <3>2
  <2> HIDE DEF n
  <2>4. Len(SL!Trim(next, cutoff)) = 0 /\ Len(SL!Trim(log, cutoff)) = 0
    BY <1>1, <1>4, <2>2, <2>3
  <2>5. QED
    BY <1>6, <2>4 DEF next
<1>7. QED
  BY <1>5, <1>6

LEMMA TrimKeepsBounds ==
    ASSUME NEW log \in Seq(Nat), NEW cutoff \in Int, NEW last \in Nat,
           \A j \in DOMAIN log : log[j] <= last
    PROVE  LET live == SL!Trim(log, cutoff)
           IN  live \in Seq(Nat) /\ \A j \in DOMAIN live : live[j] <= last
<1> DEFINE n == Len(log)
           live == SL!Trim(log, cutoff)
<1>1. n \in Nat /\ DOMAIN log = 1 .. n /\ \A j \in 1 .. n : log[j] \in Nat /\ log[j] <= last
  OBVIOUS
<1>2. PICK first \in 1 .. n + 1 : live = SubSeq(log, first, n)
  BY TrimStarts
<1>3. /\ live \in Seq(Nat) /\ DOMAIN live = 1 .. n - first + 1
      /\ \A j \in 1 .. n - first + 1 : live[j] = log[first + j - 1]
  BY <1>1, <1>2
<1> HIDE DEF live, n
<1>4. ASSUME NEW j \in DOMAIN live PROVE live[j] <= last
  <2>1. first + j - 1 \in 1 .. n /\ live[j] = log[first + j - 1]
    BY <1>1, <1>3
  <2>2. QED
    BY <1>1, <2>1
<1>5. QED
  BY <1>3, <1>4 DEF live

(* The sliding log keeps the admissions of the window, cut to milliseconds.*)
LEMMA SlidingLogMirrors ==
    ASSUME NEW log \in Seq(Nat), NEW state \in States, NEW at \in Int, NEW now \in Nat,
           at <= now, \A i \in DOMAIN log : log[i] <= at,
           LogsTheWindow(state, log, at)
    PROVE  LET after == SL!EvaluateMemory(now, state, Limit, Window)
           IN  /\ after.result.allowed <=> SlidingLogAdmits(log, now, Limit, Window)
               /\ LogsTheWindow(after.state, Logged(log, now, after.result), now)
<1> DEFINE after == SL!EvaluateMemory(now, state, Limit, Window)
           next == Logged(log, now, after.result)
           kept == state.timestamps
           nowMs == now \div Milli
           windowMs == Window \div Milli
           cutoff == nowMs - windowMs
           live == SL!Trim(kept, cutoff)
           had(c) == Cardinality(Later(log, (c + 1) * Milli - 1))
           has(c) == Cardinality(Later(next, (c + 1) * Milli - 1))
<1>1. Milli \in Nat \ {0} /\ Limit \in Nat \ {0} /\ Window \in Nat \ {0}
  BY AlgorithmAssumption, MemoryAssumption
<1>2. nowMs \in Nat /\ windowMs \in Nat /\ cutoff \in Int
      /\ nowMs * Milli <= now /\ (nowMs + 1) * Milli > now
  <2>1. nowMs \in Nat /\ windowMs \in Nat
    BY <1>1
  <2>2. (nowMs + 1) * Milli > now
    BY <1>1, QuotientAbove
  <2>3. now = Milli * nowMs + (now % Milli) /\ now % Milli \in 0 .. Milli - 1
    BY <1>1, DivMod
  <2> HIDE DEF nowMs, windowMs
  <2>4. Milli * nowMs = nowMs * Milli /\ nowMs * Milli \in Int
    BY <1>1, <2>1
  <2> DEFINE p == nowMs * Milli
  <2> HIDE DEF p
  <2>5. p <= now
    BY <1>1, <2>3, <2>4 DEF p
  <2>6. QED
    BY <2>1, <2>2, <2>5 DEF p
<1>3. kept \in Seq(Nat) /\ \A j \in DOMAIN kept : kept[j] <= nowMs
  <2>1. kept \in Seq(Nat)
    BY StateFields
  <2>2. ASSUME NEW j \in DOMAIN kept PROVE kept[j] <= nowMs
    <3> DEFINE ts == kept[j]
    <3>1. ts \in Nat /\ ts * Milli <= at
      BY <2>1 DEF LogsTheWindow
    <3>2. ts * Milli \in Int
      BY <1>1, <3>1
    <3> HIDE DEF ts
    <3>3. ts * Milli <= now
      BY <3>1, <3>2
    <3>4. ts <= nowMs
      BY <1>1, <3>1, <3>3, QuotientAtLeast
    <3>5. QED
      BY <3>4 DEF ts
  <2>3. QED
    BY <2>1, <2>2
<1>4. ASSUME NEW t \in Nat, t >= at
      PROVE  Len(SL!Trim(kept, t \div Milli - windowMs)) = had(t \div Milli - windowMs)
  BY <1>4 DEF LogsTheWindow
<1>5. /\ after.result.allowed <=> Len(live) < Limit
      /\ after.state = [state EXCEPT !.timestamps =
                           IF Len(live) < Limit THEN Append(live, nowMs) ELSE live]
  BY DEF SL!EvaluateMemory, SL!Evaluation
<1>6. /\ next \in Seq(Nat)
      /\ \A c \in Int :
            /\ Cardinality(Later(log, c)) \in Nat
            /\ after.result.allowed /\ now > c =>
                  Cardinality(Later(next, c)) = Cardinality(Later(log, c)) + 1
            /\ ~after.result.allowed \/ ~(now > c) =>
                  Cardinality(Later(next, c)) = Cardinality(Later(log, c))
  BY LoggedSince
<1> HIDE DEF after, next, kept, nowMs, windowMs
<1>7. Len(live) = had(cutoff)
  BY <1>4 DEF nowMs
<1>8. after.result.allowed <=> SlidingLogAdmits(log, now, Limit, Window)
  <2> DEFINE from == (cutoff + 1) * Milli
  <2>1. from \in Int
    BY <1>1, <1>2
  <2>2. \A i \in DOMAIN log : log[i] \in Int /\ log[i] <= now
    OBVIOUS
  <2>3. SlidingLogAdmits(log, now, Limit, Window) <=> AdmittedIn(log, from, now) < Limit
    BY DEF SlidingLogAdmits, nowMs, windowMs
  <2> HIDE DEF from, cutoff
  <2>4. AdmittedIn(log, from, now) = Cardinality(Later(log, from - 1))
    <3>1. Cardinality({i \in DOMAIN log : log[i] \in from .. now})
             = Cardinality(Later(log, from - 1))
      <4>1. from \in Int /\ now \in Int /\ \A i \in DOMAIN log : log[i] <= now
        BY <2>1, <2>2
      <4>2. QED
        BY <4>1, CountedFrom, Zenon
    <3>2. QED
      BY <3>1 DEF AdmittedIn
  <2>5. AdmittedIn(log, from, now) = had(cutoff)
    BY <2>4 DEF from
  <2> HIDE DEF had
  <2>6. QED
    BY <1>5, <1>7, <2>3, <2>5
<1> DEFINE logged == IF after.result.allowed THEN Append(live, nowMs) ELSE live
<1>9. after.state.timestamps = logged
  BY <1>5 DEF States
<1>10. live \in Seq(Nat) /\ \A j \in DOMAIN live : live[j] <= nowMs
  BY <1>2, <1>3, TrimKeepsBounds
<1>11. ASSUME NEW j \in DOMAIN logged PROVE logged[j] * Milli <= now
  <2> DEFINE ts == logged[j]
  <2>1. ts \in Nat /\ ts <= nowMs
    <3> HIDE DEF live
    <3>1. CASE logged = live
      BY <1>10, <1>11, <3>1
    <3>2. CASE logged = Append(live, nowMs)
      <4> DEFINE m == Len(live)
      <4>1. /\ m \in Nat /\ DOMAIN Append(live, nowMs) = 1 .. m + 1 /\ DOMAIN live = 1 .. m
            /\ Append(live, nowMs)[m + 1] = nowMs
            /\ \A i \in 1 .. m : Append(live, nowMs)[i] = live[i] /\ live[i] \in Nat
        BY <1>2, <1>10
      <4> HIDE DEF m, logged
      <4>2. j \in 1 .. m \/ j = m + 1
        BY <1>11, <3>2, <4>1
      <4>3. QED
        BY <1>2, <1>10, <3>2, <4>1, <4>2
    <3>3. QED
      BY <3>1, <3>2
  <2> HIDE DEF ts
  <2>2. ts * Milli <= nowMs * Milli
    BY <1>1, <1>2, <2>1, MultiplyLess
  <2> DEFINE a == ts * Milli
             b == nowMs * Milli
  <2>3. a \in Int /\ b \in Int /\ a <= b /\ b <= now
    BY <1>1, <1>2, <2>1, <2>2
  <2> HIDE DEF a, b
  <2>4. a <= now
    BY <2>3
  <2>5. QED
    BY <2>4 DEF a, ts
<1>12. ASSUME NEW t \in Nat, t >= now
       PROVE  LET later == t \div Milli - windowMs
              IN  Len(SL!Trim(logged, later)) = has(later)
  <2> DEFINE tMs == t \div Milli
             later == tMs - windowMs
             c == (later + 1) * Milli - 1
  <2>1. tMs \in Nat /\ nowMs <= tMs
    <3>1. tMs \in Nat
      BY <1>1
    <3>2. nowMs * Milli <= t
      <4> DEFINE p == nowMs * Milli
      <4>1. p \in Int /\ p <= now
        BY <1>1, <1>2
      <4> HIDE DEF p
      <4>2. p <= t
        BY <1>12, <4>1
      <4>3. QED
        BY <4>2 DEF p
    <3>3. nowMs <= tMs
      BY <1>1, <1>2, <3>2, QuotientAtLeast
    <3>4. QED
      BY <3>1, <3>3
  <2>2. Len(SL!Trim(kept, later)) = had(later)
    BY <1>4, <1>12
  <2> HIDE DEF tMs
  <2>3. later \in Int /\ cutoff <= later /\ c \in Int
    BY <1>1, <1>2, <2>1
  <2> HIDE DEF cutoff
  <2>4. Len(SL!Trim(live, later)) = had(later)
    <3>1. cutoff \in Int
      BY <1>2
    <3> HIDE DEF later
    <3>2. Len(SL!Trim(live, later)) = Len(SL!Trim(kept, later))
      BY <1>3, <2>3, <3>1, TrimsFurther
    <3>3. QED
      BY <2>2, <3>2 DEF later
  <2> HIDE DEF later, live
  <2>5. /\ Cardinality(Later(log, c)) \in Nat
        /\ after.result.allowed /\ now > c =>
              Cardinality(Later(next, c)) = Cardinality(Later(log, c)) + 1
        /\ ~after.result.allowed \/ ~(now > c) =>
              Cardinality(Later(next, c)) = Cardinality(Later(log, c))
    BY <1>6, <2>3, Zenon
  <2>6. CASE ~after.result.allowed
    <3>1. Len(SL!Trim(logged, later)) = has(later)
      BY <2>4, <2>5, <2>6
    <3>2. QED
      BY <3>1 DEF later, tMs
  <2>7. CASE after.result.allowed /\ nowMs > later
    <3>1. now > c
      <4>1. (later + 1) * Milli <= nowMs * Milli
        BY <1>1, <1>2, <2>3, <2>7, MultiplyLess
      <4> DEFINE a == (later + 1) * Milli
                 b == nowMs * Milli
      <4>2. a \in Int /\ b \in Int /\ a <= b /\ b <= now
        BY <1>1, <1>2, <2>3, <4>1
      <4> HIDE DEF a, b
      <4>3. now > a - 1
        BY <4>2
      <4>4. QED
        BY <4>3 DEF a
    <3>2. Len(SL!Trim(Append(live, nowMs), later)) = Len(SL!Trim(live, later)) + 1
      BY <1>2, <1>10, <2>3, <2>7, TrimsAppended
    <3>3. Len(SL!Trim(logged, later)) = has(later)
      BY <2>4, <2>5, <2>7, <3>1, <3>2
    <3>4. QED
      BY <3>3 DEF later, tMs
  <2>8. CASE after.result.allowed /\ ~(nowMs > later)
    <3>1. ~(now > c)
      <4>1. (nowMs + 1) * Milli <= (later + 1) * Milli
        BY <1>1, <1>2, <2>3, <2>8, MultiplyLess
      <4> DEFINE a == (later + 1) * Milli
                 b == (nowMs + 1) * Milli
      <4>2. a \in Int /\ b \in Int /\ b <= a /\ b > now
        BY <1>1, <1>2, <2>3, <4>1
      <4> HIDE DEF a, b
      <4>3. ~(now > a - 1)
        BY <4>2
      <4>4. QED
        BY <4>3 DEF a
    <3>2. /\ Len(SL!Trim(Append(live, nowMs), later)) = 0
          /\ Len(SL!Trim(live, later)) = 0
      BY <1>2, <1>10, <2>3, <2>8, TrimsAppended
    <3>3. Len(SL!Trim(logged, later)) = has(later)
      BY <2>4, <2>5, <2>8, <3>1, <3>2
    <3>4. QED
      BY <3>3 DEF later, tMs
  <2>9. QED
    BY <2>6, <2>7, <2>8
<1> HIDE DEF logged, live
<1>13. LogsTheWindow(after.state, next, now)
  BY <1>9, <1>11, <1>12 DEF LogsTheWindow, windowMs
<1>14. QED
  BY <1>8, <1>13 DEF after, next

(* What a request in order finds in a bucket, and what it leaves.          *)
GivesExactly(state, at, now, after) ==
    \E held \in 0 .. Full :
        /\ \/ held = Full
           \/ held = Held(state) + (now - Reach(state, at)) * Rate
        /\ after.result.allowed <=> held >= TokenUnit
        /\ after.state.lastUpdate = now
        /\ Held(after.state) = IF after.result.allowed THEN held - TokenUnit ELSE held

LEMMA TokenBucketGivesExactly ==
    ASSUME NEW now \in Nat, NEW state, Sound(state, now), NEW at, strategy = "token_bucket"
    PROVE  GivesExactly(state, at, now, TB!EvaluateMemory(now, state, Limit, Window))
<1> DEFINE filled == TB!Refill(now, state, Limit, Window)
           after == TB!EvaluateMemory(now, state, Limit, Window)
           held == filled.tokens
<1>1. /\ TokenUnit \in Nat \ {0} /\ Full \in Nat /\ Rate \in Nat \ {0}
  BY BucketUnits
<1>2. filled \in States /\ filled.lastUpdate = now
  BY RefillIsCurrent
<1>3. held \in 0 .. Full /\ state \in States /\ state.lastUpdate \in Nat \cup {NoTime}
  BY <1>2, StateFields DEF Sound, Full
<1>4. held = Full \/ held = Held(state) + (now - Reach(state, at)) * Rate
  <2>1. CASE state.lastUpdate = NoTime
    <3>1. filled = [state EXCEPT !.tokens = Full, !.lastUpdate = now]
      BY <2>1 DEF TB!Refill, TB!Capacity, TB!NoTime, NoTime, Full
    <3>2. QED
      BY <1>3, <3>1 DEF States
  <2>2. CASE state.lastUpdate # NoTime /\ now - state.lastUpdate > 0
    <3> DEFINE gained == (now - state.lastUpdate) * Rate
    <3>1. filled = [state EXCEPT !.tokens = TB!Least(Full, state.tokens + gained),
                                 !.lastUpdate = now]
      BY <2>2 DEF TB!Refill, TB!Capacity, TB!FillRate, TB!NoTime, NoTime, Full, Rate
    <3>2. held = TB!Least(Full, state.tokens + gained)
      BY <1>3, <3>1 DEF States
    <3>3. Reach(state, at) = state.lastUpdate /\ Held(state) = state.tokens
      BY <2>2 DEF Reach, Held
    <3> HIDE DEF filled
    <3>4. QED
      BY <3>2, <3>3 DEF TB!Least
  <2>3. CASE state.lastUpdate # NoTime /\ ~(now - state.lastUpdate > 0)
    <3>1. filled = state
      BY <2>3 DEF TB!Refill, TB!NoTime, NoTime
    <3>2. Reach(state, at) = now /\ Held(state) = held
      BY <1>2, <2>3, <3>1 DEF Reach, Held
    <3> HIDE DEF filled
    <3>3. (now - now) * Rate = 0 /\ Held(state) \in Int
      BY <1>1, <1>3, <3>2
    <3>4. QED
      BY <3>2, <3>3
  <2>4. QED
    BY <2>1, <2>2, <2>3
<1>5. /\ after.result.allowed <=> held >= TokenUnit
      /\ after.state = [filled EXCEPT !.tokens = IF after.result.allowed THEN held - TokenUnit
                                                 ELSE held]
  BY DEF TB!EvaluateMemory, TB!Evaluation
<1> HIDE DEF after, filled
<1>6. /\ after.state.lastUpdate = now
      /\ after.state.tokens = IF after.result.allowed THEN held - TokenUnit ELSE held
  BY <1>2, <1>5 DEF States
<1>7. Held(after.state) = after.state.tokens
  BY <1>6 DEF Held, NoTime
<1> HIDE DEF held
<1>8. GivesExactly(state, at, now, after)
  BY <1>3, <1>4, <1>5, <1>6, <1>7 DEF GivesExactly
<1>9. QED
  BY <1>8 DEF after

LEMMA LeakyBucketGivesExactly ==
    ASSUME NEW now \in Nat, NEW state, Sound(state, now), NEW at, strategy = "leaky_bucket"
    PROVE  GivesExactly(state, at, now, LB!EvaluateMemory(now, state, Limit, Window))
<1> DEFINE drained == LB!Leak(now, state, Limit, Window)
           after == LB!EvaluateMemory(now, state, Limit, Window)
           level == drained.tokens
           held == Full - level
<1>1. /\ TokenUnit \in Nat \ {0} /\ Full \in Nat /\ Rate \in Nat \ {0} /\ TokenUnit <= Full
  BY BucketUnits
<1>2. drained \in States /\ drained.lastUpdate = now
  BY LeakIsCurrent
<1>3. level \in 0 .. Full /\ state \in States /\ state.lastUpdate \in Nat \cup {NoTime}
      /\ state.tokens \in 0 .. Full
  BY <1>2, StateFields DEF Sound, Full
<1>4. held = Full \/ held = Held(state) + (now - Reach(state, at)) * Rate
  <2>1. CASE state.lastUpdate = NoTime
    <3>1. drained = [state EXCEPT !.tokens = 0, !.lastUpdate = now]
      BY <2>1 DEF LB!Leak, LB!NoTime, NoTime
    <3>2. level = 0
      BY <1>3, <3>1 DEF States
    <3>3. QED
      BY <1>1, <3>2
  <2>2. CASE state.lastUpdate # NoTime /\ now - state.lastUpdate > 0
    <3> DEFINE gained == (now - state.lastUpdate) * Rate
    <3>1. drained = [state EXCEPT !.tokens = LB!NonNegative(state.tokens - gained),
                                  !.lastUpdate = now]
      BY <2>2 DEF LB!Leak, LB!LeakRate, LB!NoTime, NoTime, Rate
    <3>2. level = LB!NonNegative(state.tokens - gained)
      BY <1>3, <3>1 DEF States
    <3>3. Reach(state, at) = state.lastUpdate /\ Held(state) = Full - state.tokens
      BY <2>2 DEF Reach, Held
    <3>4. gained \in Int
      <4>1. now - state.lastUpdate \in Int
        BY <1>3, <2>2
      <4>2. QED
        BY <1>1, <4>1
    <3> HIDE DEF drained, gained
    <3>5. held = Full \/ held = Full - state.tokens + gained
      BY <1>1, <1>3, <3>2, <3>4 DEF LB!NonNegative
    <3>6. Full - state.tokens + gained = (Full - state.tokens) + gained
      BY <1>1, <1>3, <3>4
    <3>7. QED
      BY <3>3, <3>5, <3>6 DEF gained
  <2>3. CASE state.lastUpdate # NoTime /\ ~(now - state.lastUpdate > 0)
    <3>1. drained = state
      BY <2>3 DEF LB!Leak, LB!NoTime, NoTime
    <3>2. Reach(state, at) = now /\ Held(state) = held
      BY <1>2, <2>3, <3>1 DEF Reach, Held
    <3> HIDE DEF drained
    <3>3. (now - now) * Rate = 0 /\ Held(state) \in Int
      BY <1>1, <1>3, <3>2
    <3>4. QED
      BY <3>2, <3>3
  <2>4. QED
    BY <2>1, <2>2, <2>3
<1>5. /\ after.result.allowed <=> level + TokenUnit <= Full
      /\ after.state = [drained EXCEPT !.tokens = IF after.result.allowed THEN level + TokenUnit
                                                  ELSE level]
  BY DEF LB!EvaluateMemory, LB!Evaluation, LB!Capacity, Full
<1> HIDE DEF after, drained
<1>6. /\ after.state.lastUpdate = now
      /\ after.state.tokens = IF after.result.allowed THEN level + TokenUnit ELSE level
  BY <1>2, <1>5 DEF States
<1>7. Held(after.state) = Full - after.state.tokens
  BY <1>6 DEF Held, NoTime
<1> HIDE DEF level
<1>8. /\ held \in 0 .. Full
      /\ after.result.allowed <=> held >= TokenUnit
      /\ Held(after.state) = IF after.result.allowed THEN held - TokenUnit ELSE held
  BY <1>1, <1>3, <1>5, <1>6, <1>7
<1> HIDE DEF held
<1>9. GivesExactly(state, at, now, after)
  BY <1>4, <1>6, <1>8 DEF GivesExactly
<1>10. QED
  BY <1>9 DEF after

(* So a bucket that fits its log, and is tight, gives by the documented    *)
(* rate, and stays tight.                                                  *)
LEMMA BucketMirrors ==
    ASSUME NEW log \in Seq(Nat), NEW at \in Int, NEW now \in Nat, at <= now,
           \A i \in DOMAIN log : log[i] <= at,
           NEW state, Held(state) \in 0 .. Full,
           Reach(state, at) \in Int, Reach(state, at) <= now,
           Fits(log, Held(state), Reach(state, at)),
           Tight(log, Held(state), Reach(state, at)),
           NEW after, Gives(state, at, now, after), GivesExactly(state, at, now, after)
    PROVE  /\ after.result.allowed <=> WithinRate(log, now, Limit, Window, 1)
           /\ Tight(Logged(log, now, after.result), Held(after.state), now)
<1> DEFINE reach == Reach(state, at)
           had == Held(state)
           left == Held(after.state)
<1>1. /\ TokenUnit \in Nat \ {0} /\ Full \in Nat /\ Rate \in Nat \ {0} /\ Window \in Nat \ {0}
      /\ TokenUnit <= Full /\ Limit \in Nat \ {0} /\ TokenUnit % Window = 0
  BY BucketUnits, MemoryAssumption
<1>2. PICK held \in 0 .. Full :
        /\ held = Full \/ held = had + (now - reach) * Rate
        /\ after.result.allowed <=> held >= TokenUnit
        /\ after.state.lastUpdate = now
        /\ left = IF after.result.allowed THEN held - TokenUnit ELSE held
  BY DEF GivesExactly
<1>3. held <= had + (now - reach) * Rate
  <2>1. PICK other \in Nat, given \in 0 .. Full :
          /\ given <= had + (other - reach) * Rate
          /\ after.state.lastUpdate = other
          /\ left = IF after.result.allowed THEN given - TokenUnit ELSE given
    BY DEF Gives
  <2> HIDE DEF left
  <2>2. given = held
    BY <1>1, <1>2, <2>1
  <2>3. other = now
    BY <1>2, <2>1
  <2>4. QED
    BY <2>1, <2>2, <2>3
<1>4. /\ had \in Int /\ had <= Full /\ reach \in Int /\ reach <= now /\ now \in Int
      /\ held \in Int /\ held <= Full
  BY <1>1
<1>5. \A i \in DOMAIN log : log[i] <= now
  <2>1. \A i \in DOMAIN log : log[i] \in Int
    OBVIOUS
  <2>2. QED
    BY <2>1
<1> HIDE DEF reach, had, left
<1>6. Fits(log, held, now)
  <2>1. Fits(log, had, reach)
    BY DEF had, reach
  <2>2. QED
    BY <1>1, <1>3, <1>4, <2>1, WithinLater DEF Fits
<1>7. Tight(log, held, now)
  <2>1. Tight(log, had, reach)
    BY DEF had, reach
  <2>2. QED
    BY <1>1, <1>2, <1>4, <1>5, <2>1, ExactLater DEF Tight
<1>8. after.result.allowed <=> WithinRate(log, now, Limit, Window, 1)
  <2>1. held >= TokenUnit
           <=> \A i \in DOMAIN log :
                  (Len(log) - i + 1 + 1) * Window
                     <= Limit * (Window + (now - Highest(log, i)))
    <3>1. /\ Within(log, held, now, TokenUnit, Limit * TokenUnit,
                    Limit * (TokenUnit \div Window))
          /\ Exact(log, held, now, TokenUnit, Limit * TokenUnit,
                   Limit * (TokenUnit \div Window))
      BY <1>6, <1>7 DEF Fits, Tight, Full, Rate
    <3>2. QED
      BY <1>1, <1>4, <3>1, RoomIsTheRate
  <2>2. ASSUME NEW i \in DOMAIN log
        PROVE  Window + now - LatestBy(log, i) = Window + (now - Highest(log, i))
    <3>1. Highest(log, i) \in Nat
      BY <1>4, <1>5, HighestIs
    <3>2. LatestBy(log, i) = Highest(log, i)
      BY DEF LatestBy, Highest
    <3>3. QED
      BY <1>1, <1>4, <3>1, <3>2
  <2>3. QED
    BY <1>2, <2>1, <2>2 DEF WithinRate
<1>9. Tight(Logged(log, now, after.result), left, now)
  <2>1. CASE after.result.allowed
    <3>1. Tight(Append(log, now), held - TokenUnit, now)
      BY <1>1, <1>4, <1>5, <1>7, ExactOneMore DEF Tight
    <3>2. QED
      BY <1>2, <2>1, <3>1 DEF Logged, Grown
  <2>2. CASE ~after.result.allowed
    BY <1>2, <1>7, <2>2 DEF Logged, Grown
  <2>3. QED
    BY <2>1, <2>2
<1>10. QED
  BY <1>8, <1>9 DEF left

-------------------------------------------------------------------------------
(* The log that a state mirrors, under the strategy that is in use.        *)
LEMMA EvaluateMirrors ==
    ASSUME NEW log, NEW state, NEW at \in Int, NEW now \in Nat, at <= now,
           strategy \in Strategies, Sound(state, now),
           Mirrors(state, log, at),
           strategy \in Buckets => Fits(log, Held(state), Reach(state, at))
    PROVE  LET after == Evaluate(now, state)
           IN  /\ after.result.allowed <=> QuotaAdmits(strategy, log, now, Limit, Window)
               /\ Mirrors(after.state, Logged(log, now, after.result), now)
<1> DEFINE after == Evaluate(now, state)
           next == Logged(log, now, after.result)
<1>1. /\ log \in Seq(Nat) /\ state \in States
      /\ \A i \in DOMAIN log : log[i] <= at
      /\ strategy = "fixed_window" => CountsTheWindow(state, log, at)
      /\ strategy = "sliding_counter" => CountsTwoWindows(state, log, at)
      /\ strategy = "sliding_log" => LogsTheWindow(state, log, at)
      /\ strategy \in Buckets => Tight(log, Held(state), Reach(state, at))
  BY DEF Mirrors, Sound
<1>2. next \in Seq(Nat) /\ \A i \in DOMAIN next : next[i] <= now
  BY <1>1, LoggedSince
<1>3. after.state.lastUpdate # NoTime => after.state.lastUpdate <= now
  <2>1. now \in 0 .. now
    OBVIOUS
  <2>2. Sound(after.state, now)
    BY <2>1, EvaluateIsSound
  <2>3. QED
    BY <2>2 DEF Sound
<1>4. CASE strategy = "fixed_window"
  <2>1. /\ after = FW!EvaluateMemory(now, state, Limit, Window)
        /\ strategy \notin Buckets
    BY <1>4 DEF Evaluate, Buckets
  <2> HIDE DEF after
  <2>2. /\ after.result.allowed <=> FixedWindowAdmits(log, now, Limit, Window)
        /\ CountsTheWindow(after.state, next, now)
    BY <1>1, <1>4, <2>1, FixedWindowMirrors
  <2>3. QED
    BY <1>2, <1>3, <1>4, <2>1, <2>2 DEF after, QuotaAdmits, Mirrors
<1>5. CASE strategy = "sliding_counter"
  <2>1. /\ after = SC!EvaluateMemory(now, state, Limit, Window)
        /\ strategy \notin Buckets
    BY <1>5 DEF Evaluate, Buckets
  <2> HIDE DEF after
  <2>2. /\ after.result.allowed <=> SlidingCounterAdmits(log, now, Limit, Window)
        /\ CountsTwoWindows(after.state, next, now)
    BY <1>1, <1>5, <2>1, SlidingCounterMirrors
  <2>3. QED
    BY <1>2, <1>3, <1>5, <2>1, <2>2 DEF after, QuotaAdmits, Mirrors
<1>6. CASE strategy = "sliding_log"
  <2>1. /\ after = SL!EvaluateMemory(now, state, Limit, Window)
        /\ strategy \notin Buckets
    BY <1>6 DEF Evaluate, Buckets
  <2> HIDE DEF after
  <2>2. /\ after.result.allowed <=> SlidingLogAdmits(log, now, Limit, Window)
        /\ LogsTheWindow(after.state, next, now)
    BY <1>1, <1>6, <2>1, SlidingLogMirrors
  <2>3. QED
    BY <1>2, <1>3, <1>6, <2>1, <2>2 DEF after, QuotaAdmits, Mirrors
<1>7. CASE strategy \in Buckets
  <2>1. /\ Full \in Nat /\ state.tokens \in 0 .. Full
        /\ state.lastUpdate \in Nat \cup {NoTime} /\ state.lastUpdate <= now
    BY <1>1, BucketUnits, StateFields DEF Full, Sound
  <2>2. /\ Held(state) \in 0 .. Full
        /\ Reach(state, at) \in Int /\ Reach(state, at) <= now
    <3>1. Held(state) \in 0 .. Full
      BY <2>1 DEF Held
    <3>2. QED
      BY <2>1, <3>1 DEF Reach
  <2>3. /\ Gives(state, at, now, after) /\ GivesExactly(state, at, now, after)
        /\ QuotaAdmits(strategy, log, now, Limit, Window)
              <=> WithinRate(log, now, Limit, Window, 1)
    <3>1. now \in 0 .. now
      OBVIOUS
    <3>2. CASE strategy = "token_bucket"
      BY <3>1, <3>2, TokenBucketGives, TokenBucketGivesExactly
         DEF Evaluate, QuotaAdmits, Buckets
    <3>3. CASE strategy = "leaky_bucket"
      BY <3>1, <3>3, LeakyBucketGives, LeakyBucketGivesExactly
         DEF Evaluate, QuotaAdmits, Buckets
    <3>4. QED
      BY <1>7, <3>2, <3>3 DEF Buckets
  <2>4. after.state.lastUpdate = now
    BY <2>3 DEF GivesExactly
  <2> HIDE DEF after
  <2>5. /\ after.result.allowed <=> WithinRate(log, now, Limit, Window, 1)
        /\ Tight(next, Held(after.state), now)
    BY <1>1, <1>7, <2>2, <2>3, BucketMirrors
  <2>6. Reach(after.state, now) = now
    BY <2>4 DEF Reach
  <2>7. strategy \notin {"fixed_window", "sliding_counter", "sliding_log"}
    BY <1>7 DEF Buckets
  <2>8. Mirrors(after.state, next, now)
    BY <1>2, <1>3, <2>5, <2>6, <2>7 DEF Mirrors
  <2>9. QED
    BY <1>3, <2>3, <2>5, <2>8 DEF after
<1>8. QED
  BY <1>4, <1>5, <1>6, <1>7, MemoryAssumption DEF AllStrategies, Buckets

(* A new state mirrors a log that has been idle for two windows.           *)
LEMMA IdleMirrors ==
    ASSUME NEW log, NEW at \in Int, Idle(log, at)
    PROVE  Mirrors(NewState, log, at)
<1>1. /\ Window \in Nat \ {0} /\ Limit \in Nat \ {0} /\ Milli \in Nat \ {0}
      /\ log \in Seq(Nat)
  BY MemoryAssumption, AlgorithmAssumption DEF Idle
<1>2. \A i \in DOMAIN log : log[i] \in Nat /\ log[i] + 2 * Window <= at
  BY <1>1 DEF Idle
<1>3. /\ NewState.lastUpdate = NoTime /\ NewState.count = 0 /\ NewState.prevCount = 0
      /\ NewState.timestamps = <<>>
  BY DEF NewState
<1>4. ASSUME NEW c \in Int, at <= c + 2 * Window
      PROVE  Cardinality(Later(log, c)) = 0
  <2>1. \A i \in DOMAIN log : log[i] <= c
    BY <1>1, <1>2, <1>4
  <2>2. QED
    BY <1>1, <2>1, NoneLater
<1>5. ASSUME NEW t \in Nat, t >= at
      PROVE  LET boundary == t - (t % Window)
             IN  /\ boundary \in Nat
                 /\ Cardinality(Later(log, boundary - 1)) = 0
                 /\ Cardinality(Later(log, boundary - Window - 1)) = 0
  <2> DEFINE boundary == t - (t % Window)
  <2>1. boundary \in Nat /\ t < boundary + Window
    BY WindowOf
  <2> HIDE DEF boundary
  <2>2. /\ boundary - 1 \in Int /\ at <= (boundary - 1) + 2 * Window
        /\ boundary - Window - 1 \in Int /\ at <= (boundary - Window - 1) + 2 * Window
    BY <1>1, <1>5, <2>1
  <2>3. /\ Cardinality(Later(log, boundary - 1)) = 0
        /\ Cardinality(Later(log, boundary - Window - 1)) = 0
    BY <1>4, <2>2
  <2>4. QED
    BY <2>1, <2>3 DEF boundary
<1>6. CountsTheWindow(NewState, log, at)
  <2>1. SUFFICES ASSUME NEW t \in Nat, t >= at
                 PROVE  LET boundary == t - (t % Window)
                            seen == IF NewState.lastUpdate = boundary THEN NewState.count ELSE 0
                        IN  (IF seen < Limit THEN seen ELSE Limit)
                                = Cardinality(Later(log, boundary - 1))
    BY DEF CountsTheWindow
  <2> DEFINE boundary == t - (t % Window)
             seen == IF NewState.lastUpdate = boundary THEN NewState.count ELSE 0
  <2>2. Cardinality(Later(log, boundary - 1)) = 0
    BY <1>5, <2>1
  <2>3. seen = 0
    BY <1>3
  <2> HIDE DEF seen
  <2>4. (IF seen < Limit THEN seen ELSE Limit) = 0
    BY <1>1, <2>3
  <2>5. QED
    BY <2>2, <2>4 DEF seen
<1>7. CountsTwoWindows(NewState, log, at)
  <2>1. SUFFICES ASSUME NEW t \in Nat, t >= at
                 PROVE  LET boundary == t - (t % Window)
                            rotated == SC!Rotate(t, NewState, Window)
                        IN  /\ rotated.lastUpdate = boundary
                            /\ rotated.count = Cardinality(Later(log, boundary - 1))
                            /\ rotated.prevCount
                                  = Cardinality(Later(log, boundary - Window - 1))
                                      - Cardinality(Later(log, boundary - 1))
    BY DEF CountsTwoWindows
  <2> DEFINE boundary == t - (t % Window)
             rotated == SC!Rotate(t, NewState, Window)
  <2>2. /\ Cardinality(Later(log, boundary - 1)) = 0
        /\ Cardinality(Later(log, boundary - Window - 1)) = 0
    BY <1>5, <2>1
  <2>3. rotated = [NewState EXCEPT !.prevCount = 0, !.count = 0, !.lastUpdate = boundary]
    BY <1>3 DEF SC!Rotate, SC!Truncate, SC!NoTime, NoTime
  <2>4. rotated.lastUpdate = boundary /\ rotated.count = 0 /\ rotated.prevCount = 0
    BY <2>3 DEF NewState
  <2>5. QED
    BY <2>2, <2>4
<1>8. LogsTheWindow(NewState, log, at)
  <2>1. SUFFICES ASSUME NEW t \in Nat, t >= at
                 PROVE  LET cutoff == t \div Milli - (Window \div Milli)
                        IN  Len(SL!Trim(<<>>, cutoff))
                                = Cardinality(Later(log, (cutoff + 1) * Milli - 1))
    BY <1>3 DEF LogsTheWindow
  <2> DEFINE cutoff == t \div Milli - (Window \div Milli)
             c == (cutoff + 1) * Milli - 1
  <2>2. c \in Int /\ at <= c + 2 * Window
    <3> DEFINE tMs == t \div Milli
               windowMs == Window \div Milli
               p == (tMs + 1) * Milli
               q == windowMs * Milli
    <3>1. tMs \in Int /\ p > t
      BY <1>1, QuotientAbove
    <3>2. windowMs \in Int /\ Window = Milli * windowMs + (Window % Milli)
          /\ Window % Milli \in 0 .. Milli - 1
      BY <1>1, DivMod
    <3>3. q = Milli * windowMs
      BY <1>1, <3>2
    <3> DEFINE product == Milli * windowMs
    <3>4. product \in Int /\ product <= Window
      <4>1. product \in Int
        BY <1>1, <3>2
      <4> HIDE DEF windowMs
      <4>2. Window = product + (Window % Milli)
        BY <3>2
      <4> HIDE DEF product
      <4>3. QED
        BY <1>1, <3>2, <4>1, <4>2
    <3>5. q \in Int /\ q <= Window
      <4> HIDE DEF q, product
      <4>1. q = product
        BY <3>3 DEF product
      <4>2. QED
        BY <3>4, <4>1
    <3> HIDE DEF product, tMs, windowMs
    <3>6. p \in Int /\ c = p - q - 1
      <4>1. (tMs - windowMs + 1) * Milli = (tMs + 1) * Milli - windowMs * Milli
        BY <1>1, <3>1, <3>2
      <4>2. p \in Int
        BY <1>1, <3>1
      <4>3. QED
        BY <4>1, <4>2 DEF tMs, windowMs
    <3> HIDE DEF p, q, c
    <3>7. QED
      BY <1>1, <2>1, <3>1, <3>5, <3>6
  <2>3. Cardinality(Later(log, c)) = 0
    <3> HIDE DEF c
    <3>1. QED
      BY <1>4, <2>2
  <2>4. Len(SL!Trim(<<>>, cutoff)) = 0
    <3>1. <<>> \in Seq(Nat) /\ Len(<<>>) = 0
      OBVIOUS
    <3>2. /\ Len(SL!Trim(<<>>, cutoff)) \in Nat
          /\ Len(SL!Trim(<<>>, cutoff)) <= Len(<<>>)
      <4> HIDE DEF cutoff
      <4>1. QED
        BY <3>1, TrimShortens
    <3>3. QED
      BY <3>1, <3>2
  <2>5. QED
    BY <2>3, <2>4
<1>9. Tight(log, Held(NewState), Reach(NewState, at))
  BY <1>3 DEF Tight, Exact, Held
<1>10. \A i \in DOMAIN log : log[i] <= at
  BY <1>1, <1>2
<1>11. QED
  BY <1>1, <1>3, <1>6, <1>7, <1>8, <1>9, <1>10 DEF Mirrors

LEMMA MirrorsStays ==
    ASSUME NEW CONSTANT state, NEW CONSTANT log, NEW CONSTANT at, UNCHANGED strategy,
           Mirrors(state, log, at)
    PROVE  Mirrors(state, log, at)'
BY DEF Mirrors, Held, Reach

(* The instant from on which the state of a key mirrors its log.           *)
Seen(key) == IF store[key] = NoEntry THEN clock - MaxDelay ELSE store[key].lastAccess

(* What a request in order finds of a key.                                 *)
LEMMA FindsAMirror ==
    ASSUME MirrorInv, NEW key \in Keys, NEW now \in 0 .. clock, Seen(key) <= now
    PROVE  LET state == StateOf(key)
           IN  /\ Seen(key) \in Int
               /\ Sound(state, now)
               /\ Mirrors(state, admitted[key], Seen(key))
               /\ strategy \in Buckets =>
                     Fits(admitted[key], Held(state), Reach(state, Seen(key)))
<1> DEFINE state == StateOf(key)
           log == admitted[key]
           at == Seen(key)
<1>1. /\ BucketInv /\ MemoryInv /\ KeyMirrors(key) /\ Sound(state, clock)
      /\ clock \in Nat /\ MaxDelay \in Nat
  BY StateOfIsSound, MemoryAssumption DEF MirrorInv, BucketInv, MemoryInv, TypeOK
<1>2. CASE store[key] = NoEntry
  <2>1. state = NewState /\ at = clock - MaxDelay
    BY <1>2 DEF StateOf, Seen
  <2>2. at \in Int /\ Idle(log, at)
    BY <1>1, <1>2, <2>1 DEF KeyMirrors
  <2>3. Mirrors(NewState, log, at)
    <3> HIDE DEF log, at
    <3>1. QED
      BY <2>2, IdleMirrors
  <2>4. Sound(NewState, now)
    BY NewIsSound
  <2>5. strategy \in Buckets => Fits(log, Held(state), Reach(state, at))
    BY <1>1, <2>1 DEF BucketInv, KeyFits
  <2>6. QED
    BY <2>1, <2>2, <2>3, <2>4, <2>5
<1>3. CASE store[key] # NoEntry
  <2>1. state = store[key].state /\ at = store[key].lastAccess /\ at \in Int
    BY <1>1, <1>3 DEF StateOf, Seen, MemoryInv, TypeOK
  <2>2. Mirrors(state, log, at)
    BY <1>1, <1>3, <2>1 DEF KeyMirrors
  <2>3. Sound(state, now)
    <3>1. state \in States /\ state.lastUpdate \in Nat \cup {NoTime}
      BY <1>1, StateFields DEF Sound
    <3>2. state.lastUpdate # NoTime => state.lastUpdate <= at
      BY <2>2 DEF Mirrors
    <3> HIDE DEF state, at
    <3>3. state.lastUpdate <= now
      BY <2>1, <3>1, <3>2 DEF at, NoTime
    <3>4. QED
      BY <3>1, <3>3 DEF Sound
  <2>4. strategy \in Buckets => Fits(log, Held(state), Reach(state, at))
    BY <1>1, <1>3, <2>1 DEF BucketInv, KeyFits, Reach
  <2>5. QED
    BY <2>1, <2>2, <2>3, <2>4
<1>4. QED
  BY <1>2, <1>3

LEMMA MirrorInit == HistoryInit => MirrorInv
<1> SUFFICES ASSUME HistoryInit PROVE MirrorInv
  OBVIOUS
<1>1. /\ Init /\ \A r \in Callers : call[r] = NoCall
      /\ \A key \in Keys : admitted[key] = <<>> /\ store[key] = NoEntry
  BY DEF HistoryInit, Init
<1>2. BucketInv
  BY BucketInit
<1>3. Ordered
  BY <1>1 DEF Ordered
<1>4. \A key \in Keys : KeyMirrors(key)
  <2>1. Idle(<<>>, clock - MaxDelay)
    BY DEF Idle
  <2>2. QED
    BY <1>1, <2>1 DEF KeyMirrors
<1>5. QED
  BY <1>2, <1>3, <1>4 DEF MirrorInv

LEMMA EvaluateLockedMirrors ==
    ASSUME MirrorInv, NEW r \in Callers, EvaluateLocked(r), Served(r), NEW k \in Keys
    PROVE  KeyMirrors(k)'
<1> DEFINE key == call[r].key
           now == call[r].now
           state == StateOf(key)
           after == Evaluate(now, state)
           log == admitted[key]
           next == Logged(log, now, after.result)
           at == Seen(key)
<1>1. /\ key \in Keys /\ now \in 0 .. clock /\ clock \in Nat /\ MaxDelay \in Nat
      /\ clock - now <= MaxDelay /\ call[r] # NoCall
      /\ DOMAIN store = Keys /\ DOMAIN admitted = Keys /\ strategy \in Strategies
      /\ KeyMirrors(k)
  BY MemoryAssumption DEF EvaluateLocked, MirrorInv, BucketInv, MemoryInv, TypeOK
<1>2. /\ UNCHANGED <<strategy, clock>>
      /\ store' = [store EXCEPT ![key] = [lastAccess |-> now, state |-> after.state]]
      /\ admitted' = IF after.result.allowed THEN [admitted EXCEPT ![key] = Append(log, now)]
                     ELSE admitted
  BY DEF EvaluateLocked, Served
<1>3. CASE k # key
  <2>1. store'[k] = store[k] /\ admitted'[k] = admitted[k]
    BY <1>1, <1>2, <1>3
  <2>2. CASE store[k] = NoEntry
    BY <1>1, <1>2, <2>1, <2>2 DEF KeyMirrors, NoEntry
  <2>3. CASE store[k] # NoEntry
    <3>1. Mirrors(store[k].state, admitted[k], store[k].lastAccess)
      BY <1>1, <2>3 DEF KeyMirrors
    <3>2. ASSUME NEW CONSTANT s, NEW CONSTANT l, NEW CONSTANT t, Mirrors(s, l, t)
          PROVE  Mirrors(s, l, t)'
      BY <1>2, <3>2, MirrorsStays
    <3>3. QED
      BY <1>2, <2>1, <2>3, <3>1, <3>2 DEF KeyMirrors, NoEntry, Mirrors, Held, Reach
  <2>4. QED
    BY <2>2, <2>3
<1>4. CASE k = key
  <2>1. at <= now
    <3>1. CASE store[key] = NoEntry
      BY <1>1, <3>1 DEF Seen
    <3>2. CASE store[key] # NoEntry
      BY <1>1, <3>2 DEF Seen, MirrorInv, Ordered
    <3>3. QED
      BY <3>1, <3>2
  <2>2. /\ at \in Int /\ Sound(state, now) /\ Mirrors(state, log, at)
        /\ strategy \in Buckets => Fits(log, Held(state), Reach(state, at))
    <3> HIDE DEF now
    <3>1. QED
      BY <1>1, <2>1, FindsAMirror
  <2>3. now \in Nat
    BY <1>1
  <2> HIDE DEF now, state, log, at
  <2>4. Mirrors(after.state, next, now)
    BY <1>1, <2>1, <2>2, <2>3, EvaluateMirrors
  <2>5. /\ store'[k] = [lastAccess |-> now, state |-> after.state]
        /\ admitted'[k] = next
    BY <1>1, <1>2, <1>4 DEF Logged, Grown, log
  <2> HIDE DEF after, next
  <2>6. /\ store'[k] # NoEntry /\ store'[k].lastAccess = now
        /\ store'[k].state = after.state
    BY <2>5 DEF NoEntry
  <2>7. QED
    BY <1>2, <2>4, <2>5, <2>6 DEF KeyMirrors, NoEntry, Mirrors, Held, Reach
<1>5. QED
  BY <1>3, <1>4

LEMMA OrderedNext ==
    ASSUME InOrder, MirrorInv, BucketInv', [HistoryNext]_hvars
    PROVE  Ordered'
<1>1. /\ clock \in Nat /\ MaxDelay \in Nat /\ DOMAIN store = Keys /\ DOMAIN call = Callers
      /\ Ordered
      /\ \A key \in Keys : store[key] # NoEntry => store[key].lastAccess \in 0 .. clock
  BY MemoryAssumption DEF MirrorInv, BucketInv, MemoryInv, TypeOK
<1>2. CASE MaxDelay = 0
  <2>1. SUFFICES ASSUME NEW r \in Callers, NEW key \in Keys,
                        call'[r] # NoCall, store'[key] # NoEntry
                 PROVE  store'[key].lastAccess <= call'[r].now
    BY DEF Ordered, NoEntry, NoCall
  <2>2. /\ clock' \in Nat /\ store'[key].lastAccess \in 0 .. clock'
        /\ call'[r].now \in 0 .. clock' /\ clock' - call'[r].now <= MaxDelay
    BY <2>1 DEF BucketInv, MemoryInv, TypeOK, NoEntry, NoCall, NoTime
  <2>3. QED
    BY <1>2, <2>2
<1>3. CASE \A r, s \in Callers : r = s
  <2>1. ASSUME NEW r \in Callers, EvaluateLocked(r)
        PROVE  Ordered'
    <3>1. \A s \in Callers : call'[s] = NoCall
      BY <1>1, <1>3, <2>1 DEF EvaluateLocked
    <3>2. QED
      BY <3>1 DEF Ordered, NoCall
  <2>2. ASSUME NEW r \in Callers, NEW key \in Keys, Enter(r, key)
        PROVE  Ordered'
    <3>1. \A s \in Callers : call'[s] = IF s = r THEN [key |-> key, now |-> clock] ELSE call[s]
      BY <1>1, <2>2 DEF Enter
    <3>2. store' = store
      BY <2>2 DEF Enter
    <3>3. ASSUME NEW s \in Callers, NEW k \in Keys, call'[s] # NoCall, store'[k] # NoEntry
          PROVE  store'[k].lastAccess <= call'[s].now
      <4>1. CASE s = r
        BY <1>1, <3>1, <3>2, <3>3, <4>1
      <4>2. CASE s # r
        BY <1>1, <3>1, <3>2, <3>3, <4>2 DEF Ordered
      <4>3. QED
        BY <4>1, <4>2
    <3>4. QED
      BY <3>3 DEF Ordered, NoCall, NoEntry
  <2>3. ASSUME UNCHANGED call, \A key \in Keys : store'[key] \in {store[key], NoEntry}
        PROVE  Ordered'
    BY <1>1, <2>3 DEF Ordered, NoCall, NoEntry
  <2>4. ASSUME NEW key \in Keys, Reset(key)
        PROVE  Ordered'
    <3>1. UNCHANGED call /\ \A k \in Keys : store'[k] \in {store[k], NoEntry}
      BY <1>1, <2>4 DEF Reset
    <3>2. QED
      BY <2>3, <3>1
  <2>5. ASSUME CleanShard
        PROVE  Ordered'
    <3>1. UNCHANGED call /\ \A k \in Keys : store'[k] \in {store[k], NoEntry}
      BY <1>1, <2>5 DEF CleanShard
    <3>2. QED
      BY <2>3, <3>1
  <2>6. CASE UNCHANGED <<call, store>>
    BY <2>3, <2>6
  <2>7. QED
    BY <2>1, <2>2, <2>4, <2>5, <2>6
       DEF HistoryNext, hvars, vars, Close, Janitor, BeginCleanup, StopJanitor, Tick
<1>4. QED
  BY <1>2, <1>3 DEF InOrder

LEMMA MirrorNext ==
    ASSUME TTL >= 2 * (Window + MaxDelay), InOrder, MirrorInv, [HistoryNext]_hvars
    PROVE  MirrorInv'
<1>1. /\ Window \in Nat /\ MaxDelay \in Nat /\ TTL \in Nat /\ clock \in Nat
      /\ DOMAIN store = Keys /\ DOMAIN admitted = Keys
      /\ \A key \in Keys : store[key] # NoEntry => store[key].lastAccess \in 0 .. clock
      /\ [Next]_vars
  BY MemoryAssumption DEF MirrorInv, BucketInv, MemoryInv, TypeOK, HistoryNext, Next, hvars
<1>2. BucketInv'
  <2>1. TTL >= Window + 2 * MaxDelay
    BY <1>1
  <2>2. QED
    BY <2>1, BucketNext DEF MirrorInv
<1>3. Ordered'
  BY <1>2, OrderedNext
<1>4. strategy' = strategy
  BY <1>1 DEF Next, vars, Refuse, EvaluateLocked, Enter, Reset, Close, Janitor,
              BeginCleanup, CleanShard, StopJanitor, Tick
<1>5. ASSUME NEW key \in Keys PROVE KeyMirrors(key)'
  <2>1. KeyMirrors(key)
    BY DEF MirrorInv
  <2>2. ASSUME store'[key] = store[key], admitted'[key] = admitted[key], clock' \in Int,
               clock <= clock'
        PROVE  KeyMirrors(key)'
    <3>1. CASE store[key] = NoEntry
      <4>1. Idle(admitted[key], clock - MaxDelay)
        BY <2>1, <3>1 DEF KeyMirrors
      <4>2. /\ clock - MaxDelay \in Int /\ clock' - MaxDelay \in Int
            /\ clock - MaxDelay <= clock' - MaxDelay
        BY <1>1, <2>2
      <4>3. Idle(admitted[key], clock' - MaxDelay)
        BY <4>1, <4>2, StaysIdle
      <4>4. QED
        BY <2>2, <3>1, <4>3 DEF KeyMirrors, Idle, NoEntry
    <3>2. CASE store[key] # NoEntry
      BY <1>4, <2>1, <2>2, <3>2 DEF KeyMirrors, NoEntry, Mirrors, Held, Reach
    <3>3. QED
      BY <3>1, <3>2
  <2>3. ASSUME NEW r \in Callers, EvaluateLocked(r), Served(r)
        PROVE  KeyMirrors(key)'
    BY <2>3, EvaluateLockedMirrors
  <2>4. ASSUME NEW k \in Keys, Reset(k), admitted' = [admitted EXCEPT ![k] = <<>>]
        PROVE  KeyMirrors(key)'
    <3>1. /\ clock' = clock
          /\ store'[key] = IF key = k THEN NoEntry ELSE store[key]
          /\ admitted'[key] = IF key = k THEN <<>> ELSE admitted[key]
      BY <1>1, <2>4 DEF Reset
    <3>2. CASE key = k
      BY <3>1, <3>2 DEF KeyMirrors, Idle, NoEntry
    <3>3. CASE key # k
      BY <1>1, <2>2, <3>1, <3>3
    <3>4. QED
      BY <3>2, <3>3
  <2>5. ASSUME CleanShard, UNCHANGED admitted
        PROVE  KeyMirrors(key)'
    <3>1. /\ clock' = clock
          /\ store'[key] = store[key] \/ (Expired(key) /\ store'[key] = NoEntry)
      BY <2>5 DEF CleanShard
    <3>2. CASE store'[key] = store[key]
      BY <1>1, <2>2, <2>5, <3>1, <3>2
    <3>3. CASE Expired(key) /\ store'[key] = NoEntry
      <4>1. /\ janitor.now \in 0 .. clock /\ store[key] # NoEntry
            /\ janitor.now - store[key].lastAccess > TTL
        BY <2>5, <3>3 DEF CleanShard, Expired, MirrorInv, BucketInv, MemoryInv, TypeOK
      <4>2. /\ admitted[key] \in Seq(Nat)
            /\ \A i \in DOMAIN admitted[key] : admitted[key][i] <= store[key].lastAccess
        BY <2>1, <4>1 DEF KeyMirrors, Mirrors
      <4>3. /\ store[key].lastAccess \in Int /\ clock - MaxDelay \in Int
            /\ store[key].lastAccess + 2 * Window <= clock - MaxDelay
        BY <1>1, <4>1
      <4>4. Idle(admitted[key], clock - MaxDelay)
        BY <4>2, <4>3, IdleFrom
      <4>5. QED
        BY <2>5, <3>1, <3>3, <4>4 DEF KeyMirrors, Idle, NoEntry
    <3>4. QED
      BY <3>1, <3>2, <3>3
  <2>6. ASSUME Tick, UNCHANGED admitted
        PROVE  KeyMirrors(key)'
    BY <1>1, <2>2, <2>6 DEF Tick
  <2>7. CASE UNCHANGED <<clock, store, admitted>>
    BY <1>1, <2>2, <2>7
  <2>8. QED
    BY <2>3, <2>4, <2>5, <2>6, <2>7
       DEF HistoryNext, hvars, vars, Enter, Close, Janitor, BeginCleanup, StopJanitor
<1>6. QED
  BY <1>2, <1>3, <1>5 DEF MirrorInv

(* Requests that evaluate in the order of their clock readings are admitted*)
(* exactly when the quota that the strategy documents has room, for every  *)
(* strategy and whatever the janitor has evicted (memory.go:78-131,        *)
(* EvaluateMemory), provided that an entry outlives the two windows that   *)
(* the sliding counter looks back on.                                      *)
THEOREM VerdictIsAlwaysQuota ==
    ASSUME TTL >= 2 * (Window + MaxDelay), InOrder
    PROVE  HistorySpec => []VerdictIsQuota
<1>1. ASSUME MirrorInv PROVE VerdictIsQuota
  <2>1. SUFFICES ASSUME NEW key \in Keys
                 PROVE  Verdict(key).result.allowed
                           <=> QuotaAdmits(strategy, admitted[key], clock, Limit, Window)
    BY DEF VerdictIsQuota
  <2> DEFINE state == StateOf(key)
             log == admitted[key]
             at == Seen(key)
  <2>2. /\ clock \in Nat /\ clock \in 0 .. clock /\ strategy \in Strategies
        /\ at <= clock
    <3>1. clock \in Nat /\ strategy \in Strategies /\ MaxDelay \in Nat
          /\ (store[key] # NoEntry => store[key].lastAccess \in 0 .. clock)
      BY <1>1, MemoryAssumption DEF MirrorInv, BucketInv, MemoryInv, TypeOK
    <3>2. QED
      BY <3>1 DEF Seen
  <2>3. /\ at \in Int /\ Sound(state, clock) /\ Mirrors(state, log, at)
        /\ strategy \in Buckets => Fits(log, Held(state), Reach(state, at))
    BY <1>1, <2>2, FindsAMirror
  <2> HIDE DEF state, log, at
  <2>4. Evaluate(clock, state).result.allowed
           <=> QuotaAdmits(strategy, log, clock, Limit, Window)
    BY <2>2, <2>3, EvaluateMirrors
  <2>5. QED
    BY <2>4 DEF Verdict, state, log
<1>2. QED
  BY MirrorInit, MirrorNext, <1>1, PTL DEF HistorySpec

-------------------------------------------------------------------------------
(* Clock readings cut to milliseconds.                                     *)
LEMMA WholeMs ==
    ASSUME NEW sooner \in Nat, NEW later \in Nat
    PROVE  /\ sooner \div Milli \in Nat /\ Window \div Milli \in Nat
           /\ sooner <= later => sooner \div Milli <= later \div Milli
           /\ sooner + Window <= later
                => sooner \div Milli <= later \div Milli - (Window \div Milli)
<1> DEFINE s == sooner \div Milli
           l == later \div Milli
           w == Window \div Milli
<1>1. Milli \in Nat \ {0} /\ Window \in Nat
  BY AlgorithmAssumption, MemoryAssumption
<1>2. s \in Nat /\ l \in Nat /\ w \in Nat
  BY <1>1
<1>3. s * Milli <= sooner /\ w * Milli <= Window
  <2>1. sooner = Milli * s + (sooner % Milli) /\ sooner % Milli \in 0 .. Milli - 1
    BY <1>1, DivMod
  <2>2. Window = Milli * w + (Window % Milli) /\ Window % Milli \in 0 .. Milli - 1
    BY <1>1, DivMod
  <2> HIDE DEF s, w
  <2> DEFINE p == Milli * s
             q == Milli * w
  <2>3. p \in Int /\ q \in Int /\ p = s * Milli /\ q = w * Milli
    BY <1>1, <1>2
  <2>4. sooner = p + (sooner % Milli) /\ Window = q + (Window % Milli)
    BY <2>1, <2>2
  <2> HIDE DEF p, q
  <2>5. QED
    BY <1>1, <2>1, <2>2, <2>3, <2>4
<1>4. ASSUME sooner <= later PROVE s <= l
  <2> HIDE DEF s
  <2>1. s * Milli <= later
    <3> DEFINE p == s * Milli
    <3>1. p \in Int /\ p <= sooner
      BY <1>1, <1>2, <1>3
    <3> HIDE DEF p
    <3>2. p <= later
      BY <1>4, <3>1
    <3>3. QED
      BY <3>2 DEF p
  <2>2. QED
    BY <1>1, <1>2, <2>1, QuotientAtLeast
<1>5. ASSUME sooner + Window <= later PROVE s <= l - w
  <2> HIDE DEF s, w
  <2>1. (s + w) * Milli <= later
    <3> DEFINE p == s * Milli
               q == w * Milli
    <3>1. p \in Int /\ q \in Int /\ p <= sooner /\ q <= Window /\ (s + w) * Milli = p + q
      BY <1>1, <1>2, <1>3
    <3> HIDE DEF p, q
    <3>2. p + q <= later
      BY <1>1, <1>5, <3>1
    <3>3. QED
      BY <3>1, <3>2
  <2>2. s + w \in Int
    BY <1>2
  <2>3. s + w <= l
    BY <1>1, <2>1, <2>2, QuotientAtLeast
  <2> HIDE DEF l
  <2>4. QED
    BY <1>2, <2>3
<1>6. QED
  BY <1>2, <1>4, <1>5

(* The timestamps are the end of the log of the admissions; what stands    *)
(* before it has left the window of every request from now on.             *)
EndsTheLog(timestamps, log, instant) ==
    LET dropped == Len(log) - Len(timestamps)
    IN  /\ dropped \in Nat
        /\ \A i \in DOMAIN log :
              IF i <= dropped
              THEN log[i] \div Milli <= instant \div Milli - (Window \div Milli)
              ELSE timestamps[i - dropped] = log[i] \div Milli

LEMMA TrimmedEndsTheLog ==
    ASSUME NEW timestamps \in Seq(Nat), NEW log \in Seq(Nat), NEW instant \in Nat,
           NEW cutoff \in Int, cutoff <= instant \div Milli - (Window \div Milli),
           EndsTheLog(timestamps, log, instant)
    PROVE  LET live == SL!Trim(timestamps, cutoff)
           IN  /\ live \in Seq(Nat) /\ EndsTheLog(live, log, instant)
               /\ live # <<>> => live[1] > cutoff
<1> DEFINE live == SL!Trim(timestamps, cutoff)
           m == Len(timestamps)
           n == Len(log)
           gone == instant \div Milli - (Window \div Milli)
           ms(i) == log[i] \div Milli
<1>1. PICK first \in 1 .. m + 1 :
         /\ live = SubSeq(timestamps, first, m)
         /\ \A j \in DOMAIN timestamps : j < first => timestamps[j] <= cutoff
         /\ first <= m => timestamps[first] > cutoff
  BY TrimStarts
<1>2. /\ m \in Nat /\ n \in Nat /\ DOMAIN log = 1 .. n /\ DOMAIN timestamps = 1 .. m
      /\ \A j \in 1 .. m : timestamps[j] \in Nat
  OBVIOUS
<1>3. /\ n - m \in Nat
      /\ \A i \in 1 .. n : IF i <= n - m THEN ms(i) <= gone
                           ELSE timestamps[i - (n - m)] = ms(i)
  BY <1>2 DEF EndsTheLog
<1>4. /\ live \in Seq(Nat) /\ Len(live) = m - first + 1
      /\ \A j \in 1 .. m - first + 1 : live[j] = timestamps[first + j - 1]
  BY <1>1, <1>2
<1>5. gone \in Int /\ cutoff <= gone
  BY WholeMs
<1> HIDE DEF live, m, n, gone, ms
<1> DEFINE dropped == n - Len(live)
<1>6. dropped = n - m + first - 1 /\ dropped \in Nat
  BY <1>2, <1>3, <1>4
<1> HIDE DEF dropped
<1>7. ASSUME NEW i \in 1 .. n
      PROVE  IF i <= dropped THEN ms(i) <= gone ELSE live[i - dropped] = ms(i)
  <2>1. CASE i <= n - m
    BY <1>2, <1>3, <1>6, <2>1
  <2>2. CASE i > n - m /\ i <= dropped
    <3>1. i - (n - m) \in 1 .. m /\ i - (n - m) < first
      BY <1>2, <1>6, <2>2
    <3>2. timestamps[i - (n - m)] <= cutoff /\ timestamps[i - (n - m)] \in Nat
      BY <1>1, <1>2, <3>1
    <3>3. timestamps[i - (n - m)] = ms(i)
      BY <1>2, <1>3, <2>2
    <3>4. QED
      BY <1>5, <2>2, <3>2, <3>3
  <2>3. CASE i > dropped
    <3>1. i - dropped \in 1 .. m - first + 1 /\ first + (i - dropped) - 1 = i - (n - m)
      BY <1>2, <1>6, <2>3
    <3>2. live[i - dropped] = timestamps[i - (n - m)]
      BY <1>4, <3>1
    <3>3. ~(i <= n - m)
      BY <1>2, <1>6, <2>3
    <3>4. timestamps[i - (n - m)] = ms(i)
      BY <1>3, <3>3
    <3>5. QED
      BY <1>6, <2>3, <3>2, <3>4
  <2>4. QED
    BY <1>2, <1>6, <2>1, <2>2, <2>3
<1>8. EndsTheLog(live, log, instant)
  BY <1>2, <1>6, <1>7 DEF EndsTheLog, dropped, n, ms, gone
<1>9. live # <<>> => live[1] > cutoff
  <2>1. SUFFICES ASSUME live # <<>> PROVE live[1] > cutoff
    OBVIOUS
  <2>2. first <= m
    <3>1. Len(live) # 0
      BY <1>4, <2>1
    <3>2. QED
      BY <1>2, <1>4, <3>1
  <2>3. live[1] = timestamps[first]
    BY <1>2, <1>4, <2>2
  <2>4. QED
    BY <1>1, <2>2, <2>3
<1>10. QED
  BY <1>4, <1>8, <1>9 DEF live

LEMMA AppendedEndsTheLog ==
    ASSUME NEW timestamps \in Seq(Nat), NEW log \in Seq(Nat), NEW instant \in Nat,
           NEW now \in Nat, EndsTheLog(timestamps, log, instant)
    PROVE  EndsTheLog(Append(timestamps, now \div Milli), Append(log, now), instant)
<1> DEFINE m == Len(timestamps)
           n == Len(log)
           stamps == Append(timestamps, now \div Milli)
           next == Append(log, now)
           gone == instant \div Milli - (Window \div Milli)
<1>1. m \in Nat /\ n \in Nat /\ DOMAIN log = 1 .. n /\ DOMAIN timestamps = 1 .. m
  OBVIOUS
<1>2. /\ n - m \in Nat
      /\ \A i \in 1 .. n : IF i <= n - m THEN log[i] \div Milli <= gone
                           ELSE timestamps[i - (n - m)] = log[i] \div Milli
  BY <1>1 DEF EndsTheLog
<1>3. now \div Milli \in Nat
  BY WholeMs
<1>4. /\ Len(stamps) = m + 1 /\ stamps[m + 1] = now \div Milli
      /\ \A j \in 1 .. m : stamps[j] = timestamps[j]
  BY <1>1, <1>3
<1>5. /\ Len(next) = n + 1 /\ DOMAIN next = 1 .. n + 1 /\ next[n + 1] = now
      /\ \A i \in 1 .. n : next[i] = log[i]
  BY <1>1
<1> HIDE DEF stamps, next, m, n, gone
<1>6. ASSUME NEW i \in 1 .. n + 1
      PROVE  IF i <= n - m THEN next[i] \div Milli <= gone
             ELSE stamps[i - (n - m)] = next[i] \div Milli
  <2>1. CASE i = n + 1
    <3>1. ~(i <= n - m) /\ i - (n - m) = m + 1
      BY <1>1, <2>1
    <3>2. QED
      BY <1>4, <1>5, <2>1, <3>1
  <2>2. CASE i \in 1 .. n /\ i <= n - m
    BY <1>2, <1>5, <2>2
  <2>3. CASE i \in 1 .. n /\ ~(i <= n - m)
    <3>1. i - (n - m) \in 1 .. m
      BY <1>1, <2>3
    <3>2. QED
      BY <1>2, <1>4, <1>5, <2>3, <3>1
  <2>4. QED
    BY <1>1, <2>1, <2>2, <2>3
<1>7. Len(next) - Len(stamps) = n - m
  BY <1>1, <1>4, <1>5
<1>8. EndsTheLog(stamps, next, instant)
  BY <1>2, <1>5, <1>6, <1>7 DEF EndsTheLog, gone
<1>9. QED
  BY <1>8 DEF stamps, next

(* In memory the sliding log evaluates like this.                          *)
LEMMA SlidingLogKeepsTheEnd ==
    ASSUME NEW instant \in Nat, NEW now \in 0 .. instant, NEW log \in Seq(Nat),
           NEW state, Sound(state, instant), EndsTheLog(state.timestamps, log, instant)
    PROVE  LET after == SL!EvaluateMemory(now, state, Limit, Window)
               next == IF after.result.allowed THEN Append(log, now) ELSE log
           IN  EndsTheLog(after.state.timestamps, next, instant)
<1> DEFINE nowMs == now \div Milli
           live == SL!Trim(state.timestamps, nowMs - (Window \div Milli))
           stamps == IF Len(live) < Limit THEN Append(live, nowMs) ELSE live
           after == SL!EvaluateMemory(now, state, Limit, Window)
<1>1. /\ now \in Nat /\ state.timestamps \in Seq(Nat)
      /\ nowMs - (Window \div Milli) \in Int
      /\ nowMs - (Window \div Milli) <= instant \div Milli - (Window \div Milli)
  <2>1. /\ nowMs \in Nat /\ instant \div Milli \in Nat /\ Window \div Milli \in Nat
        /\ nowMs <= instant \div Milli
    BY WholeMs
  <2>2. state.timestamps \in Seq(Nat)
    BY StateFields DEF Sound
  <2>3. QED
    BY <2>1, <2>2
<1>2. live \in Seq(Nat) /\ EndsTheLog(live, log, instant)
  BY <1>1, TrimmedEndsTheLog
<1>3. EndsTheLog(Append(live, nowMs), Append(log, now), instant)
  BY <1>1, <1>2, AppendedEndsTheLog
<1>4. /\ after.state = [state EXCEPT !.timestamps = stamps]
      /\ after.result.allowed = (Len(live) < Limit)
  BY DEF SL!EvaluateMemory, SL!Evaluation
<1> HIDE DEF after, live, nowMs
<1>5. after.state.timestamps = stamps
  BY <1>4 DEF Sound, States
<1>6. QED
  BY <1>2, <1>3, <1>4, <1>5 DEF after

LEMMA LastMembers ==
    ASSUME NEW n \in Nat, NEW k \in Nat
    PROVE  IsFiniteSet(n - k + 1 .. n) /\ Cardinality(n - k + 1 .. n) = k
<1> DEFINE end == n - k + 1
<1>1. end \in Int /\ n \in Int
  OBVIOUS
<1>2. IF end > n THEN k = 0 ELSE n - end + 1 = k
  OBVIOUS
<1> HIDE DEF end
<1>3. /\ IsFiniteSet(end .. n)
      /\ Cardinality(end .. n) = IF end > n THEN 0 ELSE n - end + 1
  BY <1>1, FS_Interval
<1>4. Cardinality(end .. n) = k
  BY <1>2, <1>3
<1>5. QED
  BY <1>3, <1>4 DEF end

LEMMA CutToMs ==
    ASSUME NEW instant \in Int, NEW ms \in Int
    PROVE  /\ (ms + 1) * Milli \in Int
           /\ instant \div Milli <= ms <=> instant < (ms + 1) * Milli
<1>1. Milli \in Nat \ {0} /\ ms + 1 \in Int
  BY AlgorithmAssumption
<1> DEFINE bound == (ms + 1) * Milli
           q == instant \div Milli
<1>2. bound \in Int
  BY <1>1
<1>3. q \in Int /\ (instant < bound => q < ms + 1)
  BY <1>1, QuotientBelow, QuotientAbove
<1>4. bound <= instant => ms + 1 <= q
  BY <1>1, QuotientAtLeast
<1> HIDE DEF bound, q
<1>5. q <= ms <=> instant < bound
  BY <1>1, <1>2, <1>3, <1>4
<1>6. QED
  BY <1>2, <1>5 DEF bound, q

(* What a log says of a request that runs now, if no admission in it is    *)
(* older by more than MaxDelay than one before it.                         *)
LEMMA PreciseVerdict ==
    ASSUME NEW log \in Seq(Nat), NEW now \in Nat, NEW live \in Seq(Nat),
           \A i \in DOMAIN log : log[i] <= now,
           \A i, j \in DOMAIN log : i <= j => log[i] <= log[j] + MaxDelay,
           EndsTheLog(live, log, now),
           live # <<>> => live[1] > now \div Milli - (Window \div Milli)
    PROVE  LET first == (now \div Milli - (Window \div Milli) + 1) * Milli
           IN  /\ Len(live) < Limit => AdmittedIn(log, first, now) < Limit
               /\ ~(Len(live) < Limit) => AdmittedIn(log, first - MaxDelay, now) >= Limit
<1> DEFINE n == Len(log)
           k == Len(live)
           gone == now \div Milli - (Window \div Milli)
           first == (gone + 1) * Milli
           end == n - k + 1
           inside == {i \in DOMAIN log : log[i] \in first .. now}
           near == {i \in DOMAIN log : log[i] \in first - MaxDelay .. now}
<1>1. /\ n \in Nat /\ k \in Nat /\ DOMAIN log = 1 .. n
      /\ \A i \in 1 .. n : log[i] \in Nat /\ log[i] <= now
      /\ MaxDelay \in Nat /\ Limit \in Nat \ {0} /\ Milli \in Nat \ {0}
  <2>1. n \in Nat /\ k \in Nat /\ DOMAIN log = 1 .. n
    OBVIOUS
  <2>2. \A i \in 1 .. n : log[i] \in Nat /\ log[i] <= now
    BY <2>1
  <2>3. MaxDelay \in Nat /\ Limit \in Nat \ {0} /\ Milli \in Nat \ {0}
    BY MemoryAssumption, AlgorithmAssumption
  <2>4. QED
    BY <2>1, <2>2, <2>3
<1>2. gone \in Int /\ first \in Int
  <2>1. gone \in Int
    BY WholeMs
  <2> HIDE DEF gone
  <2>2. QED
    BY <2>1, CutToMs
<1>3. /\ n - k \in Nat
      /\ \A i \in 1 .. n : IF i <= n - k THEN log[i] \div Milli <= gone
                           ELSE live[i - (n - k)] = log[i] \div Milli
  BY <1>1 DEF EndsTheLog
<1>4. ASSUME NEW i \in 1 .. n
      PROVE  log[i] \div Milli <= gone <=> log[i] < first
  <2>1. log[i] \in Int
    BY <1>1
  <2> HIDE DEF gone
  <2>2. QED
    BY <1>2, <2>1, CutToMs
<1>5. /\ IsFiniteSet(end .. n) /\ Cardinality(end .. n) = k
      /\ IsFiniteSet(near) /\ near \subseteq 1 .. n
      /\ Cardinality(near) \in Nat
  <2>1. IsFiniteSet(end .. n) /\ Cardinality(end .. n) = k
    BY <1>1, LastMembers, Zenon
  <2>2. IsFiniteSet(1 .. n)
    BY <1>1, FS_Interval
  <2>3. near \subseteq 1 .. n
    BY <1>1
  <2>4. QED
    BY <2>1, <2>2, <2>3, FS_Subset, FS_CardinalityType
<1>6. ASSUME k < Limit PROVE Cardinality(inside) < Limit
  <2>1. inside \subseteq end .. n
    <3>1. SUFFICES ASSUME NEW i \in 1 .. n, log[i] \in first .. now, ~(i \in end .. n)
                   PROVE  FALSE
      BY <1>1
    <3>2. i <= n - k
      BY <1>1, <1>3, <3>1
    <3>3. log[i] < first
      BY <1>3, <1>4, <3>2
    <3>4. QED
      BY <1>1, <1>2, <3>1, <3>3
  <2> HIDE DEF inside, end
  <2>2. Cardinality(inside) <= k /\ Cardinality(inside) \in Nat
    BY <1>5, <2>1, FS_Subset, FS_CardinalityType
  <2>3. QED
    BY <1>1, <1>6, <2>2
<1>7. ASSUME ~(k < Limit) PROVE Cardinality(near) >= Limit
  <2>1. end \in 1 .. n /\ ~(end <= n - k) /\ end - (n - k) = 1
    BY <1>1, <1>3, <1>7
  <2>2. live # <<>> /\ live[1] > gone
    BY <1>1, <1>7
  <2>3. log[end] >= first
    <3> HIDE DEF end, gone
    <3>1. live[1] = log[end] \div Milli
      BY <1>3, <2>1
    <3>2. log[end] \div Milli \in Int
      BY <1>1, <2>1
    <3>3. ~(log[end] < first)
      BY <1>2, <1>4, <2>1, <2>2, <3>1, <3>2
    <3> HIDE DEF first
    <3>4. QED
      BY <1>1, <1>2, <2>1, <3>3
  <2>4. end .. n \subseteq near
    <3>1. SUFFICES ASSUME NEW j \in end .. n PROVE j \in near
      OBVIOUS
    <3>2. j \in 1 .. n /\ end <= j /\ j \in DOMAIN log /\ end \in DOMAIN log
      BY <1>1, <2>1
    <3> HIDE DEF end, first
    <3>3. log[end] <= log[j] + MaxDelay
      BY <3>2
    <3>4. log[j] \in Nat /\ log[end] \in Nat /\ log[j] <= now
      BY <1>1, <2>1, <3>2
    <3>5. log[j] \in first - MaxDelay .. now
      BY <1>1, <1>2, <2>3, <3>3, <3>4
    <3>6. QED
      BY <3>2, <3>5
  <2> HIDE DEF near, end
  <2>5. Cardinality(end .. n) <= Cardinality(near)
    BY <1>5, <2>4, FS_Subset
  <2>6. QED
    BY <1>1, <1>5, <1>7, <2>5
<1>8. QED
  BY <1>6, <1>7 DEF AdmittedIn

(* Admissions are logged in the order of their locks, which is that of     *)
(* their clock readings but for the time that a call can be held up.       *)
KeyLogs(key) ==
    LET log == admitted[key]
    IN  /\ log \in Seq(Nat)
        /\ \A i \in DOMAIN log : log[i] <= clock
        /\ \A i, j \in DOMAIN log : i <= j => log[i] <= log[j] + MaxDelay
        /\ store[key] # NoEntry =>
              \A i \in DOMAIN log : log[i] <= store[key].lastAccess + MaxDelay
        /\ EndsTheLog(StateOf(key).timestamps, log, clock)

LogInv ==
    /\ MemoryInv
    /\ DOMAIN admitted = Keys
    /\ strategy = "sliding_log" => \A key \in Keys : KeyLogs(key)

LEMMA NothingLogged ==
    ASSUME NEW instant
    PROVE  <<>> \in Seq(Nat) /\ EndsTheLog(<<>>, <<>>, instant)
BY DEF EndsTheLog

LEMMA LogInit == HistoryInit => LogInv
<1> SUFFICES ASSUME HistoryInit PROVE LogInv
  OBVIOUS
<1>1. /\ Init /\ DOMAIN admitted = Keys
      /\ \A key \in Keys : admitted[key] = <<>> /\ store[key] = NoEntry
  BY DEF HistoryInit, Init
<1>2. NewState.timestamps = <<>>
  BY DEF NewState
<1>3. ASSUME NEW key \in Keys PROVE KeyLogs(key)
  <2>1. admitted[key] = <<>> /\ store[key] = NoEntry /\ StateOf(key).timestamps = <<>>
    BY <1>1, <1>2 DEF StateOf
  <2>2. DOMAIN <<>> = {}
    OBVIOUS
  <2>3. QED
    BY <2>1, <2>2, NothingLogged DEF KeyLogs
<1>4. QED
  BY <1>1, <1>3, MemoryInit DEF LogInv

LEMMA EvaluateLockedLogs ==
    ASSUME LogInv, strategy = "sliding_log", NEW r \in Callers, EvaluateLocked(r), Served(r),
           NEW k \in Keys
    PROVE  KeyLogs(k)'
<1> DEFINE key == call[r].key
           now == call[r].now
           state == StateOf(key)
           after == Evaluate(now, state)
           log == admitted[key]
           next == IF after.result.allowed THEN Append(log, now) ELSE log
<1>1. /\ key \in Keys /\ now \in 0 .. clock /\ clock \in Nat /\ MaxDelay \in Nat
      /\ clock - now <= MaxDelay
  BY MemoryAssumption DEF EvaluateLocked, LogInv, MemoryInv, TypeOK
<1>2. /\ DOMAIN store = Keys /\ DOMAIN admitted = Keys
      /\ KeyLogs(key) /\ KeyLogs(k)
  BY <1>1 DEF LogInv, MemoryInv
<1>3. /\ UNCHANGED <<strategy, clock>>
      /\ store' = [store EXCEPT ![key] = [lastAccess |-> now, state |-> after.state]]
      /\ admitted' = IF after.result.allowed THEN [admitted EXCEPT ![key] = Append(log, now)]
                     ELSE admitted
  BY DEF EvaluateLocked, Served
<1>4. CASE k # key
  <2>1. store'[k] = store[k] /\ admitted'[k] = admitted[k]
    BY <1>2, <1>3, <1>4
  <2>2. QED
    BY <1>2, <1>3, <2>1 DEF KeyLogs, StateOf, NoEntry
<1>5. CASE k = key
  <2>1. Sound(state, clock)
    BY <1>1, StateOfIsSound DEF LogInv
  <2>2. /\ log \in Seq(Nat)
        /\ \A i \in DOMAIN log : log[i] <= clock
        /\ \A i, j \in DOMAIN log : i <= j => log[i] <= log[j] + MaxDelay
        /\ EndsTheLog(state.timestamps, log, clock)
    BY <1>2 DEF KeyLogs
  <2>3. after = SL!EvaluateMemory(now, state, Limit, Window)
    BY DEF Evaluate
  <2>4. /\ admitted'[k] = next
        /\ store'[k] = [lastAccess |-> now, state |-> after.state]
    BY <1>2, <1>3, <1>5
  <2>5. /\ store'[k] # NoEntry /\ store'[k].lastAccess = now
        /\ StateOf(k)' = after.state
    BY <2>4 DEF StateOf, NoEntry
  <2> HIDE DEF state, log, now, after
  <2>6. EndsTheLog(after.state.timestamps, next, clock)
    BY <1>1, <2>1, <2>2, <2>3, SlidingLogKeepsTheEnd
  <2>7. /\ next \in Seq(Nat)
        /\ \A i \in DOMAIN next : next[i] <= clock
        /\ \A i \in DOMAIN next : next[i] <= now + MaxDelay
        /\ \A i, j \in DOMAIN next : i <= j => next[i] <= next[j] + MaxDelay
    <3> DEFINE n == Len(log)
    <3>1. now \in Nat /\ now <= clock /\ clock <= now + MaxDelay
      BY <1>1
    <3>2. /\ n \in Nat /\ DOMAIN log = 1 .. n
          /\ \A i \in 1 .. n : log[i] \in Nat /\ log[i] <= clock /\ log[i] <= now + MaxDelay
      BY <1>1, <2>2, <3>1
    <3>3. CASE ~after.result.allowed
      BY <2>2, <3>2, <3>3
    <3>4. CASE after.result.allowed
      <4>1. /\ next \in Seq(Nat) /\ DOMAIN next = 1 .. n + 1 /\ next[n + 1] = now
            /\ \A i \in 1 .. n : next[i] = log[i]
        BY <2>2, <3>1, <3>2, <3>4
      <4> HIDE DEF next, n
      <4>2. ASSUME NEW i \in 1 .. n + 1 PROVE next[i] <= clock /\ next[i] <= now + MaxDelay
        BY <1>1, <3>1, <3>2, <4>1
      <4>3. ASSUME NEW i \in 1 .. n + 1, NEW j \in 1 .. n + 1, i <= j
            PROVE  next[i] <= next[j] + MaxDelay
        <5>1. CASE j = n + 1
          BY <4>1, <4>2, <5>1
        <5>2. CASE j \in 1 .. n
          <6>1. i \in 1 .. n
            BY <3>2, <4>3, <5>2
          <6>2. QED
            BY <2>2, <3>2, <4>1, <4>3, <5>2, <6>1
        <5>3. QED
          BY <3>2, <5>1, <5>2
      <4>4. QED
        BY <4>1, <4>2, <4>3
    <3>5. QED
      BY <3>3, <3>4
  <2> HIDE DEF next
  <2>8. QED
    BY <1>3, <2>4, <2>5, <2>6, <2>7 DEF KeyLogs, EndsTheLog
<1>6. QED
  BY <1>4, <1>5

(* As time passes, more of a log leaves the window and none returns.       *)
LEMMA EndsLater ==
    ASSUME NEW timestamps, NEW log \in Seq(Nat), NEW instant \in Nat, NEW later \in Nat,
           instant <= later, EndsTheLog(timestamps, log, instant)
    PROVE  EndsTheLog(timestamps, log, later)
<1> DEFINE dropped == Len(log) - Len(timestamps)
           sooner == instant \div Milli - (Window \div Milli)
           gone == later \div Milli - (Window \div Milli)
<1>1. sooner \in Int /\ gone \in Int /\ sooner <= gone
  BY WholeMs
<1>2. \A i \in DOMAIN log : log[i] \div Milli \in Nat
  <2>1. \A i \in DOMAIN log : log[i] \in Nat
    OBVIOUS
  <2>2. QED
    BY <2>1, WholeMs
<1>3. /\ dropped \in Nat
      /\ \A i \in DOMAIN log : IF i <= dropped THEN log[i] \div Milli <= sooner
                               ELSE timestamps[i - dropped] = log[i] \div Milli
  BY DEF EndsTheLog
<1> HIDE DEF sooner, gone, dropped
<1>4. \A i \in DOMAIN log : IF i <= dropped THEN log[i] \div Milli <= gone
                            ELSE timestamps[i - dropped] = log[i] \div Milli
  BY <1>1, <1>2, <1>3
<1>5. QED
  BY <1>3, <1>4 DEF EndsTheLog, gone, dropped

(* All that an evicted entry had logged has left the window.               *)
LEMMA EvictionForgetsNothing ==
    ASSUME TTL >= Window + MaxDelay, LogInv, strategy = "sliding_log", CleanShard,
           NEW key \in Keys, Expired(key)
    PROVE  EndsTheLog(<<>>, admitted[key], clock)
<1> DEFINE log == admitted[key]
<1>1. /\ clock \in Nat /\ MaxDelay \in Nat /\ Window \in Nat /\ TTL \in Nat
      /\ janitor.now \in 0 .. clock
  BY MemoryAssumption DEF CleanShard, LogInv, MemoryInv, TypeOK
<1>2. /\ store[key] # NoEntry /\ store[key].lastAccess \in 0 .. clock
      /\ janitor.now - store[key].lastAccess > TTL
  BY DEF Expired, LogInv, MemoryInv, TypeOK
<1>3. /\ log \in Seq(Nat)
      /\ \A i \in DOMAIN log : log[i] <= store[key].lastAccess + MaxDelay
  BY <1>2 DEF LogInv, KeyLogs
<1> HIDE DEF log
<1>4. ASSUME NEW i \in DOMAIN log
      PROVE  log[i] \div Milli <= clock \div Milli - (Window \div Milli)
  <2>1. log[i] \in Nat /\ log[i] <= store[key].lastAccess + MaxDelay
    BY <1>3
  <2>2. log[i] + Window <= clock
    <3> DEFINE last == log[i]
               seen == store[key].lastAccess
    <3>1. /\ last \in Nat /\ seen \in Nat /\ last <= seen + MaxDelay
          /\ janitor.now - seen > TTL
      BY <1>1, <1>2, <2>1
    <3> HIDE DEF last, seen
    <3>2. last + Window <= clock
      BY <1>1, <3>1
    <3>3. QED
      BY <3>2 DEF last
  <2>3. QED
    BY <1>1, <2>1, <2>2, WholeMs
<1>5. Len(<<>>) = 0 /\ Len(log) - 0 = Len(log) /\ Len(log) \in Nat
      /\ DOMAIN log = 1 .. Len(log)
  BY <1>3
<1>6. EndsTheLog(<<>>, log, clock)
  BY <1>4, <1>5 DEF EndsTheLog
<1>7. QED
  BY <1>6 DEF log

LEMMA LogNext ==
    ASSUME TTL >= Window + MaxDelay, LogInv, [HistoryNext]_hvars
    PROVE  LogInv'
<1>1. [Next]_vars
  BY DEF HistoryNext, Next, hvars
<1>2. MemoryInv'
  BY <1>1, EvaluateLockedKeeps, OtherActionsKeep DEF LogInv
<1>3. strategy' = strategy
  BY <1>1 DEF Next, vars, Refuse, EvaluateLocked, Enter, Reset, Close, Janitor,
              BeginCleanup, CleanShard, StopJanitor, Tick
<1>4. DOMAIN admitted' = Keys
  BY DEF HistoryNext, Served, hvars, LogInv
<1>5. ASSUME strategy = "sliding_log", NEW key \in Keys PROVE KeyLogs(key)'
  <2>1. KeyLogs(key) /\ DOMAIN store = Keys /\ DOMAIN admitted = Keys /\ clock \in Nat
    BY <1>5 DEF LogInv, MemoryInv, TypeOK
  <2>2. CASE UNCHANGED <<clock, store, admitted>>
    BY <2>1, <2>2 DEF KeyLogs, StateOf, NoEntry, EndsTheLog
  <2>3. ASSUME NEW r \in Callers, EvaluateLocked(r), Served(r)
        PROVE  KeyLogs(key)'
    BY <1>5, <2>3, EvaluateLockedLogs
  <2>4. ASSUME NEW k \in Keys, Reset(k), admitted' = [admitted EXCEPT ![k] = <<>>]
        PROVE  KeyLogs(key)'
    <3>1. /\ clock' = clock
          /\ store'[key] = IF key = k THEN NoEntry ELSE store[key]
          /\ admitted'[key] = IF key = k THEN <<>> ELSE admitted[key]
      BY <2>1, <2>4 DEF Reset
    <3>2. CASE key = k
      BY <3>1, <3>2, NothingLogged DEF KeyLogs, StateOf, NewState, NoEntry, EndsTheLog
    <3>3. CASE key # k
      BY <2>1, <3>1, <3>3 DEF KeyLogs, StateOf, NoEntry, EndsTheLog
    <3>4. QED
      BY <3>2, <3>3
  <2>5. ASSUME CleanShard, UNCHANGED admitted
        PROVE  KeyLogs(key)'
    <3>1. /\ clock' = clock
          /\ store'[key] = store[key] \/ (Expired(key) /\ store'[key] = NoEntry)
      BY <2>5 DEF CleanShard
    <3>2. CASE store'[key] = store[key]
      BY <2>1, <2>5, <3>1, <3>2 DEF KeyLogs, StateOf, NoEntry, EndsTheLog
    <3>3. CASE Expired(key) /\ store'[key] = NoEntry
      <4>1. EndsTheLog(<<>>, admitted[key], clock)
        BY <1>5, <2>5, <3>3, EvictionForgetsNothing
      <4>2. StateOf(key)'.timestamps = <<>>
        BY <3>3 DEF StateOf, NoEntry, NewState
      <4>3. QED
        BY <2>1, <2>5, <3>1, <3>3, <4>1, <4>2 DEF KeyLogs, NoEntry, EndsTheLog
    <3>4. QED
      BY <3>1, <3>2, <3>3
  <2>6. ASSUME Tick, UNCHANGED admitted
        PROVE  KeyLogs(key)'
    <3>1. clock' \in Nat /\ clock <= clock' /\ UNCHANGED <<store, admitted>>
      BY <2>1, <2>6 DEF Tick
    <3> DEFINE log == admitted[key]
    <3>2. log \in Seq(Nat) /\ \A i \in DOMAIN log : log[i] <= clock
      BY <2>1 DEF KeyLogs
    <3>3. \A i \in DOMAIN log : log[i] <= clock'
      <4>1. \A i \in DOMAIN log : log[i] \in Nat
        BY <3>2
      <4>2. QED
        BY <2>1, <3>1, <3>2, <4>1
    <3>4. EndsTheLog(StateOf(key).timestamps, log, clock')
      BY <2>1, <3>1, EndsLater DEF KeyLogs
    <3>5. StateOf(key)' = StateOf(key)
      BY <3>1 DEF StateOf, NoEntry
    <3>6. QED
      BY <2>1, <3>1, <3>3, <3>4, <3>5 DEF KeyLogs, NoEntry, EndsTheLog
  <2>7. QED
    BY <2>2, <2>3, <2>4, <2>5, <2>6
       DEF HistoryNext, hvars, vars, Enter, Close, Janitor, BeginCleanup, StopJanitor
<1>6. QED
  BY <1>2, <1>3, <1>4, <1>5 DEF LogInv

(* The sliding log never admits a request into a full window, however late *)
(* other calls lock, and a request that it refuses although the window has *)
(* room met admissions older than the window by at most the time that a    *)
(* call can be held up (slidinglog.go:33-62, memory.go:86-131), provided   *)
(* that an entry outlives the window and that time.                        *)
THEOREM LogIsAlwaysPrecise ==
    ASSUME TTL >= Window + MaxDelay
    PROVE  HistorySpec => []LogIsPrecise
<1>1. ASSUME LogInv PROVE LogIsPrecise
  <2>1. SUFFICES ASSUME strategy = "sliding_log", NEW key \in Keys
                 PROVE  LET first == (clock \div Milli - Window \div Milli + 1) * Milli
                            allowed == Verdict(key).result.allowed
                        IN  /\ allowed => AdmittedIn(admitted[key], first, clock) < Limit
                            /\ ~allowed =>
                                  AdmittedIn(admitted[key], first - MaxDelay, clock) >= Limit
    BY DEF LogIsPrecise
  <2> DEFINE state == StateOf(key)
             log == admitted[key]
             cutoff == clock \div Milli - Window \div Milli
             live == SL!Trim(state.timestamps, cutoff)
  <2>2. clock \in Nat /\ state.timestamps \in Seq(Nat) /\ cutoff \in Int
    <3>1. clock \in Nat
      BY <1>1 DEF LogInv, MemoryInv, TypeOK
    <3>2. state.timestamps \in Seq(Nat)
      BY <1>1, StateOfIsSound, StateFields DEF LogInv, Sound
    <3>3. QED
      BY <3>1, <3>2, WholeMs
  <2>3. /\ log \in Seq(Nat)
        /\ \A i \in DOMAIN log : log[i] <= clock
        /\ \A i, j \in DOMAIN log : i <= j => log[i] <= log[j] + MaxDelay
        /\ EndsTheLog(state.timestamps, log, clock)
    BY <1>1, <2>1 DEF LogInv, KeyLogs
  <2>4. /\ live \in Seq(Nat) /\ EndsTheLog(live, log, clock)
        /\ live # <<>> => live[1] > cutoff
    <3>1. cutoff <= clock \div Milli - Window \div Milli
      BY <2>2
    <3> HIDE DEF cutoff
    <3>2. QED
      BY <2>2, <2>3, <3>1, TrimmedEndsTheLog
  <2>5. Verdict(key).result.allowed = (Len(live) < Limit)
    BY <2>1 DEF Verdict, Evaluate, SL!EvaluateMemory, SL!Evaluation
  <2> HIDE DEF live, log
  <2>6. QED
    BY <2>2, <2>3, <2>4, <2>5, PreciseVerdict DEF log
<1>2. QED
  BY LogInit, LogNext, <1>1, PTL DEF HistorySpec
===============================================================================
