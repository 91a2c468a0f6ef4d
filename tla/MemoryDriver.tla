------------------------------ MODULE MemoryDriver ----------------------------
(***************************************************************************)
(* src/driver/memory/memory.go: a sharded map of rate limit states, the    *)
(* goroutines that evaluate requests on it and the janitor that evicts idle*)
(* keys.  What runs under a shard's mutex is one step; a request reads the *)
(* clock before it locks, so it may evaluate with an instant that is past. *)
(***************************************************************************)
EXTENDS Algorithm, FiniteSets

CONSTANTS
    Callers,        \* goroutines that call Allow
    Keys,           \* rate limit keys
    Strategies,     \* the algorithms to check; a run of the driver uses one
    Limit, Window,  \* the policy of the calls
    TTL,            \* Driver.ttl
    ShardCount,     \* shardCount, 64 in the code
    ShardOf,        \* getShard: the shard of each key
    MaxDelay,       \* bound: time between a call's clock reading and its lock
    MaxTime,        \* bound: the clock stops here
    MaxCalls        \* bound: calls of Allow that reach a shard

ASSUME MemoryAssumption ==
    /\ Strategies \subseteq AllStrategies
    /\ {Limit, Window, TTL, ShardCount, MaxTime, MaxCalls} \subseteq Nat \ {0}
    /\ MaxDelay \in Nat
    /\ ShardOf \in [Keys -> 0 .. ShardCount - 1]
    /\ TokenUnit % Window = 0

VARIABLES
    strategy,       \* the Algorithm that the limiter was built with
    clock,          \* time.Now()
    store,          \* the entry of each key, over all shards
    call,           \* the key and the clock reading of each call under way
    calls,          \* calls so far
    tickPending,    \* a tick waits in cleanTicker.C, a channel of capacity one
    closed,         \* Driver.done is closed and the ticker stopped
    janitor         \* where startCleanup is, and cleanup's now and i

vars == <<strategy, clock, store, call, calls, tickPending, closed, janitor>>

NoEntry == [lastAccess |-> NoTime]
NoCall == [now |-> NoTime]

FW == INSTANCE FixedWindow
SC == INSTANCE SlidingCounter
SL == INSTANCE SlidingLog
TB == INSTANCE TokenBucket
LB == INSTANCE LeakyBucket

(* The call of alg.EvaluateMemory through the Algorithm interface.         *)
Evaluate(now, state) ==
    CASE strategy = "fixed_window" -> FW!EvaluateMemory(now, state, Limit, Window)
      [] strategy = "sliding_counter" -> SC!EvaluateMemory(now, state, Limit, Window)
      [] strategy = "sliding_log" -> SL!EvaluateMemory(now, state, Limit, Window)
      [] strategy = "token_bucket" -> TB!EvaluateMemory(now, state, Limit, Window)
      [] strategy = "leaky_bucket" -> LB!EvaluateMemory(now, state, Limit, Window)

(* The state that a call finds for a key: a new one when it has no entry.  *)
StateOf(key) == IF store[key] = NoEntry THEN NewState ELSE store[key].state

Init ==
    /\ strategy \in Strategies
    /\ clock = 0
    /\ store = [key \in Keys |-> NoEntry]
    /\ call = [r \in Callers |-> NoCall]
    /\ calls = 0
    /\ tickPending = FALSE
    /\ closed = FALSE
    /\ janitor = [at |-> "select"]

-------------------------------------------------------------------------------
(* Allow up to the lock: a context that has ended is refused here.         *)
Enter(r, key) ==
    /\ call[r] = NoCall
    /\ calls < MaxCalls
    /\ call' = [call EXCEPT ![r] = [key |-> key, now |-> clock]]
    /\ calls' = calls + 1
    /\ UNCHANGED <<strategy, clock, store, tickPending, closed, janitor>>

Refuse(r) ==
    /\ call[r] = NoCall
    /\ UNCHANGED vars

(* Mutant: only a new entry gets its lastAccess.                           *)
EvaluateWithoutTouch(r) ==
    /\ call[r] # NoCall
    /\ LET key == call[r].key
           now == call[r].now
           touched == IF store[key] = NoEntry THEN now ELSE store[key].lastAccess
       IN  store' = [store EXCEPT ![key] =
                        [lastAccess |-> touched,
                         state |-> Evaluate(now, StateOf(key)).state]]
    /\ call' = [call EXCEPT ![r] = NoCall]
    /\ UNCHANGED <<strategy, clock, calls, tickPending, closed, janitor>>

(* Allow under the lock: the entry is created or refreshed, and evaluated. *)
EvaluateLocked(r) ==
    /\ call[r] # NoCall
    /\ LET key == call[r].key
           now == call[r].now
       IN  store' = [store EXCEPT ![key] =
                        [lastAccess |-> now, state |-> Evaluate(now, StateOf(key)).state]]
    /\ call' = [call EXCEPT ![r] = NoCall]
    /\ UNCHANGED <<strategy, clock, calls, tickPending, closed, janitor>>

Reset(key) ==
    /\ store' = [store EXCEPT ![key] = NoEntry]
    /\ UNCHANGED <<strategy, clock, call, calls, tickPending, closed, janitor>>

(* closeOnce: a second Close changes nothing.                              *)
Close ==
    /\ closed' = TRUE
    /\ UNCHANGED <<strategy, clock, store, call, calls, tickPending, janitor>>

-------------------------------------------------------------------------------
(* startCleanup takes either branch of its select when both are ready.     *)

BeginCleanup ==
    /\ janitor.at = "select"
    /\ tickPending
    /\ tickPending' = FALSE
    /\ janitor' = [at |-> "cleanup", now |-> clock, shard |-> 0]
    /\ UNCHANGED <<strategy, clock, store, call, calls, closed>>

Expired(key) ==
    store[key] # NoEntry /\ janitor.now - store[key].lastAccess > TTL

(* One shard is locked, swept with the clock reading of the whole sweep.   *)
CleanShard ==
    /\ janitor.at = "cleanup"
    /\ store' = [key \in Keys |->
                    IF ShardOf[key] = janitor.shard /\ Expired(key)
                    THEN NoEntry ELSE store[key]]
    /\ janitor' = IF janitor.shard + 1 < ShardCount
                  THEN [janitor EXCEPT !.shard = @ + 1]
                  ELSE [at |-> "select"]
    /\ UNCHANGED <<strategy, clock, call, calls, tickPending, closed>>

(* Mutant: a break that leaves the select and not the loop.                *)
BreakSelect ==
    /\ janitor.at = "select"
    /\ closed
    /\ UNCHANGED vars

StopJanitor ==
    /\ janitor.at = "select"
    /\ closed
    /\ janitor' = [at |-> "stopped"]
    /\ UNCHANGED <<strategy, clock, store, call, calls, tickPending, closed>>

-------------------------------------------------------------------------------
(* A ticker that runs offers a tick every TTL and drops it when one waits. *)
Tick ==
    /\ clock < MaxTime
    /\ \A r \in Callers : call[r] # NoCall => clock < call[r].now + MaxDelay
    /\ clock' = clock + 1
    /\ tickPending' = (tickPending \/ (~closed /\ clock' % TTL = 0))
    /\ UNCHANGED <<strategy, store, call, calls, closed, janitor>>

Janitor == BeginCleanup \/ CleanShard \/ StopJanitor

Next ==
    \/ \E r \in Callers : Refuse(r) \/ EvaluateLocked(r)
    \/ \E r \in Callers, key \in Keys : Enter(r, key)
    \/ \E key \in Keys : Reset(key)
    \/ Close
    \/ Janitor
    \/ Tick

Spec == Init /\ [][Next]_vars

(* The scheduler runs the janitor; nothing is assumed of the callers.      *)
FairSpec == Spec /\ WF_vars(Janitor)

-------------------------------------------------------------------------------
(* Properties.                                                             *)

States == [count : Nat, prevCount : Nat, lastUpdate : Nat \cup {NoTime},
           tokens : 0 .. Limit * TokenUnit, timestamps : Seq(Nat)]

(* Every entry is a State that the strategies can leave behind: no level   *)
(* above the capacity or below zero, and no instant after the clock.       *)
TypeOK ==
    /\ strategy \in Strategies
    /\ clock \in 0 .. MaxTime
    /\ \A key \in Keys : store[key] # NoEntry =>
          /\ store[key].lastAccess \in 0 .. clock
          /\ store[key].state \in States
          /\ store[key].state.lastUpdate <= clock
    /\ \A r \in Callers : call[r] # NoCall =>
          /\ call[r].key \in Keys /\ call[r].now \in 0 .. clock
          /\ clock - call[r].now <= MaxDelay
    /\ calls \in 0 .. MaxCalls
    /\ {tickPending, closed} \subseteq BOOLEAN
    /\ \/ janitor \in [at : {"select", "stopped"}]
       \/ janitor \in [at : {"cleanup"}, now : 0 .. clock, shard : 0 .. ShardCount - 1]

(* What a request on the key would get if it ran now, and what the next one*)
(* would get after it.                                                     *)
Verdict(key) == Evaluate(clock, StateOf(key))
FollowUp(key, instant) == Evaluate(instant, Verdict(key).state).result

(* Remaining tells the truth: the next request at the same instant is      *)
(* admitted exactly when the last Result left some, and takes one of them  *)
(* (interface.go:12-13).                                                   *)
RemainingIsTrue ==
    \A key \in Keys :
        LET left == Verdict(key).result.remaining
            next == FollowUp(key, clock)
        IN  /\ next.allowed <=> left > 0
            /\ next.allowed => next.remaining = left - 1

(* ResetIn tells the truth: a caller that was refused, waits for ResetIn   *)
(* and the tick it was cut to, and finds no other request in between, is   *)
(* admitted (interface.go:14).                                             *)
RetryIsAdmitted ==
    \A key \in Keys :
        LET result == Verdict(key).result
        IN  ~result.allowed => FollowUp(key, clock + result.resetIn + 1).allowed

(* Close ends the janitor, whatever it is doing and however many ticks are *)
(* due (memory.go:107-116, 143-149).                                       *)
JanitorStops == closed ~> janitor.at = "stopped"
===============================================================================
