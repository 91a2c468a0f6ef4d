------------------------------ MODULE RedisDriver -----------------------------
(***************************************************************************)
(* src/driver/redis/redis.go: Allow sends the script of the algorithm with *)
(* the policy and a reading of the caller's own clock; Redis runs it at    *)
(* once, some time after the reading, and its answer may be lost.  Ticks   *)
(* are milliseconds and clock is the clock of the Redis server.            *)
(***************************************************************************)
EXTENDS Algorithm, Redis

CONSTANTS
    Callers,        \* calls of Allow that may be under way together
    Keys,           \* rate limit keys
    Strategies,     \* the algorithms to check; a run of the driver uses one
    Policies,       \* records of a limit and a window in whole milliseconds
    ClockErrors,    \* by how much a caller's clock may differ from Redis'
    MaxDelay,       \* bound: time between the clock reading and the script
    StartTime,      \* Redis' clock at the start
    MaxTime,        \* bound: the clock stops here
    MaxCalls        \* bound: requests sent, repeated ones included

(* windowMs: a window below a millisecond counts as one.                   *)
WindowMs(window) == IF window < 1 THEN 1 ELSE window

(* Windows are numbered from one on, as they are with Unix time.           *)
ASSUME RedisAssumption ==
    /\ Strategies \subseteq AllStrategies
    /\ Milli = 1
    /\ ClockErrors \subseteq Int
    /\ {MaxDelay, StartTime, MaxTime, MaxCalls} \subseteq Nat
    /\ StartTime <= MaxTime
    /\ \A policy \in Policies :
          /\ policy.limit \in Nat \ {0}
          /\ policy.window \in Nat
          /\ TokenUnit % WindowMs(policy.window) = 0
          /\ \A error \in ClockErrors : StartTime + error >= WindowMs(policy.window)

VARIABLES
    strategy,       \* the Algorithm that the limiter was built with
    clock,          \* Redis' clock
    db,             \* the keyspace
    call,           \* the arguments of each call under way
    calls           \* requests sent so far

vars == <<strategy, clock, db, call, calls>>

NoCall == [sent |-> NoTime]

FW == INSTANCE FixedWindow
SC == INSTANCE SlidingCounter
SL == INSTANCE SlidingLog
TB == INSTANCE TokenBucket
LB == INSTANCE LeakyBucket

(* The script of the strategy, run on a keyspace at an instant of Redis'   *)
(* clock.                                                                  *)
Script(keyspace, at, key, policy, now) ==
    LET limit == policy.limit
        window == WindowMs(policy.window)
    IN  CASE strategy = "fixed_window" -> FW!RedisScript(keyspace, at, key, limit, window, now)
          [] strategy = "sliding_counter" -> SC!RedisScript(keyspace, at, key, limit, window, now)
          [] strategy = "sliding_log" -> SL!RedisScript(keyspace, at, key, limit, window, now)
          [] strategy = "token_bucket" -> TB!RedisScript(keyspace, at, key, limit, window, now)
          [] strategy = "leaky_bucket" -> LB!RedisScript(keyspace, at, key, limit, window, now)

Outcome(r) == Script(db, clock, call[r].key, call[r].policy, call[r].now)

Init ==
    /\ strategy \in Strategies
    /\ clock = StartTime
    /\ db = <<>>
    /\ call = [r \in Callers |-> NoCall]
    /\ calls = 0

-------------------------------------------------------------------------------
(* Allow up to Eval.  The policy is the one that the limiter passes.       *)
Send(r, key, policy, error) ==
    /\ call[r] = NoCall
    /\ calls < MaxCalls
    /\ call' = [call EXCEPT ![r] = [key |-> key, policy |-> policy,
                                    now |-> clock + error, sent |-> clock]]
    /\ calls' = calls + 1
    /\ UNCHANGED <<strategy, clock, db>>

(* The script runs; the caller gets the Result or, when the answer is lost *)
(* or its context ends first, an error.                                    *)
Execute(r) ==
    /\ call[r] # NoCall
    /\ db' = Outcome(r).db
    /\ call' = [call EXCEPT ![r] = NoCall]
    /\ UNCHANGED <<strategy, clock, calls>>

(* The script runs, the answer is lost, and the client library sends the   *)
(* same request again: the same clock reading, at a later time.            *)
Repeat(r) ==
    /\ call[r] # NoCall
    /\ calls < MaxCalls
    /\ db' = Outcome(r).db
    /\ calls' = calls + 1
    /\ UNCHANGED <<strategy, clock, call>>

(* The request is lost: an error for the caller.                           *)
Lose(r) ==
    /\ call[r] # NoCall
    /\ call' = [call EXCEPT ![r] = NoCall]
    /\ UNCHANGED <<strategy, clock, db, calls>>

Reset(key) ==
    /\ db' = Del(db, {Plain(key), SeqKey(key)})
    /\ UNCHANGED <<strategy, clock, call, calls>>

(* Redis' clock moves on and expired keys are gone.                        *)
Tick ==
    /\ clock < MaxTime
    /\ \A r \in Callers : call[r] # NoCall => clock < call[r].sent + MaxDelay
    /\ clock' = clock + 1
    /\ db' = Live(db, clock')
    /\ UNCHANGED <<strategy, call, calls>>

Next ==
    \/ \E r \in Callers, key \in Keys, policy \in Policies, error \in ClockErrors :
          Send(r, key, policy, error)
    \/ \E r \in Callers : Execute(r) \/ Repeat(r) \/ Lose(r)
    \/ \E key \in Keys : Reset(key)
    \/ Tick

Spec == Init /\ [][Next]_vars

-------------------------------------------------------------------------------
(* Properties.                                                             *)

(* Redis never fills up: every key that the driver leaves behind is gone   *)
(* at the latest two windows after it was last used.                       *)
TypeOK ==
    /\ strategy \in Strategies
    /\ clock \in StartTime .. MaxTime
    /\ \A name \in DOMAIN db :
          /\ \E key \in Keys : name[1] = key
          /\ \E policy \in Policies :
                db[name].expireAt \in clock .. clock + 2 * WindowMs(policy.window)
    /\ \A r \in Callers : call[r] # NoCall =>
          /\ call[r].key \in Keys /\ call[r].policy \in Policies
          /\ clock - call[r].sent \in 0 .. MaxDelay
          /\ call[r].now - call[r].sent \in ClockErrors
    /\ calls \in 0 .. MaxCalls

(* What a call would get now from a caller whose clock is off by error, and*)
(* what the next one would get after a wait.                               *)
Verdict(key, policy, error) == Script(db, clock, key, policy, clock + error)
FollowUp(key, policy, error, wait) ==
    LET left == Live(Verdict(key, policy, error).db, clock + wait)
    IN  Script(left, clock + wait, key, policy, clock + wait + error).reply

(* Remaining tells the truth: the next request at the same reading is      *)
(* admitted exactly when the answer left some, and takes one of them       *)
(* (interface.go:12-13), whatever clocks the callers before had.           *)
RemainingIsTrue ==
    \A key \in Keys, policy \in Policies, error \in ClockErrors :
        LET left == Verdict(key, policy, error).reply.remaining
            next == FollowUp(key, policy, error, 0)
        IN  /\ next.allowed <=> left > 0
            /\ next.allowed => next.remaining = left - 1
===============================================================================
