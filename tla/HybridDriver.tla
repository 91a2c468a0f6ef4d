----------------------------- MODULE HybridDriver -----------------------------
(***************************************************************************)
(* src/driver/hybrid/hybrid.go: a primary driver (Redis) behind a circuit  *)
(* breaker, with a fallback driver (memory).  Every goroutine runs Allow   *)
(* or Reset; each load, store and compare-and-swap of an atomic field, each*)
(* read of the clock and each driver call is a step of its own.            *)
(*                                                                         *)
(* Time is kept relative: an instant that the code stores is represented   *)
(* by its age, capped at CoolOff, since the code only ever asks whether    *)
(* the cool-off has passed.  The state graph is then finite without a      *)
(* bound on the clock.                                                     *)
(***************************************************************************)
EXTENDS Naturals

CONSTANTS
    Callers,        \* goroutines that call Allow, for one key
    Admins,         \* goroutines that call Reset, for the same key
    CoolOff,        \* Driver.coolOff in ticks; WithCoolOffDuration accepts 0
    CountMod,       \* fallbackCount is a uint64: it wraps at CountMod
    Cancellation    \* whether a caller's context may end during a call

ASSUME HybridAssumption ==
    /\ Callers \cap Admins = {}
    /\ CoolOff \in Nat
    /\ CountMod \in Nat \ {0}
    /\ Cancellation \in BOOLEAN

VARIABLES
    isDown,         \* Driver.isDown
    lastFail,       \* age of Driver.lastFailUnix
    probingActive,  \* Driver.probingActive
    fallbackCount,  \* Driver.fallbackCount
    entries,        \* the tiers that hold an entry for the key
    healthy,        \* environment: the primary serves a call made now
    pc,             \* what each goroutine does next
    stamp           \* age of the instant a goroutine holds in a local

driverVars == <<isDown, lastFail, probingActive, fallbackCount>>
vars == <<driverVars, entries, healthy, pc, stamp>>

Tiers == {"primary", "fallback"}
Ages == 0 .. CoolOff

(* Between a won CompareAndSwap of probingActive and its release.          *)
ProbeSection == {"probe", "setUp", "release", "probeNow", "probeStore", "giveUp"}
CallerLabels == ProbeSection \cup
    {"idle", "loadLastFail", "checkCoolOff", "casProbing", "primary", "casDown",
     "tripNow", "tripStore", "onError", "count", "fallback"}
AdminLabels == {"idle", "loadIsDown", "resetPrimary"}

(* Instants that are over the cool-off, among them the zero of lastFailUnix*)
(* and every local that is not in use.                                     *)
Expired == CoolOff

Init ==
    /\ isDown = FALSE
    /\ lastFail = Expired
    /\ probingActive = FALSE
    /\ fallbackCount = 0
    /\ entries = {}
    /\ healthy = TRUE
    /\ pc = [g \in Callers \cup Admins |-> "idle"]
    /\ stamp = [r \in Callers |-> Expired]

Goto(g, from, to) ==
    /\ pc[g] = from
    /\ pc' = [pc EXCEPT ![g] = to]

Older(age) == IF age < CoolOff THEN age + 1 ELSE age

(* What a call of the primary may do: serve the request, or fail with or   *)
(* without having updated the entry (the answer may be lost).              *)
Serves == healthy /\ entries' = entries \cup {"primary"}
Errs ==
    /\ ~healthy \/ Cancellation
    /\ entries' \in {entries, entries \cup {"primary"}}

-------------------------------------------------------------------------------
(* Allow, the breaker closed.                                              *)

EnterClosed(r) ==
    /\ ~isDown
    /\ Goto(r, "idle", "primary")
    /\ UNCHANGED <<driverVars, entries, healthy, stamp>>

PrimaryServes(r) ==
    /\ Goto(r, "primary", "idle")
    /\ Serves
    /\ UNCHANGED <<driverVars, healthy, stamp>>

(* Mutant: the error is returned to the caller.                            *)
PrimaryErrsReturned(r) ==
    /\ Goto(r, "primary", "idle")
    /\ Errs
    /\ UNCHANGED <<driverVars, healthy, stamp>>

PrimaryErrs(r) ==
    /\ Goto(r, "primary", "casDown")
    /\ Errs
    /\ UNCHANGED <<driverVars, healthy, stamp>>

(* Mutants: a plain store instead of the swap; the swap's arguments reversed*)
StoreDown(r) ==
    /\ Goto(r, "casDown", "tripNow")
    /\ isDown' = TRUE
    /\ UNCHANGED <<lastFail, probingActive, fallbackCount, entries, healthy, stamp>>

CasUp(r) ==
    /\ Goto(r, "casDown", IF isDown THEN "tripNow" ELSE "count")
    /\ isDown' = FALSE
    /\ UNCHANGED <<lastFail, probingActive, fallbackCount, entries, healthy, stamp>>

(* The winner of the swap stamps and reports the outage; the losers only   *)
(* fall back.                                                              *)
CasDown(r) ==
    /\ \/ /\ ~isDown
          /\ Goto(r, "casDown", "tripNow")
       \/ /\ isDown
          /\ Goto(r, "casDown", "count")
    /\ isDown' = TRUE
    /\ UNCHANGED <<lastFail, probingActive, fallbackCount, entries, healthy, stamp>>

(* Allow, the breaker open.                                                *)

EnterOpen(r) ==
    /\ isDown
    /\ Goto(r, "idle", "loadLastFail")
    /\ UNCHANGED <<driverVars, entries, healthy, stamp>>

LoadLastFail(r) ==
    /\ Goto(r, "loadLastFail", "checkCoolOff")
    /\ stamp' = [stamp EXCEPT ![r] = lastFail]
    /\ UNCHANGED <<driverVars, entries, healthy>>

CheckCoolOff(r) ==
    /\ Goto(r, "checkCoolOff", IF stamp[r] >= CoolOff THEN "casProbing" ELSE "count")
    /\ stamp' = [stamp EXCEPT ![r] = Expired]
    /\ UNCHANGED <<driverVars, entries, healthy>>

(* Mutant: the flag is stored, not swapped.                                *)
StoreProbing(r) ==
    /\ Goto(r, "casProbing", "probe")
    /\ probingActive' = TRUE
    /\ UNCHANGED <<isDown, lastFail, fallbackCount, entries, healthy, stamp>>

CasProbing(r) ==
    /\ \/ /\ ~probingActive
          /\ Goto(r, "casProbing", "probe")
       \/ /\ probingActive
          /\ Goto(r, "casProbing", "count")
    /\ probingActive' = TRUE
    /\ UNCHANGED <<isDown, lastFail, fallbackCount, entries, healthy, stamp>>

ProbeServes(r) ==
    /\ Goto(r, "probe", "setUp")
    /\ Serves
    /\ UNCHANGED <<driverVars, healthy, stamp>>

SetUp(r) ==
    /\ Goto(r, "setUp", "release")
    /\ isDown' = FALSE
    /\ UNCHANGED <<lastFail, probingActive, fallbackCount, entries, healthy, stamp>>

(* Mutant: the probe's error is not looked at.                             *)
ProbeErrIgnored(r) ==
    /\ Goto(r, "probe", "setUp")
    /\ Errs
    /\ UNCHANGED <<driverVars, healthy, stamp>>

ProbeErrs(r) ==
    /\ Goto(r, "probe", "probeNow")
    /\ Errs
    /\ UNCHANGED <<driverVars, healthy, stamp>>

(* lastFailUnix.Store(time.Now().UnixNano()): the clock is read, then the  *)
(* value stored, after a trip and after a failed probe alike.              *)
ReadClock(r) ==
    /\ \/ Goto(r, "tripNow", "tripStore")
       \/ Goto(r, "probeNow", "probeStore")
    /\ stamp' = [stamp EXCEPT ![r] = 0]
    /\ UNCHANGED <<driverVars, entries, healthy>>

(* Mutant: a failed probe does not restart the cool-off.                   *)
StoreOpening(r) ==
    /\ \/ Goto(r, "tripStore", "onError") /\ lastFail' = stamp[r]
       \/ Goto(r, "probeStore", "giveUp") /\ UNCHANGED lastFail
    /\ stamp' = [stamp EXCEPT ![r] = Expired]
    /\ UNCHANGED <<isDown, probingActive, fallbackCount, entries, healthy>>

StoreLastFail(r) ==
    /\ \/ Goto(r, "tripStore", "onError")
       \/ Goto(r, "probeStore", "giveUp")
    /\ lastFail' = stamp[r]
    /\ stamp' = [stamp EXCEPT ![r] = Expired]
    /\ UNCHANGED <<isDown, probingActive, fallbackCount, entries, healthy>>

(* Mutants: a failed probe keeps the flag; a probe that was served goes on *)
(* to the fallback.                                                        *)
ReleaseOnSuccess(r) ==
    /\ \/ Goto(r, "release", "idle") /\ probingActive' = FALSE
       \/ Goto(r, "giveUp", "onError") /\ UNCHANGED probingActive
    /\ UNCHANGED <<isDown, lastFail, fallbackCount, entries, healthy, stamp>>

ReleaseFallsThrough(r) ==
    /\ \/ Goto(r, "release", "count")
       \/ Goto(r, "giveUp", "onError")
    /\ probingActive' = FALSE
    /\ UNCHANGED <<isDown, lastFail, fallbackCount, entries, healthy, stamp>>

ReleaseProbe(r) ==
    /\ \/ Goto(r, "release", "idle")
       \/ Goto(r, "giveUp", "onError")
    /\ probingActive' = FALSE
    /\ UNCHANGED <<isDown, lastFail, fallbackCount, entries, healthy, stamp>>

(* Mutant: the reporting caller falls back without being counted.          *)
OnErrorUncounted(r) ==
    /\ Goto(r, "onError", "fallback")
    /\ UNCHANGED <<driverVars, entries, healthy, stamp>>

OnError(r) ==
    /\ Goto(r, "onError", "count")
    /\ UNCHANGED <<driverVars, entries, healthy, stamp>>

(* The fallback, with its entry untouched when the context has ended.      *)

(* Mutant: a counter that does not wrap.                                   *)
CountUnbounded(r) ==
    /\ Goto(r, "count", "fallback")
    /\ fallbackCount' = fallbackCount + 1
    /\ UNCHANGED <<isDown, lastFail, probingActive, entries, healthy, stamp>>

CountFallback(r) ==
    /\ Goto(r, "count", "fallback")
    /\ fallbackCount' = (fallbackCount + 1) % CountMod
    /\ UNCHANGED <<isDown, lastFail, probingActive, entries, healthy, stamp>>

CallFallback(r) ==
    /\ Goto(r, "fallback", "idle")
    /\ \/ entries' = entries \cup {"fallback"}
       \/ Cancellation /\ UNCHANGED entries
    /\ UNCHANGED <<driverVars, healthy, stamp>>

-------------------------------------------------------------------------------
(* Reset.                                                                  *)

ResetFallback(a) ==
    /\ Goto(a, "idle", "loadIsDown")
    /\ entries' = entries \ {"fallback"}
    /\ UNCHANGED <<driverVars, healthy, stamp>>

LoadIsDown(a) ==
    /\ Goto(a, "loadIsDown", IF isDown THEN "idle" ELSE "resetPrimary")
    /\ UNCHANGED <<driverVars, entries, healthy, stamp>>

ResetPrimary(a) ==
    /\ Goto(a, "resetPrimary", "idle")
    /\ \/ healthy /\ entries' = entries \ {"primary"}
       \/ Cancellation /\ UNCHANGED entries
       \/ ~healthy /\ entries' \in {entries, entries \ {"primary"}}
    /\ UNCHANGED <<driverVars, healthy, stamp>>

-------------------------------------------------------------------------------
(* The environment: the clock, and the primary going down and coming back. *)

Tick ==
    /\ lastFail' = Older(lastFail)
    /\ stamp' = [r \in Callers |-> Older(stamp[r])]
    /\ UNCHANGED <<isDown, probingActive, fallbackCount, entries, healthy, pc>>

Outage ==
    /\ healthy' = ~healthy
    /\ UNCHANGED <<driverVars, entries, pc, stamp>>

Arrive(r) == EnterClosed(r) \/ EnterOpen(r)

Continue(r) ==
    \/ PrimaryServes(r) \/ PrimaryErrs(r) \/ CasDown(r)
    \/ LoadLastFail(r) \/ CheckCoolOff(r) \/ CasProbing(r)
    \/ ProbeServes(r) \/ SetUp(r) \/ ProbeErrs(r)
    \/ ReadClock(r) \/ StoreLastFail(r) \/ ReleaseProbe(r)
    \/ OnError(r) \/ CountFallback(r) \/ CallFallback(r)

Reset(a) == ResetFallback(a) \/ LoadIsDown(a) \/ ResetPrimary(a)

Next ==
    \/ \E r \in Callers : Arrive(r) \/ Continue(r)
    \/ \E a \in Admins : Reset(a)
    \/ Tick
    \/ Outage

Spec == Init /\ [][Next]_vars

(* The scheduler runs every goroutine, every driver call returns (callers  *)
(* give it a context with a deadline), traffic for the key does not stop   *)
(* and the clock moves.  Nothing is assumed of outages or resets.          *)
FairSpec ==
    /\ Spec
    /\ \A r \in Callers : WF_vars(Arrive(r)) /\ WF_vars(Continue(r))
    /\ WF_vars(Tick)

-------------------------------------------------------------------------------
(* Properties.                                                             *)

(* Every atomic field holds a value of its Go type and every goroutine is  *)
(* at a statement of the function it runs.                                 *)
TypeOK ==
    /\ isDown \in BOOLEAN
    /\ lastFail \in Ages
    /\ probingActive \in BOOLEAN
    /\ fallbackCount \in 0 .. CountMod - 1
    /\ entries \subseteq Tiers
    /\ healthy \in BOOLEAN
    /\ pc \in [Callers \cup Admins -> CallerLabels \cup AdminLabels]
    /\ \A r \in Callers : pc[r] \in CallerLabels
    /\ \A a \in Admins : pc[a] \in AdminLabels
    /\ stamp \in [Callers -> Ages]

(* At most one goroutine tests the primary at a time, and probingActive is *)
(* set exactly while one does: Allow never leaks the flag on an early      *)
(* return, and no store of another goroutine releases it (hybrid.go:82-94).*)
SingleProbe ==
    /\ \A r, s \in Callers :
          pc[r] \in ProbeSection /\ pc[s] \in ProbeSection => r = s
    /\ probingActive <=> \E r \in Callers : pc[r] \in ProbeSection

(* The driver implements the abstract breaker: a test is what a goroutine  *)
(* does inside the probe section (hybrid.go:71-119).                       *)
Phase(label) ==
    CASE label = "probe" -> "running"
      [] label = "setUp" -> "passed"
      [] label = "release" -> "applied"
      [] label \in {"probeNow", "probeStore", "giveUp"} -> "failed"
      [] OTHER -> "none"

Breaker == INSTANCE CircuitBreaker
    WITH open <- isDown, test <- [r \in Callers |-> Phase(pc[r])]

ImplementsBreaker == Breaker!Spec

(* Once the primary stays healthy the breaker closes for good, whatever    *)
(* answers, stamps and probes were still in flight (hybrid.go:81-89).      *)
Recovery == <>[]healthy => <>[]~isDown

(* Once the primary stays down the breaker opens for good, although the    *)
(* verdict of a probe it served earlier may still close it once            *)
(* (hybrid.go:87, 110).                                                    *)
Detection == <>[]~healthy => <>[]isDown
===============================================================================
