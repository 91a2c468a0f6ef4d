-------------------------------- MODULE Limiter -------------------------------
(***************************************************************************)
(* src/distlimit.go: AllowKey and UpdatePolicy over the hybrid driver.  The*)
(* goroutines that call AllowKey for the driver's key are its Callers; the *)
(* driver's own steps are taken from HybridDriver, and what the two drivers*)
(* below it decide is added here: within a window a strategy is a count of *)
(* the requests it admitted, in each tier.                                 *)
(***************************************************************************)
EXTENDS HybridDriver

CONSTANTS
    Policies,       \* arguments of New and UpdatePolicy, also invalid ones
    Answers,        \* what the PolicyResolver may answer, the zero Policy for none
    MaxRequests     \* bound: requests in the window

Valid(p) == p.limit > 0 /\ p.window > 0

ASSUME LimiterAssumption ==
    /\ Policies \cup Answers \subseteq [limit : Nat, window : Nat]
    /\ MaxRequests \in Nat

VARIABLES
    policy,         \* Limiter.policy, an atomic pointer to an immutable Policy
    request,        \* the locals of each AllowKey under way
    used,           \* requests that each tier has admitted in the window
    events,         \* requests_total of the observer, by status
    arrived         \* requests so far

limiterVars == <<policy, request, used, events, arrived>>
lvars == <<vars, limiterVars>>

NoRequest == [at |-> "none"]

LimiterInit ==
    /\ Init
    /\ policy \in {p \in Policies : Valid(p)}
    /\ request = [r \in Callers |-> NoRequest]
    /\ used = [tier \in Tiers |-> 0]
    /\ events = [allowed |-> 0, blocked |-> 0]
    /\ arrived = 0

At(r, label) == request[r].at = label

-------------------------------------------------------------------------------
(* Mutant: no validation.                                                  *)
StorePolicy(p) ==
    /\ policy' = p
    /\ UNCHANGED <<vars, request, used, events, arrived>>

(* An invalid policy is ignored.                                           *)
UpdatePolicy(p) ==
    /\ policy' = IF Valid(p) THEN p ELSE policy
    /\ UNCHANGED <<vars, request, used, events, arrived>>

(* Limit and window come from one load of the pointer, or from the resolver*)
(* when its answer is valid.                                               *)
LoadPolicy(r, answer) ==
    /\ At(r, "none")
    /\ arrived < MaxRequests
    /\ arrived' = arrived + 1
    /\ request' = [request EXCEPT ![r] =
                      [at |-> "call", verdict |-> "none",
                       policy |-> IF Valid(answer) THEN answer ELSE policy]]
    /\ UNCHANGED <<vars, policy, used, events>>

CallDriver(r) ==
    /\ At(r, "call")
    /\ Arrive(r)
    /\ request' = [request EXCEPT ![r].at = "driver"]
    /\ UNCHANGED <<policy, used, events, arrived>>

(* A tier admits a request while it has admitted fewer than the limit that *)
(* comes with it.                                                          *)
Admits(r, tier) == used[tier] < request[r].policy.limit
Counted(r, tier) == IF Admits(r, tier) THEN [used EXCEPT ![tier] = @ + 1] ELSE used

(* The request goes on in the driver, or leaves it with a Result or, when  *)
(* no tier has answered, with an error.                                    *)
Continues(r, verdict) ==
    request' = [request EXCEPT ![r].verdict = verdict,
                               ![r].at = IF pc'[r] = "idle" THEN "observe" ELSE "driver"]

Answered(r, tier) ==
    /\ used' = Counted(r, tier)
    /\ Continues(r, IF Admits(r, tier) THEN "allowed" ELSE "refused")

(* The primary's answer is lost: it has counted the request or it has not. *)
Lost(r) ==
    /\ used' \in {used, Counted(r, "primary")}
    /\ used' # used => "primary" \in entries'
    /\ Continues(r, "none")

Silent(r) ==
    /\ UNCHANGED used
    /\ Continues(r, request[r].verdict)

InDriver(r) ==
    /\ At(r, "driver")
    /\ \/ (PrimaryServes(r) \/ ProbeServes(r)) /\ Answered(r, "primary")
       \/ (PrimaryErrs(r) \/ ProbeErrs(r)) /\ Lost(r)
       \/ CallFallback(r) /\ "fallback" \in entries' /\ Answered(r, "fallback")
       \/ CallFallback(r) /\ Cancellation /\ entries' = entries /\ Silent(r)
       \/ (CasDown(r) \/ LoadLastFail(r) \/ CheckCoolOff(r) \/ CasProbing(r)) /\ Silent(r)
       \/ (SetUp(r) \/ ReadClock(r) \/ StoreLastFail(r) \/ ReleaseProbe(r)) /\ Silent(r)
       \/ (OnError(r) \/ CountFallback(r)) /\ Silent(r)
    /\ UNCHANGED <<policy, events, arrived>>

(* Mutant: a call that failed is not observed.                             *)
ObserveResult(r) ==
    LET status == IF request[r].verdict = "allowed" THEN "allowed" ELSE "blocked"
        spent == IF request[r].verdict = "none" THEN 0 ELSE 1
    IN  /\ At(r, "observe")
        /\ events' = [events EXCEPT ![status] = @ + spent]
        /\ request' = [request EXCEPT ![r].at = "respond"]
        /\ UNCHANGED <<vars, policy, used, arrived>>

(* The observer takes every call, one that failed too, with the zero Result*)
(* of an error; an exporter counts it by its status.                       *)
Observe(r) ==
    LET status == IF request[r].verdict = "allowed" THEN "allowed" ELSE "blocked"
    IN  /\ At(r, "observe")
        /\ events' = [events EXCEPT ![status] = @ + 1]
        /\ request' = [request EXCEPT ![r].at = "respond"]
        /\ UNCHANGED <<vars, policy, used, arrived>>

(* The clock and the primary's outages go on meanwhile.                    *)
Environment == (Tick \/ Outage) /\ UNCHANGED limiterVars

AllowKey(r) ==
    \/ \E answer \in Answers : LoadPolicy(r, answer)
    \/ CallDriver(r)
    \/ InDriver(r)
    \/ Observe(r)
===============================================================================
