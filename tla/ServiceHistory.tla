----------------------------- MODULE ServiceHistory ---------------------------
(***************************************************************************)
(* A service behind the middleware, with a ledger of what became of its    *)
(* requests, and what the parts owe each other.                            *)
(***************************************************************************)
EXTENDS Middleware, FiniteSets

ASSUME FiniteCallers == IsFiniteSet(Callers)

VARIABLES
    ledger,         \* requests that passed, were turned away, passed although
                    \* the limiter failed; admissions whose answer was lost
    asked           \* callers whose request the fallback has been asked about

shvars == <<lvars, ledger, asked>>

ServiceInit ==
    /\ LimiterInit
    /\ ledger = [passed |-> 0, refused |-> 0, failedOpen |-> 0, lost |-> 0]
    /\ asked = {}

Entered(r, account) == ledger' = [ledger EXCEPT ![account] = @ + 1]
Asks(r) == pc[r] = "fallback" /\ pc'[r] # "fallback"

Answering(r) ==
    /\ AllowKey(r)
    /\ IF pc[r] \in {"primary", "probe"} /\ used' # used /\ request'[r].verdict = "none"
       THEN Entered(r, "lost") ELSE UNCHANGED ledger
    /\ asked' = IF Asks(r) THEN asked \cup {r} ELSE asked

Responding(r) ==
    /\ \/ Serve(r) /\ request[r].verdict = "none" /\ Entered(r, "failedOpen")
       \/ Serve(r) /\ request[r].verdict # "none" /\ Entered(r, "passed")
       \/ TurnAway(r) /\ Entered(r, "refused")
    /\ asked' = asked \ {r}

HistoryNext ==
    \/ \E r \in Callers : Answering(r) \/ Responding(r)
    \/ (\E p \in Policies : UpdatePolicy(p)) /\ UNCHANGED <<ledger, asked>>
    \/ Environment /\ UNCHANGED <<ledger, asked>>

HistorySpec == ServiceInit /\ [][HistoryNext]_shvars

-------------------------------------------------------------------------------
(* Properties.                                                             *)

Configured == {p \in Policies \cup Answers : Valid(p)}
Labels == {"call", "driver", "observe", "respond"}
Verdicts == {"none", "allowed", "refused"}
Requests == [at : Labels, verdict : Verdicts, policy : Configured]

(* The driver is never called with a limit or a window that New would have *)
(* refused, and never with the limit of one policy and the window of       *)
(* another, whatever UpdatePolicy and the resolver are given               *)
(* (distlimit.go:148-153, 178, 201-206).                                   *)
ServiceTypeOK ==
    /\ TypeOK
    /\ policy \in {p \in Policies : Valid(p)}
    /\ request \in [Callers -> {NoRequest} \cup Requests]
    /\ \A r \in Callers : pc[r] # "idle" => At(r, "driver")
    /\ used \in [Tiers -> Nat]
    /\ asked \subseteq Callers

Holding(verdict) ==
    {r \in Callers : ~At(r, "none") /\ request[r].verdict = verdict}

(* Every request that the limiter lets pass has taken one unit of one tier:*)
(* a tier's count grows for nothing else, except for a primary whose answer*)
(* was lost (hybrid.go:84-121, distlimit.go:213-229).                      *)
EveryPassIsPaid ==
    used["primary"] + used["fallback"]
        = ledger.passed + Cardinality(Holding("allowed")) + ledger.lost

(* requests_total accounts for every request that is answered, once: its   *)
(* blocked ones are those turned away and those that the limiter failed on *)
(* and the middleware let pass (distlimit.go:215-227, prometheus.go:102-107*)
(* and otel.go:91-102).                                                    *)
ObservedOnce ==
    LET waiting == {r \in Callers : At(r, "respond")}
    IN  /\ events.allowed = ledger.passed + Cardinality(waiting \cap Holding("allowed"))
        /\ events.blocked = ledger.refused + ledger.failedOpen
                              + Cardinality(waiting \ Holding("allowed"))

(* Nobody is turned away by an outage: a request is refused only when a    *)
(* tier has admitted as many as its policy allows (nethttp.go:84-110 and   *)
(* the fail-open branch of every adapter).                                 *)
RefusedOnlyWhenFull ==
    [][\A r \in Callers :
          TurnAway(r) => \E tier \in Tiers : used[tier] >= request[r].policy.limit]_shvars

(* The middleware fails open only as a last resort: the driver has asked   *)
(* the fallback too before it returned an error (hybrid.go:101-119).       *)
FailsOpenLast ==
    [][\A r \in Callers :
          Serve(r) /\ request[r].verdict = "none" => r \in asked]_shvars
===============================================================================
