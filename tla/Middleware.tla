------------------------------- MODULE Middleware -----------------------------
(***************************************************************************)
(* src/middleware: the handlers of the six adapters, which share one flow: *)
(* call AllowKey, serve the request when that fails or admits it, and turn *)
(* it away otherwise.                                                      *)
(***************************************************************************)
EXTENDS Limiter

(* Mutant: an adapter that fails closed.                                   *)
ServesAllowed(verdict) == verdict = "allowed"

(* Fail-open: an error of the limiter lets the request through.            *)
ServesRequest(verdict) == verdict # "refused"

Finish(r) ==
    /\ At(r, "respond")
    /\ request' = [request EXCEPT ![r] = NoRequest]
    /\ UNCHANGED <<vars, policy, used, events, arrived>>

(* The next handler runs.                                                  *)
Serve(r) == Finish(r) /\ ServesRequest(request[r].verdict)

(* 429 Too Many Requests, or ResourceExhausted in gRPC.                    *)
TurnAway(r) == Finish(r) /\ ~ServesRequest(request[r].verdict)

Handle(r) == AllowKey(r) \/ Serve(r) \/ TurnAway(r)

ServiceNext ==
    \/ \E r \in Callers : Handle(r)
    \/ \E p \in Policies : UpdatePolicy(p)
    \/ Environment

ServiceSpec == LimiterInit /\ [][ServiceNext]_lvars
===============================================================================
