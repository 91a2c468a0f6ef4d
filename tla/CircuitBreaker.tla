---------------------------- MODULE CircuitBreaker ----------------------------
(***************************************************************************)
(* What the hybrid driver promises of its breaker, without goroutines,     *)
(* clocks or counters: failures open it, one caller at a time tests the    *)
(* primary, and nothing but a test that the primary passed closes it.      *)
(***************************************************************************)
CONSTANT Callers

VARIABLES
    open,       \* the breaker routes traffic away from the primary
    healthy,    \* a call that the primary answers now succeeds
    test        \* the state of each caller's test of the primary

vars == <<open, healthy, test>>

Phases == {"none", "running", "passed", "failed", "applied"}

TypeOK ==
    /\ open \in BOOLEAN
    /\ healthy \in BOOLEAN
    /\ test \in [Callers -> Phases]

Init ==
    /\ open = FALSE
    /\ healthy = TRUE
    /\ test = [r \in Callers |-> "none"]

Advance(r, from, to) ==
    /\ test[r] = from
    /\ test' = [test EXCEPT ![r] = to]

Environment ==
    /\ healthy' = ~healthy
    /\ UNCHANGED <<open, test>>

(* A failed call opens the breaker.                                        *)
Trip ==
    /\ ~open
    /\ open' = TRUE
    /\ UNCHANGED <<healthy, test>>

(* A test begins only when nobody is testing.                              *)
Begin(r) ==
    /\ \A s \in Callers : test[s] = "none"
    /\ Advance(r, "none", "running")
    /\ UNCHANGED <<open, healthy>>

Pass(r) ==
    /\ healthy
    /\ Advance(r, "running", "passed")
    /\ UNCHANGED <<open, healthy>>

Fail(r) ==
    /\ Advance(r, "running", "failed")
    /\ UNCHANGED <<open, healthy>>

(* The only action that closes the breaker.                                *)
Apply(r) ==
    /\ Advance(r, "passed", "applied")
    /\ open' = FALSE
    /\ UNCHANGED healthy

(* A test ends once its verdict has taken effect.                          *)
End(r) ==
    /\ \/ Advance(r, "failed", "none")
       \/ Advance(r, "applied", "none")
    /\ UNCHANGED <<open, healthy>>

Next ==
    \/ Environment
    \/ Trip
    \/ \E r \in Callers : Begin(r) \/ Pass(r) \/ Fail(r) \/ Apply(r) \/ End(r)

Spec == Init /\ [][Next]_vars
===============================================================================
