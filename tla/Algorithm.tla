------------------------------- MODULE Algorithm ------------------------------
(***************************************************************************)
(* src/algorithm/interface.go: what the strategies share.  An instant is a *)
(* number of ticks (nanoseconds in the code) and the zero time.Time is     *)
(* NoTime.  Tokens, a float64, is an exact number of TokenUnit-ths, so     *)
(* that the refill of one tick is a whole number of units.                 *)
(***************************************************************************)
EXTENDS Integers, Sequences

CONSTANTS
    Milli,          \* ticks in a millisecond, the unit of Timestamps
    TokenUnit       \* units in one token

ASSUME AlgorithmAssumption == Milli \in Nat \ {0} /\ TokenUnit \in Nat \ {0}

AllStrategies ==
    {"fixed_window", "sliding_counter", "sliding_log", "token_bucket", "leaky_bucket"}

NoTime == -1

NewState ==
    [count |-> 0, prevCount |-> 0, lastUpdate |-> NoTime, tokens |-> 0,
     timestamps |-> <<>>]

Least(a, b) == IF a < b THEN a ELSE b
NonNegative(n) == IF n < 0 THEN 0 ELSE n

(* math.ceil of a quotient, in the scripts                                 *)
CeilDiv(a, b) == (a + b - 1) \div b

(* time.Time.Truncate                                                      *)
Truncate(instant, window) == instant - (instant % window)

(* What EvaluateMemory leaves in *State and returns; every strategy clamps *)
(* Remaining and ResetIn at zero.                                          *)
Evaluation(state, allowed, limit, remaining, resetIn) ==
    [state |-> state,
     result |-> [allowed |-> allowed, limit |-> limit,
                 remaining |-> NonNegative(remaining),
                 resetIn |-> NonNegative(resetIn)]]
===============================================================================
