--------------------------- MODULE MCServiceHistory ---------------------------
(* Small instances of the service.                                         *)
EXTENDS ServiceHistory, TLC

Policy(limit, window) == [limit |-> limit, window |-> window]

\* Two valid policies and one that UpdatePolicy ignores; a resolver's answer may miss a
\* limit, a window or both.
Updates == {Policy(1, 1), Policy(2, 2), Policy(0, 1)}
Resolved == {Policy(0, 0), Policy(2, 1), Policy(1, 0)}

Symmetry == Permutations(Callers)
===============================================================================
