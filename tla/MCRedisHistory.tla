---------------------------- MODULE MCRedisHistory ---------------------------
(* Small instances of the Redis driver with its history.                   *)
EXTENDS RedisHistory, TLC

OnePolicy == {[limit |-> 2, window |-> 3]}
OneRequest == {[limit |-> 1, window |-> 2]}
LongerWindow == {[limit |-> 1, window |-> 2], [limit |-> 1, window |-> 4]}
Exact == {0}
Ahead == {0, 1}

Symmetry == Permutations(Callers)
===============================================================================
