----------------------------- MODULE MCMemoryDriver ---------------------------
(* Small instances of the memory driver.                                   *)
EXTENDS MemoryDriver, TLC

\* Two keys in the two shards of the map.
CONSTANTS k1, k2
TwoShards == k1 :> 0 @@ k2 :> 1
OneShard == k1 :> 0
===============================================================================
