----------------------------- MODULE MCHashMap ------------------------------
(***************************************************************************)
(* Instances of HashMap for TLC: hash functions over small sets of keys.   *)
(***************************************************************************)
EXTENDS HashMap, TLC

CONSTANTS k1, k2, k3

\* All keys share the home slot 0: chains never wrap around.
HashZero == [k \in Keys |-> 0]

\* All keys share the last slot of a table of two: the second one wraps.
HashLast == [k \in Keys |-> 1]

\* Two keys share slot 0 and the third one lives next to them.
HashMixed == (k1 :> 2) @@ (k2 :> 0) @@ (k3 :> 1)

ThreadSymmetry == Permutations(Threads)
=============================================================================
