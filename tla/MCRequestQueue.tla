--------------------------- MODULE MCRequestQueue ---------------------------
(***************************************************************************)
(* Instances of RequestQueue for TLC.                                      *)
(***************************************************************************)
EXTENDS RequestQueue, TLC

\* Threads of one kind are interchangeable.
ThreadSymmetry == Permutations(Producers) \union Permutations(Consumers)
=============================================================================
