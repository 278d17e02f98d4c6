------------------------------- MODULE MCSfmm -------------------------------
(***************************************************************************)
(* An instance of Sfmm for TLC: small pages, and lists scaled so that      *)
(* blocks of different sizes share a list and others do not.               *)
(***************************************************************************)
EXTENDS Sfmm

SmallMin == [i \in Lists |-> <<32, 65, 129, 225>>[i + 1]]
SmallMax == [i \in Lists |-> <<64, 128, 224, 1024>>[i + 1]]
=============================================================================
