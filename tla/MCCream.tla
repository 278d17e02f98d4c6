------------------------------ MODULE MCCream ------------------------------
(***************************************************************************)
(* Small servers for TLC: the requests the clients choose from, and a hash *)
(* that gives the two keys homes of their own.                             *)
(***************************************************************************)
EXTENDS Cream, TLC
CONSTANTS k1, k2

HashApart == (k1 :> 0) @@ (k2 :> 1)
\* Keys within the limits of cream.h, and one above them; the key NULL of a request
\* has size 0.
SizesInside == [k \in {k1, k2} |-> 1]
SizesAcross == (k1 :> MAX_KEY_SIZE) @@ (k2 :> MAX_KEY_SIZE + 1)

Ask(op, k) == [op |-> op, key |-> k, vsize |-> IF op = "PUT" THEN 1 ELSE 0]
Sequential ==
    {Ask("PUT", k1), [Ask("PUT", k1) EXCEPT !.vsize = 2], Ask("PUT", k2),
     Ask("GET", k1), Ask("GET", k2), Ask("EVICT", k1), Ask("EVICT", k2), Ask("CLEAR", NULL),
     Ask("other", NULL), Ask("PUT", NULL), [Ask("PUT", k1) EXCEPT !.vsize = 0]}
Puts == {Ask("PUT", k1), Ask("GET", k2)}
Mixed == {Ask("PUT", k1), [Ask("PUT", k2) EXCEPT !.vsize = MAX_VALUE_SIZE + 1],
          Ask("EVICT", NULL), Ask("CLEAR", NULL)}
=============================================================================
