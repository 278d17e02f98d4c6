----------------------------- MODULE ProbeTable -----------------------------
(***************************************************************************)
(* The table of hashmap.c: an array of map_node_t searched by linear       *)
(* probing.  Only operators; HashMap gives them the state.                 *)
(*                                                                         *)
(* A slot is a record of the fields of map_node_t.  A buffer is what a     *)
(* void* points to: a record whose field "key" is the key the buffer       *)
(* was handed to put for, so that memcmp of two key buffers is equality    *)
(* of that field.                                                          *)
(***************************************************************************)
EXTENDS Integers

CONSTANTS
    Keys,       \* the byte strings used as keys
    Capacity,   \* self->capacity
    Hash,       \* self->hash_function, on keys
    NULL        \* the null pointer

ASSUME CapacityAssumption == Capacity \in Nat \ {0}
ASSUME HashAssumption == Hash \in [Keys -> Nat]

Slots == 0 .. Capacity - 1

\* A slot as calloc leaves it.
EmptySlot == [kbase |-> NULL, vbase |-> NULL, vlen |-> 0, tombstone |-> FALSE]

GetIndex(k) == Hash[k] % Capacity

\* The slot d steps after h: up to the end of the array, then on from 0.
At(h, d) == IF h + d < Capacity THEN h + d ELSE h + d - Capacity

\* The nearest of a set of distances, as a set with at most one element.
Nearest(D) == {d \in D : \A e \in D : d <= e}

Vacant(n, i) == n[i].kbase = NULL \/ n[i].tombstone

Empty(n, i) == n[i].kbase = NULL /\ ~n[i].tombstone

Live(n, i) == n[i].kbase # NULL /\ ~n[i].tombstone

LiveSlots(n) == {i \in Slots : Live(n, i)}

\* key_len and memcmp agree: slot i was filled for key k.
SameKey(n, i, k) == n[i].kbase # NULL /\ n[i].kbase.key = k

\* Faulty variant of PutStop: the scan misses the slot before the home.
PutStopMissesLast(n, k) ==
    {At(GetIndex(k), d) : d \in
        Nearest({d \in 0 .. Capacity - 2 : LET i == At(GetIndex(k), d)
                                           IN  Vacant(n, i) \/ SameKey(n, i, k)})}

\* Where put's scan stops: the nearest vacant slot or slot with key k, the
\* whole table searched once.
PutStop(n, k) ==
    {At(GetIndex(k), d) : d \in
        Nearest({d \in Slots : LET i == At(GetIndex(k), d)
                               IN  Vacant(n, i) \/ SameKey(n, i, k)})}

\* Where get finds key k: it tests every slot in probe order and, unlike
\* delete, does not stop at an empty one.
GetStop(n, k) ==
    {At(GetIndex(k), d) : d \in
        Nearest({d \in Slots : LET i == At(GetIndex(k), d)
                               IN  SameKey(n, i, k) /\ ~n[i].tombstone})}

\* Where delete finds key k: between its home and the end of the array, no
\* empty slot on the way.  The second loop of delete tests the address of the
\* tombstone flag, which is never null, so it matches nothing.
DeleteStop(n, k) ==
    LET home == GetIndex(k)
        stop == Nearest({i \in home .. Capacity - 1 :
                            (SameKey(n, i, k) /\ ~n[i].tombstone) \/ Empty(n, i)})
    IN  {i \in stop : ~Empty(n, i)}
=============================================================================
