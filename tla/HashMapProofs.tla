--------------------------- MODULE HashMapProofs ----------------------------
(***************************************************************************)
(* Theorems about HashMap, for every number of threads, keys, slots and    *)
(* calls and every hash function:                                          *)
(*                                                                         *)
(*   TypeCorrect       the type invariant                                  *)
(*   Exclusion         the two mutexes and the counter of get keep their   *)
(*                     protocol                                            *)
(*   RWRefinement      they implement a readers-writers lock               *)
(*   SizeCorrect       size counts the live slots                          *)
(*   ForcedPutUnlocks  when every put may evict, no call leaks write_lock  *)
(*   ChainsStayWhole   no hole opens between a key and its home            *)
(*   BuffersStayOwned  no live slot has a buffer that was freed or that    *)
(*                     another one has                                     *)
(*                                                                         *)
(* The last two look at how a critical section changes the table, which is *)
(* one of five ways (TableStep), not at who holds which lock: the model    *)
(* runs a critical section in one step, which Exclusion justifies.         *)
(***************************************************************************)
EXTENDS HashMap, TLAPS, FiniteSetTheorems, WellFoundedInduction

USE CapacityAssumption, HashAssumption, NullAssumption

(***************************************************************************)
(* The table's operators stay inside the table.                            *)
(***************************************************************************)
\* get_index and one probing step yield a slot.
LEMMA IndexInTable ==
    /\ \A k \in Keys : GetIndex(k) \in Slots
    /\ \A h \in Slots, d \in Slots : At(h, d) \in Slots
<1>1. ASSUME NEW k \in Keys PROVE GetIndex(k) \in Slots
  <2>1. Hash[k] \in Nat
    OBVIOUS
  <2>. QED BY <2>1, Z3 DEF GetIndex, Slots
<1>2. ASSUME NEW h \in Slots, NEW d \in Slots PROVE At(h, d) \in Slots
  BY DEF At, Slots
<1>. QED BY <1>1, <1>2

\* What the three scans find is a slot with what they look for.
LEMMA StopsInTable ==
    ASSUME NEW n, NEW k \in Keys
    PROVE  /\ \A i \in PutStop(n, k) : i \in Slots /\ (Vacant(n, i) \/ SameKey(n, i, k))
           /\ \A i \in GetStop(n, k) : i \in Slots /\ Live(n, i)
           /\ \A i \in DeleteStop(n, k) : i \in Slots /\ Live(n, i)
<1>1. GetIndex(k) \in Slots
  BY IndexInTable
<1>2. \A i \in PutStop(n, k) : i \in Slots /\ (Vacant(n, i) \/ SameKey(n, i, k))
  BY <1>1, IndexInTable DEF PutStop, Nearest
<1>3. \A i \in GetStop(n, k) : i \in Slots /\ Live(n, i)
  BY <1>1, IndexInTable DEF GetStop, Nearest, Live, SameKey
<1>4. GetIndex(k) .. Capacity - 1 \subseteq Slots
  BY <1>1 DEF Slots
<1>5. \A i \in DeleteStop(n, k) : i \in Slots /\ Live(n, i)
  BY <1>4 DEF DeleteStop, Nearest, Live, SameKey, Empty
<1>. QED BY <1>2, <1>3, <1>5

(***************************************************************************)
(* Types.                                                                  *)
(***************************************************************************)
SlotType == [kbase : Buffers \union {NULL}, vbase : Buffers \union {NULL},
             vlen : Lens \union {0}, tombstone : BOOLEAN]

\* The arguments a call in progress carries are those its operation takes.
CallInv ==
    \A t \in Threads :
        /\ call[t].op \in {"put", "get", "delete"} => call[t].key \in Keys
        /\ call[t].op = "put" => call[t].id \in 1 .. MaxCalls /\ call[t].len \in Lens
        /\ pc[t] \in {"get_enter", "get_wlock", "get_open", "get_scan", "get_leave",
                      "get_read", "get_base", "get_len"} => call[t].op = "get"

\* The types without the bounds on the counters, which need more than types.
TypeInv ==
    /\ nodes \in [Slots -> SlotType]
    /\ \A i \in Slots : nodes[i].kbase # NULL => nodes[i].vbase # NULL
    /\ size \in Int
    /\ num_readers \in Int
    /\ invalid \in BOOLEAN
    /\ write_lock \in Threads \union {Free, ByReaders}
    /\ fields_lock \in Threads \union {Free}
    /\ freed \subseteq {"key", "val"} \X Buffers
    /\ crashed \in BOOLEAN
    /\ calls \in 0 .. MaxCalls
    /\ pc \in [Threads -> Labels]
    /\ call \in [Threads -> Calls]
    /\ loc \in [Threads -> Places]
    /\ ret \in [Threads -> Returns]
    /\ CallInv

\* The map create_map returns is well-typed.
LEMMA InitTypes == Init => TypeInv
<1>. SUFFICES ASSUME Init PROVE TypeInv
  OBVIOUS
<1>1. EmptySlot \in SlotType
  BY DEF EmptySlot, SlotType
<1>2. nodes \in [Slots -> SlotType] /\ \A i \in Slots : nodes[i].kbase = NULL
  BY <1>1 DEF Init, EmptySlot
<1>3. NoCall \in Calls /\ NoPlace \in Places /\ Failed \in Returns
  BY ClientsAssumption DEF NoCall, NoPlace, Failed, Calls, CallOps, Places, Returns, Slots
<1>4. /\ pc \in [Threads -> Labels] /\ call \in [Threads -> Calls]
      /\ loc \in [Threads -> Places] /\ ret \in [Threads -> Returns]
  BY <1>3 DEF Init, Labels
<1>5. CallInv
  BY DEF Init, CallInv, NoCall
<1>6. freed \subseteq {"key", "val"} \X Buffers /\ calls \in 0 .. MaxCalls
  BY ClientsAssumption DEF Init
<1>7. invalid \in BOOLEAN /\ crashed \in BOOLEAN
  BY DEF Init
<1>8. size \in Int /\ num_readers \in Int /\ write_lock = Free /\ fields_lock = Free
  BY DEF Init
<1>. QED BY <1>2, <1>4, <1>5, <1>6, <1>7, <1>8 DEF TypeInv

\* What put stores is a well-formed entry.
LEMMA FilledType ==
    ASSUME NEW c \in Calls, c.op = "put", c.key \in Keys, c.id \in 1 .. MaxCalls, c.len \in Lens
    PROVE  /\ Handed(c) \in Buffers
           /\ Filled(c) \in SlotType
           /\ Handed(c) # NULL
           /\ Filled(c).kbase = Handed(c) /\ Filled(c).vbase = Handed(c) /\ ~Filled(c).tombstone
<1>1. Handed(c) \in Buffers
  BY DEF Handed, Buffers
<1>2. Handed(c) # NULL
  BY <1>1
<1>. QED BY <1>1, <1>2 DEF Filled, SlotType

\* What destroy_function frees are key and value buffers.
LEMMA DestroyedType ==
    ASSUME TypeInv, NEW i \in Slots
    PROVE  Destroyed(nodes[i]) \subseteq {"key", "val"} \X Buffers
BY DEF TypeInv, SlotType, Destroyed

\* The return values are well-typed.
LEMMA ReturnTypes ==
    /\ Failed \in Returns /\ Succeeded \in Returns
    /\ \A b \in Buffers \union {NULL, InTable}, n \in Nat :
          [ok |-> TRUE, base |-> b, len |-> n] \in Returns
BY DEF Failed, Succeeded, Returns

\* The arguments of a call are of the type the model keeps them in.
LEMMA NewCallType ==
    ASSUME calls + 1 \in 1 .. MaxCalls, MaxCalls \in Nat,
           NEW op \in CallOps, NEW k \in Keys \union {NULL},
           NEW n \in Lens \union {0}, NEW f \in BOOLEAN
    PROVE  /\ NewCall(op, k, n, f) \in Calls
           /\ NewCall(op, k, n, f).op = op
           /\ NewCall(op, k, n, f).key = k
           /\ NewCall(op, k, n, f).id \in 1 .. MaxCalls
           /\ NewCall(op, k, n, f).len = n
<1>1. calls + 1 \in 0 .. MaxCalls
  OBVIOUS
<1>. QED BY <1>1 DEF NewCall, Calls

\* A call begins with well-typed arguments.
LEMMA BeginTypes ==
    ASSUME TypeInv, NEW t \in Threads, NEW c \in Calls, Begin(t, c),
           c.op \in {"put", "get", "delete"} => c.key \in Keys,
           c.op = "put" => c.id \in 1 .. MaxCalls /\ c.len \in Lens,
           NEW label \in {"lock", "get_enter"},
           label = "get_enter" => c.op = "get",
           NEW refused, Check(t, refused, label)
    PROVE  TypeInv'
<1>1. calls' \in 0 .. MaxCalls
  BY ClientsAssumption DEF TypeInv, Begin
<1>2. loc' \in [Threads -> Places]
  BY DEF TypeInv, Begin, Places, NoPlace, Slots
<1>3. call' \in [Threads -> Calls] /\ call' = [call EXCEPT ![t] = c]
  BY DEF TypeInv, Begin
<1>4. ret' \in [Threads -> Returns]
  BY ReturnTypes DEF TypeInv, Check, Returning, Proceed
<1>5. PICK l \in {"idle", label} : pc' = [pc EXCEPT ![t] = l]
  BY DEF Check, Returning, Proceed, Goto
<1>6. pc' \in [Threads -> Labels]
  BY <1>5 DEF TypeInv, Labels
<1>7. CallInv'
  BY <1>3, <1>5 DEF TypeInv, CallInv
<1>. QED BY <1>1, <1>2, <1>3, <1>4, <1>6, <1>7 DEF TypeInv, Begin, fields, locks

\* Threads call with arguments of the right type.
LEMMA EnterTypes ==
    ASSUME TypeInv, NEW t \in Threads, Enter(t)
    PROVE  TypeInv'
<1>0. ASSUME NEW c, Begin(t, c) PROVE calls + 1 \in 1 .. MaxCalls /\ MaxCalls \in Nat
  BY <1>0, ClientsAssumption DEF TypeInv, Begin
<1>1. CASE PutCall(t)
  <2>1. PICK k \in Keys, n \in Lens, f \in ForceArgs :
          /\ Begin(t, NewCall("put", k, n, f))
          /\ Check(t, invalid \/ (Full /\ ~f), "lock")
    BY <1>1, Zenon DEF PutCall
  <2>2. f \in BOOLEAN /\ n \in Lens \union {0} /\ k \in Keys \union {NULL}
    BY ClientsAssumption
  <2>. QED BY <2>1, <2>2, <1>0, NewCallType, BeginTypes DEF CallOps
<1>2. ASSUME NEW op \in {"get", "delete"}, NEW label \in {"lock", "get_enter"},
             label = "get_enter" => op = "get", KeyCall(t, op, label)
      PROVE  TypeInv'
  <2>1. PICK k \in Keys :
          /\ Begin(t, NewCall(op, k, 0, FALSE))
          /\ Check(t, invalid, label)
    BY <1>2, Zenon DEF KeyCall
  <2>. DEFINE c == NewCall(op, k, 0, FALSE)
  <2>2. op \in CallOps /\ op # "put"
    BY <1>2 DEF CallOps
  <2>3. c \in Calls /\ c.op = op /\ c.key = k
    <3>1. calls + 1 \in 1 .. MaxCalls /\ MaxCalls \in Nat
      BY <1>0, <2>1
    <3>. QED BY <2>2, <3>1 DEF NewCall, Calls
  <2>. HIDE DEF c
  <2>4. (c.op \in {"put", "get", "delete"} => c.key \in Keys) /\ c.op # "put"
    BY <2>2, <2>3
  <2>. QED BY <1>2, <2>1, <2>3, <2>4, BeginTypes DEF c
<1>3. CASE GetCall(t)
  BY <1>3, <1>2 DEF GetCall
<1>4. CASE DeleteCall(t)
  BY <1>4, <1>2 DEF DeleteCall
<1>5. CASE ClearCall(t)
  <2>1. /\ Begin(t, NewCall("clear", NULL, 0, FALSE))
        /\ Check(t, invalid, "lock")
    BY <1>5, Zenon DEF ClearCall
  <2>. QED BY <2>1, <1>0, NewCallType, BeginTypes DEF CallOps
<1>6. CASE InvalidateCall(t)
  <2>1. PICK op \in {"free", "wipe"} :
          Begin(t, NewCall(op, NULL, 0, FALSE)) /\ Check(t, FALSE, "lock")
    BY <1>6, Zenon DEF InvalidateCall, Check
  <2>. QED BY <2>1, <1>0, NewCallType, BeginTypes DEF CallOps
<1>. QED BY <1>1, <1>3, <1>4, <1>5, <1>6 DEF Enter

\* The writers' critical sections and what follows them.
LEMMA WriteTypes ==
    ASSUME TypeInv, NEW t \in Threads, Write(t)
    PROVE  TypeInv'
<1>. USE DEF Is, InBody, Goto, Returning
<1>1. CASE WriteLock(t)
  BY <1>1 DEF WriteLock, TypeInv, CallInv, Labels, fields
<1>2. CASE WriteUnlock(t)
  <2>1. CASE call[t].op = "wipe"
    <3>1. pc' = [pc EXCEPT ![t] = "lock"] /\ call' = [call EXCEPT ![t].op = "free"]
      BY <1>2, <2>1 DEF WriteUnlock
    <3>2. call' \in [Threads -> Calls] /\ pc' \in [Threads -> Labels]
      BY <3>1 DEF TypeInv, Calls, CallOps, Labels
    <3>3. CallInv'
      BY <3>1 DEF TypeInv, CallInv, Calls
    <3>. QED BY <1>2, <3>2, <3>3 DEF WriteUnlock, TypeInv, fields
  <2>2. CASE call[t].op # "wipe"
    <3>1. PICK l \in {"del_ret", "idle"} : pc' = [pc EXCEPT ![t] = l]
      BY <1>2, <2>2 DEF WriteUnlock
    <3>. QED BY <1>2, <2>2, <3>1 DEF WriteUnlock, TypeInv, CallInv, Labels, fields
  <2>. QED BY <2>1, <2>2
<1>3. ASSUME PutHome(t) \/ PutEvict(t) \/ PutProbe(t) PROVE TypeInv'
  <2>. DEFINE c == call[t]
  <2>1. c \in Calls /\ c.op = "put" /\ c.key \in Keys /\ c.id \in 1 .. MaxCalls /\ c.len \in Lens
    BY <1>3 DEF PutHome, PutEvict, PutProbe, Probing, TypeInv, CallInv
  <2>2. Handed(c) \in Buffers /\ Filled(c) \in SlotType /\ Handed(c) # NULL
        /\ Filled(c).kbase = Handed(c) /\ Filled(c).vbase = Handed(c)
    BY <2>1, FilledType
  <2>3. Home(t) \in Slots /\ \A i \in PutStop(nodes, c.key) : i \in Slots
    BY <2>1, IndexInTable, StopsInTable DEF Home
  <2>4. /\ nodes' \in [Slots -> SlotType]
        /\ \A i \in Slots : nodes'[i].kbase # NULL => nodes'[i].vbase # NULL
    <3>1. CASE PutHome(t)
      BY <3>1, <2>2, <2>3 DEF PutHome, TypeInv
    <3>2. CASE PutEvict(t)
      BY <3>2, <2>1, <2>2, <2>3 DEF PutEvict, TypeInv, SlotType
    <3>3. CASE PutProbe(t)
      BY <3>3, <2>2, <2>3 DEF PutProbe, TypeInv, SlotType
    <3>. QED BY <1>3, <3>1, <3>2, <3>3
  <2>5. freed' \subseteq {"key", "val"} \X Buffers
    BY <1>3, <2>3, DestroyedType DEF PutHome, PutEvict, PutProbe, TypeInv
  <2>6. size' \in Int
    BY <1>3 DEF PutHome, PutEvict, PutProbe, TypeInv
  <2>7. /\ pc' = [pc EXCEPT ![t] = "unlock"] /\ ret' = [ret EXCEPT ![t] = Succeeded]
        /\ UNCHANGED <<invalid, locks, call, loc, crashed, calls>>
    BY <1>3 DEF PutHome, PutEvict, PutProbe
  <2>8. pc' \in [Threads -> Labels] /\ ret' \in [Threads -> Returns] /\ CallInv'
    BY <2>7, ReturnTypes DEF TypeInv, CallInv, Labels
  <2>. QED BY <2>4, <2>5, <2>6, <2>7, <2>8 DEF TypeInv, locks
<1>4. CASE PutFallThrough(t)
  BY <1>4, ReturnTypes DEF PutFallThrough, Probing, TypeInv, CallInv, Labels, fields, locks
<1>5. CASE DeleteBody(t)
  <2>1. call[t].key \in Keys
    BY <1>5 DEF DeleteBody, TypeInv, CallInv
  <2>2. \A i \in DeleteStop(nodes, call[t].key) : i \in Slots
    BY <2>1, StopsInTable
  <2>3. /\ nodes' \in [Slots -> SlotType] /\ size' \in Int /\ loc' \in [Threads -> Places]
        /\ \A i \in Slots : nodes'[i].kbase = nodes[i].kbase /\ nodes'[i].vbase = nodes[i].vbase
    <3>1. CASE DeleteStop(nodes, call[t].key) = {}
      BY <1>5, <3>1 DEF DeleteBody, TypeInv
    <3>2. CASE DeleteStop(nodes, call[t].key) # {}
      <4>1. PICK i \in DeleteStop(nodes, call[t].key) :
               /\ nodes' = [nodes EXCEPT ![i].tombstone = TRUE]
               /\ size' = size - 1
               /\ loc' = [loc EXCEPT ![t] = [kind |-> "here", slot |-> i]]
        BY <1>5, <3>2 DEF DeleteBody
      <4>2. i \in Slots
        BY <2>2
      <4>3. nodes' \in [Slots -> SlotType]
        BY <4>1, <4>2 DEF TypeInv, SlotType
      <4>4. loc' \in [Threads -> Places]
        BY <4>1, <4>2 DEF TypeInv, Places
      <4>. QED BY <4>1, <4>2, <4>3, <4>4 DEF TypeInv
    <3>. QED BY <3>1, <3>2
  <2>. QED BY <1>5, <2>3 DEF DeleteBody, TypeInv, CallInv, Labels, locks
<1>6. CASE ClearBody(t)
  <2>1. /\ nodes' \in [Slots -> SlotType]
        /\ \A i \in Slots : nodes'[i].kbase = nodes[i].kbase /\ nodes'[i].vbase = nodes[i].vbase
    BY <1>6 DEF ClearBody, TypeInv, SlotType
  <2>2. freed' \subseteq {"key", "val"} \X Buffers
    BY <1>6, DestroyedType DEF ClearBody, TypeInv
  <2>. QED BY <1>6, <2>1, <2>2, ReturnTypes DEF ClearBody, TypeInv, CallInv, Labels, locks
<1>7. CASE FreeBody(t)
  BY <1>7, ReturnTypes DEF FreeBody, TypeInv, CallInv, Labels, locks
<1>8. CASE DeleteReturn(t)
  <2>1. nodes[loc[t].slot].vbase \in Buffers \union {NULL, InTable} /\ loc[t].slot \in Nat
    BY DEF TypeInv, SlotType, Places, Slots
  <2>2. ret' \in [Threads -> Returns]
    BY <1>8, <2>1, ReturnTypes DEF DeleteReturn, TypeInv
  <2>. QED BY <1>8, <2>2 DEF DeleteReturn, TypeInv, CallInv, Labels, fields, locks
<1>. QED BY <1>1, <1>2, <1>3, <1>4, <1>5, <1>6, <1>7, <1>8 DEF Write

\* get's steps.
LEMMA ReadTypes ==
    ASSUME TypeInv, NEW t \in Threads, Read(t)
    PROVE  TypeInv'
<1>. USE DEF Is, Goto
<1>1. CASE GetCount(t)
  BY <1>1 DEF GetCount, TypeInv, CallInv, Labels, fields
<1>2. CASE GetWriteLock(t)
  BY <1>2 DEF GetWriteLock, TypeInv, CallInv, Labels, fields
<1>3. CASE GetOpen(t)
  BY <1>3 DEF GetOpen, TypeInv, CallInv, Labels, fields
<1>4. CASE GetScan(t)
  <2>1. call[t].key \in Keys
    BY <1>4 DEF GetScan, TypeInv, CallInv
  <2>2. Home(t) \in Slots /\ \A i \in GetStop(nodes, call[t].key) : i \in Slots
    BY <2>1, StopsInTable, IndexInTable DEF Home
  <2>3. loc' \in [Threads -> Places]
    <3>1. CASE GetStop(nodes, call[t].key) = {}
      BY <1>4, <3>1 DEF GetScan, TypeInv
    <3>2. CASE GetStop(nodes, call[t].key) # {}
      <4>1. PICK p \in {[kind |-> "here", slot |-> i] : i \in GetStop(nodes, call[t].key)}
                       \union {[kind |-> "wrapped", slot |-> Home(t)]} :
               loc' = [loc EXCEPT ![t] = p]
        BY <1>4, <3>2 DEF GetScan
      <4>2. p \in Places
        BY <2>2 DEF Places
      <4>. QED BY <4>1, <4>2 DEF TypeInv
    <3>. QED BY <3>1, <3>2
  <2>. QED BY <1>4, <2>3 DEF GetScan, TypeInv, CallInv, Labels, fields, locks
<1>5. CASE GetLeave(t)
  <2>1. PICK l \in {"idle", "get_read"} : pc' = [pc EXCEPT ![t] = l]
    BY <1>5 DEF GetLeave, Returning
  <2>2. ret' \in [Threads -> Returns]
    BY <1>5, ReturnTypes DEF GetLeave, Returning, TypeInv
  <2>3. write_lock' \in Threads \union {Free, ByReaders} /\ num_readers' \in Int
    BY <1>5 DEF GetLeave, TypeInv
  <2>4. pc' \in [Threads -> Labels] /\ CallInv'
    BY <1>5, <2>1 DEF GetLeave, TypeInv, CallInv, Labels
  <2>. QED BY <1>5, <2>2, <2>3, <2>4 DEF GetLeave, TypeInv, fields
<1>6. loc[t].slot \in Slots /\ nodes[loc[t].slot] \in SlotType /\ ret[t] \in Returns
  BY DEF TypeInv, Places
<1>7. CASE GetReadBase(t)
  <2>1. ret' \in [Threads -> Returns]
    <3>1. PICK b \in Buffers \union {NULL, InTable} :
             ret' = [ret EXCEPT ![t].base = b, ![t].ok = TRUE]
      BY <1>6, <1>7 DEF GetReadBase, SlotType
    <3>. QED BY <3>1 DEF TypeInv, Returns
  <2>2. PICK l \in {"get_len", "idle"} : pc' = [pc EXCEPT ![t] = l]
    BY <1>7 DEF GetReadBase
  <2>3. pc' \in [Threads -> Labels] /\ CallInv'
    BY <1>7, <2>2 DEF GetReadBase, TypeInv, CallInv, Labels
  <2>. QED BY <1>7, <2>1, <2>3 DEF GetReadBase, TypeInv, fields, locks
<1>8. CASE GetReadLen(t)
  <2>1. ret' \in [Threads -> Returns]
    <3>0. PICK n \in Lens \union {0} : nodes[loc[t].slot].vlen = n
      BY <1>6 DEF SlotType
    <3>1. n \in Nat
      BY ClientsAssumption
    <3>2. [ret[t] EXCEPT !.len = n] \in Returns
      BY <1>6, <3>1 DEF Returns
    <3>. QED BY <1>8, <3>0, <3>2 DEF GetReadLen, TypeInv
  <2>2. PICK l \in {"get_base", "idle"} : pc' = [pc EXCEPT ![t] = l]
    BY <1>8 DEF GetReadLen
  <2>3. pc' \in [Threads -> Labels] /\ CallInv'
    BY <1>8, <2>2 DEF GetReadLen, TypeInv, CallInv, Labels
  <2>. QED BY <1>8, <2>1, <2>3 DEF GetReadLen, TypeInv, fields, locks
<1>. QED BY <1>1, <1>2, <1>3, <1>4, <1>5, <1>7, <1>8 DEF Read

\* Every step of every thread keeps the fields and the locals well-typed.
LEMMA NextTypes == TypeInv /\ [Next]_vars => TypeInv'
<1>. SUFFICES ASSUME TypeInv, [Next]_vars PROVE TypeInv'
  OBVIOUS
<1>1. ASSUME UNCHANGED vars PROVE TypeInv'
  BY <1>1 DEF vars, fields, locks, threadvars, TypeInv, CallInv
<1>2. ASSUME NEW t \in Threads, Fault(t) PROVE TypeInv'
  BY <1>2 DEF Fault, fields, locks, threadvars, TypeInv, CallInv
<1>. QED BY <1>1, <1>2, EnterTypes, WriteTypes, ReadTypes DEF Next, Continue, Done

\* The fields of hashmap_t and the locals of put, get, delete and the rest keep their
\* types: the invariant without the two bounds that need the lock protocol.
THEOREM TypesHold == Spec => []TypeInv
<1>. QED BY InitTypes, NextTypes, PTL DEF Spec

(***************************************************************************)
(* The protocol of the two mutexes and the counter.                        *)
(***************************************************************************)
CountedLabels == {"get_wlock", "get_open", "get_scan", "get_leave"}
InsideLabels == {"get_open", "get_scan", "get_leave"}

\* A thread that moves joins, stays in or leaves the two sets of readers.
LEMMA Moves ==
    ASSUME TypeInv, NEW t \in Threads, NEW l \in Labels, pc' = [pc EXCEPT ![t] = l]
    PROVE  /\ Counted' = IF l \in CountedLabels THEN Counted \union {t} ELSE Counted \ {t}
           /\ Inside' = IF l \in InsideLabels THEN Inside \union {t} ELSE Inside \ {t}
BY DEF TypeInv, Counted, Inside, CountedLabels, InsideLabels

\* num_readers++ and num_readers-- follow the number of readers counted.
LEMMA CountedCardinality ==
    /\ IsFiniteSet(Counted)
    /\ Cardinality(Counted) \in Nat
    /\ Cardinality(Counted) <= Cardinality(Threads)
    /\ Cardinality(Counted) = 0 <=> Counted = {}
    /\ \A t \in Threads :
          /\ Cardinality(Counted \union {t})
                = IF t \in Counted THEN Cardinality(Counted) ELSE Cardinality(Counted) + 1
          /\ Cardinality(Counted \ {t})
                = IF t \in Counted THEN Cardinality(Counted) - 1 ELSE Cardinality(Counted)
<1>1. IsFiniteSet(Counted) /\ Cardinality(Counted) <= Cardinality(Threads)
  <2>1. Counted \in SUBSET Threads
    BY DEF Counted
  <2>. QED BY <2>1, ThreadsAssumption, FS_Subset
<1>2. Cardinality(Counted) \in Nat
  BY <1>1, FS_CardinalityType
<1>. QED BY <1>1, <1>2, FS_EmptySet, FS_AddElement, FS_RemoveElement

\* A map nobody uses is locked by nobody.
LEMMA InitProtocol == Init => LockProtocol
<1>. SUFFICES ASSUME Init PROVE LockProtocol
  OBVIOUS
<1>1. Counted = {} /\ Inside = {}
  BY DEF Init, Counted, Inside
<1>. QED BY <1>1, FS_EmptySet, ThreadsAssumption DEF Init, LockProtocol

\* A step that changes no lock and moves a thread without crossing the edge of a
\* lock section.
LEMMA LocalSteps ==
    ASSUME TypeInv, LockProtocol, NEW t \in Threads, NEW l \in Labels,
           pc' = [pc EXCEPT ![t] = l], UNCHANGED locks,
           l \in CountedLabels <=> pc[t] \in CountedLabels,
           l \in InsideLabels <=> pc[t] \in InsideLabels,
           l \in {"get_wlock", "get_open"} <=> pc[t] \in {"get_wlock", "get_open"},
           l \in {"body", "unlock"} => pc[t] \in {"body", "unlock"}
    PROVE  LockProtocol'
<1>1. Counted' = Counted /\ Inside' = Inside
  BY Moves DEF TypeInv, Counted, Inside, CountedLabels, InsideLabels
<1>. QED BY <1>1 DEF LockProtocol, TypeInv, locks

\* Beginning a call touches no lock.
LEMMA EnterProtocol ==
    ASSUME TypeInv, LockProtocol, NEW t \in Threads, Enter(t)
    PROVE  LockProtocol'
<1>1. pc[t] = "idle" /\ UNCHANGED locks
  BY DEF Enter, PutCall, GetCall, DeleteCall, KeyCall, ClearCall, InvalidateCall, Begin, Is
<1>2. PICK l \in {"idle", "lock", "get_enter"} : pc' = [pc EXCEPT ![t] = l]
  BY DEF Enter, PutCall, GetCall, DeleteCall, KeyCall, ClearCall, InvalidateCall, Check,
         Proceed, Returning, Goto
<1>. QED BY <1>1, <1>2, LocalSteps DEF Labels, CountedLabels, InsideLabels

\* The writers' locks and unlocks keep the protocol.
LEMMA WriteProtocol ==
    ASSUME TypeInv, LockProtocol, NEW t \in Threads, Write(t)
    PROVE  LockProtocol'
<1>. USE DEF Is, InBody, Goto, Returning
<1>1. CASE WriteLock(t)
  <2>1. Counted' = Counted /\ Inside' = Inside
    BY <1>1, Moves DEF WriteLock, TypeInv, Counted, Inside
  <2>. QED BY <1>1, <2>1, ThreadsAssumption DEF WriteLock, LockProtocol, TypeInv
<1>2. CASE WriteUnlock(t)
  <2>1. PICK l \in {"lock", "del_ret", "idle"} : pc' = [pc EXCEPT ![t] = l]
    BY <1>2 DEF WriteUnlock
  <2>2. Counted' = Counted /\ Inside' = Inside
    BY <1>2, <2>1 DEF WriteUnlock, TypeInv, Counted, Inside
  <2>3. write_lock = t
    BY <1>2 DEF WriteUnlock, LockProtocol
  <2>. QED BY <1>2, <2>1, <2>2, <2>3, ThreadsAssumption DEF WriteUnlock, LockProtocol, TypeInv
<1>3. CASE PutHome(t) \/ PutEvict(t) \/ PutProbe(t) \/ DeleteBody(t) \/ ClearBody(t) \/ FreeBody(t)
  <2>1. pc[t] = "body" /\ pc' = [pc EXCEPT ![t] = "unlock"] /\ UNCHANGED locks
    BY <1>3 DEF PutHome, PutEvict, PutProbe, Probing, DeleteBody, ClearBody, FreeBody
  <2>. QED BY <2>1, LocalSteps DEF Labels, CountedLabels, InsideLabels
<1>4. CASE PutFallThrough(t) \/ DeleteReturn(t)
  <2>1. pc[t] \in {"body", "del_ret"} /\ pc' = [pc EXCEPT ![t] = "idle"] /\ UNCHANGED locks
    BY <1>4 DEF PutFallThrough, Probing, DeleteReturn
  <2>. QED BY <2>1, LocalSteps DEF Labels, CountedLabels, InsideLabels
<1>. QED BY <1>1, <1>2, <1>3, <1>4 DEF Write

\* So do get's, on its way in and on its way out.
LEMMA ReadProtocol ==
    ASSUME TypeInv, LockProtocol, NEW t \in Threads, Read(t)
    PROVE  LockProtocol'
<1>. USE DEF Is, Goto
<1>1. CASE GetCount(t)
  <2>1. pc[t] = "get_enter" /\ fields_lock = Free /\ t \notin Counted
    BY <1>1 DEF GetCount, Counted
  <2>2. \A u \in Counted : u \in Inside
    BY <2>1, ThreadsAssumption DEF LockProtocol, Counted, Inside
  <2>3. num_readers' = Cardinality(Counted) + 1
    BY <1>1 DEF GetCount, LockProtocol
  <2>4. CASE num_readers' = 1
    <3>1. pc' = [pc EXCEPT ![t] = "get_wlock"]
      BY <1>1, <2>4 DEF GetCount
    <3>2. Counted' = Counted \union {t} /\ Inside' = Inside
      BY <2>1, <3>1, Moves DEF Labels, CountedLabels, InsideLabels, Inside
    <3>4. num_readers' = Cardinality(Counted')
      BY <2>1, <2>3, <3>2, CountedCardinality
    <3>5. \A u \in Threads : fields_lock' = u <=> pc'[u] \in {"get_wlock", "get_open"}
      BY <1>1, <2>1, <3>1, ThreadsAssumption DEF GetCount, LockProtocol, TypeInv
    <3>6. write_lock' = ByReaders <=> Inside' # {}
      BY <1>1, <3>2 DEF GetCount, LockProtocol
    <3>7. \A u \in Threads : pc'[u] \in {"body", "unlock"} => write_lock' = u
      BY <1>1, <3>1 DEF GetCount, LockProtocol, TypeInv
    <3>. QED BY <3>4, <3>5, <3>6, <3>7 DEF LockProtocol
  <2>5. CASE num_readers' # 1
    <3>1. pc' = [pc EXCEPT ![t] = "get_open"]
      BY <1>1, <2>5 DEF GetCount
    <3>2. Counted' = Counted \union {t} /\ Inside' = Inside \union {t}
      BY <2>1, <3>1, Moves DEF Labels, CountedLabels, InsideLabels
    <3>3. Inside # {}
      BY <2>2, <2>3, <2>5, CountedCardinality
    <3>4. num_readers' = Cardinality(Counted')
      BY <2>1, <2>3, <3>2, CountedCardinality
    <3>5. \A u \in Threads : fields_lock' = u <=> pc'[u] \in {"get_wlock", "get_open"}
      BY <1>1, <2>1, <3>1, ThreadsAssumption DEF GetCount, LockProtocol, TypeInv
    <3>6. write_lock' = ByReaders <=> Inside' # {}
      BY <1>1, <3>2, <3>3 DEF GetCount, LockProtocol
    <3>7. \A u \in Threads : pc'[u] \in {"body", "unlock"} => write_lock' = u
      BY <1>1, <3>1 DEF GetCount, LockProtocol, TypeInv
    <3>. QED BY <3>4, <3>5, <3>6, <3>7 DEF LockProtocol
  <2>. QED BY <2>4, <2>5
<1>2. CASE GetWriteLock(t)
  <2>1. pc' = [pc EXCEPT ![t] = "get_open"] /\ pc[t] = "get_wlock"
    BY <1>2 DEF GetWriteLock
  <2>2. Counted' = Counted /\ Inside' = Inside \union {t}
    BY <2>1, Moves DEF Labels, Counted, CountedLabels, InsideLabels
  <2>. QED BY <1>2, <2>1, <2>2, ThreadsAssumption DEF GetWriteLock, LockProtocol, TypeInv
<1>3. CASE GetOpen(t)
  <2>1. pc' = [pc EXCEPT ![t] = "get_scan"] /\ pc[t] = "get_open" /\ fields_lock = t
    BY <1>3 DEF GetOpen, LockProtocol
  <2>2. Counted' = Counted /\ Inside' = Inside
    BY <2>1, Moves DEF Labels, Counted, Inside, CountedLabels, InsideLabels
  <2>. QED BY <1>3, <2>1, <2>2, ThreadsAssumption DEF GetOpen, LockProtocol, TypeInv
<1>4. CASE GetScan(t)
  <2>1. pc[t] = "get_scan" /\ pc' = [pc EXCEPT ![t] = "get_leave"] /\ UNCHANGED locks
    BY <1>4 DEF GetScan
  <2>. QED BY <2>1, LocalSteps DEF Labels, CountedLabels, InsideLabels
<1>5. CASE GetLeave(t)
  <2>1. pc[t] = "get_leave" /\ fields_lock = Free /\ t \in Counted /\ t \in Inside
    BY <1>5 DEF GetLeave, Counted, Inside
  <2>2. PICK l \in {"idle", "get_read"} : pc' = [pc EXCEPT ![t] = l]
    BY <1>5 DEF GetLeave, Returning
  <2>3. Counted' = Counted \ {t} /\ Inside' = Inside \ {t}
    BY <2>2, Moves DEF Labels, CountedLabels, InsideLabels
  <2>4. Inside = Counted
    BY <2>1, ThreadsAssumption DEF LockProtocol, Counted, Inside
  <2>5. num_readers' = Cardinality(Counted')
    BY <1>5, <2>1, <2>3, CountedCardinality DEF GetLeave, LockProtocol
  <2>6. num_readers' = 0 <=> Inside' = {}
    BY <2>5, <2>3, <2>4, <2>1, CountedCardinality, FS_RemoveElement, FS_EmptySet
  <2>7. write_lock = ByReaders
    BY <2>1 DEF LockProtocol
  <2>8. write_lock' = ByReaders <=> Inside' # {}
    BY <1>5, <2>6, <2>7, ThreadsAssumption DEF GetLeave
  <2>9. \A u \in Threads : pc'[u] \notin {"body", "unlock"}
    BY <2>2, <2>7, ThreadsAssumption DEF LockProtocol, TypeInv
  <2>10. \A u \in Threads : fields_lock' = u <=> pc'[u] \in {"get_wlock", "get_open"}
    BY <1>5, <2>1, <2>2, ThreadsAssumption DEF GetLeave, LockProtocol, TypeInv
  <2>. QED BY <2>5, <2>8, <2>9, <2>10 DEF LockProtocol
<1>6. CASE GetReadBase(t) \/ GetReadLen(t)
  <2>1. PICK l \in {"get_base", "get_len", "idle"} :
          pc[t] \in {"get_read", "get_base", "get_len"} /\ pc' = [pc EXCEPT ![t] = l]
    BY <1>6 DEF GetReadBase, GetReadLen
  <2>2. UNCHANGED locks
    BY <1>6 DEF GetReadBase, GetReadLen
  <2>. QED BY <2>1, <2>2, LocalSteps DEF Labels, CountedLabels, InsideLabels
<1>. QED BY <1>1, <1>2, <1>3, <1>4, <1>5, <1>6 DEF Read

\* The protocol is inductive, given the types.
LEMMA NextProtocol == TypeInv /\ LockProtocol /\ [Next]_vars => LockProtocol'
<1>. SUFFICES ASSUME TypeInv, LockProtocol, [Next]_vars PROVE LockProtocol'
  OBVIOUS
<1>1. ASSUME UNCHANGED <<locks, pc>> PROVE LockProtocol'
  BY <1>1 DEF locks, LockProtocol, Counted, Inside
<1>2. ASSUME NEW t \in Threads, Fault(t) PROVE LockProtocol'
  BY <1>1, <1>2 DEF Fault, threadvars
<1>3. ASSUME UNCHANGED vars PROVE LockProtocol'
  BY <1>1, <1>3 DEF vars, threadvars
<1>. QED BY <1>2, <1>3, EnterProtocol, WriteProtocol, ReadProtocol DEF Next, Continue, Done

\* The readers' counter and the two mutexes of get, put, delete and clear_map keep
\* their protocol in every interleaving: a writer's critical section never
\* overlaps a read section or another writer's.
THEOREM Exclusion == Spec => []LockProtocol
<1>1. Init => LockProtocol
  BY InitProtocol
<1>. QED BY <1>1, TypesHold, NextProtocol, PTL DEF Spec

(***************************************************************************)
(* The two mutexes and the counter implement a readers-writers lock.       *)
(***************************************************************************)
Writing == {t \in Threads : write_lock = t}

\* A step without a lock is a stutter of the abstract lock.
LEMMA LocalStepsStutter ==
    ASSUME TypeInv, NEW t \in Threads, NEW l \in Labels,
           pc' = [pc EXCEPT ![t] = l], UNCHANGED write_lock,
           l \in InsideLabels <=> pc[t] \in InsideLabels
    PROVE  UNCHANGED RW!rwvars
<1>1. Inside' = Inside
  BY Moves DEF TypeInv, Inside, InsideLabels
<1>. QED BY <1>1 DEF RW!rwvars

\* Beginning a call is one.
LEMMA EnterRefines ==
    ASSUME TypeInv, NEW t \in Threads, Enter(t)
    PROVE  UNCHANGED RW!rwvars
<1>1. pc[t] = "idle" /\ UNCHANGED write_lock
  BY DEF Enter, PutCall, GetCall, DeleteCall, KeyCall, ClearCall, InvalidateCall, Begin, Is, locks
<1>2. PICK l \in {"idle", "lock", "get_enter"} : pc' = [pc EXCEPT ![t] = l]
  BY DEF Enter, PutCall, GetCall, DeleteCall, KeyCall, ClearCall, InvalidateCall, Check,
         Proceed, Returning, Goto
<1>. QED BY <1>1, <1>2, LocalStepsStutter DEF Labels, InsideLabels

\* A writer that locks or unlocks starts or stops writing.
LEMMA WriteRefines ==
    ASSUME TypeInv, LockProtocol, NEW t \in Threads, Write(t)
    PROVE  RW!Next \/ UNCHANGED RW!rwvars
<1>. USE DEF Is, InBody, Goto, Returning
<1>1. CASE WriteLock(t)
  <2>1. Inside' = Inside /\ Inside = {}
    BY <1>1, ThreadsAssumption DEF WriteLock, LockProtocol, TypeInv, Inside
  <2>2. Writing = {} /\ Writing' = {t}
    BY <1>1, ThreadsAssumption DEF WriteLock, Writing
  <2>3. RW!StartWrite(t)
    BY <2>1, <2>2 DEF RW!StartWrite, Writing
  <2>. QED BY <2>3 DEF RW!Next
<1>2. CASE WriteUnlock(t)
  <2>1. PICK l \in {"lock", "del_ret", "idle"} : pc[t] = "unlock" /\ pc' = [pc EXCEPT ![t] = l]
    BY <1>2 DEF WriteUnlock
  <2>2. Inside' = Inside
    BY <2>1 DEF TypeInv, Inside
  <2>3. Writing = {t} /\ Writing' = {}
    BY <1>2, ThreadsAssumption DEF WriteUnlock, LockProtocol, Writing
  <2>4. RW!StopWrite(t)
    BY <2>2, <2>3 DEF RW!StopWrite, Writing
  <2>. QED BY <2>4 DEF RW!Next
<1>3. CASE \/ PutHome(t) \/ PutEvict(t) \/ PutProbe(t) \/ PutFallThrough(t)
           \/ DeleteBody(t) \/ DeleteReturn(t) \/ ClearBody(t) \/ FreeBody(t)
  <2>1. PICK l \in {"unlock", "idle"} :
           pc[t] \in {"body", "del_ret"} /\ pc' = [pc EXCEPT ![t] = l]
    BY <1>3 DEF PutHome, PutEvict, PutProbe, PutFallThrough, Probing, DeleteBody, DeleteReturn,
                ClearBody, FreeBody
  <2>2. UNCHANGED write_lock
    BY <1>3 DEF PutHome, PutEvict, PutProbe, PutFallThrough, DeleteBody, DeleteReturn,
                ClearBody, FreeBody, locks
  <2>. QED BY <2>1, <2>2, LocalStepsStutter DEF Labels, InsideLabels
<1>. QED BY <1>1, <1>2, <1>3 DEF Write

\* The first reader in waits for the writers, the others join, and the last one out
\* lets them in: each is a step of the abstract lock.
LEMMA ReadRefines ==
    ASSUME TypeInv, LockProtocol, NEW t \in Threads, Read(t)
    PROVE  RW!Next \/ UNCHANGED RW!rwvars
<1>. USE DEF Is, Goto
<1>1. CASE GetCount(t)
  <2>1. CASE num_readers' = 1
    <3>1. pc[t] = "get_enter" /\ pc' = [pc EXCEPT ![t] = "get_wlock"] /\ UNCHANGED write_lock
      BY <1>1, <2>1 DEF GetCount
    <3>. QED BY <3>1, LocalStepsStutter DEF Labels, InsideLabels
  <2>2. CASE num_readers' # 1
    <3>1. pc' = [pc EXCEPT ![t] = "get_open"] /\ t \notin Inside /\ fields_lock = Free
      BY <1>1, <2>2 DEF GetCount, Inside
    <3>2. Inside' = Inside \union {t}
      BY <3>1, Moves DEF Labels, InsideLabels
    <3>3. Counted # {}
      BY <1>1, <2>2, CountedCardinality DEF GetCount, LockProtocol
    <3>4. Inside # {}
      BY <3>1, <3>3, ThreadsAssumption DEF LockProtocol, Counted, Inside
    <3>5. write_lock = ByReaders /\ write_lock' = write_lock
      BY <1>1, <3>4 DEF LockProtocol, GetCount
    <3>6. Writing = {} /\ Writing' = {}
      BY <3>5, ThreadsAssumption DEF Writing
    <3>7. RW!StartRead(t)
      BY <3>1, <3>2, <3>6 DEF RW!StartRead, Writing
    <3>. QED BY <3>7 DEF RW!Next
  <2>. QED BY <2>1, <2>2
<1>2. CASE GetWriteLock(t)
  <2>1. pc' = [pc EXCEPT ![t] = "get_open"] /\ t \notin Inside
    BY <1>2 DEF GetWriteLock, Inside
  <2>2. Inside' = Inside \union {t}
    BY <2>1, Moves DEF Labels, InsideLabels
  <2>3. Writing = {} /\ Writing' = {}
    BY <1>2, ThreadsAssumption DEF GetWriteLock, Writing
  <2>4. RW!StartRead(t)
    BY <2>1, <2>2, <2>3 DEF RW!StartRead, Writing
  <2>. QED BY <2>4 DEF RW!Next
<1>3. CASE GetOpen(t) \/ GetScan(t)
  <2>1. PICK l \in {"get_scan", "get_leave"} :
           pc[t] \in InsideLabels /\ pc' = [pc EXCEPT ![t] = l] /\ UNCHANGED write_lock
    BY <1>3 DEF GetOpen, GetScan, locks, InsideLabels
  <2>. QED BY <2>1, LocalStepsStutter DEF Labels, InsideLabels
<1>4. CASE GetLeave(t)
  <2>1. PICK l \in {"idle", "get_read"} : pc' = [pc EXCEPT ![t] = l]
    BY <1>4 DEF GetLeave, Returning
  <2>2. t \in Inside /\ Inside' = Inside \ {t}
    BY <1>4, <2>1, Moves DEF GetLeave, Labels, InsideLabels, Inside
  <2>3. write_lock = ByReaders /\ write_lock' \in {ByReaders, Free}
    BY <1>4, <2>2 DEF GetLeave, LockProtocol
  <2>4. Writing = {} /\ Writing' = {}
    BY <2>3, ThreadsAssumption DEF Writing
  <2>5. RW!StopRead(t)
    BY <2>2, <2>4 DEF RW!StopRead, Writing
  <2>. QED BY <2>5 DEF RW!Next
<1>5. CASE GetReadBase(t) \/ GetReadLen(t)
  <2>1. PICK l \in {"get_base", "get_len", "idle"} :
          pc[t] \in {"get_read", "get_base", "get_len"} /\ pc' = [pc EXCEPT ![t] = l]
    BY <1>5 DEF GetReadBase, GetReadLen
  <2>2. UNCHANGED write_lock
    BY <1>5 DEF GetReadBase, GetReadLen, locks
  <2>. QED BY <2>1, <2>2, LocalStepsStutter DEF Labels, InsideLabels
<1>. QED BY <1>1, <1>2, <1>3, <1>4, <1>5 DEF Read

\* Whoever is inside a scan of get or holds write_lock moves as a readers-writers
\* lock allows: get's counter under fields_lock is a correct implementation of it.
THEOREM RWRefinement == Spec => ImplementsRWLock
<1>1. Init => RW!Init
  BY ThreadsAssumption DEF Init, Inside, RW!Init
<1>2. TypeInv /\ LockProtocol /\ [Next]_vars => [RW!Next]_(RW!rwvars)
  <2>. SUFFICES ASSUME TypeInv, LockProtocol, [Next]_vars
                PROVE  RW!Next \/ UNCHANGED RW!rwvars
    OBVIOUS
  <2>1. ASSUME UNCHANGED <<locks, pc>> PROVE UNCHANGED RW!rwvars
    BY <2>1 DEF locks, Inside, RW!rwvars
  <2>2. ASSUME NEW t \in Threads, Fault(t) PROVE UNCHANGED RW!rwvars
    BY <2>1, <2>2 DEF Fault, threadvars
  <2>3. ASSUME UNCHANGED vars PROVE UNCHANGED RW!rwvars
    BY <2>1, <2>3 DEF vars, threadvars
  <2>. QED BY <2>2, <2>3, EnterRefines, WriteRefines, ReadRefines DEF Next, Continue, Done
<1>. QED BY <1>1, <1>2, TypesHold, Exclusion, PTL DEF Spec, ImplementsRWLock, RW!Spec

(***************************************************************************)
(* size counts the live slots.                                             *)
(***************************************************************************)

\* Filling a vacant slot adds one live slot, a tombstone takes one away.
LEMMA LiveCardinality ==
    /\ IsFiniteSet(LiveSlots(nodes))
    /\ Cardinality(LiveSlots(nodes)) \in 0 .. Capacity
    /\ Cardinality(LiveSlots(nodes)) = Capacity <=> LiveSlots(nodes) = Slots
    /\ \A i \in Slots :
          /\ i \notin LiveSlots(nodes) =>
                Cardinality(LiveSlots(nodes) \union {i}) = Cardinality(LiveSlots(nodes)) + 1
          /\ i \in LiveSlots(nodes) =>
                Cardinality(LiveSlots(nodes) \ {i}) = Cardinality(LiveSlots(nodes)) - 1
<1>1. IsFiniteSet(Slots) /\ Cardinality(Slots) = Capacity
  BY FS_Interval DEF Slots
<1>2. LiveSlots(nodes) \in SUBSET Slots
  BY DEF LiveSlots
<1>3. /\ IsFiniteSet(LiveSlots(nodes)) /\ Cardinality(LiveSlots(nodes)) <= Capacity
      /\ Cardinality(LiveSlots(nodes)) = Capacity => LiveSlots(nodes) = Slots
  BY <1>1, <1>2, FS_Subset
<1>4. Cardinality(LiveSlots(nodes)) \in Nat
  BY <1>3, FS_CardinalityType
<1>. QED BY <1>1, <1>3, <1>4, FS_AddElement, FS_RemoveElement

\* The table operations change the set of live slots as they change size.
LEMMA WriteSize ==
    ASSUME TypeInv, SizeCountsLive, NEW t \in Threads, Write(t)
    PROVE  SizeCountsLive'
<1>. USE DEF InBody
<1>1. ASSUME UNCHANGED <<nodes, size>> PROVE SizeCountsLive'
  BY <1>1 DEF SizeCountsLive, LiveSlots, Live
<1>2. CASE WriteLock(t) \/ WriteUnlock(t) \/ PutFallThrough(t) \/ DeleteReturn(t) \/ FreeBody(t)
  BY <1>1, <1>2 DEF WriteLock, WriteUnlock, PutFallThrough, DeleteReturn, FreeBody, fields
<1>3. CASE PutHome(t) \/ PutEvict(t) \/ PutProbe(t)
  <2>. DEFINE c == call[t]
  <2>1. c \in Calls /\ c.op = "put" /\ c.key \in Keys /\ c.id \in 1 .. MaxCalls /\ c.len \in Lens
    BY <1>3 DEF PutHome, PutEvict, PutProbe, Probing, TypeInv, CallInv
  <2>2. Filled(c).kbase # NULL /\ ~Filled(c).tombstone
    BY <2>1, FilledType
  <2>3. Home(t) \in Slots /\ \A i \in PutStop(nodes, c.key) : i \in Slots
    BY <2>1, IndexInTable, StopsInTable DEF Home
  <2>. HIDE DEF c
  <2>4. ASSUME NEW i \in Slots, Vacant(nodes, i), nodes' = [nodes EXCEPT ![i] = Filled(c)],
               size' = size + 1
        PROVE  SizeCountsLive'
    <3>1. LiveSlots(nodes)' = LiveSlots(nodes) \union {i} /\ i \notin LiveSlots(nodes)
      BY <2>2, <2>4 DEF LiveSlots, Live, Vacant, TypeInv
    <3>. QED BY <2>4, <3>1, LiveCardinality DEF SizeCountsLive
  <2>5. ASSUME NEW i \in Slots, ~Vacant(nodes, i), UNCHANGED size,
               \/ nodes' = [nodes EXCEPT ![i] = Filled(c)]
               \/ nodes' = [nodes EXCEPT ![i].vbase = Handed(c)]
               \/ nodes' = [nodes EXCEPT ![i].vbase = Handed(c), ![i].vlen = c.len]
        PROVE  SizeCountsLive'
    <3>1. LiveSlots(nodes)' = LiveSlots(nodes)
      BY <2>2, <2>5 DEF LiveSlots, Live, Vacant, TypeInv, SlotType
    <3>. QED BY <2>5, <3>1 DEF SizeCountsLive
  <2>6. CASE PutHome(t)
    BY <2>3, <2>4, <2>6 DEF PutHome, c
  <2>7. CASE PutEvict(t)
    BY <2>3, <2>5, <2>7 DEF PutEvict, c
  <2>8. CASE PutProbe(t)
    BY <2>3, <2>4, <2>5, <2>8 DEF PutProbe, c
  <2>. QED BY <1>3, <2>6, <2>7, <2>8
<1>4. CASE DeleteBody(t)
  <2>1. call[t].key \in Keys
    BY <1>4 DEF DeleteBody, TypeInv, CallInv
  <2>2. \A i \in DeleteStop(nodes, call[t].key) : i \in Slots /\ Live(nodes, i)
    BY <2>1, StopsInTable
  <2>3. CASE DeleteStop(nodes, call[t].key) = {}
    BY <1>1, <1>4, <2>3 DEF DeleteBody
  <2>4. CASE DeleteStop(nodes, call[t].key) # {}
    <3>1. PICK i \in DeleteStop(nodes, call[t].key) :
             nodes' = [nodes EXCEPT ![i].tombstone = TRUE] /\ size' = size - 1
      BY <1>4, <2>4 DEF DeleteBody
    <3>2. i \in Slots /\ i \in LiveSlots(nodes)
      BY <2>2 DEF LiveSlots
    <3>3. LiveSlots(nodes)' = LiveSlots(nodes) \ {i}
      BY <3>1, <3>2 DEF LiveSlots, Live, TypeInv, SlotType
    <3>. QED BY <3>1, <3>2, <3>3, LiveCardinality DEF SizeCountsLive
  <2>. QED BY <2>3, <2>4
<1>5. CASE ClearBody(t)
  <2>1. LiveSlots(nodes)' = {} /\ size' = 0
    BY <1>5 DEF ClearBody, LiveSlots, Live, TypeInv, SlotType
  <2>. QED BY <2>1, FS_EmptySet DEF SizeCountsLive
<1>. QED BY <1>2, <1>3, <1>4, <1>5 DEF Write

\* The counter put compares with the capacity is the number of live entries, after
\* any sequence of insertions, evictions, deletions and clears.
THEOREM SizeCorrect == Spec => []SizeCountsLive
<1>1. Init => SizeCountsLive
  <2>1. Init => LiveSlots(nodes) = {}
    BY DEF Init, LiveSlots, Live, EmptySlot
  <2>. QED BY <2>1, FS_EmptySet DEF Init, SizeCountsLive
<1>2. TypeInv /\ SizeCountsLive /\ [Next]_vars => SizeCountsLive'
  <2>. SUFFICES ASSUME TypeInv, SizeCountsLive, [Next]_vars PROVE SizeCountsLive'
    OBVIOUS
  <2>1. ASSUME UNCHANGED fields PROVE SizeCountsLive'
    BY <2>1 DEF fields, SizeCountsLive, LiveSlots, Live
  <2>2. ASSUME NEW t \in Threads, Enter(t) \/ Read(t) \/ Fault(t) PROVE UNCHANGED fields
    BY <2>2 DEF Enter, PutCall, GetCall, DeleteCall, KeyCall, ClearCall, InvalidateCall, Begin,
                Read, GetCount, GetWriteLock, GetOpen, GetScan, GetLeave, GetReadBase,
                GetReadLen, Fault
  <2>3. ASSUME UNCHANGED vars PROVE UNCHANGED fields
    BY <2>3 DEF vars
  <2>. QED BY <2>1, <2>2, <2>3, WriteSize DEF Next, Continue, Done
<1>. QED BY <1>1, <1>2, TypesHold, PTL DEF Spec

\* The type invariant, with the bounds that follow from the two invariants above:
\* size never leaves 0..capacity, num_readers never exceeds the threads there are.
THEOREM TypeCorrect == Spec => []TypeOK
<1>1. TypeInv /\ LockProtocol /\ SizeCountsLive => TypeOK
  <2>. SUFFICES ASSUME TypeInv, LockProtocol, SizeCountsLive PROVE TypeOK
    OBVIOUS
  <2>1. size \in 0 .. Capacity
    BY LiveCardinality DEF SizeCountsLive
  <2>2. num_readers \in 0 .. Cardinality(Threads)
    BY CountedCardinality, FS_CardinalityType, ThreadsAssumption DEF LockProtocol
  <2>. QED BY <2>1, <2>2 DEF TypeInv, TypeOK, SlotType
<1>. QED BY <1>1, TypesHold, Exclusion, SizeCorrect, PTL

(***************************************************************************)
(* A put that may evict always finds a slot and so always unlocks.         *)
(***************************************************************************)
\* Every slot is a number of probing steps away from a given home.
LEMMA EverySlotProbed ==
    ASSUME NEW h \in Slots, NEW i \in Slots
    PROVE  \E d \in Slots : At(h, d) = i
<1>1. CASE i >= h
  <2>1. i - h \in Slots /\ At(h, i - h) = i
    BY <1>1 DEF Slots, At
  <2>. QED BY <2>1
<1>2. CASE i < h
  <2>1. i - h + Capacity \in Slots /\ At(h, i - h + Capacity) = i
    BY <1>2 DEF Slots, At
  <2>. QED BY <2>1
<1>. QED BY <1>1, <1>2 DEF Slots

\* A set of distances that is not empty has a nearest one.
LEMMA NearestExists ==
    ASSUME NEW D \in SUBSET Nat, D # {}
    PROVE  Nearest(D) # {}
<1>1. \E x \in D : \A y \in D : ~ (<<y, x>> \in OpToRel(<, Nat))
  BY NatLessThanWellFounded, WFMin
<1>2. PICK x \in D : \A y \in D : ~ (<<y, x>> \in OpToRel(<, Nat))
  BY <1>1
<1>3. \A y \in D : ~ (y < x)
  BY <1>2 DEF OpToRel
<1>4. \A y \in D : x <= y
  BY <1>3
<1>. QED BY <1>4 DEF Nearest

\* The scan of put comes back empty-handed only when no slot is vacant.
LEMMA PutStopFindsVacant ==
    ASSUME NEW n, NEW k \in Keys, NEW i \in Slots, Vacant(n, i)
    PROVE  PutStop(n, k) # {}
<1>. DEFINE D == {d \in Slots : LET j == At(GetIndex(k), d) IN Vacant(n, j) \/ SameKey(n, j, k)}
<1>1. PICK d \in Slots : At(GetIndex(k), d) = i
  BY IndexInTable, EverySlotProbed
<1>2. d \in D
  BY <1>1
<1>3. D \in SUBSET Nat /\ D # {}
  BY <1>2 DEF Slots
<1>. HIDE DEF D
<1>4. Nearest(D) # {}
  BY <1>3, NearestExists
<1>. QED BY <1>4 DEF PutStop, D

\* Every put in progress carries force when the callers always pass it.
PutsForce == \A t \in Threads : call[t].op = "put" => call[t].force

\* A put with force probes only when the map is not full, and then finds a slot.
LEMMA ForcedPutNeverFallsThrough ==
    ASSUME TypeInv, SizeCountsLive, PutsForce, NEW t \in Threads, PutFallThrough(t)
    PROVE  FALSE
<1>1. call[t].op = "put" /\ call[t].key \in Keys /\ call[t].force /\ ~Full
      /\ PutStop(nodes, call[t].key) = {}
  BY DEF PutFallThrough, Probing, InBody, TypeInv, CallInv, PutsForce
<1>2. \A i \in Slots : ~Vacant(nodes, i)
  BY <1>1, PutStopFindsVacant
<1>3. LiveSlots(nodes) = Slots
  BY <1>2 DEF LiveSlots, Live, Vacant
<1>. QED BY <1>1, <1>3, LiveCardinality DEF SizeCountsLive, Full

\* The callers' force arguments do not change during a call.
LEMMA ForceStays ==
    ASSUME ForceArgs = {TRUE}, TypeInv, PutsForce, [Next]_vars
    PROVE  PutsForce'
<1>1. ASSUME UNCHANGED call PROVE PutsForce'
  BY <1>1 DEF PutsForce
<1>2. ASSUME NEW t \in Threads, Enter(t) PROVE PutsForce'
  <2>1. PICK op \in CallOps, k \in Keys \union {NULL}, n \in Lens \union {0}, f \in BOOLEAN :
           call' = [call EXCEPT ![t] = NewCall(op, k, n, f)] /\ (op = "put" => f = TRUE)
    <3>1. CASE PutCall(t)
      <4>1. PICK k \in Keys, n \in Lens, f \in ForceArgs : Begin(t, NewCall("put", k, n, f))
        BY <3>1, Zenon DEF PutCall
      <4>. QED BY <4>1 DEF Begin, CallOps
    <3>2. CASE GetCall(t)
      <4>1. PICK k \in Keys : Begin(t, NewCall("get", k, 0, FALSE))
        BY <3>2, Zenon DEF GetCall, KeyCall
      <4>. QED BY <4>1 DEF Begin, CallOps
    <3>3. CASE DeleteCall(t)
      <4>1. PICK k \in Keys : Begin(t, NewCall("delete", k, 0, FALSE))
        BY <3>3, Zenon DEF DeleteCall, KeyCall
      <4>. QED BY <4>1 DEF Begin, CallOps
    <3>4. CASE ClearCall(t)
      BY <3>4 DEF ClearCall, Begin, CallOps
    <3>5. CASE InvalidateCall(t)
      <4>1. PICK op \in {"free", "wipe"} : Begin(t, NewCall(op, NULL, 0, FALSE))
        BY <3>5, Zenon DEF InvalidateCall
      <4>. QED BY <4>1 DEF Begin, CallOps
    <3>. QED BY <1>2, <3>1, <3>2, <3>3, <3>4, <3>5 DEF Enter
  <2>2. NewCall(op, k, n, f).op = op /\ NewCall(op, k, n, f).force = f
    BY DEF NewCall
  <2>. QED BY <2>1, <2>2 DEF PutsForce, TypeInv
<1>3. ASSUME NEW t \in Threads, Write(t) PROVE PutsForce'
  <2>1. CASE UNCHANGED call
    BY <1>1, <2>1
  <2>2. CASE WriteUnlock(t) /\ call' = [call EXCEPT ![t].op = "free"]
    BY <2>2 DEF PutsForce, TypeInv, Calls
  <2>3. UNCHANGED call \/ (WriteUnlock(t) /\ call' = [call EXCEPT ![t].op = "free"])
    BY <1>3 DEF Write, WriteLock, WriteUnlock, PutHome, PutEvict, PutProbe, PutFallThrough,
                DeleteBody, DeleteReturn, ClearBody, FreeBody
  <2>. QED BY <2>1, <2>2, <2>3
<1>4. ASSUME NEW t \in Threads, Read(t) \/ Fault(t) PROVE PutsForce'
  BY <1>1, <1>4 DEF Read, GetCount, GetWriteLock, GetOpen, GetScan, GetLeave, GetReadBase,
                    GetReadLen, Fault, threadvars
<1>5. ASSUME UNCHANGED vars PROVE PutsForce'
  BY <1>1, <1>5 DEF vars, threadvars
<1>. QED BY <1>2, <1>3, <1>4, <1>5 DEF Next, Continue, Done

\* A step that leaves write_lock alone orphans it only if its holder leaves the
\* critical section.
LEMMA OrphanSteps ==
    ASSUME TypeInv, NoOrphanLock, NEW t \in Threads, NEW l \in Labels,
           pc' = [pc EXCEPT ![t] = l],
           write_lock' \in {write_lock, Free, ByReaders},
           pc[t] \in {"body", "unlock"} => l \in {"body", "unlock"} \/ write_lock' = Free
    PROVE  NoOrphanLock'
BY ThreadsAssumption DEF NoOrphanLock, TypeInv

\* No step of a map whose puts force leaves write_lock behind.
LEMMA NextOrphans ==
    ASSUME TypeInv, SizeCountsLive, PutsForce, NoOrphanLock, [Next]_vars
    PROVE  NoOrphanLock'
<1>. USE DEF Is, InBody, Goto, Returning, Labels
<1>1. ASSUME UNCHANGED <<write_lock, pc>> PROVE NoOrphanLock'
  BY <1>1 DEF NoOrphanLock
<1>2. ASSUME NEW t \in Threads, Enter(t) PROVE NoOrphanLock'
  <2>1. pc[t] = "idle" /\ UNCHANGED write_lock
    BY <1>2 DEF Enter, PutCall, GetCall, DeleteCall, KeyCall, ClearCall, InvalidateCall, Begin,
                locks
  <2>2. PICK l \in {"idle", "lock", "get_enter"} : pc' = [pc EXCEPT ![t] = l]
    BY <1>2 DEF Enter, PutCall, GetCall, DeleteCall, KeyCall, ClearCall, InvalidateCall, Check,
                Proceed
  <2>. QED BY <2>1, <2>2, OrphanSteps
<1>3. ASSUME NEW t \in Threads, WriteLock(t) PROVE NoOrphanLock'
  BY <1>3 DEF WriteLock, NoOrphanLock, TypeInv
<1>4. ASSUME NEW t \in Threads, WriteUnlock(t) PROVE NoOrphanLock'
  <2>1. PICK l \in {"lock", "del_ret", "idle"} :
           pc' = [pc EXCEPT ![t] = l] /\ write_lock' = Free
    BY <1>4 DEF WriteUnlock
  <2>. QED BY <2>1, OrphanSteps
<1>5. ASSUME NEW t \in Threads,
             PutHome(t) \/ PutEvict(t) \/ PutProbe(t) \/ DeleteBody(t) \/ ClearBody(t) \/ FreeBody(t)
      PROVE  NoOrphanLock'
  <2>1. pc' = [pc EXCEPT ![t] = "unlock"] /\ UNCHANGED write_lock
    BY <1>5 DEF PutHome, PutEvict, PutProbe, DeleteBody, ClearBody, FreeBody, locks
  <2>. QED BY <2>1, OrphanSteps
<1>6. ASSUME NEW t \in Threads, DeleteReturn(t) PROVE NoOrphanLock'
  <2>1. pc[t] = "del_ret" /\ pc' = [pc EXCEPT ![t] = "idle"] /\ UNCHANGED write_lock
    BY <1>6 DEF DeleteReturn, locks
  <2>. QED BY <2>1, OrphanSteps
<1>7. ASSUME NEW t \in Threads, Write(t) PROVE NoOrphanLock'
  BY <1>3, <1>4, <1>5, <1>6, <1>7, ForcedPutNeverFallsThrough DEF Write
<1>8. ASSUME NEW t \in Threads, Read(t) PROVE NoOrphanLock'
  <2>1. pc[t] \notin {"body", "unlock"} /\ write_lock' \in {write_lock, Free, ByReaders}
    BY <1>8 DEF Read, GetCount, GetWriteLock, GetOpen, GetScan, GetLeave, GetReadBase,
                GetReadLen, locks
  <2>2. PICK l \in Labels : pc' = [pc EXCEPT ![t] = l]
    BY <1>8 DEF Read, GetCount, GetWriteLock, GetOpen, GetScan, GetLeave, GetReadBase, GetReadLen
  <2>. QED BY <2>1, <2>2, OrphanSteps
<1>9. ASSUME NEW t \in Threads, Fault(t) PROVE NoOrphanLock'
  BY <1>1, <1>9 DEF Fault, locks, threadvars
<1>10. ASSUME UNCHANGED vars PROVE NoOrphanLock'
  BY <1>1, <1>10 DEF vars, locks, threadvars
<1>. QED BY <1>2, <1>7, <1>8, <1>9, <1>10 DEF Next, Continue, Done

\* When every put passes force, as the server's do, the probe after the full check
\* always stops at a slot, so put never reaches its last return with write_lock
\* held: whoever holds write_lock is in the middle of its critical section.
THEOREM ForcedPutUnlocks ==
    ASSUME ForceArgs = {TRUE}
    PROVE  Spec => []NoOrphanLock
<1>1. Init => PutsForce /\ NoOrphanLock
  BY ThreadsAssumption DEF Init, PutsForce, NoCall, NoOrphanLock
<1>2. TypeInv /\ PutsForce /\ [Next]_vars => PutsForce'
  BY ForceStays
<1>3. TypeInv /\ SizeCountsLive /\ PutsForce /\ NoOrphanLock /\ [Next]_vars => NoOrphanLock'
  BY NextOrphans
<1>. QED BY <1>1, <1>2, <1>3, TypesHold, SizeCorrect, PTL DEF Spec

-----------------------------------------------------------------------------
(* The steps of the table *)

\* Slot i is where a probe for k that meets no empty slot gets to.
Reached(n, i, k) ==
    \E d \in Slots : At(GetIndex(k), d) = i /\ \A e \in 0 .. d - 1 : ~Empty(n, At(GetIndex(k), e))

\* The new entry goes to a vacant slot.
Fills(c) ==
    \E i \in Slots : /\ Vacant(nodes, i) /\ Reached(nodes, i, c.key)
                     /\ nodes' = [nodes EXCEPT ![i] = Filled(c)]
                     /\ freed' = freed

\* It takes the place of the entry in its home.
Evicts(c) ==
    \E i \in Slots : /\ ~Vacant(nodes, i) /\ Reached(nodes, i, c.key)
                     /\ nodes' = [nodes EXCEPT ![i] = Filled(c)]
                     /\ freed' = freed \union Destroyed(nodes[i])

\* Only its value does.
Overwrites(c) ==
    \E i \in Slots, v \in SlotType :
        /\ ~Vacant(nodes, i) /\ SameKey(nodes, i, c.key)
        /\ v.kbase = nodes[i].kbase /\ v.vbase = Handed(c) /\ ~v.tombstone
        /\ nodes' = [nodes EXCEPT ![i] = v]
        /\ freed' = freed

Buries == \E i \in Slots : nodes' = [nodes EXCEPT ![i].tombstone = TRUE] /\ freed' = freed

Clears ==
    /\ nodes' = [i \in Slots |-> [nodes[i] EXCEPT !.tombstone = TRUE]]
    /\ freed' = freed \union
                UNION {Destroyed(nodes[i]) : i \in {j \in Slots : ~nodes[j].tombstone}}

\* Home is reached without a step.
LEMMA HomeIsReached ==
    ASSUME NEW n, NEW k \in Keys
    PROVE  Reached(n, GetIndex(k), k)
<1>1. GetIndex(k) \in Slots /\ 0 \in Slots
  BY IndexInTable DEF Slots
<1>2. At(GetIndex(k), 0) = GetIndex(k)
  BY <1>1 DEF At, Slots
<1>3. 0 .. 0 - 1 = {}
  OBVIOUS
<1>. QED BY <1>1, <1>2, <1>3 DEF Reached

\* So is the slot where put's probe stops: what is vacant ends it.
LEMMA StopIsReached ==
    ASSUME NEW n, NEW k \in Keys, NEW i \in PutStop(n, k)
    PROVE  Reached(n, i, k)
<1>. DEFINE h == GetIndex(k)
            D == {d \in Slots : Vacant(n, At(h, d)) \/ SameKey(n, At(h, d), k)}
<1>1. PICK d \in Nearest(D) : At(h, d) = i
  BY DEF PutStop
<1>2. d \in Slots /\ \A e \in D : d <= e
  BY <1>1 DEF Nearest
<1>3. ASSUME NEW e \in 0 .. d - 1 PROVE ~Empty(n, At(h, e))
  <2>1. e \in Slots /\ ~(d <= e)
    BY <1>2, <1>3 DEF Slots
  <2>2. e \notin D
    BY <1>2, <2>1
  <2>. QED BY <2>1, <2>2 DEF Vacant, Empty
<1>. QED BY <1>1, <1>2, <1>3 DEF Reached

\* What a put stores is its own key and value, in use.
LEMMA FilledIs ==
    ASSUME NEW c \in Calls, c.op = "put", c.key \in Keys, c.id \in 1 .. MaxCalls, c.len \in Lens
    PROVE  /\ Filled(c) \in SlotType /\ Handed(c) \in Buffers
           /\ Filled(c).kbase = Handed(c) /\ Filled(c).vbase = Handed(c)
           /\ Filled(c).kbase # NULL /\ ~Filled(c).tombstone
           /\ Filled(c).kbase.key = c.key
           /\ Handed(c).key = c.key /\ Handed(c).id = c.id
<1>1. /\ Handed(c) \in Buffers /\ Filled(c) \in SlotType /\ Handed(c) # NULL
      /\ Filled(c).kbase = Handed(c) /\ Filled(c).vbase = Handed(c) /\ ~Filled(c).tombstone
  BY FilledType
<1>2. Handed(c).key = c.key /\ Handed(c).id = c.id
  BY DEF Handed
<1>. QED BY <1>1, <1>2

\* A put in its critical section, and what it can do to the table.
LEMMA PutStep ==
    ASSUME TypeInv, NEW t \in Threads, PutHome(t) \/ PutEvict(t) \/ PutProbe(t)
    PROVE  /\ InBody(t, "put") /\ pc' = [pc EXCEPT ![t] = "unlock"]
           /\ UNCHANGED <<call, calls>>
           /\ call[t] \in Calls /\ call[t].op = "put"
           /\ call[t].key \in Keys /\ call[t].id \in 1 .. MaxCalls /\ call[t].len \in Lens
           /\ Fills(call[t]) \/ Evicts(call[t]) \/ Overwrites(call[t])
<1>. DEFINE c == call[t]
<1>1. /\ InBody(t, "put") /\ pc' = [pc EXCEPT ![t] = "unlock"]
      /\ UNCHANGED <<call, calls>>
  BY DEF PutHome, PutEvict, PutProbe, Probing, Goto
<1>2. c \in Calls /\ c.op = "put" /\ c.key \in Keys /\ c.id \in 1 .. MaxCalls /\ c.len \in Lens
  BY <1>1 DEF InBody, TypeInv, CallInv
<1>3. Handed(c) \in Buffers
  BY <1>2, FilledType
<1>4. Home(t) \in Slots /\ Home(t) = GetIndex(c.key) /\ Reached(nodes, Home(t), c.key)
  BY <1>2, HomeIsReached, IndexInTable DEF Home
<1>5. \A i \in PutStop(nodes, c.key) :
          i \in Slots /\ Reached(nodes, i, c.key) /\ (Vacant(nodes, i) \/ SameKey(nodes, i, c.key))
  BY <1>2, StopsInTable, StopIsReached
<1>6. ASSUME NEW i \in Slots, ~Vacant(nodes, i), SameKey(nodes, i, c.key), freed' = freed,
             \/ nodes' = [nodes EXCEPT ![i].vbase = Handed(c)]
             \/ nodes' = [nodes EXCEPT ![i].vbase = Handed(c), ![i].vlen = c.len]
      PROVE  Overwrites(c)
  <2>1. nodes[i] \in SlotType /\ ~nodes[i].tombstone
    BY <1>6 DEF TypeInv, Vacant
  <2>2. CASE nodes' = [nodes EXCEPT ![i].vbase = Handed(c)]
    <3>. DEFINE v == [nodes[i] EXCEPT !.vbase = Handed(c)]
    <3>1. v \in SlotType /\ v.kbase = nodes[i].kbase /\ v.vbase = Handed(c) /\ ~v.tombstone
      BY <1>3, <2>1 DEF SlotType
    <3>2. nodes' = [nodes EXCEPT ![i] = v]
      BY <2>2
    <3>. QED BY <1>6, <3>1, <3>2 DEF Overwrites
  <2>3. CASE nodes' = [nodes EXCEPT ![i].vbase = Handed(c), ![i].vlen = c.len]
    <3>. DEFINE v == [nodes[i] EXCEPT !.vbase = Handed(c), !.vlen = c.len]
    <3>1. v \in SlotType /\ v.kbase = nodes[i].kbase /\ v.vbase = Handed(c) /\ ~v.tombstone
      BY <1>2, <1>3, <2>1 DEF SlotType
    <3>2. nodes' = [nodes EXCEPT ![i] = v]
      BY <2>3 DEF TypeInv
    <3>. QED BY <1>6, <3>1, <3>2 DEF Overwrites
  <2>. QED BY <1>6, <2>2, <2>3
<1>7. ASSUME PutHome(t) PROVE Fills(c)
  BY <1>4, <1>7 DEF PutHome, Fills
<1>8. ASSUME PutEvict(t) PROVE Evicts(c) \/ Overwrites(c)
  <2>1. CASE SameKey(nodes, Home(t), c.key)
    BY <1>4, <1>6, <1>8, <2>1 DEF PutEvict
  <2>2. CASE ~SameKey(nodes, Home(t), c.key)
    BY <1>4, <1>8, <2>2 DEF PutEvict, Evicts
  <2>. QED BY <2>1, <2>2
<1>9. ASSUME PutProbe(t) PROVE Fills(c) \/ Overwrites(c)
  <2>1. PICK i \in PutStop(nodes, c.key) :
          IF Vacant(nodes, i) THEN nodes' = [nodes EXCEPT ![i] = Filled(c)]
          ELSE nodes' = [nodes EXCEPT ![i].vbase = Handed(c)]
    BY <1>9 DEF PutProbe
  <2>2. freed' = freed
    BY <1>9 DEF PutProbe
  <2>3. CASE Vacant(nodes, i)
    BY <1>5, <2>1, <2>2, <2>3 DEF Fills
  <2>4. CASE ~Vacant(nodes, i)
    BY <1>5, <1>6, <2>1, <2>2, <2>4
  <2>. QED BY <2>3, <2>4
<1>. QED BY <1>1, <1>2, <1>7, <1>8, <1>9

\* The other steps of a call bury an entry or all of them, or leave the table alone.
LEMMA QuietStep ==
    ASSUME TypeInv, NEW t \in Threads,
           WriteLock(t) \/ WriteUnlock(t) \/ PutFallThrough(t) \/ DeleteBody(t)
           \/ DeleteReturn(t) \/ ClearBody(t) \/ FreeBody(t) \/ Read(t) \/ Fault(t)
    PROVE  UNCHANGED <<nodes, freed>> \/ Buries \/ Clears
<1>1. ASSUME WriteLock(t) \/ WriteUnlock(t) \/ PutFallThrough(t) \/ DeleteReturn(t) \/ FreeBody(t)
      PROVE  UNCHANGED <<nodes, freed>>
  BY <1>1 DEF WriteLock, WriteUnlock, PutFallThrough, DeleteReturn, FreeBody, fields
<1>2. ASSUME DeleteBody(t) PROVE UNCHANGED <<nodes, freed>> \/ Buries
  <2>1. \A i \in DeleteStop(nodes, call[t].key) : i \in Slots
    BY <1>2, StopsInTable DEF DeleteBody, InBody, TypeInv, CallInv
  <2>. QED BY <1>2, <2>1 DEF DeleteBody, Buries
<1>3. ASSUME ClearBody(t) PROVE Clears
  BY <1>3 DEF ClearBody, Clears
<1>4. ASSUME Read(t) \/ Fault(t) PROVE UNCHANGED <<nodes, freed>>
  BY <1>4 DEF Read, GetCount, GetWriteLock, GetOpen, GetScan, GetLeave, GetReadBase,
              GetReadLen, Fault, fields
<1>. QED BY <1>1, <1>2, <1>3, <1>4

\* Any step of any thread, as far as the table is concerned.
LEMMA TableStep ==
    ASSUME TypeInv, [Next]_vars
    PROVE  \/ UNCHANGED <<nodes, freed>>
           \/ Buries \/ Clears
           \/ \E t \in Threads : PutHome(t) \/ PutEvict(t) \/ PutProbe(t)
<1>1. ASSUME NEW t \in Threads, Enter(t) PROVE UNCHANGED <<nodes, freed>>
  BY <1>1 DEF Enter, PutCall, GetCall, DeleteCall, KeyCall, ClearCall, InvalidateCall, Begin,
              fields
<1>2. ASSUME UNCHANGED vars PROVE UNCHANGED <<nodes, freed>>
  BY <1>2 DEF vars, fields
<1>. QED BY <1>1, <1>2, QuietStep DEF Next, Continue, Write, Done

-----------------------------------------------------------------------------
(* Probe chains *)

\* ProbeChains, in the words of the lemmas above.
LEMMA ChainsAreReached ==
    ProbeChains <=> \A i \in LiveSlots(nodes) : Reached(nodes, i, nodes[i].kbase.key)
BY DEF ProbeChains, Reached

\* A slot that is not empty never becomes so, and a slot reached stays reached.
LEMMA StaysReached ==
    ASSUME NEW n, NEW m, NEW i, NEW k \in Keys, Reached(n, i, k),
           \A j \in Slots : Empty(m, j) => Empty(n, j)
    PROVE  Reached(m, i, k)
<1>1. PICK d \in Slots : /\ At(GetIndex(k), d) = i
                         /\ \A e \in 0 .. d - 1 : ~Empty(n, At(GetIndex(k), e))
  BY DEF Reached
<1>2. ASSUME NEW e \in 0 .. d - 1 PROVE At(GetIndex(k), e) \in Slots
  <2>1. e \in Slots
    BY DEF Slots
  <2>. QED BY <2>1, IndexInTable
<1>. QED BY <1>1, <1>2 DEF Reached

\* So a step keeps the chains if it empties no slot and puts new keys only where a probe
\* gets to.
LEMMA ChainsKept ==
    ASSUME TypeInv, TypeInv', ProbeChains,
           \A j \in Slots : Empty(nodes', j) => Empty(nodes, j),
           \A i \in LiveSlots(nodes') :
               \/ i \in LiveSlots(nodes) /\ nodes'[i].kbase = nodes[i].kbase
               \/ Reached(nodes, i, nodes'[i].kbase.key)
    PROVE  ProbeChains'
<1>1. ASSUME NEW i \in LiveSlots(nodes') PROVE Reached(nodes', i, nodes'[i].kbase.key)
  <2>1. Reached(nodes, i, nodes'[i].kbase.key)
    BY ChainsAreReached
  <2>2. nodes'[i].kbase.key \in Keys
    BY DEF LiveSlots, Live, TypeInv, SlotType, Buffers
  <2>. QED BY <2>1, <2>2, StaysReached
<1>. QED BY <1>1 DEF ProbeChains, Reached

\* Every change of the table is of that kind.
LEMMA NextChains ==
    ASSUME TypeInv, TypeInv', ProbeChains, [Next]_vars
    PROVE  ProbeChains'
<1>. USE DEF LiveSlots, Live, Empty
<1>1. CASE UNCHANGED <<nodes, freed>>
  BY <1>1 DEF ProbeChains
<1>2. CASE Buries
  <2>1. PICK i \in Slots : nodes' = [nodes EXCEPT ![i].tombstone = TRUE]
    BY <1>2 DEF Buries
  <2>2. \A j \in Slots : /\ nodes'[j].kbase = nodes[j].kbase
                         /\ nodes[j].tombstone => nodes'[j].tombstone
    BY <2>1 DEF TypeInv, SlotType
  <2>. QED BY <2>2, ChainsKept DEF TypeInv, SlotType
<1>3. CASE Clears
  <2>1. \A j \in Slots : nodes'[j].kbase = nodes[j].kbase /\ nodes'[j].tombstone
    BY <1>3 DEF Clears, TypeInv, SlotType
  <2>. QED BY <2>1, ChainsKept
<1>4. CASE \E t \in Threads : PutHome(t) \/ PutEvict(t) \/ PutProbe(t)
  <2>1. PICK t \in Threads : PutHome(t) \/ PutEvict(t) \/ PutProbe(t)
    BY <1>4
  <2>. DEFINE c == call[t]
  <2>2. /\ c \in Calls /\ c.op = "put" /\ c.key \in Keys /\ c.id \in 1 .. MaxCalls
        /\ c.len \in Lens
        /\ Fills(c) \/ Evicts(c) \/ Overwrites(c)
    BY <2>1, PutStep
  <2>3. /\ Filled(c).kbase # NULL /\ ~Filled(c).tombstone
        /\ Filled(c).kbase.key = c.key /\ Filled(c) \in SlotType
    BY <2>2, FilledIs
  <2>. HIDE DEF c
  <2>4. ASSUME NEW i \in Slots, Reached(nodes, i, c.key), nodes' = [nodes EXCEPT ![i] = Filled(c)]
        PROVE  ProbeChains'
    <3>1. \A j \in Slots : nodes'[j] = IF j = i THEN Filled(c) ELSE nodes[j]
      BY <2>4 DEF TypeInv
    <3>2. \A j \in Slots : Empty(nodes', j) => Empty(nodes, j)
      BY <2>3, <3>1
    <3>3. \A j \in LiveSlots(nodes') :
              \/ j \in LiveSlots(nodes) /\ nodes'[j].kbase = nodes[j].kbase
              \/ Reached(nodes, j, nodes'[j].kbase.key)
      BY <2>3, <2>4, <3>1
    <3>. QED BY <3>2, <3>3, ChainsKept
  <2>5. CASE Fills(c)
    BY <2>4, <2>5 DEF Fills
  <2>6. CASE Evicts(c)
    BY <2>4, <2>6 DEF Evicts
  <2>7. CASE Overwrites(c)
    <3>1. PICK i \in Slots, v \in SlotType :
              /\ ~Vacant(nodes, i) /\ v.kbase = nodes[i].kbase /\ ~v.tombstone
              /\ nodes' = [nodes EXCEPT ![i] = v]
      BY <2>7 DEF Overwrites
    <3>2. \A j \in Slots : nodes'[j] = IF j = i THEN v ELSE nodes[j]
      BY <3>1 DEF TypeInv
    <3>3. nodes[i].kbase # NULL /\ ~nodes[i].tombstone
      BY <3>1 DEF Vacant
    <3>4. \A j \in Slots : Empty(nodes', j) => Empty(nodes, j)
      BY <3>1, <3>2, <3>3
    <3>5. \A j \in LiveSlots(nodes') : j \in LiveSlots(nodes) /\ nodes'[j].kbase = nodes[j].kbase
      BY <3>1, <3>2, <3>3
    <3>. QED BY <3>4, <3>5, ChainsKept
  <2>. QED BY <2>2, <2>5, <2>6, <2>7
<1>. QED BY <1>1, <1>2, <1>3, <1>4, TableStep

\* After any mix of insertions, evictions, deletions and clears by any threads, no empty
\* slot lies between a live key and its home: delete, whose scan stops at an empty slot,
\* cannot miss a key behind one.
THEOREM ChainsStayWhole == Spec => []ProbeChains
<1>1. Init => ProbeChains
  BY DEF Init, ProbeChains, LiveSlots, Live, EmptySlot
<1>2. TypeInv /\ TypeInv' /\ ProbeChains /\ [Next]_vars => ProbeChains'
  BY NextChains
<1>. QED BY <1>1, <1>2, TypesHold, PTL DEF Spec

-----------------------------------------------------------------------------
(* Ownership of buffers *)

\* The buffers the table or free has seen.
Used == {nodes[i].kbase : i \in LiveSlots(nodes)} \union {nodes[i].vbase : i \in LiveSlots(nodes)}
        \union {x[2] : x \in freed}

\* A put that has not reached its critical section yet, or is in it.
Pending(t) == call[t].op = "put" /\ pc[t] \in {"lock", "body"}

\* Its buffers are nobody else's.
FreshInv ==
    /\ \A b \in Used : b.id <= calls
    /\ \A t \in Threads : Pending(t) =>
          call[t].id <= calls /\ \A b \in Used : b.id # call[t].id
    /\ \A t, u \in Threads : Pending(t) /\ Pending(u) /\ t # u => call[t].id # call[u].id

\* OwnedBuffers, buffer by buffer.
Owned ==
    \A i \in LiveSlots(nodes) :
        /\ <<"key", nodes[i].kbase>> \notin freed /\ <<"val", nodes[i].vbase>> \notin freed
        /\ nodes[i].vbase.key = nodes[i].kbase.key
        /\ \A j \in LiveSlots(nodes) \ {i} :
              nodes[i].kbase # nodes[j].kbase /\ nodes[i].vbase # nodes[j].vbase

\* Buffers apart one by one are apart as destroy_function frees them.
LEMMA OwnedIsOwnedBuffers == Owned => OwnedBuffers
<1>1. \A i \in LiveSlots(nodes) :
         Destroyed(nodes[i]) = {<<"key", nodes[i].kbase>>, <<"val", nodes[i].vbase>>}
  BY DEF LiveSlots, Live, Destroyed
<1>2. ASSUME Owned, NEW i \in LiveSlots(nodes)
      PROVE  /\ Destroyed(nodes[i]) \intersect freed = {}
             /\ nodes[i].vbase.key = nodes[i].kbase.key
  BY <1>1, <1>2 DEF Owned
<1>3. ASSUME Owned, NEW i \in LiveSlots(nodes), NEW j \in LiveSlots(nodes) \ {i}
      PROVE  Destroyed(nodes[i]) \intersect Destroyed(nodes[j]) = {}
  <2>1. nodes[i].kbase # nodes[j].kbase /\ nodes[i].vbase # nodes[j].vbase
    BY <1>3 DEF Owned
  <2>2. \A x, y : <<"key", x>> # <<"val", y>>
    OBVIOUS
  <2>. QED BY <1>1, <2>1, <2>2
<1>. QED BY <1>2, <1>3 DEF OwnedBuffers

\* What has been used is a buffer, with the number of a call.
LEMMA UsedAreBuffers ==
    ASSUME TypeInv
    PROVE  \A b \in Used : b \in Buffers /\ b.id \in Nat
<1>1. \A i \in LiveSlots(nodes) : nodes[i].kbase \in Buffers /\ nodes[i].vbase \in Buffers
  BY DEF TypeInv, SlotType, LiveSlots, Live
<1>2. \A x \in freed : x[2] \in Buffers
  BY DEF TypeInv
<1>. QED BY <1>1, <1>2 DEF Used, Buffers

\* Burying and clearing use no new buffer, filling and overwriting only the put's own.
LEMMA UsedGrows ==
    ASSUME TypeInv
    PROVE  /\ UNCHANGED <<nodes, freed>> \/ Buries \/ Clears => Used' \subseteq Used
           /\ \A t \in Threads : PutHome(t) \/ PutEvict(t) \/ PutProbe(t) =>
                 Used' \subseteq Used \union {Handed(call[t])}
<1>. USE DEF LiveSlots, Live
<1>1. ASSUME UNCHANGED <<nodes, freed>> PROVE Used' \subseteq Used
  BY <1>1 DEF Used
<1>2. ASSUME Buries PROVE Used' \subseteq Used
  <2>1. PICK i \in Slots : nodes' = [nodes EXCEPT ![i].tombstone = TRUE] /\ freed' = freed
    BY <1>2 DEF Buries
  <2>2. \A j \in Slots : /\ nodes'[j].kbase = nodes[j].kbase /\ nodes'[j].vbase = nodes[j].vbase
                         /\ nodes[j].tombstone => nodes'[j].tombstone
    BY <2>1 DEF TypeInv, SlotType
  <2>3. LiveSlots(nodes') \subseteq LiveSlots(nodes)
    BY <2>2 DEF TypeInv, SlotType
  <2>. QED BY <2>1, <2>2, <2>3 DEF Used
<1>3. ASSUME Clears PROVE Used' \subseteq Used
  <2>1. LiveSlots(nodes') = {}
    BY <1>3 DEF Clears, TypeInv, SlotType
  <2>2. \A x \in freed' : x[2] \in Used
    <3>1. ASSUME NEW j \in Slots, ~nodes[j].tombstone, NEW x \in Destroyed(nodes[j]) PROVE x[2] \in Used
      BY <3>1 DEF Destroyed, Used
    <3>. QED BY <1>3, <3>1 DEF Clears, Used
  <2>. QED BY <2>1, <2>2 DEF Used
<1>4. ASSUME NEW t \in Threads, PutHome(t) \/ PutEvict(t) \/ PutProbe(t)
      PROVE  Used' \subseteq Used \union {Handed(call[t])}
  <2>. DEFINE c == call[t]
              New == Used \union {Handed(c)}
  <2>1. /\ c \in Calls /\ c.op = "put" /\ c.key \in Keys /\ c.id \in 1 .. MaxCalls
        /\ c.len \in Lens
        /\ Fills(c) \/ Evicts(c) \/ Overwrites(c)
    BY <1>4, PutStep
  <2>2. Filled(c).kbase = Handed(c) /\ Filled(c).vbase = Handed(c)
    BY <2>1, FilledIs
  <2>. HIDE DEF c
  <2>3. \A j \in Slots : Live(nodes, j) => nodes[j].kbase \in New /\ nodes[j].vbase \in New
    BY DEF Used
  <2>4. ASSUME NEW i \in Slots, NEW v,
               nodes' = [nodes EXCEPT ![i] = v],
               v.kbase \in New, v.vbase \in New,
               \A x \in freed' : x[2] \in New
        PROVE  Used' \subseteq New
    <3>1. \A j \in Slots : nodes'[j] = IF j = i THEN v ELSE nodes[j]
      BY <2>4 DEF TypeInv
    <3>2. \A j \in LiveSlots(nodes') : nodes'[j].kbase \in New /\ nodes'[j].vbase \in New
      BY <2>3, <2>4, <3>1
    <3>. HIDE DEF New
    <3>. QED BY <2>4, <3>2 DEF Used
  <2>5. \A x \in freed : x[2] \in New
    BY DEF Used
  <2>6. ASSUME Fills(c) PROVE Used' \subseteq New
    BY <2>2, <2>4, <2>5, <2>6 DEF Fills
  <2>7. ASSUME Evicts(c) PROVE Used' \subseteq New
    <3>1. PICK i \in Slots : /\ ~Vacant(nodes, i) /\ nodes' = [nodes EXCEPT ![i] = Filled(c)]
                             /\ freed' = freed \union Destroyed(nodes[i])
      BY <2>7 DEF Evicts
    <3>2. \A x \in Destroyed(nodes[i]) : x[2] \in New
      BY <2>3, <3>1 DEF Destroyed, Vacant
    <3>. QED BY <2>2, <2>4, <2>5, <3>1, <3>2
  <2>8. ASSUME Overwrites(c) PROVE Used' \subseteq New
    <3>1. PICK i \in Slots, v \in SlotType :
              /\ ~Vacant(nodes, i) /\ v.kbase = nodes[i].kbase /\ v.vbase = Handed(c)
              /\ nodes' = [nodes EXCEPT ![i] = v] /\ freed' = freed
      BY <2>8 DEF Overwrites
    <3>2. v.kbase \in New
      BY <2>3, <3>1 DEF Vacant
    <3>. QED BY <2>4, <2>5, <3>1, <3>2
  <2>. QED BY <2>1, <2>6, <2>7, <2>8 DEF c
<1>. QED BY <1>1, <1>2, <1>3, <1>4

\* A call that begins takes a number no buffer has and no other call in progress.
LEMMA EnterFresh ==
    ASSUME TypeInv, FreshInv, NEW t \in Threads, Enter(t)
    PROVE  FreshInv'
<1>1. PICK c : /\ Begin(t, c) /\ (c.op = "put" => c.id = calls + 1)
  <2>1. CASE PutCall(t)
    <3>1. PICK k \in Keys, n \in Lens, f \in ForceArgs : Begin(t, NewCall("put", k, n, f))
      BY <2>1, Zenon DEF PutCall
    <3>2. NewCall("put", k, n, f).id = calls + 1
      BY DEF NewCall
    <3>. QED BY <3>1, <3>2
  <2>2. ASSUME NEW op \in {"get", "delete"}, NEW label, KeyCall(t, op, label)
        PROVE  \E x : Begin(t, x) /\ (x.op = "put" => x.id = calls + 1)
    <3>1. PICK k \in Keys : Begin(t, NewCall(op, k, 0, FALSE))
      BY <2>2, Zenon DEF KeyCall
    <3>2. NewCall(op, k, 0, FALSE).op # "put"
      BY DEF NewCall
    <3>. QED BY <3>1, <3>2
  <2>3. CASE ClearCall(t)
    <3>1. Begin(t, NewCall("clear", NULL, 0, FALSE))
      BY <2>3, Zenon DEF ClearCall
    <3>2. NewCall("clear", NULL, 0, FALSE).op # "put"
      BY DEF NewCall
    <3>. QED BY <3>1, <3>2
  <2>4. CASE InvalidateCall(t)
    <3>. DEFINE op == IF invalid THEN "free" ELSE "wipe"
    <3>1. Begin(t, NewCall(op, NULL, 0, FALSE))
      BY <2>4, Zenon DEF InvalidateCall
    <3>2. NewCall(op, NULL, 0, FALSE).op # "put"
      BY DEF NewCall
    <3>. HIDE DEF op
    <3>. QED BY <3>1, <3>2
  <2>. QED BY <2>1, <2>2, <2>3, <2>4 DEF Enter, GetCall, DeleteCall
<1>2. /\ calls' = calls + 1 /\ call' = [call EXCEPT ![t] = c]
      /\ UNCHANGED <<nodes, freed>>
  BY <1>1 DEF Begin, fields
<1>3. \A u \in Threads \ {t} : pc'[u] = pc[u]
  BY DEF Enter, PutCall, GetCall, DeleteCall, KeyCall, ClearCall, InvalidateCall, Check,
         Returning, Proceed, Goto, TypeInv
<1>4. Used' = Used
  BY <1>2 DEF Used, LiveSlots, Live
<1>5. \A u \in Threads \ {t} : Pending(u)' <=> Pending(u)
  BY <1>2, <1>3 DEF Pending, TypeInv
<1>6. \A u \in Threads : call'[u] = IF u = t THEN c ELSE call[u]
  BY <1>2 DEF TypeInv
<1>7. Pending(t)' => c.id = calls + 1
  BY <1>1, <1>6 DEF Pending
<1>8. calls \in Nat /\ \A b \in Used : b.id \in Nat
  BY UsedAreBuffers, ClientsAssumption DEF TypeInv
<1>9. \A u \in Threads : call[u].id \in Nat
  BY DEF TypeInv, Calls
<1>10. \A b \in Used' : b.id <= calls'
  BY <1>2, <1>4, <1>8 DEF FreshInv
<1>11. ASSUME NEW u \in Threads, Pending(u)'
       PROVE  call'[u].id <= calls' /\ \A b \in Used' : b.id # call'[u].id
  <2>1. CASE u = t
    BY <1>2, <1>4, <1>6, <1>7, <1>8, <1>11, <2>1 DEF FreshInv
  <2>2. CASE u # t
    BY <1>2, <1>4, <1>5, <1>6, <1>8, <1>9, <1>11, <2>2 DEF FreshInv
  <2>. QED BY <2>1, <2>2
<1>12. ASSUME NEW u \in Threads, NEW v \in Threads, Pending(u)', Pending(v)', u # v
       PROVE  call'[u].id # call'[v].id
  BY <1>5, <1>6, <1>7, <1>8, <1>9, <1>12 DEF FreshInv
<1>. QED BY <1>10, <1>11, <1>12 DEF FreshInv

\* A step that uses no new buffer and lets no further put begin keeps them fresh.
LEMMA FreshKept ==
    ASSUME TypeInv, FreshInv, UNCHANGED calls,
           \A u \in Threads : Pending(u)' => Pending(u) /\ call'[u].id = call[u].id,
           \A b \in Used' : b \in Used \/ \E t \in Threads :
                Pending(t) /\ ~Pending(t)' /\ b.id = call[t].id
    PROVE  FreshInv'
<1>1. \A b \in Used' : b.id <= calls
  BY DEF FreshInv
<1>2. ASSUME NEW u \in Threads, Pending(u)', NEW b \in Used' PROVE b.id # call'[u].id
  BY <1>2 DEF FreshInv
<1>. QED BY <1>1, <1>2 DEF FreshInv

\* No step makes two puts share a buffer.
LEMMA NextFresh ==
    ASSUME TypeInv, FreshInv, [Next]_vars
    PROVE  FreshInv'
<1>1. ASSUME NEW t \in Threads, PutHome(t) \/ PutEvict(t) \/ PutProbe(t) PROVE FreshInv'
  <2>1. /\ Pending(t) /\ pc' = [pc EXCEPT ![t] = "unlock"] /\ UNCHANGED <<call, calls>>
        /\ Handed(call[t]).id = call[t].id
    BY <1>1, PutStep, FilledIs DEF InBody, Is, Pending
  <2>2. ~Pending(t)' /\ \A u \in Threads : Pending(u)' => Pending(u)
    BY <2>1 DEF Pending, TypeInv
  <2>3. Used' \subseteq Used \union {Handed(call[t])}
    BY <1>1, UsedGrows
  <2>. QED BY <2>1, <2>2, <2>3, FreshKept
<1>2. ASSUME NEW t \in Threads,
             WriteLock(t) \/ WriteUnlock(t) \/ PutFallThrough(t) \/ DeleteBody(t)
             \/ DeleteReturn(t) \/ ClearBody(t) \/ FreeBody(t) \/ Read(t) \/ Fault(t)
      PROVE  \A u \in Threads : Pending(u)' => Pending(u) /\ call'[u].id = call[u].id
  <2>1. CASE WriteLock(t)
    BY <2>1 DEF WriteLock, Is, Goto, Pending, TypeInv
  <2>2. CASE WriteUnlock(t)
    <3>1. CASE call[t].op = "wipe"
      BY <2>2, <3>1 DEF WriteUnlock, Pending, TypeInv, Calls, Goto
    <3>2. CASE call[t].op # "wipe"
      BY <2>2, <3>2 DEF WriteUnlock, Pending, TypeInv, Goto
    <3>. QED BY <3>1, <3>2
  <2>3. CASE PutFallThrough(t)
    BY <2>3 DEF PutFallThrough, Returning, Goto, Pending, TypeInv
  <2>4. CASE DeleteBody(t) \/ DeleteReturn(t) \/ ClearBody(t) \/ FreeBody(t)
    BY <2>4 DEF DeleteBody, DeleteReturn, ClearBody, FreeBody, Returning, Goto, Pending, TypeInv
  <2>5. CASE Read(t)
    BY <2>5 DEF Read, GetCount, GetWriteLock, GetOpen, GetScan, GetLeave, GetReadBase,
                GetReadLen, Returning, Goto, Pending, TypeInv
  <2>6. CASE Fault(t)
    BY <2>6 DEF Fault, threadvars, Pending
  <2>. QED BY <1>2, <2>1, <2>2, <2>3, <2>4, <2>5, <2>6
<1>3. ASSUME NEW t \in Threads,
             WriteLock(t) \/ WriteUnlock(t) \/ PutFallThrough(t) \/ DeleteBody(t)
             \/ DeleteReturn(t) \/ ClearBody(t) \/ FreeBody(t) \/ Read(t) \/ Fault(t)
      PROVE  UNCHANGED calls
  BY <1>3 DEF WriteLock, WriteUnlock, PutFallThrough, DeleteBody, DeleteReturn, ClearBody,
              FreeBody, Read, GetCount, GetWriteLock, GetOpen, GetScan, GetLeave, GetReadBase,
              GetReadLen, Fault
<1>4. ASSUME UNCHANGED <<nodes, freed>> \/ Buries \/ Clears, UNCHANGED calls,
             \A u \in Threads : Pending(u)' => Pending(u) /\ call'[u].id = call[u].id
      PROVE  FreshInv'
  BY <1>4, UsedGrows, FreshKept
<1>5. ASSUME UNCHANGED vars PROVE FreshInv'
  BY <1>4, <1>5 DEF vars, fields, threadvars, Pending
<1>6. ASSUME NEW t \in Threads, Write(t) \/ Read(t) \/ Fault(t) PROVE FreshInv'
  <2>1. CASE PutHome(t) \/ PutEvict(t) \/ PutProbe(t)
    BY <1>1, <2>1
  <2>2. CASE ~(PutHome(t) \/ PutEvict(t) \/ PutProbe(t))
    <3>1. WriteLock(t) \/ WriteUnlock(t) \/ PutFallThrough(t) \/ DeleteBody(t)
          \/ DeleteReturn(t) \/ ClearBody(t) \/ FreeBody(t) \/ Read(t) \/ Fault(t)
      BY <1>6, <2>2 DEF Write
    <3>2. UNCHANGED <<nodes, freed>> \/ Buries \/ Clears
      BY <3>1, QuietStep
    <3>. QED BY <1>2, <1>3, <1>4, <3>1, <3>2
  <2>. QED BY <2>1, <2>2
<1>. QED BY <1>5, <1>6, EnterFresh DEF Next, Continue, Done

\* A slot that gets a put's own buffers, while the others keep theirs and nothing of what
\* is freed is theirs, leaves every live slot the owner of its buffers.
LEMMA OwnedKept ==
    ASSUME TypeInv, Owned,
           NEW i \in Slots, NEW v \in SlotType, nodes' = [nodes EXCEPT ![i] = v],
           <<"key", v.kbase>> \notin freed', <<"val", v.vbase>> \notin freed',
           v.vbase.key = v.kbase.key,
           \A j \in LiveSlots(nodes) \ {i} :
              /\ nodes[j].kbase # v.kbase /\ nodes[j].vbase # v.vbase
              /\ <<"key", nodes[j].kbase>> \notin freed' /\ <<"val", nodes[j].vbase>> \notin freed'
    PROVE  Owned'
<1>1. \A j \in Slots : nodes'[j] = IF j = i THEN v ELSE nodes[j]
  BY DEF TypeInv
<1>2. \A j \in LiveSlots(nodes') \ {i} : j \in LiveSlots(nodes) \ {i} /\ nodes'[j] = nodes[j]
  BY <1>1 DEF LiveSlots, Live
<1>3. ASSUME NEW j \in LiveSlots(nodes')
      PROVE  /\ <<"key", nodes'[j].kbase>> \notin freed' /\ <<"val", nodes'[j].vbase>> \notin freed'
             /\ nodes'[j].vbase.key = nodes'[j].kbase.key
  BY <1>1, <1>2 DEF Owned
<1>4. ASSUME NEW j \in LiveSlots(nodes'), NEW k \in LiveSlots(nodes') \ {j}
      PROVE  nodes'[j].kbase # nodes'[k].kbase /\ nodes'[j].vbase # nodes'[k].vbase
  <2>1. CASE j = i
    BY <1>1, <1>2, <2>1
  <2>2. CASE k = i
    BY <1>1, <1>2, <2>2
  <2>3. CASE j # i /\ k # i
    <3>1. /\ j \in LiveSlots(nodes) /\ k \in LiveSlots(nodes) \ {j}
          /\ nodes'[j] = nodes[j] /\ nodes'[k] = nodes[k]
      BY <1>2, <2>3
    <3>. QED BY <3>1, Zenon DEF Owned
  <2>. QED BY <2>1, <2>2, <2>3
<1>. QED BY <1>3, <1>4 DEF Owned

\* Every change of the table is of that kind.
LEMMA NextOwned ==
    ASSUME TypeInv, TypeInv', FreshInv, Owned, [Next]_vars
    PROVE  Owned'
<1>. USE DEF LiveSlots, Live
<1>1. CASE UNCHANGED <<nodes, freed>>
  BY <1>1 DEF Owned
<1>2. CASE Buries
  <2>1. PICK i \in Slots : nodes' = [nodes EXCEPT ![i].tombstone = TRUE] /\ freed' = freed
    BY <1>2 DEF Buries
  <2>2. \A j \in Slots : /\ nodes'[j].kbase = nodes[j].kbase /\ nodes'[j].vbase = nodes[j].vbase
                         /\ nodes[j].tombstone => nodes'[j].tombstone
    BY <2>1 DEF TypeInv, SlotType
  <2>3. LiveSlots(nodes') \subseteq LiveSlots(nodes)
    BY <2>2 DEF TypeInv, SlotType
  <2>. QED BY <2>1, <2>2, <2>3 DEF Owned
<1>3. CASE Clears
  <2>1. LiveSlots(nodes') = {}
    BY <1>3 DEF Clears, TypeInv, SlotType
  <2>. QED BY <2>1 DEF Owned
<1>4. CASE \E t \in Threads : PutHome(t) \/ PutEvict(t) \/ PutProbe(t)
  <2>1. PICK t \in Threads : PutHome(t) \/ PutEvict(t) \/ PutProbe(t)
    BY <1>4
  <2>. DEFINE c == call[t]
              b == Handed(call[t])
  <2>2. /\ c \in Calls /\ c.op = "put" /\ c.key \in Keys /\ c.id \in 1 .. MaxCalls
        /\ c.len \in Lens /\ InBody(t, "put")
        /\ Fills(c) \/ Evicts(c) \/ Overwrites(c)
    BY <2>1, PutStep
  <2>3. /\ Filled(c) \in SlotType /\ Filled(c).kbase = b /\ Filled(c).vbase = b
        /\ b.key = c.key /\ b.id = c.id
    BY <2>2, FilledIs
  <2>4. b \notin Used
    BY <2>2, <2>3 DEF FreshInv, Pending, InBody, Is
  <2>5. <<"key", b>> \notin freed /\ <<"val", b>> \notin freed
    BY <2>4 DEF Used
  <2>6. \A j \in LiveSlots(nodes) : nodes[j].kbase # b /\ nodes[j].vbase # b
    BY <2>4 DEF Used
  <2>7. \A j \in LiveSlots(nodes) :
           <<"key", nodes[j].kbase>> \notin freed /\ <<"val", nodes[j].vbase>> \notin freed
    BY DEF Owned
  <2>. HIDE DEF c, b
  <2>8. ASSUME Fills(c) PROVE Owned'
    <3>1. PICK i \in Slots : nodes' = [nodes EXCEPT ![i] = Filled(c)] /\ freed' = freed
      BY <2>8 DEF Fills
    <3>. QED BY <2>3, <2>5, <2>6, <2>7, <3>1, OwnedKept
  <2>9. ASSUME Evicts(c) PROVE Owned'
    <3>1. PICK i \in Slots : /\ ~Vacant(nodes, i) /\ nodes' = [nodes EXCEPT ![i] = Filled(c)]
                             /\ freed' = freed \union Destroyed(nodes[i])
      BY <2>9 DEF Evicts
    <3>2. i \in LiveSlots(nodes)
      BY <3>1 DEF Vacant
    <3>3. Destroyed(nodes[i]) = {<<"key", nodes[i].kbase>>, <<"val", nodes[i].vbase>>}
      BY <3>2 DEF Destroyed
    <3>4. <<"key", b>> \notin freed' /\ <<"val", b>> \notin freed'
      BY <2>5, <2>6, <3>1, <3>2, <3>3
    <3>5. \A j \in LiveSlots(nodes) \ {i} :
             <<"key", nodes[j].kbase>> \notin freed' /\ <<"val", nodes[j].vbase>> \notin freed'
      BY <2>7, <3>1, <3>2, <3>3 DEF Owned
    <3>. QED BY <2>3, <2>6, <3>1, <3>4, <3>5, OwnedKept
  <2>10. ASSUME Overwrites(c) PROVE Owned'
    <3>1. PICK i \in Slots, v \in SlotType :
              /\ ~Vacant(nodes, i) /\ SameKey(nodes, i, c.key)
              /\ v.kbase = nodes[i].kbase /\ v.vbase = Handed(c)
              /\ nodes' = [nodes EXCEPT ![i] = v] /\ freed' = freed
      BY <2>10 DEF Overwrites
    <3>2. i \in LiveSlots(nodes) /\ v.vbase = b /\ nodes[i].kbase.key = c.key
      BY <3>1 DEF Vacant, SameKey, b, c
    <3>3. <<"key", v.kbase>> \notin freed' /\ <<"val", v.vbase>> \notin freed'
      BY <2>5, <2>7, <3>1, <3>2
    <3>4. \A j \in LiveSlots(nodes) \ {i} : nodes[j].kbase # v.kbase /\ nodes[j].vbase # v.vbase
      BY <2>6, <3>1, <3>2 DEF Owned
    <3>5. v.vbase.key = v.kbase.key
      BY <2>3, <3>1, <3>2
    <3>. QED BY <2>7, <3>1, <3>3, <3>4, <3>5, OwnedKept
  <2>. QED BY <2>2, <2>8, <2>9, <2>10
<1>. QED BY <1>1, <1>2, <1>3, <1>4, TableStep

\* No step of any call leaves a live slot with a buffer that destroy_function has freed, or
\* that another live slot will have it free again, or with a value put for another key:
\* evictions, clears and overwrites of any threads included.
THEOREM BuffersStayOwned == Spec => []OwnedBuffers
<1>1. Init => FreshInv /\ Owned
  BY DEF Init, FreshInv, Owned, Used, Pending, LiveSlots, Live, EmptySlot
<1>2. TypeInv /\ TypeInv' /\ FreshInv /\ Owned /\ [Next]_vars => FreshInv' /\ Owned'
  BY NextFresh, NextOwned
<1>3. Owned => OwnedBuffers
  BY OwnedIsOwnedBuffers
<1>. QED BY <1>1, <1>2, <1>3, TypesHold, PTL DEF Spec
=============================================================================
