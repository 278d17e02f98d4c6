----------------------------- MODULE CreamProofs ------------------------------
(***************************************************************************)
(* Theorems about the server, for every number of workers, connections,    *)
(* keys, slots and requests, and however the workers interleave: what of a *)
(* client's request reaches the map is what cream.c has let through; and   *)
(* clients that take turns, with keys that have homes of their own, are    *)
(* answered from the cache the clients before them left.                   *)
(*                                                                         *)
(* The second part follows the one connection being served through the     *)
(* queue, the worker and the map: Turn(c) says where it is, and that those *)
(* before it were answered right; the table is tied to the recursive       *)
(* definition of the cache (Stored), whose steps are proved first.         *)
(***************************************************************************)
EXTENDS Cream, DataInduction, FiniteSetTheorems, SequenceTheorems, TLAPS

Limits == MIN_VALUE_SIZE .. MAX_VALUE_SIZE

Buffer == [id : Nat, key : Keys \union {NULL}, len : Nat]
Slot == [kbase : Buffer \union {NULL}, vbase : Buffer \union {NULL}, vlen : Nat,
         tombstone : BOOLEAN]
Call == [op : {"put", "get", "delete", "clear", "wipe", "free"}, id : Nat,
         key : Keys \union {NULL}, len : Nat, force : BOOLEAN]

WorkerStates == {"dequeue", "load", "header", "badkey", "body", "map", "call", "answer",
                 "value", "close"}

Types ==
    /\ st \in [Workers -> WorkerStates]
    /\ header \in [Workers -> Requests \union {NoRequest}]
    /\ calls \in Nat
    /\ call \in [Workers -> Call]
    /\ nodes \in [H!Slots -> Slot]

\* The size of a value is tested when the header is read, used when the body has
\* come, carried by the call of put and stored under the lock: it is within the
\* limits at each place.
HeadersWithin ==
    \A w \in Workers : st[w] \in {"body", "map"} /\ header[w].op = "PUT" => header[w].vsize \in Limits
CallsWithin == \A w \in Workers : call[w].op = "put" => call[w].len \in Limits

Within == Types /\ HeadersWithin /\ CallsWithin /\ ValuesWithinLimits

\* The server starts with an empty map, and no worker has a request.
LEMMA WithinAtFirst == Init => Within
<1> SUFFICES ASSUME Init PROVE Within
  OBVIOUS
<1>1. Types
  BY DEF Init, H!Init, Types, H!NoCall, Call, H!EmptySlot, Slot, WorkerStates
<1>2. HeadersWithin /\ CallsWithin
  BY DEF Init, H!Init, H!NoCall, HeadersWithin, CallsWithin
<1>3. ValuesWithinLimits
  BY DEF Init, H!Init, ValuesWithinLimits, H!LiveSlots, H!Live, H!EmptySlot
<1> QED BY <1>1, <1>2, <1>3 DEF Within

-----------------------------------------------------------------------------
(* The map *)

\* The part of the types that the map moves.
MapTypes == calls \in Nat /\ call \in [Workers -> Call] /\ nodes \in [H!Slots -> Slot]

\* What a put hands over is a slot whose length is the call's.
LEMMA FilledIsSlot ==
    ASSUME NEW c \in Call
    PROVE  H!Filled(c) \in Slot /\ H!Filled(c).vlen = c.len /\ H!Handed(c) \in Buffer
BY DEF Call, Slot, Buffer, H!Filled, H!Handed

\* A step that gives one slot a value of the put's, or another one of a length it has,
\* or a tombstone, leaves the map within the limits.
LEMMA SlotWritten ==
    ASSUME MapTypes, ValuesWithinLimits, NEW i, NEW s \in Slot,
           s.vlen \in Limits \/ (s.vlen = nodes[i].vlen /\ H!Live(nodes, i)) \/ s.tombstone,
           nodes' = [nodes EXCEPT ![i] = s]
    PROVE  nodes' \in [H!Slots -> Slot] /\ ValuesWithinLimits'
<1>1. nodes' \in [H!Slots -> Slot]
  BY DEF MapTypes
<1>2. ASSUME NEW j \in H!Slots, H!Live(nodes', j)
      PROVE  nodes'[j].vlen \in Limits
  <2>1. CASE j = i
    <3>1. nodes'[j] = s
      BY <2>1 DEF MapTypes
    <3>2. ~s.tombstone
      BY <3>1, <1>2 DEF H!Live
    <3> QED BY <2>1, <3>1, <3>2 DEF ValuesWithinLimits, H!LiveSlots, Limits
  <2>2. CASE j # i
    BY <2>2, <1>2 DEF MapTypes, H!Live, ValuesWithinLimits, H!LiveSlots, Limits
  <2> QED BY <2>1, <2>2
<1> QED BY <1>1, <1>2 DEF ValuesWithinLimits, H!LiveSlots, Limits

\* No step of a call of the map takes a value beyond the limits into the table.
LEMMA ContinueKeeps ==
    ASSUME MapTypes, CallsWithin, ValuesWithinLimits, NEW w \in Workers, H!Continue(w)
    PROVE  (MapTypes /\ CallsWithin /\ ValuesWithinLimits)'
<1>0. call[w] \in Call
  BY DEF MapTypes
<1>1. CASE UNCHANGED <<nodes, calls, call>>
  BY <1>1 DEF MapTypes, CallsWithin, ValuesWithinLimits, H!LiveSlots, H!Live
<1>2. CASE H!PutHome(w)
  <2>1. PICK h : nodes' = [nodes EXCEPT ![h] = H!Filled(call[w])]
    BY <1>2 DEF H!PutHome
  <2>2. call[w].len \in Limits /\ UNCHANGED <<call, calls>>
    BY <1>2 DEF H!PutHome, H!InBody, CallsWithin
  <2>3. nodes' \in [H!Slots -> Slot] /\ ValuesWithinLimits'
    BY <1>0, <2>1, <2>2, FilledIsSlot, SlotWritten
  <2> QED BY <2>2, <2>3 DEF MapTypes, CallsWithin
<1>3. CASE H!PutEvict(w)
  <2>1. PICK h : h = H!Home(w)
    OBVIOUS
  <2>2. call[w].len \in Limits /\ UNCHANGED <<call, calls>>
    BY <1>3 DEF H!PutEvict, H!InBody, CallsWithin
  <2>3. CASE nodes' = [nodes EXCEPT ![h] = H!Filled(call[w])]
    <3>1. nodes' \in [H!Slots -> Slot] /\ ValuesWithinLimits'
      BY <1>0, <2>3, <2>2, FilledIsSlot, SlotWritten
    <3> QED BY <2>2, <3>1 DEF MapTypes, CallsWithin
  <2>4. CASE nodes' = [nodes EXCEPT ![h].vbase = H!Handed(call[w]), ![h].vlen = call[w].len]
    <3>1. CASE h \in H!Slots
      <4> DEFINE s == [nodes[h] EXCEPT !.vbase = H!Handed(call[w]), !.vlen = call[w].len]
      <4>1. nodes[h] \in Slot /\ H!Handed(call[w]) \in Buffer /\ call[w].len \in Nat
        BY <1>0, <3>1, FilledIsSlot DEF MapTypes, Call
      <4>2. s \in Slot /\ s.vlen = call[w].len
        BY <4>1 DEF Slot
      <4>3. nodes' = [nodes EXCEPT ![h] = s]
        BY <2>4, <3>1 DEF MapTypes
      <4> HIDE DEF s
      <4>4. nodes' \in [H!Slots -> Slot] /\ ValuesWithinLimits'
        BY <2>2, <4>2, <4>3, SlotWritten
      <4> QED BY <2>2, <4>4 DEF MapTypes, CallsWithin
    <3>2. CASE h \notin H!Slots
      <4>1. nodes' = nodes
        BY <2>4, <3>2 DEF MapTypes
      <4> QED BY <1>1, <2>2, <4>1
    <3> QED BY <3>1, <3>2
  <2> QED BY <1>3, <2>1, <2>3, <2>4 DEF H!PutEvict
<1>4. CASE H!PutProbe(w)
  <2>1. PICK h \in H!PutStop(nodes, call[w].key) :
            \/ nodes' = [nodes EXCEPT ![h] = H!Filled(call[w])]
            \/ ~H!Vacant(nodes, h) /\ nodes' = [nodes EXCEPT ![h].vbase = H!Handed(call[w])]
    BY <1>4 DEF H!PutProbe
  <2>2. call[w].len \in Limits /\ UNCHANGED <<call, calls>>
    BY <1>4 DEF H!PutProbe, H!Probing, H!InBody, CallsWithin
  <2>3. CASE nodes' = [nodes EXCEPT ![h] = H!Filled(call[w])]
    <3>1. nodes' \in [H!Slots -> Slot] /\ ValuesWithinLimits'
      BY <1>0, <2>3, <2>2, FilledIsSlot, SlotWritten
    <3> QED BY <2>2, <3>1 DEF MapTypes, CallsWithin
  <2>4. CASE ~H!Vacant(nodes, h) /\ nodes' = [nodes EXCEPT ![h].vbase = H!Handed(call[w])]
    <3>1. CASE h \in H!Slots
      <4> DEFINE s == [nodes[h] EXCEPT !.vbase = H!Handed(call[w])]
      <4>1. nodes[h] \in Slot /\ H!Handed(call[w]) \in Buffer
        BY <1>0, <3>1, FilledIsSlot DEF MapTypes
      <4>2. s \in Slot /\ s.vlen = nodes[h].vlen /\ H!Live(nodes, h)
        BY <2>4, <4>1 DEF Slot, H!Vacant, H!Live
      <4>3. nodes' = [nodes EXCEPT ![h] = s]
        BY <2>4, <3>1 DEF MapTypes
      <4> HIDE DEF s
      <4>4. nodes' \in [H!Slots -> Slot] /\ ValuesWithinLimits'
        BY <4>2, <4>3, SlotWritten
      <4> QED BY <2>2, <4>4 DEF MapTypes, CallsWithin
    <3>2. CASE h \notin H!Slots
      <4>1. nodes' = nodes
        BY <2>4, <3>2 DEF MapTypes
      <4> QED BY <1>1, <2>2, <4>1
    <3> QED BY <3>1, <3>2
  <2> QED BY <2>1, <2>3, <2>4
<1>5. CASE H!DeleteBody(w)
  <2>1. UNCHANGED <<call, calls>>
    BY <1>5 DEF H!DeleteBody
  <2>2. CASE nodes' = nodes
    BY <1>1, <2>1, <2>2
  <2>3. ASSUME NEW h, nodes' = [nodes EXCEPT ![h].tombstone = TRUE]
        PROVE  (MapTypes /\ CallsWithin /\ ValuesWithinLimits)'
    <3>1. CASE h \in H!Slots
      <4> DEFINE s == [nodes[h] EXCEPT !.tombstone = TRUE]
      <4>1. nodes[h] \in Slot
        BY <3>1 DEF MapTypes
      <4>2. s \in Slot /\ s.tombstone
        BY <4>1 DEF Slot
      <4>3. nodes' = [nodes EXCEPT ![h] = s]
        BY <2>3, <3>1 DEF MapTypes
      <4> HIDE DEF s
      <4>4. nodes' \in [H!Slots -> Slot] /\ ValuesWithinLimits'
        BY <4>2, <4>3, SlotWritten
      <4> QED BY <2>1, <4>4 DEF MapTypes, CallsWithin
    <3>2. CASE h \notin H!Slots
      <4>1. nodes' = nodes
        BY <2>3, <3>2 DEF MapTypes
      <4> QED BY <1>1, <2>1, <4>1
    <3> QED BY <3>1, <3>2
  <2> QED BY <1>5, <2>2, <2>3 DEF H!DeleteBody
<1>6. CASE H!ClearBody(w)
  <2>1. /\ nodes' = [i \in H!Slots |-> [nodes[i] EXCEPT !.tombstone = TRUE]]
        /\ UNCHANGED <<call, calls>>
    BY <1>6 DEF H!ClearBody
  <2>2. \A i \in H!Slots : nodes'[i] \in Slot /\ nodes'[i].tombstone
    <3> SUFFICES ASSUME NEW i \in H!Slots PROVE nodes'[i] \in Slot /\ nodes'[i].tombstone
      OBVIOUS
    <3>1. nodes[i] \in Slot /\ nodes'[i] = [nodes[i] EXCEPT !.tombstone = TRUE]
      BY <2>1 DEF MapTypes
    <3> QED BY <3>1 DEF Slot
  <2> QED BY <2>1, <2>2 DEF MapTypes, CallsWithin, ValuesWithinLimits, H!LiveSlots, H!Live
<1>7. CASE H!WriteUnlock(w)
  <2>1. UNCHANGED <<nodes, calls>> /\ \/ UNCHANGED call
                                      \/ call' = [call EXCEPT ![w].op = "free"]
    BY <1>7 DEF H!WriteUnlock, H!fields
  <2>2. CASE call' = [call EXCEPT ![w].op = "free"]
    <3>1. call' \in [Workers -> Call]
      BY <1>0, <2>2 DEF MapTypes, Call
    <3>2. CallsWithin'
      BY <2>2 DEF CallsWithin, MapTypes, Call
    <3> QED BY <2>1, <3>1, <3>2 DEF MapTypes, ValuesWithinLimits, H!LiveSlots, H!Live
  <2> QED BY <1>1, <2>1, <2>2
<1>8. CASE H!WriteLock(w) \/ H!PutFallThrough(w) \/ H!DeleteReturn(w) \/ H!FreeBody(w)
  BY <1>1, <1>8 DEF H!WriteLock, H!PutFallThrough, H!DeleteReturn, H!FreeBody, H!fields
<1>9. CASE H!Read(w)
  BY <1>1, <1>9 DEF H!Read, H!GetCount, H!GetWriteLock, H!GetOpen, H!GetScan, H!GetLeave,
                    H!GetReadBase, H!GetReadLen, H!fields
<1> QED BY <1>2, <1>3, <1>4, <1>5, <1>6, <1>7, <1>8, <1>9 DEF H!Continue, H!Write

\* The workers carry to put what has passed the test of the header.
LEMMA CallKeeps ==
    ASSUME Types, HeadersWithin, CallsWithin, ValuesWithinLimits, NEW w \in Workers, CallMap(w)
    PROVE  (MapTypes /\ CallsWithin /\ ValuesWithinLimits)'
<1>1. CASE H!PutCall(w) /\ call'[w].len = header[w].vsize /\ header[w].op = "PUT"
  <2>1. PICK k \in Keys, n \in {r.vsize : r \in Requests} \ {0}, f \in {TRUE} :
            H!Begin(w, H!NewCall("put", k, n, f))
    BY <1>1 DEF H!PutCall
  <2> DEFINE c == H!NewCall("put", k, n, f)
  <2>2. n \in Nat
    BY <2>1, RequestsAssumption
  <2>3. c \in Call /\ c.len = n
    BY <2>1, <2>2 DEF H!NewCall, Call, Types
  <2>4. call' = [call EXCEPT ![w] = c] /\ calls' = calls + 1 /\ nodes' = nodes
    BY <2>1 DEF H!Begin, H!fields
  <2> HIDE DEF c
  <2>5. st[w] = "map" /\ c.len = header[w].vsize
    BY <1>1, <2>3, <2>4 DEF CallMap, At, Types
  <2>6. c.len \in Limits
    BY <1>1, <2>5 DEF HeadersWithin
  <2> QED BY <2>3, <2>4, <2>6 DEF Types, MapTypes, CallsWithin, ValuesWithinLimits,
                                  H!LiveSlots, H!Live
<1>2. ASSUME NEW op \in {"get", "delete", "clear"}, NEW k \in Keys \union {NULL},
             H!Begin(w, H!NewCall(op, k, 0, FALSE))
      PROVE  (MapTypes /\ CallsWithin /\ ValuesWithinLimits)'
  <2> DEFINE c == H!NewCall(op, k, 0, FALSE)
  <2>1. c \in Call /\ c.op # "put"
    BY DEF H!NewCall, Call, Types
  <2>2. call' = [call EXCEPT ![w] = c] /\ calls' = calls + 1 /\ nodes' = nodes
    BY <1>2 DEF H!Begin, H!fields
  <2> HIDE DEF c
  <2> QED BY <2>1, <2>2 DEF Types, MapTypes, CallsWithin, ValuesWithinLimits, H!LiveSlots, H!Live
<1>3. CASE H!GetCall(w)
  <2>1. PICK k \in Keys : H!Begin(w, H!NewCall("get", k, 0, FALSE))
    BY <1>3 DEF H!GetCall, H!KeyCall
  <2> QED BY <1>2, <2>1
<1>4. CASE H!DeleteCall(w)
  <2>1. PICK k \in Keys : H!Begin(w, H!NewCall("delete", k, 0, FALSE))
    BY <1>4 DEF H!DeleteCall, H!KeyCall
  <2> QED BY <1>2, <2>1
<1>5. CASE H!ClearCall(w)
  BY <1>2, <1>5 DEF H!ClearCall
<1> QED BY <1>1, <1>3, <1>4, <1>5 DEF CallMap

-----------------------------------------------------------------------------
(* The workers *)

\* A step that leaves a worker's header alone and takes it no closer to the map.
LEMMA HeaderKept ==
    ASSUME Types, HeadersWithin, NEW w \in Workers, UNCHANGED header,
           \/ UNCHANGED st
           \/ \E label \in WorkerStates :
                /\ st' = [st EXCEPT ![w] = label]
                /\ \/ label \notin {"body", "map"}
                   \/ st[w] \in {"body", "map"}
                   \/ header[w].op = "PUT" => header[w].vsize \in Limits
    PROVE  /\ st' \in [Workers -> WorkerStates]
           /\ header' \in [Workers -> Requests \union {NoRequest}]
           /\ HeadersWithin'
BY DEF Types, HeadersWithin

\* A header that is not settled by itself, and whose body or call comes next, asks for a
\* value within the limits if it is a PUT.
LEMMA UnsettledIsWithin ==
    ASSUME NEW h, AfterKey(h) \in {"body", "map"}, h.op = "PUT"
    PROVE  h.vsize \in Limits
BY DEF AfterKey, Settled, BadValue, Limits

\* The states the header leads to.
LEMMA AfterIsState ==
    ASSUME NEW h
    PROVE  AfterKey(h) \in WorkerStates /\ AfterHeader(h) \in WorkerStates
           /\ (AfterHeader(h) \in {"body", "map"} => AfterHeader(h) = AfterKey(h))
BY DEF AfterKey, AfterHeader, WorkerStates

\* The map is left alone.
LEMMA MapKept ==
    ASSUME Within, UNCHANGED <<nodes, calls, call>>
    PROVE  (MapTypes /\ CallsWithin /\ ValuesWithinLimits)'
BY DEF Within, Types, MapTypes, CallsWithin, ValuesWithinLimits, H!LiveSlots, H!Live

\* Within, of what the lemmas about the workers' steps yield.
LEMMA WithinFromParts ==
    ASSUME (MapTypes /\ CallsWithin /\ ValuesWithinLimits)',
           st' \in [Workers -> WorkerStates],
           header' \in [Workers -> Requests \union {NoRequest}], HeadersWithin'
    PROVE  Within'
BY DEF Within, Types, MapTypes

\* No step of a worker's takes a value beyond the limits anywhere.
LEMMA ThreadKeeps ==
    ASSUME Within, NEW w \in Workers, Thread(w)
    PROVE  Within'
<1>0. Types /\ HeadersWithin /\ CallsWithin /\ ValuesWithinLimits /\ MapTypes
  BY DEF Within, Types, MapTypes
<1>1. CASE ReadHeader(w)
  <2>1. PICK h \in Requests : /\ header' = [header EXCEPT ![w] = h]
                              /\ st' = [st EXCEPT ![w] = AfterHeader(h)]
    BY <1>1 DEF ReadHeader, Go
  <2>2. AfterHeader(h) \in WorkerStates
    BY AfterIsState
  <2>3. AfterHeader(h) \in {"body", "map"} /\ h.op = "PUT" => h.vsize \in Limits
    BY AfterIsState, UnsettledIsWithin
  <2>4. /\ st' \in [Workers -> WorkerStates]
        /\ header' \in [Workers -> Requests \union {NoRequest}]
        /\ HeadersWithin'
    BY <1>0, <2>1, <2>2, <2>3 DEF Types, HeadersWithin
  <2>5. UNCHANGED <<nodes, calls, call>>
    BY <1>1 DEF ReadHeader, mapvars
  <2> QED BY <2>4, <2>5, MapKept, WithinFromParts
<1>2. CASE RefuseKey(w)
  <2>1. st' = [st EXCEPT ![w] = AfterKey(header[w])] /\ UNCHANGED <<header, nodes, calls, call>>
    BY <1>2 DEF RefuseKey, Send, Go, mapvars
  <2>2. AfterKey(header[w]) \in WorkerStates
    BY AfterIsState
  <2>3. AfterKey(header[w]) \in {"body", "map"} /\ header[w].op = "PUT" => header[w].vsize \in Limits
    BY UnsettledIsWithin
  <2>4. /\ st' \in [Workers -> WorkerStates]
        /\ header' \in [Workers -> Requests \union {NoRequest}]
        /\ HeadersWithin'
    BY <1>0, <2>1, <2>2, <2>3, HeaderKept
  <2> QED BY <2>1, <2>4, MapKept, WithinFromParts
<1>3. CASE CallMap(w)
  <2>1. UNCHANGED header /\ st' = [st EXCEPT ![w] = "call"]
    BY <1>3 DEF CallMap, Go
  <2>2. /\ st' \in [Workers -> WorkerStates]
        /\ header' \in [Workers -> Requests \union {NoRequest}]
        /\ HeadersWithin'
    BY <1>0, <2>1, HeaderKept DEF WorkerStates
  <2> QED BY <1>0, <1>3, <2>2, CallKeeps, WithinFromParts
<1>4. CASE MapStep(w)
  <2>1. H!Continue(w) /\ UNCHANGED <<header, st>>
    BY <1>4 DEF MapStep, workervars
  <2>2. /\ st' \in [Workers -> WorkerStates]
        /\ header' \in [Workers -> Requests \union {NoRequest}]
        /\ HeadersWithin'
    BY <1>0, <2>1, HeaderKept
  <2> QED BY <1>0, <2>1, <2>2, ContinueKeeps, WithinFromParts
<1>5. ASSUME UNCHANGED <<header, nodes, calls, call>>,
             \/ UNCHANGED st
             \/ \E label \in WorkerStates : /\ st' = [st EXCEPT ![w] = label]
                                            /\ label \in {"body", "map"} => st[w] \in {"body", "map"}
      PROVE  Within'
  <2>1. /\ st' \in [Workers -> WorkerStates]
        /\ header' \in [Workers -> Requests \union {NoRequest}]
        /\ HeadersWithin'
    BY <1>0, <1>5, HeaderKept
  <2> QED BY <1>5, <2>1, MapKept, WithinFromParts
<1>6. CASE Dequeue(w) \/ LoadFd(w)
  BY <1>5, <1>6 DEF Dequeue, LoadFd, Go, WorkerStates, mapvars
<1>7. CASE ReadBody(w)
  BY <1>5, <1>7 DEF ReadBody, At, Go, WorkerStates, mapvars
<1>8. CASE PutEmptyKey(w) \/ MapReturn(w) \/ CloseFd(w)
  BY <1>5, <1>8 DEF PutEmptyKey, MapReturn, CloseFd, Go, WorkerStates, mapvars
<1>9. CASE SendAnswer(w) \/ SendValue(w)
  BY <1>5, <1>9 DEF SendAnswer, SendValue, Send, Go, WorkerStates, mapvars
<1>10. CASE BadDescriptor(w)
  BY <1>5, <1>10 DEF BadDescriptor, servervars, workervars, mapvars
<1> QED BY <1>1, <1>2, <1>3, <1>4, <1>6, <1>7, <1>8, <1>9, <1>10 DEF Thread

\* What the clients and the main thread do touches neither a header nor the map.
LEMMA NextKeepsWithin ==
    ASSUME Within, [Next]_vars
    PROVE  Within'
<1>1. ASSUME UNCHANGED <<header, st, nodes, calls, call>> PROVE Within'
  BY <1>1 DEF Within, Types, HeadersWithin, CallsWithin, ValuesWithinLimits, H!LiveSlots, H!Live
<1>2. CASE UNCHANGED vars
  BY <1>1, <1>2 DEF vars, servervars, workervars, mapvars
<1>3. CASE \E c \in Conns : Connect(c) \/ HangUp(c)
  BY <1>1, <1>3 DEF Connect, HangUp, workervars, mapvars
<1>4. CASE Main
  BY <1>1, <1>4 DEF Main, Accept, Enqueue, workervars, mapvars
<1>5. CASE \E w \in Workers : Thread(w)
  BY <1>5, ThreadKeeps
<1>6. CASE Done
  BY <1>2, <1>6 DEF Done
<1> QED BY <1>2, <1>3, <1>4, <1>5, <1>6 DEF Next

\* Whatever arrives where cream.c expects a header, and however workers that share a
\* descriptor split a client's bytes, no value beyond the limits of cream.h is cached.
THEOREM ValuesStayWithinLimits == Spec => []ValuesWithinLimits
<1>1. Init => Within
  BY WithinAtFirst
<1>2. Within /\ [Next]_vars => Within'
  BY NextKeepsWithin
<1>3. Within => ValuesWithinLimits
  BY DEF Within
<1> QED BY <1>1, <1>2, <1>3, PTL DEF Spec

-----------------------------------------------------------------------------
(* What the requests leave *)

Asked == Requests \union {NoRequest}
Holders == [Keys -> Conns \union {NULL}]
Nothing == [k \in Keys |-> NULL]

\* What one request makes of the cache.
Effect(before, r, c) ==
    CASE r.op = "PUT" /\ CallsMap(r) -> [before EXCEPT ![r.key] = c]
      [] r.op = "EVICT" /\ CallsMap(r) -> [before EXCEPT ![r.key] = NULL]
      [] r.op = "CLEAR" -> [k \in Keys |-> NULL]
      [] OTHER -> before

\* Whatever it asks, a request leaves each key with a connection or with nothing.
LEMMA EffectIsHolders ==
    ASSUME NEW S \in Holders, NEW r, NEW c \in Conns
    PROVE  Effect(S, r, c) \in Holders
<1>1. [S EXCEPT ![r.key] = c] \in Holders /\ [S EXCEPT ![r.key] = NULL] \in Holders
  BY DEF Holders
<1>2. [k \in Keys |-> NULL] \in Holders
  BY DEF Holders
<1>3. CASE r.op = "PUT" /\ CallsMap(r)
  BY ONLY Zenon, <1>1, <1>3 DEF Effect
<1>4. CASE r.op = "EVICT" /\ CallsMap(r)
  <2>1. Effect(S, r, c) = [S EXCEPT ![r.key] = NULL]
    BY <1>4 DEF Effect
  <2> QED BY ONLY Zenon, <1>1, <2>1
<1>5. CASE r.op = "CLEAR"
  <2>1. Effect(S, r, c) = [k \in Keys |-> NULL]
    BY <1>5 DEF Effect
  <2> QED BY ONLY Zenon, <1>2, <2>1
<1>6. CASE ~(r.op = "PUT" /\ CallsMap(r)) /\ ~(r.op = "EVICT" /\ CallsMap(r)) /\ r.op # "CLEAR"
  <2>1. Effect(S, r, c) = S
    BY <1>6 DEF Effect
  <2> QED BY ONLY Zenon, <2>1, S \in Holders
<1> QED BY ONLY Zenon, <1>3, <1>4, <1>5, <1>6

\* The recursive definition has a solution: each request has its effect on what those
\* before it left.
Leaves(S) ==
    /\ S \in [0 .. MaxItems -> Holders]
    /\ S[0] = Nothing
    /\ \A c \in Conns : S[c] = Effect(S[c - 1], request[c], c)

\* There is one, so Stored is it.
LEMMA StoredSteps == Leaves(Stored)
<1> DEFINE s == [n \in 1 .. MaxItems |-> [S \in Holders |-> Effect(S, request[n], n)]]
<1>0. MaxItems \in Nat
  BY ServerAssumption
<1>1. s \in [1 .. MaxItems -> [Holders -> Holders]]
  BY EffectIsHolders DEF Conns
<1>2. Nothing \in Holders
  BY DEF Nothing, Holders
<1>3. PICK f \in [0 .. MaxItems -> Holders] : Unrolls(f, MaxItems, Nothing, s)
  <2> HIDE DEF s
  <2> QED BY ONLY Zenon, <1>0, <1>1, <1>2, UnrollingExists
<1>4. ASSUME NEW n \in 1 .. MaxItems
      PROVE  f[n] = Effect(f[n - 1], request[n], n)
  <2>1. n - 1 \in 0 .. MaxItems
    BY <1>0
  <2>2. f[n - 1] \in Holders
    BY ONLY Zenon, <1>3, <2>1
  <2>3. f[n] = s[n][f[n - 1]]
    BY ONLY Zenon, <1>3, n \in 1 .. MaxItems DEF Unrolls
  <2> QED BY ONLY Zenon, <2>2, <2>3, n \in 1 .. MaxItems DEF s
<1> DEFINE Step(S, c) == IF c = 0 THEN [k \in Keys |-> NULL] ELSE Effect(S[c - 1], request[c], c)
<1>5. ASSUME NEW n \in 0 .. MaxItems
      PROVE  f[n] = Step(f, n)
  <2>1. CASE n = 0
    BY ONLY Zenon, <1>3, <2>1 DEF Unrolls, Nothing
  <2>2. CASE n # 0
    <3>1. n \in 1 .. MaxItems
      BY <1>0, <2>2
    <3> QED BY ONLY Zenon, <1>4, <2>2, <3>1
  <2> QED BY ONLY Zenon, <2>1, <2>2
<1>6. f = [n \in 0 .. MaxItems |-> Step(f, n)]
  <2> HIDE DEF Step
  <2> QED BY ONLY SMT, <1>3, <1>5
<1>7. Stored = [n \in 0 .. MaxItems |-> Step(Stored, n)]
  BY ONLY Zenon, <1>6 DEF Stored, Effect
<1>8. \A n \in 0 .. MaxItems : Stored[n] = Step(Stored, n)
  <2> HIDE DEF Step
  <2> QED BY ONLY Zenon, <1>7
<1>9. Stored[0] = Nothing
  BY <1>0, <1>8 DEF Nothing
<1>10. \A c \in Conns : Stored[c] = Effect(Stored[c - 1], request[c], c)
  <2> SUFFICES ASSUME NEW c \in Conns PROVE Stored[c] = Effect(Stored[c - 1], request[c], c)
    OBVIOUS
  <2>1. c \in 0 .. MaxItems /\ c # 0
    BY <1>0 DEF Conns
  <2> QED BY ONLY Zenon, <1>8, <2>1
<1>11. \A c \in 0 .. MaxItems : Stored[c] \in Holders
  <2> DEFINE S == {c \in 0 .. MaxItems : Stored[c] \in Holders}
  <2>1. 0 \in S
    BY <1>0, <1>2, <1>9
  <2>2. ASSUME NEW n \in 0 .. MaxItems, n \in S, n < MaxItems
        PROVE  n + 1 \in S
    <3>1. n + 1 \in Conns /\ n + 1 \in 0 .. MaxItems /\ (n + 1) - 1 = n
      BY <1>0, <2>2 DEF Conns
    <3>2. Stored[n] \in Holders
      BY <2>2
    <3>3. Stored[n + 1] = Effect(Stored[n], request[n + 1], n + 1)
      BY <1>10, <3>1
    <3> QED BY ONLY Zenon, <3>1, <3>2, <3>3, EffectIsHolders
  <2> HIDE DEF S
  <2>3. \A k \in 0 .. MaxItems : k \in S
    BY ONLY Zenon, <1>0, <2>1, <2>2, InductTo
  <2> QED BY <2>3 DEF S
<1>12. Stored \in [0 .. MaxItems -> Holders]
  <2>1. DOMAIN Stored = 0 .. MaxItems /\ Stored = [n \in DOMAIN Stored |-> Stored[n]]
    BY ONLY Zenon, <1>7, <1>8
  <2> QED BY ONLY SMT, <1>11, <2>1
<1> QED BY ONLY Zenon, <1>9, <1>10, <1>12 DEF Leaves

\* The same in the next state, where another client may have asked.
LEMMA StoredStepsNext == Leaves(Stored)'
BY StoredSteps, PTL

\* A key that has a value has it from a PUT of its own among the requests so far.
LEMMA HolderIsPut ==
    \A j \in 0 .. MaxItems, k \in Keys : Stored[j][k] # NULL =>
        /\ Stored[j][k] \in 1 .. j
        /\ request[Stored[j][k]].op = "PUT" /\ CallsMap(request[Stored[j][k]])
        /\ request[Stored[j][k]].key = k
        /\ \A e \in Stored[j][k] .. j : Stored[e][k] = Stored[j][k]
<1> DEFINE P(j, k) == Stored[j][k] # NULL =>
                        /\ Stored[j][k] \in 1 .. j
                        /\ request[Stored[j][k]].op = "PUT" /\ CallsMap(request[Stored[j][k]])
                        /\ request[Stored[j][k]].key = k
                        /\ \A e \in Stored[j][k] .. j : Stored[e][k] = Stored[j][k]
           S == {j \in 0 .. MaxItems : \A k \in Keys : P(j, k)}
<1>0. MaxItems \in Nat
  BY ServerAssumption
<1>1. 0 \in S
  BY <1>0, StoredSteps DEF Leaves, Nothing
<1>2. ASSUME NEW n \in 0 .. MaxItems, n \in S, n < MaxItems
      PROVE  n + 1 \in S
  <2> DEFINE c == n + 1
             r == request[c]
  <2>1. c \in Conns /\ c \in 0 .. MaxItems /\ c - 1 = n /\ c \in 1 .. c
    BY <1>0, <1>2 DEF Conns
  <2>2. Stored[c] = Effect(Stored[n], r, c) /\ Stored[n] \in Holders
    BY <1>2, <2>1, StoredSteps DEF Leaves
  <2>3. \A k \in Keys : P(n, k)
    BY <1>2
  <2>4. /\ \A x : x \in 1 .. n => x \in 1 .. c
        /\ \A x : x \in 1 .. n => \A e \in x .. c : e \in x .. n \/ e = c
        /\ \A e \in c .. c : e = c
    BY <1>0
  <2> SUFFICES ASSUME NEW k \in Keys PROVE P(c, k)
    BY <2>1
  <2> HIDE DEF c
  <2>5. CASE r.op = "PUT" /\ CallsMap(r)
    <3>1. Stored[c] = [Stored[n] EXCEPT ![r.key] = c]
      BY <2>2, <2>5 DEF Effect
    <3>2. CASE k = r.key
      <4>1. Stored[c][k] = c
        BY <2>2, <3>1, <3>2 DEF Holders
      <4> QED BY ONLY Zenon, <2>1, <2>4, <2>5, <3>2, <4>1
    <3>3. CASE k # r.key
      <4>1. Stored[c][k] = Stored[n][k]
        BY <2>2, <3>1, <3>3 DEF Holders
      <4> QED BY ONLY Zenon, <2>3, <2>4, <4>1
    <3> QED BY ONLY Zenon, <3>2, <3>3
  <2>6. CASE r.op = "EVICT" /\ CallsMap(r)
    <3>1. Stored[c] = [Stored[n] EXCEPT ![r.key] = NULL]
      BY <2>2, <2>6 DEF Effect
    <3>2. Stored[c][k] = Stored[n][k] \/ Stored[c][k] = NULL
      BY <2>2, <3>1 DEF Holders
    <3> QED BY ONLY Zenon, <2>3, <2>4, <3>2
  <2>7. CASE r.op = "CLEAR"
    <3>1. Stored[c][k] = NULL
      BY <2>2, <2>7 DEF Effect
    <3> QED BY ONLY Zenon, <3>1
  <2>8. CASE ~(r.op = "PUT" /\ CallsMap(r)) /\ ~(r.op = "EVICT" /\ CallsMap(r)) /\ r.op # "CLEAR"
    <3>1. Stored[c] = Stored[n]
      BY <2>2, <2>8 DEF Effect
    <3>2. Stored[c][k] = Stored[n][k]
      BY ONLY <3>1
    <3> QED BY ONLY Zenon, <2>3, <2>4, <3>2
  <2> QED BY ONLY Zenon, <2>5, <2>6, <2>7, <2>8
<1> HIDE DEF S
<1>3. \A j \in 0 .. MaxItems : j \in S
  BY ONLY Zenon, <1>0, <1>1, <1>2, InductTo
<1> QED BY <1>3 DEF S

\* A PUT's own value has a size it may have ...
LEMMA OwnSize ==
    ASSUME NEW c \in Conns, request[c].op = "PUT", CallsMap(request[c]), request[c].key \in Keys
    PROVE  request[c].vsize \in SizesOf(c)
<1>1. c \in 1 .. c /\ c \in 0 .. MaxItems /\ c - 1 \in 0 .. MaxItems /\ c # NULL /\ \A e \in c .. c : e = c
  BY ServerAssumption, RequestsAssumption DEF Conns
<1>2. Stored[c][request[c].key] = c
  <2>1. PICK S, k : S = Stored[c - 1] /\ k = request[c].key
    OBVIOUS
  <2>2. S \in Holders /\ Stored[c] = [S EXCEPT ![k] = c] /\ k \in Keys
    BY <1>1, <2>1, StoredSteps DEF Leaves, Effect
  <2> QED BY ONLY <2>1, <2>2 DEF Holders
<1>3. \A e \in c .. c : Stored[e][request[c].key] # NULL
  BY ONLY Zenon, <1>1, <1>2
<1> QED BY ONLY Zenon, <1>1, <1>3, request[c].op = "PUT", CallsMap(request[c]) DEF SizesOf

\* ... and, if it overwrites a value, those that value may have.
LEMMA KeptSizes ==
    ASSUME NEW c \in Conns, request[c].op = "PUT", CallsMap(request[c]), NEW k \in Keys, request[c].key = k,
           Stored[c - 1][k] # NULL
    PROVE  SizesOf(Stored[c - 1][k]) \subseteq SizesOf(c)
<1>1. PICK j, p : j = c - 1 /\ p = Stored[j][k]
  OBVIOUS
<1>2. j \in 0 .. MaxItems /\ c \in 0 .. MaxItems /\ c # NULL
  BY <1>1, ServerAssumption, RequestsAssumption DEF Conns
<1>3. p # NULL
  BY ONLY Zenon, <1>1, Stored[c - 1][k] # NULL
<1>4. p \in 1 .. j /\ request[p].key = k /\ \A e \in p .. j : Stored[e][k] = p
  BY ONLY Zenon, <1>1, <1>2, <1>3, HolderIsPut, k \in Keys
<1>5. /\ \A d \in 1 .. p : d \in 1 .. c
      /\ \A d \in 1 .. p : \A e \in d .. c : e \in d .. p \/ e \in p .. j \/ e = c
  BY <1>1, <1>2, <1>4, ServerAssumption DEF Conns
<1>6. Stored[c][k] # NULL
  <2>1. PICK S : S = Stored[j]
    OBVIOUS
  <2>2. S \in Holders /\ Stored[c] = [S EXCEPT ![k] = c]
    BY <1>1, <1>2, <2>1, StoredSteps DEF Leaves, Effect
  <2>3. Stored[c][k] = c
    BY ONLY <2>2, k \in Keys DEF Holders
  <2> QED BY ONLY Zenon, <1>2, <2>3
<1>7. ASSUME NEW d \in 1 .. p, \A e \in d .. p : Stored[e][k] # NULL
      PROVE  \A e \in d .. c : Stored[e][k] # NULL
  BY ONLY Zenon, <1>3, <1>4, <1>5, <1>6, <1>7
<1>8. SizesOf(p) \subseteq SizesOf(c)
  BY ONLY Zenon, <1>4, <1>5, <1>7, request[c].key = k DEF SizesOf
<1> QED BY ONLY Zenon, <1>1, <1>8

\* What a later client asks leaves the cache as it was before.
LEMMA StoredEarlier ==
    ASSUME NEW c \in Nat, \A d \in Conns : d < c => request'[d] = request[d]
    PROVE  \A j \in 0 .. MaxItems : j < c => Stored'[j] = Stored[j]
<1> DEFINE S == {j \in 0 .. MaxItems : j < c => Stored'[j] = Stored[j]}
<1>0. MaxItems \in Nat
  BY ServerAssumption
<1>1. 0 \in S
  BY <1>0, StoredSteps, StoredStepsNext DEF Leaves, Nothing
<1>2. ASSUME NEW n \in 0 .. MaxItems, n \in S, n < MaxItems
      PROVE  n + 1 \in S
  <2> SUFFICES ASSUME n + 1 < c PROVE Stored'[n + 1] = Stored[n + 1]
    BY <1>0, <1>2
  <2>1. PICK m : m = n + 1
    OBVIOUS
  <2>2. m \in Conns /\ m - 1 = n /\ m < c
    BY <1>0, <1>2, <2>1 DEF Conns
  <2>3. n < c => Stored'[n] = Stored[n]
    BY <1>2
  <2>4. n < c
    BY <2>2
  <2>5. Stored[m] = Effect(Stored[n], request[m], m)
    BY ONLY Zenon, <2>2, StoredSteps DEF Leaves
  <2>6. Stored'[m] = Effect(Stored'[n], request'[m], m)
    BY ONLY Zenon, <2>2, StoredStepsNext DEF Leaves, Effect, CallsMap, Settled, BadValue, BadKey
  <2> QED BY ONLY Zenon, <2>1, <2>2, <2>3, <2>4, <2>5, <2>6, \A d \in Conns : d < c => request'[d] = request[d]
<1> HIDE DEF S
<1>3. \A j \in 0 .. MaxItems : j \in S
  BY ONLY Zenon, <1>0, <1>1, <1>2, InductTo
<1> QED BY <1>3 DEF S

\* The calls of the map are counted as the requests are: one more for each that
\* reaches it.
LEMMA CallsCounted ==
    /\ \A c \in 0 .. MaxItems : CallOf(c) \in Nat
    /\ CallOf(0) = 0
    /\ \A c \in Conns : CallOf(c) = IF CallsMap(request[c]) THEN CallOf(c - 1) + 1 ELSE CallOf(c - 1)
<1> DEFINE D(c) == {d \in 1 .. c : CallsMap(request[d])}
<1>0. MaxItems \in Nat
  BY ServerAssumption
<1>1. ASSUME NEW c \in 0 .. MaxItems
      PROVE  IsFiniteSet(D(c)) /\ Cardinality(D(c)) \in Nat
  <2>1. IsFiniteSet(1 .. c)
    BY <1>0, FS_Interval
  <2>2. IsFiniteSet(D(c))
    BY <2>1, FS_Subset
  <2> QED BY <2>2, FS_CardinalityType
<1>2. D(0) = {}
  OBVIOUS
<1>3. ASSUME NEW c \in Conns
      PROVE  Cardinality(D(c)) = IF CallsMap(request[c]) THEN Cardinality(D(c - 1)) + 1
                                 ELSE Cardinality(D(c - 1))
  <2>1. c \in Nat /\ c \in 1 .. c /\ c \notin 1 .. (c - 1) /\ c - 1 \in 0 .. MaxItems
        /\ 1 .. c = (1 .. (c - 1)) \union {c}
    BY <1>0 DEF Conns
  <2>2. CASE CallsMap(request[c])
    <3>1. D(c) = D(c - 1) \union {c} /\ c \notin D(c - 1)
      BY ONLY Zenon, <2>1, <2>2
    <3>2. IsFiniteSet(D(c - 1))
      BY <1>1, <2>1
    <3> HIDE DEF D
    <3>3. Cardinality(D(c)) = Cardinality(D(c - 1)) + 1
      BY <3>1, <3>2, FS_AddElement
    <3> QED BY <2>2, <3>3
  <2>3. CASE ~CallsMap(request[c])
    <3>1. D(c) = D(c - 1)
      BY ONLY Zenon, <2>1, <2>3
    <3> HIDE DEF D
    <3> QED BY <2>3, <3>1
  <2> QED BY <2>2, <2>3
<1> HIDE DEF D
<1>4. \A c : CallOf(c) = Cardinality(D(c))
  BY DEF D, CallOf
<1>5. CallOf(0) = 0
  BY <1>2, <1>4, FS_EmptySet
<1> QED BY <1>1, <1>3, <1>4, <1>5

\* What a later client asks leaves the count of the calls as it was.
LEMMA CallsCountedEarlier ==
    ASSUME NEW c \in Nat, \A d \in Conns : d < c => request'[d] = request[d]
    PROVE  \A j \in 0 .. MaxItems : j < c => CallOf(j)' = CallOf(j)
<1> SUFFICES ASSUME NEW j \in 0 .. MaxItems, j < c
             PROVE  CallOf(j)' = CallOf(j)
  OBVIOUS
<1>1. \A d \in 1 .. j : request'[d] = request[d]
  BY ServerAssumption DEF Conns
<1>2. \A d \in 1 .. j : CallsMap(request'[d]) <=> CallsMap(request[d])
  BY ONLY Zenon, <1>1
<1>3. {d \in 1 .. j : CallsMap(request'[d])} = {d \in 1 .. j : CallsMap(request[d])}
  BY ONLY Zenon, <1>2
<1> QED BY ONLY Zenon, <1>3 DEF CallOf, CallsMap, Settled, BadValue, BadKey

\* ... and the sizes its values may have.
LEMMA SizesEarlier ==
    ASSUME NEW c \in Nat, \A d \in Conns : d < c => request'[d] = request[d],
           NEW p \in Conns, p < c
    PROVE  SizesOf(p)' = SizesOf(p)
<1>1. \A d \in 1 .. p : request'[d] = request[d] /\ Stored'[d] = Stored[d]
  BY StoredEarlier, ServerAssumption DEF Conns
<1>2. p \in 1 .. p /\ \A d \in 1 .. p : \A e \in d .. p : e \in 1 .. p
  BY ServerAssumption DEF Conns
<1>3. request'[p] = request[p]
  BY ONLY Zenon, <1>1, <1>2
<1>4. ASSUME NEW d \in 1 .. p
      PROVE  (\A e \in d .. p : Stored'[e][request'[p].key] # NULL)
                <=> (\A e \in d .. p : Stored[e][request[p].key] # NULL)
  BY ONLY Zenon, <1>1, <1>2, <1>3, <1>4
<1> DEFINE Sizing(d) ==
         /\ request[d].op = "PUT" /\ CallsMap(request[d])
         /\ request[d].key = request[p].key
         /\ \A e \in d .. p : Stored[e][request[p].key] # NULL
<1>5. SizesOf(p) = {request[d].vsize : d \in {d \in 1 .. p : Sizing(d)}}
  BY ONLY Zenon DEF SizesOf
<1>6. SizesOf(p)' = {request'[d].vsize : d \in {d \in 1 .. p : Sizing(d)'}}
  BY ONLY Zenon DEF SizesOf, CallsMap, Settled, BadValue, BadKey
<1>7. ASSUME NEW d \in 1 .. p
      PROVE  Sizing(d)' <=> Sizing(d)
  BY ONLY Zenon, <1>1, <1>3, <1>4, <1>7 DEF CallsMap, Settled, BadValue, BadKey
<1> HIDE DEF Sizing
<1>8. {d \in 1 .. p : Sizing(d)'} = {d \in 1 .. p : Sizing(d)}
  BY ONLY Zenon, <1>7
<1>9. \A d \in {d \in 1 .. p : Sizing(d)} : request'[d].vsize = request[d].vsize
  BY ONLY Zenon, <1>1
<1>10. {request'[d].vsize : d \in {d \in 1 .. p : Sizing(d)}}
            = {request[d].vsize : d \in {d \in 1 .. p : Sizing(d)}}
  BY <1>9
<1> QED BY ONLY <1>5, <1>6, <1>8, <1>10

-----------------------------------------------------------------------------
(* One client after the other *)

\* The theorems below are about clients that take turns and wait for their answers, and
\* keys with homes of their own: what else can happen to an answer is told by the comments
\* of HashMap and Cream.
OneAtATime ==
    /\ Concurrent = 1 /\ Impatient = FALSE
    /\ \A j, k \in Keys : H!GetIndex(j) = H!GetIndex(k) => j = k

\* The table holds the cache S: each key is live in its own home or nowhere, with the
\* value of the connection S names.
HomeOf(i) == nodes[i].kbase # NULL => nodes[i].kbase.key \in Keys /\ H!GetIndex(nodes[i].kbase.key) = i
ValueOf(k, holder) ==
    LET i == H!GetIndex(k)
    IN  IF holder = NULL THEN ~H!Live(nodes, i)
        ELSE /\ H!Live(nodes, i) /\ nodes[i].vbase # NULL /\ nodes[i].vbase.id = CallOf(holder)
             /\ nodes[i].vlen \in SizesOf(holder)
Table(S) == (\A i \in H!Slots : HomeOf(i)) /\ (\A k \in Keys : ValueOf(k, S[k]))

\* The table and the number of calls before and after the request of connection c.
After(c) == Table(Stored[c]) /\ calls = CallOf(c)
Before(c) == After(c - 1)

\* What the clients are sent: a PUT whose key is refused is told so before the rest.
Holder(c) == Stored[c - 1][request[c].key]
Served(c) == CallsMap(request[c]) \/ request[c].op = "EVICT"
Given(r) == IF r.op = "PUT" /\ BadKey(r) THEN <<Response("BAD_REQUEST", 0)>> ELSE <<>>

\* The header of the answer to a request that is served.
Reply(r, holder) ==
    CASE r.op = "PUT" -> Response("OK", r.vsize)
      [] r.op = "GET" /\ holder = NULL -> Response("NOT_FOUND", 0)
      [] r.op = "GET" /\ holder # NULL -> Response("OK", 8)
      [] OTHER -> Response("OK", 0)
Found(c) == request[c].op = "GET" /\ Holder(c) # NULL

Valued(c) ==
    \E m, v : /\ got[c] = <<m, v>> /\ m.code = "OK" /\ v.code = "value"
              /\ v.value.id = CallOf(Holder(c)) /\ v.size \in SizesOf(Holder(c))

\* The answer of connection c, all of it.
Right(c) ==
    IF ~Served(c) THEN RefusedOnly(c)
    ELSE IF Found(c) THEN Valued(c)
    ELSE got[c] = Append(Given(request[c]), Reply(request[c], Holder(c)))

\* The worker is past the semaphore, or serves what it got.
Busy(w) == st[w] # "dequeue" \/ q_pc[w] \notin {"idle", "wait"}
NobodyBusy == \A w \in Workers : ~Busy(w)

\* Nobody has been accepted.
Waiting(c) ==
    /\ c \in Conns => /\ phase[c] \in {"none", "pending"} /\ got[c] = <<>>
                      /\ phase[c] = "pending" => unread[c] = "all"
    /\ at = "accept" /\ items = 0 /\ NobodyBusy
    /\ Before(c)

\* Connection c has been accepted, and its item is on its way through the queue.
Accepted(c) ==
    /\ c \in Conns /\ phase[c] = "accepted" /\ got[c] = <<>> /\ unread[c] = "all"
    /\ fds[connfd] = c
    /\ (at = "enqueue" /\ items = 0) \/ (at = "accept" /\ items = 1)
    /\ NobodyBusy
    /\ Before(c)

\* Where a get of the map is, and what it has found of key k.
FoundAt(w, k) == loc[w].kind = "here" /\ loc[w].slot = H!GetIndex(k)
IsReturn(r) == r = [ok |-> r.ok, base |-> r.base, len |-> r.len]
ReadBase(w, c) == ret[w].base # NULL /\ ret[w].base.id = CallOf(Holder(c))
ReadLen(w, c) == ret[w].len \in SizesOf(Holder(c))
ReadValue(w, c) == ReadBase(w, c) /\ ReadLen(w, c)
Reading(w, c) ==
    \/ /\ map_pc[w] \in {"get_enter", "get_wlock", "get_open", "get_scan"}
       /\ loc[w].kind = "none" /\ IsReturn(ret[w])
    \/ map_pc[w] = "get_leave" /\ IF Holder(c) = NULL THEN loc[w].kind = "none"
                                  ELSE FoundAt(w, request[c].key) /\ IsReturn(ret[w])
    \/ /\ map_pc[w] \in {"get_read", "get_base", "get_len"} /\ Holder(c) # NULL
       /\ FoundAt(w, request[c].key) /\ IsReturn(ret[w])
       /\ map_pc[w] = "get_len" => ReadBase(w, c)
       /\ map_pc[w] = "get_base" => ReadLen(w, c)
    \/ map_pc[w] = "idle" /\ IF Holder(c) = NULL THEN ret[w].base = NULL ELSE ReadValue(w, c)

\* A writer has not written yet, or it has.
Writing(w, c) ==
    \/ map_pc[w] \in {"lock", "body"} /\ Table(Stored[c - 1])
    \/ /\ map_pc[w] \in {"unlock", "del_ret", "idle"} /\ Table(Stored[c])
       /\ call[w].op \in {"put", "clear"} => ret[w].ok

InCall(w, c) ==
    LET r == request[c] IN
    /\ CallsMap(r) /\ calls = CallOf(c)
    /\ r.op # "CLEAR" => r.key \in Keys /\ call[w].key = r.key
    /\ \/ r.op = "PUT" /\ call[w].op = "put" /\ call[w].id = CallOf(c)
          /\ H!Handed(call[w]) # NULL /\ call[w].len = r.vsize /\ Writing(w, c)
       \/ r.op = "EVICT" /\ call[w].op = "delete" /\ Writing(w, c)
       \/ r.op = "CLEAR" /\ call[w].op = "clear" /\ Writing(w, c)
       \/ r.op = "GET" /\ call[w].op = "get" /\ Table(Stored[c - 1]) /\ Reading(w, c)

\* A request has been given what it is given before it is served.
Begun(c) == got[c] = Given(request[c])

\* The answer is in out, and for GET the value in ret.
Answering(w, c) ==
    IF ~Served(c)
    THEN /\ out[w] \in Refusals
         /\ got[c] = <<>> \/ \E m \in Refusals : got[c] = <<m>>
    ELSE /\ Begun(c) /\ out[w] = Reply(request[c], Holder(c))
         /\ Found(c) => ReadValue(w, c)

\* Where the worker is with the request of connection c.
AtHeader(w, c) ==
    st[w] \in {"dequeue", "load", "header"} /\ unread[c] = "all" /\ got[c] = <<>> /\ Before(c)
AtBadKey(w, c) ==
    /\ st[w] = "badkey" /\ header[w] = request[c]
    /\ request[c].op = "PUT" /\ BadKey(request[c]) /\ got[c] = <<>> /\ Before(c)
    /\ Settled(request[c]) => out[w] = SettledAnswer(request[c])
AtBody(w, c) ==
    /\ st[w] \in {"body", "map"} /\ header[w] = request[c]
    /\ ~Settled(request[c]) /\ HasBody(request[c]) /\ Begun(c) /\ Before(c)
AtClear(w, c) ==
    /\ st[w] = "map" /\ header[w] = request[c]
    /\ request[c].op = "CLEAR" /\ got[c] = <<>> /\ Before(c)
AtCall(w, c) == st[w] = "call" /\ header[w] = request[c] /\ Begun(c) /\ InCall(w, c)
AtAnswer(w, c) == st[w] = "answer" /\ header[w] = request[c] /\ Answering(w, c) /\ After(c)
AtValue(w, c) ==
    /\ st[w] = "value" /\ Served(c) /\ Found(c)
    /\ got[c] = <<Response("OK", 8)>> /\ ReadValue(w, c) /\ After(c)
AtClose(w, c) == st[w] = "close" /\ Right(c) /\ After(c)

Doing(w, c) ==
    \/ AtHeader(w, c) \/ AtBadKey(w, c) \/ AtBody(w, c) \/ AtClear(w, c)
    \/ AtCall(w, c) \/ AtAnswer(w, c) \/ AtValue(w, c) \/ AtClose(w, c)

\* Worker w serves connection c, alone.
Working(w, c) ==
    /\ c \in Conns /\ phase[c] = "accepted" /\ fds[connfd] = c
    /\ at = "accept" /\ items = 0
    /\ Busy(w) /\ \A v \in Workers : Busy(v) => v = w
    /\ st[w] # "dequeue" => q_pc[w] = "idle"
    /\ st[w] \notin {"dequeue", "load"} => fd[w] = connfd
    /\ Doing(w, c)

\* Those before connection c were answered, those after it are to come.
Others(c) ==
    \A d \in Conns : /\ d < c => phase[d] = "closed" /\ Right(d)
                     /\ d > c => phase[d] = "none" /\ got[d] = <<>>

Turn(c) == Others(c) /\ (Waiting(c) \/ Accepted(c) \/ \E w \in Workers : Working(w, c))

\* The functions of the model are defined where they are used.
Shapes ==
    /\ phase \in [Conns -> {"none", "pending", "accepted", "closed"}]
    /\ request \in [Conns -> Asked]
    /\ DOMAIN unread = Conns /\ DOMAIN got = Conns /\ DOMAIN fds = Descriptors
    /\ DOMAIN fd = Workers /\ DOMAIN out = Workers
    /\ DOMAIN q_pc = Workers \union {Acceptor}
    /\ DOMAIN map_pc = Workers /\ DOMAIN loc = Workers /\ DOMAIN ret = Workers
    /\ gone = {} /\ q_invalid = FALSE /\ map_invalid = FALSE

OneByOne == Within /\ Shapes /\ \E c \in 1 .. MaxItems + 1 : Turn(c)

\* No step of a call of the map but invalidate_map's touches invalid.
LEMMA MapStepShapes ==
    ASSUME Shapes, NEW w \in Workers, H!Continue(w), call[w].op # "free"
    PROVE  /\ DOMAIN map_pc' = Workers /\ DOMAIN loc' = Workers /\ DOMAIN ret' = Workers
           /\ map_invalid' = FALSE
<1> USE DEF Shapes, H!Goto, H!Returning, H!fields, H!locks
<1>1. CASE H!PutHome(w) \/ H!PutEvict(w) \/ H!PutProbe(w) \/ H!PutFallThrough(w)
  BY <1>1 DEF H!PutHome, H!PutEvict, H!PutProbe, H!PutFallThrough
<1>2. CASE H!DeleteBody(w) \/ H!DeleteReturn(w) \/ H!ClearBody(w)
  BY <1>2 DEF H!DeleteBody, H!DeleteReturn, H!ClearBody
<1>3. CASE H!FreeBody(w)
  BY <1>3 DEF H!FreeBody, H!InBody
<1>4. CASE H!WriteLock(w) \/ H!WriteUnlock(w)
  BY <1>4 DEF H!WriteLock, H!WriteUnlock
<1>5. CASE H!GetCount(w) \/ H!GetWriteLock(w) \/ H!GetOpen(w)
  BY <1>5 DEF H!GetCount, H!GetWriteLock, H!GetOpen
<1>6. CASE H!GetScan(w)
  BY <1>6 DEF H!GetScan
<1>7. CASE H!GetLeave(w)
  BY <1>7 DEF H!GetLeave
<1>8. CASE H!GetReadBase(w) \/ H!GetReadLen(w)
  BY <1>8 DEF H!GetReadBase, H!GetReadLen
<1> QED BY <1>1, <1>2, <1>3, <1>4, <1>5, <1>6, <1>7, <1>8 DEF H!Continue, H!Write, H!Read

\* A call of the map begins.
LEMMA MapCallShapes ==
    ASSUME Shapes, NEW w \in Workers, CallMap(w)
    PROVE  /\ DOMAIN map_pc' = Workers /\ DOMAIN loc' = Workers /\ DOMAIN ret' = Workers
           /\ map_invalid' = FALSE
<1>1. ASSUME NEW k, NEW label, H!Begin(w, k), H!Check(w, map_invalid, label)
      PROVE  /\ DOMAIN map_pc' = Workers /\ DOMAIN loc' = Workers /\ DOMAIN ret' = Workers
             /\ map_invalid' = FALSE
  BY <1>1 DEF Shapes, H!Begin, H!Check, H!Proceed, H!Returning, H!Goto, H!fields
<1>2. CASE H!PutCall(w)
  BY <1>2 DEF Shapes, H!PutCall, H!Begin, H!Check, H!Proceed, H!Returning, H!Goto, H!fields
<1>3. CASE H!GetCall(w) \/ H!DeleteCall(w)
  BY <1>1, <1>3 DEF H!GetCall, H!DeleteCall, H!KeyCall
<1>4. CASE H!ClearCall(w)
  BY <1>1, <1>4 DEF H!ClearCall
<1> QED BY <1>2, <1>3, <1>4 DEF CallMap

\* The queue's variables keep their domains.
LEMMA QueueShapes ==
    ASSUME Shapes,
           \/ Q!EnqueueCall(Acceptor) \/ Q!EnqueueAlloc(Acceptor)
           \/ Q!EnqueueLink(Acceptor) \/ Q!EnqueuePost(Acceptor)
           \/ \E w \in Workers : \/ Q!DequeueCall(w) \/ Q!SemWait(w) \/ Q!DequeueRemove(w)
                                 \/ Q!DequeueNothing(w) \/ Q!DequeueReturn(w)
    PROVE  DOMAIN q_pc' = Workers \union {Acceptor} /\ q_invalid' = FALSE
BY DEF Shapes, Q!EnqueueCall, Q!EnqueueAlloc, Q!EnqueueLink, Q!EnqueuePost, Q!DequeueCall, Q!SemWait,
       Q!DequeueRemove, Q!DequeueNothing, Q!DequeueReturn, Q!Goto, Q!listvars, Q!queuevars

\* Shapes, of the variables it is about.
LEMMA ShapesFrom ==
    ASSUME Shapes,
           phase' = phase \/ \E c, p \in {"pending", "accepted", "closed"} : phase' = [phase EXCEPT ![c] = p],
           request' = request \/ \E c, r \in Requests : request' = [request EXCEPT ![c] = r],
           DOMAIN unread' = DOMAIN unread, DOMAIN got' = DOMAIN got, DOMAIN fds' = DOMAIN fds,
           DOMAIN fd' = DOMAIN fd, DOMAIN out' = DOMAIN out, DOMAIN q_pc' = DOMAIN q_pc,
           DOMAIN map_pc' = DOMAIN map_pc, DOMAIN loc' = DOMAIN loc, DOMAIN ret' = DOMAIN ret,
           UNCHANGED <<gone, q_invalid, map_invalid>>
    PROVE  Shapes'
BY DEF Shapes, Asked

\* The same where a connection goes on to its next phase.
LEMMA PhaseShapes ==
    ASSUME Shapes, NEW c, NEW p \in {"pending", "accepted", "closed"}, phase' = [phase EXCEPT ![c] = p],
           request' = request \/ \E r \in Requests : request' = [request EXCEPT ![c] = r],
           DOMAIN unread' = DOMAIN unread, DOMAIN fds' = DOMAIN fds,
           UNCHANGED <<got, fd, out, q_pc, map_pc, loc, ret, gone, q_invalid, map_invalid>>
    PROVE  Shapes'
BY DEF Shapes, Asked

\* A worker in a call of the map is the one that serves, and invalidate_map is not what
\* it calls.
LEMMA CallIsNoFree ==
    ASSUME OneByOne, NEW w \in Workers, st[w] = "call"
    PROVE  call[w].op # "free"
<1>1. PICK c \in 1 .. MaxItems + 1 : Turn(c)
  BY DEF OneByOne
<1>2. Busy(w)
  BY DEF Busy
<1>3. PICK v \in Workers : Working(v, c)
  BY <1>1, <1>2 DEF Turn, Waiting, Accepted, NobodyBusy
<1>4. v = w
  BY <1>2, <1>3 DEF Working
<1>5. InCall(w, c)
  BY <1>3, <1>4 DEF Working, Doing, AtHeader, AtBadKey, AtBody, AtClear, AtCall, AtAnswer, AtValue, AtClose
<1> QED BY <1>5 DEF InCall

\* The workers keep the functions defined.
LEMMA ThreadShapes ==
    ASSUME OneByOne, NEW w \in Workers, Thread(w)
    PROVE  Shapes'
<1>0. Shapes
  BY DEF OneByOne
<1>1. CASE Dequeue(w)
  <2>1. DOMAIN q_pc' = DOMAIN q_pc /\ q_invalid' = q_invalid
    BY <1>0, <1>1, QueueShapes DEF Dequeue, Shapes
  <2> QED BY <1>0, <1>1, <2>1, ShapesFrom DEF Dequeue, clientvars, mapvars
<1>2. CASE LoadFd(w) \/ BadDescriptor(w)
  BY <1>0, <1>2, ShapesFrom DEF LoadFd, BadDescriptor, servervars, workervars, clientvars, mapvars, queuevars
<1>3. CASE ReadHeader(w) \/ ReadBody(w)
  BY <1>0, <1>3, ShapesFrom DEF ReadHeader, ReadBody, mapvars, queuevars
<1>4. CASE RefuseKey(w) \/ SendAnswer(w) \/ SendValue(w)
  BY <1>0, <1>4, ShapesFrom DEF RefuseKey, SendAnswer, SendValue, Send, mapvars, queuevars
<1>5. CASE PutEmptyKey(w) \/ MapReturn(w)
  BY <1>0, <1>5, ShapesFrom DEF PutEmptyKey, MapReturn, clientvars, mapvars, queuevars
<1>6. CASE CloseFd(w)
  BY <1>0, <1>6, PhaseShapes DEF CloseFd, mapvars, queuevars
<1>7. CASE CallMap(w)
  <2>1. /\ DOMAIN map_pc' = DOMAIN map_pc /\ DOMAIN loc' = DOMAIN loc /\ DOMAIN ret' = DOMAIN ret
        /\ map_invalid' = map_invalid
    BY <1>0, <1>7, MapCallShapes DEF Shapes
  <2> QED BY <1>0, <1>7, <2>1, ShapesFrom DEF CallMap, clientvars, queuevars
<1>8. CASE MapStep(w)
  <2>1. H!Continue(w) /\ call[w].op # "free"
    BY <1>8, CallIsNoFree DEF MapStep, At
  <2>2. /\ DOMAIN map_pc' = DOMAIN map_pc /\ DOMAIN loc' = DOMAIN loc /\ DOMAIN ret' = DOMAIN ret
        /\ map_invalid' = map_invalid
    BY <1>0, <2>1, MapStepShapes DEF Shapes
  <2> QED BY <1>0, <1>8, <2>2, ShapesFrom DEF MapStep, clientvars, workervars, queuevars
<1> QED BY <1>1, <1>2, <1>3, <1>4, <1>5, <1>6, <1>7, <1>8 DEF Thread

\* So does every step.
LEMMA NextShapes ==
    ASSUME OneAtATime, OneByOne, [Next]_vars
    PROVE  Shapes'
<1>0. Shapes
  BY DEF OneByOne
<1>1. CASE UNCHANGED vars
  BY <1>0, <1>1, ShapesFrom DEF vars, servervars, clientvars, workervars, mapvars, queuevars
<1>2. CASE \E c \in Conns : Connect(c) \/ HangUp(c)
  <2>1. PICK c \in Conns : Connect(c)
    BY <1>2 DEF HangUp, OneAtATime
  <2>2. /\ phase' = [phase EXCEPT ![c] = "pending"]
        /\ \E r \in Requests : request' = [request EXCEPT ![c] = r]
        /\ DOMAIN unread' = DOMAIN unread
    BY <2>1 DEF Connect
  <2> QED BY <1>0, <2>1, <2>2, PhaseShapes DEF Connect, workervars, mapvars, queuevars
<1>3. CASE Main
  <2>1. CASE Accept
    <3>1. PICK c \in Conns, f \in Descriptors : /\ phase' = [phase EXCEPT ![c] = "accepted"]
                                                /\ fds' = [fds EXCEPT ![f] = c]
      BY <2>1 DEF Accept
    <3> QED BY <1>0, <2>1, <3>1, PhaseShapes DEF Accept, workervars, mapvars, queuevars
  <2>2. CASE Enqueue
    <3>1. DOMAIN q_pc' = DOMAIN q_pc /\ q_invalid' = q_invalid
      BY <1>0, <2>2, QueueShapes DEF Enqueue, Shapes
    <3> QED BY <1>0, <2>2, <3>1, ShapesFrom DEF Enqueue, clientvars, workervars, mapvars
  <2> QED BY <1>3, <2>1, <2>2 DEF Main
<1>4. CASE \E w \in Workers : Thread(w)
  BY <1>4, ThreadShapes
<1> QED BY <1>1, <1>2, <1>3, <1>4 DEF Next, Done

-----------------------------------------------------------------------------
(* What a step leaves alone *)

\* Functions that agree are equal.
LEMMA SameFunction ==
    ASSUME NEW A, NEW B, NEW f \in [A -> B], NEW g \in [A -> B], \A x \in A : f[x] = g[x]
    PROVE  f = g
OBVIOUS

\* The cache depends on the requests alone.
LEMMA SameRequests ==
    ASSUME request' = request
    PROVE  Stored' = Stored
<1>1. \A j \in 0 .. MaxItems : Stored'[j] = Stored[j]
  <2>1. MaxItems + 1 \in Nat /\ \A j \in 0 .. MaxItems : j < MaxItems + 1
    BY ServerAssumption
  <2> QED BY <2>1, StoredEarlier
<1>2. Stored \in [0 .. MaxItems -> Holders] /\ Stored' \in [0 .. MaxItems -> Holders]
  BY ONLY StoredSteps, StoredStepsNext DEF Leaves, Holders, Conns
<1>3. PICK f, g : f = Stored' /\ g = Stored
  OBVIOUS
<1>4. f \in [0 .. MaxItems -> Holders] /\ g \in [0 .. MaxItems -> Holders]
  BY ONLY Zenon, <1>2, <1>3
<1>5. \A j \in 0 .. MaxItems : f[j] = g[j]
  BY ONLY Zenon, <1>1, <1>3
<1>6. f = g
  <2>1. PICK A, B : A = 0 .. MaxItems /\ B = Holders
    OBVIOUS
  <2>2. f \in [A -> B] /\ g \in [A -> B] /\ \A j \in A : f[j] = g[j]
    BY ONLY Zenon, <1>4, <1>5, <2>1
  <2> QED BY ONLY <2>2
<1> QED BY ONLY Zenon, <1>3, <1>6

\* So do the sizes of its values.
LEMMA SameSizes ==
    ASSUME request' = request
    PROVE  \A x : SizesOf(x)' = SizesOf(x)
<1>1. Stored' = Stored
  BY SameRequests
<1> QED BY ONLY Zenon, <1>1, request' = request DEF SizesOf, CallsMap, Settled, BadValue, BadKey

\* The table has not changed if its slots and the requests have not.
LEMMA SameTable ==
    ASSUME UNCHANGED <<request, nodes>>, NEW c
    PROVE  Table(Stored[c])' <=> Table(Stored[c])
<1>1. Stored' = Stored
  BY SameRequests
<1>2. \A x : SizesOf(x)' = SizesOf(x)
  BY SameSizes
<1> QED BY ONLY Zenon, <1>1, <1>2, UNCHANGED <<request, nodes>> DEF Table, HomeOf, ValueOf, CallOf, H!Live

\* Neither has the number of calls.
LEMMA SameAfter ==
    ASSUME UNCHANGED <<request, nodes, calls>>, NEW c
    PROVE  After(c)' <=> After(c)
<1>1. CallOf(c)' = CallOf(c)
  BY DEF CallOf
<1>2. Table(Stored[c])' <=> Table(Stored[c])
  BY SameTable
<1> QED BY ONLY Zenon, <1>1, <1>2, UNCHANGED <<request, nodes, calls>> DEF After

\* What is held for a request stays what it is.
LEMMA SameHolder ==
    ASSUME request' = request, NEW c
    PROVE  /\ Stored' = Stored /\ Holder(c)' = Holder(c)
           /\ CallOf(Holder(c))' = CallOf(Holder(c)) /\ SizesOf(Holder(c))' = SizesOf(Holder(c))
           /\ (Found(c)' <=> Found(c)) /\ (Served(c)' <=> Served(c))
<1>1. Stored' = Stored
  BY SameRequests
<1>2. CallOf(Holder(c))' = CallOf(Holder(c))
  BY <1>1 DEF CallOf, Holder
<1>3. Holder(c)' = Holder(c)
  BY <1>1 DEF Holder
<1>4. SizesOf(Holder(c))' = SizesOf(Holder(c))
  BY ONLY Zenon, <1>1, <1>3, request' = request DEF SizesOf, CallsMap, Settled, BadValue, BadKey
<1> QED BY ONLY Zenon, <1>1, <1>2, <1>3, <1>4, request' = request DEF Found, Served

\* An answer that was right stays so.
LEMMA SameRight ==
    ASSUME request' = request, NEW c, got'[c] = got[c]
    PROVE  Right(c)' <=> Right(c)
<1>1. /\ Holder(c)' = Holder(c)
      /\ CallOf(Holder(c))' = CallOf(Holder(c)) /\ SizesOf(Holder(c))' = SizesOf(Holder(c))
      /\ (Found(c)' <=> Found(c)) /\ (Served(c)' <=> Served(c))
  BY SameHolder
<1>2. RefusedOnly(c)' <=> RefusedOnly(c)
  BY ONLY Zenon, got'[c] = got[c] DEF RefusedOnly
<1>3. Valued(c)' <=> Valued(c)
  BY ONLY Zenon, <1>1, got'[c] = got[c] DEF Valued
<1> QED BY ONLY Zenon, <1>1, <1>2, <1>3, got'[c] = got[c], request' = request DEF Right

\* What a get has read stays what it is.
LEMMA SameReadValue ==
    ASSUME request' = request, NEW c, NEW w, ret'[w] = ret[w]
    PROVE  /\ ReadBase(w, c)' <=> ReadBase(w, c)
           /\ ReadLen(w, c)' <=> ReadLen(w, c)
           /\ ReadValue(w, c)' <=> ReadValue(w, c)
<1>1. CallOf(Holder(c))' = CallOf(Holder(c)) /\ SizesOf(Holder(c))' = SizesOf(Holder(c))
  BY SameHolder
<1> QED BY ONLY Zenon, <1>1, ret'[w] = ret[w] DEF ReadBase, ReadLen, ReadValue

\* A step of another thread.
LEMMA SameDoing ==
    ASSUME UNCHANGED <<request, got, unread, st, header, out, nodes, calls, map_pc, call, loc, ret>>,
           NEW c, NEW w
    PROVE  Doing(w, c)' <=> Doing(w, c)
<1>1. Stored' = Stored /\ Holder(c)' = Holder(c) /\ (Found(c)' <=> Found(c)) /\ (Served(c)' <=> Served(c))
  BY SameHolder
<1>2. (After(c)' <=> After(c)) /\ (Before(c)' <=> Before(c))
  BY SameAfter DEF Before
<1>3. /\ ReadBase(w, c)' <=> ReadBase(w, c)
      /\ ReadLen(w, c)' <=> ReadLen(w, c)
      /\ ReadValue(w, c)' <=> ReadValue(w, c)
  BY SameReadValue
<1>4. Right(c)' <=> Right(c)
  BY SameRight
<1>5. (Table(Stored[c])' <=> Table(Stored[c])) /\ (Table(Stored[c - 1])' <=> Table(Stored[c - 1]))
  BY SameTable
<1>6. Begun(c)' <=> Begun(c)
  BY ONLY Zenon, UNCHANGED <<request, got>> DEF Begun
<1>7. CallOf(c)' = CallOf(c)
  BY DEF CallOf
<1>8. InCall(w, c)' <=> InCall(w, c)
  <2>1. Reading(w, c)' <=> Reading(w, c)
    BY ONLY Zenon, <1>1, <1>3, UNCHANGED <<request, map_pc, loc, ret>> DEF Reading, FoundAt
  <2>2. Writing(w, c)' <=> Writing(w, c)
    BY ONLY Zenon, <1>5, UNCHANGED <<map_pc, call, ret>> DEF Writing
  <2> QED BY ONLY Zenon, <2>1, <2>2, <1>5, <1>7, UNCHANGED <<request, calls, call>> DEF InCall, H!Handed
<1>9. Answering(w, c)' <=> Answering(w, c)
  BY ONLY Zenon, <1>1, <1>3, <1>6, UNCHANGED <<request, got, out>> DEF Answering
<1>12. AtHeader(w, c)' <=> AtHeader(w, c)
  BY ONLY Zenon, <1>2, UNCHANGED <<st, unread, got>> DEF AtHeader
<1>13. AtBadKey(w, c)' <=> AtBadKey(w, c)
  BY ONLY Zenon, <1>2, UNCHANGED <<request, got, st, header, out>> DEF AtBadKey
<1>14. (AtBody(w, c)' <=> AtBody(w, c)) /\ (AtClear(w, c)' <=> AtClear(w, c))
  BY ONLY Zenon, <1>2, <1>6, UNCHANGED <<request, got, st, header>> DEF AtBody, AtClear
<1>15. (AtCall(w, c)' <=> AtCall(w, c)) /\ (AtAnswer(w, c)' <=> AtAnswer(w, c))
  BY ONLY Zenon, <1>2, <1>6, <1>8, <1>9, UNCHANGED <<request, got, st, header>> DEF AtCall, AtAnswer
<1>16. (AtValue(w, c)' <=> AtValue(w, c)) /\ (AtClose(w, c)' <=> AtClose(w, c))
  BY ONLY Zenon, <1>1, <1>2, <1>3, <1>4, UNCHANGED <<request, got, st>> DEF AtValue, AtClose
<1> QED BY ONLY Zenon, <1>12, <1>13, <1>14, <1>15, <1>16 DEF Doing

\* A step of the connection being served leaves the others as they are.
LEMMA SameOthers ==
    ASSUME request' = request, NEW c, \A d \in Conns : d # c => phase'[d] = phase[d] /\ got'[d] = got[d],
           Others(c), c \in Nat
    PROVE  Others(c)'
<1> SUFFICES ASSUME NEW d \in Conns
             PROVE  /\ d < c => phase'[d] = "closed" /\ Right(d)'
                    /\ d > c => phase'[d] = "none" /\ got'[d] = <<>>
  BY DEF Others
<1>1. d < c => d # c
  BY ServerAssumption DEF Conns
<1>2. d > c => d # c
  BY ServerAssumption DEF Conns
<1>3. d # c => (Right(d)' <=> Right(d))
  BY SameRight
<1> QED BY ONLY Zenon, <1>1, <1>2, <1>3, Others(c), d \in Conns,
                \A e \in Conns : e # c => phase'[e] = phase[e] /\ got'[e] = got[e] DEF Others

-----------------------------------------------------------------------------
(* The queue *)

\* A worker that is not busy can only go to the semaphore, or past it.
LEMMA IdleStep ==
    ASSUME Shapes, NEW v \in Workers, ~Busy(v), Thread(v)
    PROVE  /\ UNCHANGED <<phase, request, unread, got, fds, connfd, at, st, fd, header, out,
                          nodes, calls, map_pc, call, loc, ret>>
           /\ \A u \in Workers : u # v => (Busy(u)' <=> Busy(u)) /\ q_pc'[u] = q_pc[u]
           /\ \/ items' = items /\ ~Busy(v)'
              \/ items > 0 /\ items' = items - 1 /\ Busy(v)'
<1>1. st[v] = "dequeue" /\ q_pc[v] \in {"idle", "wait"}
  BY DEF Busy
<1>2. Dequeue(v)
  BY ONLY Zenon, <1>1, Thread(v) DEF Thread, LoadFd, ReadHeader, RefuseKey, ReadBody, CallMap, PutEmptyKey, MapStep,
        MapReturn, SendAnswer, SendValue, CloseFd, BadDescriptor, At
<1>3. Q!DequeueCall(v) \/ Q!SemWait(v)
  BY <1>1, <1>2 DEF Dequeue, Q!DequeueRemove, Q!DequeueNothing, Q!DequeueReturn, Q!Is
<1>4. UNCHANGED st
  BY <1>1, <1>2, <1>3 DEF Dequeue, Q!DequeueNothing, Q!DequeueReturn, Q!Is
<1>5. UNCHANGED <<phase, request, unread, got, fds, connfd, at, fd, header, out,
                  nodes, calls, map_pc, call, loc, ret>>
  BY <1>2 DEF Dequeue, clientvars, mainvars, mapvars
<1>6. CASE Q!DequeueCall(v)
  <2>1. items' = items /\ (q_pc' = q_pc \/ q_pc' = [q_pc EXCEPT ![v] = "wait"])
    BY <1>6 DEF Q!DequeueCall, Q!queuevars, Q!Goto
  <2> QED BY <1>1, <1>4, <1>5, <2>1 DEF Busy, Shapes
<1>7. CASE Q!SemWait(v)
  <2>1. items > 0 /\ items' = items - 1 /\ q_pc' = [q_pc EXCEPT ![v] = "remove"]
    BY <1>7 DEF Q!SemWait, Q!Goto
  <2> QED BY <1>1, <1>4, <1>5, <2>1 DEF Busy, Shapes
<1> QED BY <1>3, <1>6, <1>7

-----------------------------------------------------------------------------
(* A new client *)

\* The holder of a key is one of those before, and the number of its call is not
\* affected by a later request.
LEMMA HolderEarlier ==
    ASSUME NEW c \in Nat, \A e \in Conns : e < c => request'[e] = request[e],
           NEW j \in 0 .. MaxItems, j < c, NEW k \in Keys
    PROVE  /\ Stored'[j][k] = Stored[j][k]
           /\ Stored[j][k] # NULL => /\ CallOf(Stored[j][k])' = CallOf(Stored[j][k])
                                     /\ SizesOf(Stored[j][k])' = SizesOf(Stored[j][k])
<1>1. Stored'[j][k] = Stored[j][k]
  BY StoredEarlier
<1>2. ASSUME Stored[j][k] # NULL
      PROVE  /\ CallOf(Stored[j][k])' = CallOf(Stored[j][k])
             /\ SizesOf(Stored[j][k])' = SizesOf(Stored[j][k])
  <2>1. PICK x : x = Stored[j][k]
    OBVIOUS
  <2>2. x \in 1 .. j
    BY <1>2, <2>1, HolderIsPut
  <2>3. x \in 0 .. MaxItems /\ x < c /\ x \in Conns
    BY <2>2, ServerAssumption DEF Conns
  <2>4. CallOf(x)' = CallOf(x) /\ SizesOf(x)' = SizesOf(x)
    BY <2>3, CallsCountedEarlier, SizesEarlier
  <2>5. CallOf(Stored[j][k])' = CallOf(x)'
    BY ONLY <1>1, <2>1 DEF CallOf
  <2>6. SizesOf(Stored[j][k])' = SizesOf(x)'
    BY ONLY Zenon, <1>1, <2>1 DEF SizesOf
  <2> QED BY ONLY Zenon, <2>1, <2>4, <2>5, <2>6
<1> QED BY <1>1, <1>2

\* The table is still what the earlier requests left when a client connects.
LEMMA TableEarlier ==
    ASSUME NEW c \in Nat, \A e \in Conns : e < c => request'[e] = request[e],
           nodes' = nodes, calls' = calls, NEW j \in 0 .. MaxItems, j < c
    PROVE  After(j)' <=> After(j)
<1>1. ASSUME NEW k \in Keys
      PROVE  ValueOf(k, Stored[j][k])' <=> ValueOf(k, Stored[j][k])
  <2>1. /\ Stored'[j][k] = Stored[j][k]
        /\ Stored[j][k] # NULL => /\ CallOf(Stored[j][k])' = CallOf(Stored[j][k])
                                  /\ SizesOf(Stored[j][k])' = SizesOf(Stored[j][k])
    BY HolderEarlier
  <2> QED BY ONLY Zenon, <2>1, nodes' = nodes DEF ValueOf, H!Live
<1>2. \A i \in H!Slots : HomeOf(i)' <=> HomeOf(i)
  BY ONLY Zenon, nodes' = nodes DEF HomeOf
<1>3. CallOf(j)' = CallOf(j)
  BY CallsCountedEarlier
<1>4. Table(Stored[j])' <=> Table(Stored[j])
  BY ONLY Zenon, <1>1, <1>2 DEF Table
<1> QED BY ONLY Zenon, <1>3, <1>4, calls' = calls DEF After

\* So is the answer of an earlier client.
LEMMA RightEarlier ==
    ASSUME Shapes, NEW c \in Nat, \A e \in Conns : e < c => request'[e] = request[e],
           NEW d \in Conns, d < c, got'[d] = got[d]
    PROVE  Right(d)' <=> Right(d)
<1>1. request'[d] = request[d]
  OBVIOUS
<1>2. Served(d)' <=> Served(d)
  BY ONLY Zenon, <1>1 DEF Served, CallsMap, Settled, BadKey, BadValue
<1>3. RefusedOnly(d)' <=> RefusedOnly(d)
  BY ONLY Zenon, got'[d] = got[d] DEF RefusedOnly
<1>4. Given(request[d])' = Given(request[d])
  BY ONLY Zenon, <1>1 DEF Given, BadKey
<1>5. CASE Served(d) /\ request[d].op = "GET"
  <2>1. request[d].key \in Keys
    BY <1>5, RequestsAssumption DEF Served, CallsMap, Settled, BadKey, Shapes, Asked, NoRequest
  <2>2. d - 1 \in 0 .. MaxItems /\ d - 1 < c
    BY ServerAssumption DEF Conns
  <2>3. PICK k, j : k = request[d].key /\ j = d - 1
    OBVIOUS
  <2>4. /\ Stored'[j][k] = Stored[j][k]
        /\ Stored[j][k] # NULL => /\ CallOf(Stored[j][k])' = CallOf(Stored[j][k])
                                  /\ SizesOf(Stored[j][k])' = SizesOf(Stored[j][k])
    BY <2>1, <2>2, <2>3, HolderEarlier
  <2>5. Holder(d)' = Holder(d) /\ Holder(d) = Stored[j][k]
    BY ONLY Zenon, <1>1, <2>3, <2>4 DEF Holder
  <2>6. Holder(d) # NULL => (Valued(d)' <=> Valued(d))
    <3>1. CallOf(Holder(d))' = CallOf(Stored[j][k])'
      BY ONLY <1>1, <2>3 DEF CallOf, Holder
    <3>2. SizesOf(Holder(d))' = SizesOf(Stored[j][k])'
      BY ONLY Zenon, <1>1, <2>3 DEF SizesOf, Holder
    <3>3. Holder(d) # NULL => /\ CallOf(Holder(d))' = CallOf(Holder(d))
                              /\ SizesOf(Holder(d))' = SizesOf(Holder(d))
      BY ONLY Zenon, <2>4, <2>5, <3>1, <3>2
    <3> QED BY ONLY Zenon, <3>3, got'[d] = got[d] DEF Valued
  <2>7. Found(d)' <=> Found(d)
    BY ONLY Zenon, <1>1, <2>5 DEF Found
  <2> QED BY ONLY Zenon, <1>1, <1>2, <1>3, <1>4, <2>5, <2>6, <2>7, got'[d] = got[d] DEF Right, Found
<1>6. CASE ~(Served(d) /\ request[d].op = "GET")
  <2>1. request[d].op # "GET" => Reply(request[d], Holder(d))' = Reply(request[d], Holder(d))
    BY ONLY <1>1 DEF Reply, Response
  <2>2. request[d].op # "GET" => ~Found(d) /\ ~(Found(d)')
    BY ONLY Zenon, <1>1 DEF Found
  <2> QED BY ONLY Zenon, <1>1, <1>2, <1>3, <1>4, <1>6, <2>1, <2>2, got'[d] = got[d] DEF Right
<1> QED BY <1>5, <1>6

\* Only one connection is open at a time.
LEMMA NoneOpen ==
    ASSUME OneAtATime, NEW d \in Conns, Connect(d)
    PROVE  \A e \in Conns : phase[e] \notin {"pending", "accepted"}
<1>1. IsFiniteSet(Conns)
  BY ServerAssumption, FS_Interval DEF Conns
<1>2. IsFiniteSet(Open)
  BY <1>1, FS_Subset DEF Open
<1>3. Cardinality(Open) \in Nat /\ Cardinality(Open) < 1
  BY <1>2, FS_CardinalityType DEF OneAtATime, Connect
<1>4. Open = {}
  BY <1>2, <1>3, FS_EmptySet
<1> QED BY <1>4 DEF Open

\* The client that connects is the next one, and nobody is being served.
LEMMA ConnectKeeps ==
    ASSUME OneAtATime, Shapes, NEW c \in 1 .. MaxItems + 1, Turn(c), NEW d \in Conns, Connect(d)
    PROVE  Turn(c)'
<1>0. c \in Nat /\ MaxItems \in Nat
  BY ServerAssumption
<1>1. \A e \in Conns : phase[e] \notin {"pending", "accepted"}
  BY NoneOpen
<1>2. Others(c) /\ Waiting(c)
  BY <1>1 DEF Turn, Accepted, Working
<1>3. d = c
  <2>1. ~(d < c)
    BY <1>2 DEF Connect, Others
  <2>2. ASSUME d > c PROVE FALSE
    <3>1. c \in Conns /\ c \in 1 .. d - 1
      BY <1>0, <2>2 DEF Conns
    <3> QED BY <1>1, <1>2, <3>1 DEF Connect, Waiting
  <2> QED BY <1>0, <2>1, <2>2 DEF Conns
<1>4. PICK r : request' = [request EXCEPT ![c] = r]
  BY <1>3 DEF Connect
<1>5. /\ \A e \in Conns : e # c => request'[e] = request[e] /\ phase'[e] = phase[e]
      /\ phase'[c] = "pending" /\ unread'[c] = "all"
  BY <1>3, <1>4 DEF Connect, Shapes, OneAtATime
<1>6. \A e \in Conns : e < c => request'[e] = request[e]
  BY <1>0, <1>5 DEF Conns
<1>7. UNCHANGED <<got, at, items, st, q_pc, nodes, calls>>
  BY DEF Connect, mainvars, workervars, queuevars, mapvars
<1>8. Others(c)'
  <2> SUFFICES ASSUME NEW e \in Conns
               PROVE  /\ e < c => phase'[e] = "closed" /\ Right(e)'
                      /\ e > c => phase'[e] = "none" /\ got'[e] = <<>>
    BY DEF Others
  <2>1. (e < c => e # c) /\ (e > c => e # c)
    BY <1>0 DEF Conns
  <2>2. e < c => (Right(e)' <=> Right(e))
    BY <1>0, <1>6, <1>7, RightEarlier
  <2> QED BY ONLY Zenon, <1>2, <1>5, <1>7, <2>1, <2>2, e \in Conns DEF Others
<1>9. Before(c)'
  <2>1. c - 1 \in 0 .. MaxItems /\ c - 1 < c
    BY <1>0
  <2>2. After(c - 1)' <=> After(c - 1)
    BY <1>0, <1>6, <1>7, <2>1, TableEarlier
  <2> QED BY ONLY Zenon, <1>2, <2>2 DEF Waiting, Before
<1>10. NobodyBusy'
  BY ONLY Zenon, <1>2, <1>7 DEF Waiting, NobodyBusy, Busy
<1>11. Waiting(c)'
  BY <1>2, <1>3, <1>5, <1>7, <1>9, <1>10 DEF Waiting
<1> QED BY <1>8, <1>11 DEF Turn

-----------------------------------------------------------------------------
(* The main thread and the queue *)

\* Any item is there for the one connection that has been accepted.
LEMMA MainKeeps ==
    ASSUME Shapes, NEW c \in 1 .. MaxItems + 1, Turn(c), Main
    PROVE  Turn(c)'
<1>0. c \in Nat /\ MaxItems \in Nat
  BY ServerAssumption
<1>1. CASE Accept
  <2>1. PICK d \in Conns, f \in Descriptors :
               /\ phase[d] = "pending"
               /\ phase' = [phase EXCEPT ![d] = "accepted"]
               /\ fds' = [fds EXCEPT ![f] = d]
               /\ connfd' = f
    BY <1>1 DEF Accept
  <2>2. d = c
    BY <1>0, <2>1 DEF Turn, Others, Conns
  <2>3. Waiting(c) /\ Others(c)
    BY <2>1, <2>2 DEF Turn, Accepted, Working
  <2>4. UNCHANGED <<request, got, unread, st, q_pc, items, nodes, calls>> /\ at' = "enqueue"
    BY <1>1 DEF Accept, workervars, queuevars, mapvars
  <2>5. phase'[c] = "accepted" /\ fds'[connfd'] = c /\ \A e \in Conns : e # c => phase'[e] = phase[e]
    BY <2>1, <2>2 DEF Shapes
  <2>6. Others(c)'
    BY <1>0, <2>3, <2>4, <2>5, SameOthers
  <2>7. Before(c)'
    BY <2>3, <2>4, SameAfter DEF Waiting, Before
  <2>8. NobodyBusy'
    BY ONLY Zenon, <2>3, <2>4 DEF Waiting, NobodyBusy, Busy
  <2>9. Accepted(c)'
    BY ONLY Zenon, <2>1, <2>2, <2>3, <2>4, <2>5, <2>7, <2>8 DEF Accepted, Waiting
  <2> QED BY <2>6, <2>9 DEF Turn
<1>2. CASE Enqueue
  <2>1. Accepted(c) /\ Others(c) /\ at = "enqueue" /\ items = 0
    BY <1>2 DEF Enqueue, Turn, Waiting, Working, Accepted
  <2>2. UNCHANGED <<phase, request, unread, got, fds, connfd, st, nodes, calls>>
    BY <1>2 DEF Enqueue, clientvars, workervars, mapvars
  <2>3. \A w \in Workers : q_pc'[w] = q_pc[w]
    BY <1>2, ServerAssumption DEF Enqueue, Shapes, Q!EnqueueCall, Q!EnqueueAlloc, Q!EnqueueLink, Q!EnqueuePost, Q!Goto
  <2>4. (at' = "enqueue" /\ items' = 0) \/ (at' = "accept" /\ items' = 1)
    BY <1>2, <2>1 DEF Enqueue, Q!EnqueueCall, Q!EnqueueAlloc, Q!EnqueueLink, Q!EnqueuePost,
                      Q!queuevars, Q!listvars
  <2>5. Others(c)'
    BY <1>0, <2>1, <2>2, SameOthers
  <2>6. Before(c)'
    BY <2>1, <2>2, SameAfter DEF Accepted, Before
  <2>7. NobodyBusy'
    BY ONLY Zenon, <2>1, <2>2, <2>3 DEF Accepted, NobodyBusy, Busy
  <2>8. Accepted(c)'
    BY ONLY Zenon, <2>1, <2>2, <2>4, <2>6, <2>7 DEF Accepted
  <2> QED BY <2>5, <2>8 DEF Turn
<1> QED BY <1>1, <1>2 DEF Main

\* A worker that serves nobody waits for the item, or takes it.
LEMMA IdleKeeps ==
    ASSUME Shapes, NEW c \in 1 .. MaxItems + 1, Turn(c), NEW v \in Workers, ~Busy(v), Thread(v)
    PROVE  Turn(c)'
<1>0. c \in Nat
  BY ServerAssumption
<1>1. /\ UNCHANGED <<phase, request, unread, got, fds, connfd, at, st, fd, header, out,
                     nodes, calls, map_pc, call, loc, ret>>
      /\ \A u \in Workers : u # v => (Busy(u)' <=> Busy(u)) /\ q_pc'[u] = q_pc[u]
      /\ \/ items' = items /\ ~Busy(v)'
         \/ items > 0 /\ items' = items - 1 /\ Busy(v)'
  BY IdleStep
<1>2. Others(c)'
  BY <1>0, <1>1, SameOthers DEF Turn
<1>3. Before(c)' <=> Before(c)
  BY <1>1, SameAfter DEF Before
<1>4. CASE Waiting(c)
  <2>1. items' = items /\ ~Busy(v)'
    BY <1>1, <1>4 DEF Waiting
  <2>2. NobodyBusy'
    BY ONLY Zenon, <1>1, <1>4, <2>1 DEF Waiting, NobodyBusy
  <2>3. Waiting(c)'
    BY ONLY Zenon, <1>1, <1>3, <1>4, <2>1, <2>2 DEF Waiting
  <2> QED BY <1>2, <2>3 DEF Turn
<1>5. CASE Accepted(c)
  <2>1. CASE items' = items /\ ~Busy(v)'
    <3>1. NobodyBusy'
      BY ONLY Zenon, <1>1, <1>5, <2>1 DEF Accepted, NobodyBusy
    <3>2. Accepted(c)'
      BY ONLY Zenon, <1>1, <1>3, <1>5, <2>1, <3>1 DEF Accepted
    <3> QED BY <1>2, <3>2 DEF Turn
  <2>2. CASE items > 0 /\ items' = items - 1 /\ Busy(v)'
    <3>1. at = "accept" /\ items' = 0
      BY <1>5, <2>2 DEF Accepted
    <3>2. st'[v] = "dequeue"
      BY <1>1 DEF Busy
    <3>3. \A u \in Workers : Busy(u)' => u = v
      BY ONLY Zenon, <1>1, <1>5 DEF Accepted, NobodyBusy
    <3>4. AtHeader(v, c)'
      BY <1>1, <1>3, <1>5, <3>2 DEF AtHeader, Accepted
    <3>5. Working(v, c)'
      BY <1>1, <1>5, <2>2, <3>1, <3>2, <3>3, <3>4 DEF Working, Accepted, Doing
    <3> QED BY ONLY Zenon, <1>2, <3>5, v \in Workers DEF Turn
  <2> QED BY <1>1, <2>1, <2>2
<1>6. ASSUME NEW w \in Workers, Working(w, c)
      PROVE  Turn(c)'
  <2>1. v # w
    BY <1>6 DEF Working
  <2>2. items' = items /\ ~Busy(v)'
    BY <1>1, <1>6 DEF Working
  <2>3. Doing(w, c)' <=> Doing(w, c)
    BY <1>1, SameDoing
  <2>4. Busy(w)' /\ q_pc'[w] = q_pc[w] /\ \A u \in Workers : Busy(u)' => u = w
    BY ONLY Zenon, <1>1, <1>6, <2>1, <2>2, w \in Workers DEF Working
  <2>5. Working(w, c)'
    BY ONLY Zenon, <1>1, <1>6, <2>2, <2>3, <2>4 DEF Working
  <2> QED BY ONLY Zenon, <1>2, <2>5, w \in Workers DEF Turn
<1> QED BY <1>4, <1>5, <1>6 DEF Turn

-----------------------------------------------------------------------------
(* The worker that serves *)

\* What a step of the worker that serves leaves alone, and what it has to show.
LEMMA WorkKeeps ==
    ASSUME Shapes, NEW c \in Nat, NEW w \in Workers, Working(w, c), Others(c),
           UNCHANGED <<phase, request, fds, connfd, at, items>>,
           \A v \in Workers : v # w => st'[v] = st[v] /\ q_pc'[v] = q_pc[v],
           \A d \in Conns : d # c => got'[d] = got[d],
           Busy(w)', st'[w] # "dequeue" => q_pc'[w] = "idle",
           st'[w] \notin {"dequeue", "load"} => fd'[w] = connfd,
           Doing(w, c)'
    PROVE  Turn(c)'
<1>1. Others(c)'
  BY SameOthers
<1>2. \A v \in Workers : Busy(v)' => v = w
  BY ONLY Zenon, Working(w, c), \A v \in Workers : v # w => st'[v] = st[v] /\ q_pc'[v] = q_pc[v]
     DEF Working, Busy
<1>3. Working(w, c)'
  BY <1>2 DEF Working
<1> QED BY ONLY Zenon, <1>1, <1>3, w \in Workers DEF Turn

\* The same where the worker goes on with the connection.
LEMMA ServeKeeps ==
    ASSUME Types, Shapes, NEW c \in Nat, NEW w \in Workers, Working(w, c), Others(c),
           UNCHANGED <<phase, request, fds, connfd, at, items, q_pc, fd>>,
           NEW label, label # "dequeue", st' = [st EXCEPT ![w] = label],
           st[w] \notin {"dequeue", "load"},
           \A d \in Conns : d # c => got'[d] = got[d],
           Doing(w, c)'
    PROVE  Turn(c)'
<1>1. st'[w] = label /\ \A v \in Workers : v # w => st'[v] = st[v]
  BY DEF Types
<1>2. Busy(w)' /\ (st'[w] # "dequeue" => q_pc'[w] = "idle")
      /\ (st'[w] \notin {"dequeue", "load"} => fd'[w] = connfd)
  BY <1>1 DEF Busy, Working
<1> QED BY <1>1, <1>2, WorkKeeps

\* The connection of a worker that has loaded its descriptor.
LEMMA PeerIs ==
    ASSUME NEW w, NEW c, Working(w, c), st[w] \notin {"dequeue", "load"}
    PROVE  Peer(w) = c /\ c \in Conns /\ c # NULL
BY RequestsAssumption DEF Working, Peer

\* A request that does not reach the map leaves it alone, and is not counted.
LEMMA NoCallNoEffect ==
    ASSUME NEW c \in Conns, ~CallsMap(request[c])
    PROVE  After(c) <=> Before(c)
<1>1. Stored[c] = Effect(Stored[c - 1], request[c], c)
  BY StoredSteps DEF Leaves
<1>2. request[c].op # "CLEAR"
  BY DEF CallsMap, Settled
<1>3. Stored[c] = Stored[c - 1]
  BY <1>1, <1>2 DEF Effect
<1>4. CallOf(c) = CallOf(c - 1)
  BY CallsCounted
<1> QED BY ONLY Zenon, <1>3, <1>4 DEF After, Before

\* The worker that is past the semaphore takes the item from the list.
LEMMA DequeueKeeps ==
    ASSUME Types, Shapes, NEW c \in Nat, NEW w \in Workers, Working(w, c), Others(c), Dequeue(w)
    PROVE  Turn(c)'
<1>1. st[w] = "dequeue" /\ Doing(w, c)
  BY DEF Dequeue, At, Working
<1>2. AtHeader(w, c)
  BY <1>1 DEF Doing, AtHeader, AtBadKey, AtBody, AtClear, AtCall, AtAnswer, AtValue, AtClose
<1>3. q_pc[w] \notin {"idle", "wait"}
  BY <1>1 DEF Working, Busy
<1>4. UNCHANGED <<phase, request, unread, got, fds, connfd, at, fd, nodes, calls>>
  BY DEF Dequeue, clientvars, mainvars, mapvars
<1>5. \/ Q!DequeueRemove(w) /\ UNCHANGED st
      \/ (Q!DequeueNothing(w) \/ Q!DequeueReturn(w)) /\ st' = [st EXCEPT ![w] = "load"]
  BY <1>3 DEF Dequeue, Go, Q!DequeueCall, Q!SemWait, Q!Is
<1>6. /\ items' = items
      /\ \A v \in Workers : v # w => q_pc'[v] = q_pc[v]
      /\ \/ q_pc'[w] = "return" /\ UNCHANGED st
         \/ q_pc'[w] = "idle" /\ st' = [st EXCEPT ![w] = "load"]
  BY <1>5 DEF Shapes, Q!DequeueRemove, Q!DequeueNothing, Q!DequeueReturn, Q!Goto, Q!queuevars
<1>7. /\ \A v \in Workers : v # w => st'[v] = st[v] /\ q_pc'[v] = q_pc[v]
      /\ st'[w] \in {"dequeue", "load"} /\ Busy(w)' /\ (st'[w] # "dequeue" => q_pc'[w] = "idle")
  BY <1>1, <1>6 DEF Types, Busy
<1>8. Before(c)'
  BY <1>2, <1>4, SameAfter DEF AtHeader, Before
<1>9. Doing(w, c)'
  BY ONLY Zenon, <1>2, <1>4, <1>7, <1>8, st'[w] \in {"dequeue", "load"} DEF Doing, AtHeader
<1> QED BY <1>4, <1>6, <1>7, <1>9, WorkKeeps

\* The descriptor it loads is that of the connection: no other was accepted since.
LEMMA LoadFdKeeps ==
    ASSUME Types, Shapes, NEW c \in Nat, NEW w \in Workers, Working(w, c), Others(c), LoadFd(w)
    PROVE  Turn(c)'
<1>1. st[w] = "load" /\ st' = [st EXCEPT ![w] = "header"] /\ fd' = [fd EXCEPT ![w] = connfd]
  BY DEF LoadFd, At, Go
<1>2. AtHeader(w, c)
  BY <1>1 DEF Working, Doing, AtHeader, AtBadKey, AtBody, AtClear, AtCall, AtAnswer, AtValue, AtClose
<1>3. UNCHANGED <<phase, request, unread, got, fds, connfd, at, items, q_pc, nodes, calls>>
  BY DEF LoadFd, clientvars, mainvars, queuevars, mapvars
<1>4. /\ st'[w] = "header" /\ fd'[w] = connfd /\ q_pc'[w] = "idle" /\ Busy(w)'
      /\ \A v \in Workers : v # w => st'[v] = st[v] /\ q_pc'[v] = q_pc[v]
  BY <1>1, <1>3 DEF Types, Shapes, Busy, Working
<1>5. Before(c)'
  BY <1>2, <1>3, SameAfter DEF AtHeader, Before
<1>6. Doing(w, c)'
  BY <1>2, <1>3, <1>4, <1>5 DEF Doing, AtHeader
<1> QED BY <1>3, <1>4, <1>6, WorkKeeps

\* The answers that a header settles are refusals, but for EVICT's.
LEMMA SettledAnswers ==
    ASSUME NEW r, Settled(r)
    PROVE  /\ ~CallsMap(r)
           /\ r.op = "EVICT" => SettledAnswer(r) = Response("OK", 0)
           /\ r.op # "EVICT" => SettledAnswer(r) \in Refusals
BY DEF Settled, CallsMap, SettledAnswer, Response, Refusals

\* The header is the one the client sent, and decides what comes next.
LEMMA ReadHeaderKeeps ==
    ASSUME Types, Shapes, NEW c \in Nat, NEW w \in Workers, Working(w, c), Others(c), ReadHeader(w)
    PROVE  Turn(c)'
<1>1. st[w] = "header"
  BY DEF ReadHeader, At
<1>2. AtHeader(w, c)
  BY <1>1 DEF Working, Doing, AtHeader, AtBadKey, AtBody, AtClear, AtCall, AtAnswer, AtValue, AtClose
<1>3. Peer(w) = c /\ c \in Conns
  BY <1>1, PeerIs
<1>4. PICK h \in Requests :
         /\ h = request[c]
         /\ header' = [header EXCEPT ![w] = h]
         /\ out' = [out EXCEPT ![w] = IF Settled(h) THEN SettledAnswer(h) ELSE @]
         /\ st' = [st EXCEPT ![w] = AfterHeader(h)]
  BY <1>2, <1>3 DEF ReadHeader, Go, AtHeader, Shapes
<1>5. UNCHANGED <<phase, request, got, gone, fds, connfd, at, fd, items, q_pc, nodes, calls>>
  BY DEF ReadHeader, mainvars, queuevars, mapvars
<1>6. AfterHeader(h) \in WorkerStates /\ AfterHeader(h) # "dequeue"
  BY DEF AfterHeader, AfterKey, WorkerStates
<1>7. /\ header'[w] = request'[c] /\ st'[w] = AfterHeader(h)
      /\ Settled(h) => out'[w] = SettledAnswer(h)
  BY <1>4, <1>5 DEF Types, Shapes
<1>8. Before(c)' /\ (After(c)' <=> After(c))
  BY <1>2, <1>5, SameAfter DEF AtHeader, Before
<1>9. got'[c] = <<>>
  BY <1>2, <1>5 DEF AtHeader
<1>10. Doing(w, c)'
  <2>1. CASE h.op = "PUT" /\ BadKey(h)
    <3>1. st'[w] = "badkey"
      BY <1>7, <2>1 DEF AfterHeader
    <3>2. AtBadKey(w, c)'
      BY ONLY Zenon, <1>4, <1>5, <1>7, <1>8, <1>9, <2>1, <3>1 DEF AtBadKey
    <3> QED BY ONLY Zenon, <3>2 DEF Doing
  <2>2. CASE ~(h.op = "PUT" /\ BadKey(h)) /\ Settled(h)
    <3>1. st'[w] = "answer" /\ out'[w] = SettledAnswer(h) /\ ~CallsMap(h)
      BY <1>7, <2>2, SettledAnswers DEF AfterHeader, AfterKey
    <3>2. After(c)'
      BY <1>2, <1>3, <1>4, <1>8, <3>1, NoCallNoEffect DEF AtHeader
    <3>3. Answering(w, c)'
      <4>1. CASE h.op = "EVICT"
        <5>1. out'[w] = Response("OK", 0) /\ h.op # "GET" /\ h.op # "PUT"
          BY <2>2, <3>1, <4>1, SettledAnswers
        <5>2. Served(c)' /\ ~(Found(c)') /\ Begun(c)'
          BY ONLY Zenon, <1>4, <1>5, <1>9, <4>1, <5>1 DEF Served, Found, Begun, Given
        <5>3. Reply(request[c], Holder(c))' = Response("OK", 0)
          BY ONLY <1>4, <1>5, <5>1 DEF Reply
        <5> QED BY ONLY Zenon, <5>1, <5>2, <5>3 DEF Answering
      <4>2. CASE h.op # "EVICT"
        <5>1. out'[w] \in Refusals
          BY <2>2, <3>1, <4>2, SettledAnswers
        <5>2. ~(Served(c)')
          BY <1>4, <1>5, <3>1, <4>2 DEF Served
        <5> QED BY ONLY Zenon, <1>9, <5>1, <5>2 DEF Answering
      <4> QED BY <4>1, <4>2
    <3>4. AtAnswer(w, c)'
      BY ONLY Zenon, <1>7, <3>1, <3>2, <3>3 DEF AtAnswer
    <3> QED BY ONLY Zenon, <3>4 DEF Doing
  <2>3. CASE ~(h.op = "PUT" /\ BadKey(h)) /\ ~Settled(h) /\ HasBody(h)
    <3>1. st'[w] \in {"body", "map"}
      BY <1>7, <2>3 DEF AfterHeader, AfterKey
    <3>2. Begun(c)'
      BY ONLY Zenon, <1>4, <1>5, <1>9, <2>3 DEF Begun, Given
    <3>3. AtBody(w, c)'
      BY ONLY Zenon, <1>4, <1>5, <1>7, <1>8, <2>3, <3>1, <3>2 DEF AtBody
    <3> QED BY ONLY Zenon, <3>3 DEF Doing
  <2>4. CASE ~(h.op = "PUT" /\ BadKey(h)) /\ ~Settled(h) /\ ~HasBody(h)
    <3>1. st'[w] = "map"
      BY <1>7, <2>4 DEF AfterHeader, AfterKey
    <3>2. h.op = "CLEAR"
      BY <2>4, RequestsAssumption DEF HasBody, Settled
    <3>3. AtClear(w, c)'
      BY ONLY Zenon, <1>4, <1>5, <1>7, <1>8, <1>9, <3>1, <3>2 DEF AtClear
    <3> QED BY ONLY Zenon, <3>3 DEF Doing
  <2> QED BY <2>1, <2>2, <2>3, <2>4
<1>11. st[w] \notin {"dequeue", "load"} /\ \A d \in Conns : d # c => got'[d] = got[d]
  BY <1>1, <1>5
<1> QED BY <1>4, <1>5, <1>6, <1>10, <1>11, ServeKeeps

\* A second answer follows the first.
LEMMA AppendedTwo ==
    ASSUME NEW m, NEW v
    PROVE  Append(<<m>>, v) = <<m, v>>
<1>1. <<m>> \in Seq({m, v}) /\ v \in {m, v} /\ <<m, v>> \in Seq({m, v})
  OBVIOUS
<1>2. Len(<<m>>) = 1
  OBVIOUS
<1>3. PICK s : s = Append(<<m>>, v)
  OBVIOUS
<1>4. s \in Seq({m, v}) /\ Len(s) = 2 /\ s[1] = m /\ s[2] = v
  BY <1>1, <1>2, <1>3
<1>5. PICK t : t = <<m, v>>
  OBVIOUS
<1>6. t \in Seq({m, v}) /\ Len(t) = 2 /\ t[1] = m /\ t[2] = v
  BY <1>1, <1>5
<1>7. s = t
  <2>1. \A i \in 1 .. Len(s) : s[i] = t[i]
    BY <1>4, <1>6
  <2> QED BY ONLY <1>4, <1>6, <2>1, SeqEqual
<1> QED BY ONLY Zenon, <1>3, <1>5, <1>7

\* What is sent is added to what the client has been sent.
LEMMA SendIs ==
    ASSUME Shapes, NEW c \in Nat, NEW w \in Workers, Working(w, c), Others(c),
           st[w] \notin {"dequeue", "load"}, NEW m, Send(w, m)
    PROVE  /\ c \in Conns
           /\ got'[c] = Append(got[c], m) /\ \A d \in Conns : d # c => got'[d] = got[d]
           /\ UNCHANGED <<phase, request, fds, connfd, at, items, q_pc, fd, header, out, nodes, calls,
                          map_pc, call, loc, ret>>
<1>1. Peer(w) = c /\ c \in Conns
  BY PeerIs
<1>2. got' = [got EXCEPT ![c] = Append(got[c], m)]
  BY <1>1 DEF Send, Shapes
<1> QED BY <1>1, <1>2 DEF Send, Shapes, mainvars, queuevars, mapvars

\* PUT with a bad key is refused at once, and goes on.
LEMMA RefuseKeyKeeps ==
    ASSUME Types, Shapes, NEW c \in Nat, NEW w \in Workers, Working(w, c), Others(c), RefuseKey(w)
    PROVE  Turn(c)'
<1> DEFINE m == Response("BAD_REQUEST", 0)
           r == request[c]
<1>1. st[w] = "badkey"
  BY DEF RefuseKey, At
<1>2. AtBadKey(w, c)
  BY <1>1 DEF Working, Doing, AtHeader, AtBadKey, AtBody, AtClear, AtCall, AtAnswer, AtValue, AtClose
<1>3. /\ c \in Conns
      /\ got'[c] = Append(got[c], m) /\ \A d \in Conns : d # c => got'[d] = got[d]
      /\ UNCHANGED <<phase, request, fds, connfd, at, items, q_pc, fd, header, out, nodes, calls>>
  BY <1>1, SendIs DEF RefuseKey
<1>4. m = Response("BAD_REQUEST", 0) /\ m \in Refusals
  BY DEF Refusals
<1> HIDE DEF m
<1>5. got'[c] = <<m>>
  BY <1>2, <1>3 DEF AtBadKey
<1>6. st' = [st EXCEPT ![w] = AfterKey(r)] /\ header'[w] = request'[c] /\ r.op = "PUT" /\ BadKey(r)
  BY <1>2, <1>3 DEF RefuseKey, Go, AtBadKey
<1>7. st'[w] = AfterKey(r)
  BY <1>6 DEF Types
<1>8. Before(c)' /\ (After(c)' <=> After(c))
  BY <1>2, <1>3, SameAfter DEF AtBadKey, Before
<1>9. Doing(w, c)'
  <2>1. CASE Settled(r)
    <3>1. st'[w] = "answer" /\ out'[w] = SettledAnswer(r) /\ ~CallsMap(r)
      BY <1>2, <1>3, <1>7, <2>1, SettledAnswers DEF AtBadKey, AfterKey
    <3>2. After(c)'
      BY <1>2, <1>3, <1>8, <3>1, NoCallNoEffect DEF AtBadKey
    <3>3. out'[w] \in Refusals
      BY <1>6, <2>1, <3>1, SettledAnswers
    <3>4. ~(Served(c)')
      BY <1>3, <1>6, <3>1 DEF Served
    <3>5. Answering(w, c)'
      BY ONLY Zenon, <1>4, <1>5, <3>3, <3>4 DEF Answering
    <3>6. AtAnswer(w, c)'
      BY ONLY Zenon, <1>6, <3>1, <3>2, <3>5 DEF AtAnswer
    <3> QED BY ONLY Zenon, <3>6 DEF Doing
  <2>2. CASE ~Settled(r)
    <3>1. st'[w] = "body" /\ HasBody(r)
      BY <1>6, <1>7, <2>2 DEF AfterKey, HasBody
    <3>2. Begun(c)'
      BY ONLY Zenon, <1>3, <1>4, <1>5, <1>6 DEF Begun, Given
    <3>3. st'[w] \in {"body", "map"}
      BY <3>1
    <3>4. AtBody(w, c)'
      BY ONLY Zenon, <1>3, <1>6, <1>8, <2>2, <3>1, <3>2, <3>3 DEF AtBody
    <3> QED BY ONLY Zenon, <3>4 DEF Doing
  <2> QED BY <2>1, <2>2
<1>10. AfterKey(r) # "dequeue" /\ st[w] \notin {"dequeue", "load"}
  BY <1>1 DEF AfterKey
<1> QED BY <1>3, <1>6, <1>9, <1>10, ServeKeeps

\* The key and the value are read.
LEMMA ReadBodyKeeps ==
    ASSUME Types, Shapes, NEW c \in Nat, NEW w \in Workers, Working(w, c), Others(c), ReadBody(w)
    PROVE  Turn(c)'
<1>1. st[w] = "body" /\ st' = [st EXCEPT ![w] = "map"]
  BY DEF ReadBody, At, Go
<1>2. AtBody(w, c)
  BY <1>1 DEF Working, Doing, AtHeader, AtBadKey, AtBody, AtClear, AtCall, AtAnswer, AtValue, AtClose
<1>3. UNCHANGED <<phase, request, got, fds, connfd, at, fd, header, items, q_pc, nodes, calls>>
  BY DEF ReadBody, mainvars, queuevars, mapvars
<1>4. Before(c)'
  BY <1>2, <1>3, SameAfter DEF AtBody, Before
<1>5. st'[w] \in {"body", "map"}
  BY <1>1 DEF Types
<1>6. Begun(c)'
  BY ONLY Zenon, <1>2, <1>3 DEF AtBody, Begun
<1>7. AtBody(w, c)'
  BY ONLY Zenon, <1>2, <1>3, <1>4, <1>5, <1>6 DEF AtBody
<1>8. Doing(w, c)'
  BY ONLY Zenon, <1>7 DEF Doing
<1> QED BY <1>1, <1>3, <1>8, ServeKeeps

\* put refuses the key of length 0 that PUT went on with: a second refusal.
LEMMA PutEmptyKeyKeeps ==
    ASSUME Types, Shapes, NEW c \in Nat, NEW w \in Workers, Working(w, c), Others(c), PutEmptyKey(w)
    PROVE  Turn(c)'
<1> DEFINE m == Response("BAD_REQUEST", 0)
           r == request[c]
<1>1. /\ st[w] = "map" /\ st' = [st EXCEPT ![w] = "answer"]
      /\ header[w].op = "PUT" /\ header[w].key = NULL /\ out' = [out EXCEPT ![w] = m]
  BY DEF PutEmptyKey, At, Go
<1>2. AtBody(w, c)
  BY <1>1 DEF Working, Doing, AtHeader, AtBadKey, AtBody, AtClear, AtCall, AtAnswer, AtValue, AtClose
<1>3. UNCHANGED <<phase, request, got, fds, connfd, at, fd, header, items, q_pc, nodes, calls>>
  BY DEF PutEmptyKey, clientvars, mainvars, queuevars, mapvars
<1>4. header[w] = r /\ BadKey(r) /\ ~CallsMap(r) /\ ~Served(c)
  BY <1>1, <1>2 DEF AtBody, BadKey, CallsMap, Served
<1>5. c \in Conns
  BY DEF Working
<1>6. After(c)'
  BY <1>2, <1>3, <1>4, <1>5, SameAfter, NoCallNoEffect DEF AtBody
<1>7. st'[w] = "answer" /\ out'[w] = m /\ header'[w] = request'[c]
  BY <1>1, <1>3, <1>4 DEF Types, Shapes
<1>8. m \in Refusals
  BY DEF Refusals
<1>9. got[c] = <<m>>
  BY <1>1, <1>2, <1>4 DEF AtBody, Begun, Given
<1>10. ~(Served(c)')
  BY <1>3, <1>4 DEF Served
<1>11. Answering(w, c)'
  BY ONLY Zenon, <1>3, <1>7, <1>8, <1>9, <1>10 DEF Answering
<1>12. Doing(w, c)'
  BY ONLY Zenon, <1>6, <1>7, <1>11 DEF Doing, AtAnswer
<1>13. st[w] \notin {"dequeue", "load"} /\ \A d \in Conns : d # c => got'[d] = got[d]
  BY <1>1, <1>3
<1> QED BY <1>1, <1>3, <1>12, <1>13, ServeKeeps

\* The answer is sent; GET goes on with the value if there is one.
LEMMA SendAnswerKeeps ==
    ASSUME Types, Shapes, NEW c \in Nat, NEW w \in Workers, Working(w, c), Others(c), SendAnswer(w)
    PROVE  Turn(c)'
<1> DEFINE label == IF header[w].op = "GET" /\ out[w].code = "OK" THEN "value" ELSE "close"
<1>1. st[w] = "answer" /\ st' = [st EXCEPT ![w] = label]
  BY DEF SendAnswer, At, Go
<1>2. AtAnswer(w, c)
  BY <1>1 DEF Working, Doing, AtHeader, AtBadKey, AtBody, AtClear, AtCall, AtAnswer, AtValue, AtClose
<1>3. PICK m : m = out[w]
  OBVIOUS
<1>4. /\ c \in Conns
      /\ got'[c] = Append(got[c], m) /\ \A d \in Conns : d # c => got'[d] = got[d]
      /\ UNCHANGED <<phase, request, fds, connfd, at, items, q_pc, fd, header, out, nodes, calls, ret>>
  BY <1>1, <1>3, SendIs DEF SendAnswer
<1>5. After(c)' /\ header[w] = request[c] /\ Answering(w, c)
  BY <1>2, <1>4, SameAfter DEF AtAnswer
<1>6. st'[w] = label
  BY <1>1 DEF Types
<1>7. /\ Holder(c)' = Holder(c) /\ (Served(c)' <=> Served(c)) /\ (Found(c)' <=> Found(c))
      /\ Given(request[c])' = Given(request[c]) /\ request' = request
  BY <1>4, SameHolder DEF Given
<1>8. CASE ~Served(c)
  <2>1. m \in Refusals /\ m.code # "OK" /\ (got[c] = <<>> \/ \E n \in Refusals : got[c] = <<n>>)
    BY <1>3, <1>5, <1>8 DEF Answering, Refusals, Response
  <2>2. got'[c] = <<m>> \/ \E n \in Refusals : got'[c] = <<n, m>>
    <3>1. CASE got[c] = <<>>
      BY <1>4, <3>1
    <3>2. ASSUME NEW n \in Refusals, got[c] = <<n>>
          PROVE  got'[c] = <<n, m>>
      BY ONLY Zenon, <1>4, <3>2, AppendedTwo
    <3> QED BY ONLY Zenon, <2>1, <3>1, <3>2
  <2>3. RefusedOnly(c)'
    <3>1. PICK R : R = Refusals
      OBVIOUS
    <3>2. got'[c] # <<>> /\ \A i \in DOMAIN got'[c] : got'[c][i] \in R
      <4>1. CASE got'[c] = <<m>>
        BY ONLY <2>1, <3>1, <4>1
      <4>2. ASSUME NEW n \in R, got'[c] = <<n, m>>
            PROVE  got'[c] # <<>> /\ \A i \in DOMAIN got'[c] : got'[c][i] \in R
        BY ONLY <2>1, <3>1, <4>2
      <4> QED BY ONLY Zenon, <2>2, <3>1, <4>1, <4>2
    <3> QED BY ONLY Zenon, <3>1, <3>2 DEF RefusedOnly
  <2>4. st'[w] = "close"
    BY <1>3, <1>6, <2>1
  <2>5. Right(c)'
    BY ONLY Zenon, <1>7, <1>8, <2>3 DEF Right
  <2>6. Doing(w, c)'
    BY ONLY Zenon, <1>5, <2>4, <2>5 DEF Doing, AtClose
  <2> QED BY <1>1, <1>4, <2>6, ServeKeeps
<1>9. CASE Served(c)
  <2>1. /\ got[c] = Given(request[c]) /\ m = Reply(request[c], Holder(c))
        /\ Found(c) => ReadValue(w, c)
    BY <1>3, <1>5, <1>9 DEF Answering, Begun
  <2>2. CASE ~Found(c)
    <3>1. m.code # "OK" \/ request[c].op # "GET"
      BY <2>1, <2>2 DEF Reply, Response, Found
    <3>2. st'[w] = "close"
      BY <1>3, <1>5, <1>6, <3>1
    <3>3. got'[c] = Append(Given(request[c])', Reply(request[c], Holder(c))')
      BY ONLY Zenon, <1>4, <1>7, <2>1 DEF Reply
    <3>4. Right(c)'
      BY ONLY Zenon, <1>7, <1>9, <2>2, <3>3 DEF Right
    <3>5. Doing(w, c)'
      BY ONLY Zenon, <1>5, <3>2, <3>4 DEF Doing, AtClose
    <3> QED BY <1>1, <1>4, <3>5, ServeKeeps
  <2>3. CASE Found(c)
    <3>1. m = Response("OK", 8) /\ m.code = "OK" /\ got[c] = <<>>
      BY <2>1, <2>3 DEF Reply, Response, Found, Given
    <3>2. st'[w] = "value"
      BY <1>3, <1>5, <1>6, <2>3, <3>1 DEF Found
    <3>3. got'[c] = <<Response("OK", 8)>>
      BY <1>4, <3>1
    <3>4. ReadValue(w, c)'
      BY <1>4, <2>1, <2>3, SameReadValue
    <3>5. AtValue(w, c)'
      BY ONLY Zenon, <1>5, <1>7, <1>9, <2>3, <3>2, <3>3, <3>4 DEF AtValue
    <3> QED BY <1>1, <1>4, <3>5, ServeKeeps DEF Doing
  <2> QED BY <2>2, <2>3
<1> QED BY <1>8, <1>9

\* The value sent is the one get has read.
LEMMA SendValueKeeps ==
    ASSUME Types, Shapes, NEW c \in Nat, NEW w \in Workers, Working(w, c), Others(c), SendValue(w)
    PROVE  Turn(c)'
<1>1. st[w] = "value" /\ st' = [st EXCEPT ![w] = "close"]
  BY DEF SendValue, At, Go
<1>2. AtValue(w, c)
  BY <1>1 DEF Working, Doing, AtHeader, AtBadKey, AtBody, AtClear, AtCall, AtAnswer, AtValue, AtClose
<1>3. PICK v : v = [code |-> "value", size |-> ret[w].len, value |-> ret[w].base]
  OBVIOUS
<1>4. /\ c \in Conns
      /\ got'[c] = Append(got[c], v) /\ \A d \in Conns : d # c => got'[d] = got[d]
      /\ UNCHANGED <<phase, request, fds, connfd, at, items, q_pc, fd, header, out, nodes, calls, ret>>
  BY <1>1, <1>3, SendIs DEF SendValue
<1>5. PICK m : got[c] = <<m>> /\ m.code = "OK"
  BY <1>2 DEF AtValue, Response
<1>6. got'[c] = <<m, v>>
  BY ONLY Zenon, <1>4, <1>5, AppendedTwo
<1>7. v.code = "value" /\ v.value.id = CallOf(Holder(c)) /\ v.size \in SizesOf(Holder(c))
  BY <1>2, <1>3 DEF AtValue, ReadValue, ReadBase, ReadLen
<1>8. (Served(c)' <=> Served(c)) /\ (Found(c)' <=> Found(c))
  BY <1>4, SameHolder
<1>9. CallOf(Holder(c))' = CallOf(Holder(c)) /\ SizesOf(Holder(c))' = SizesOf(Holder(c))
  BY <1>4, SameHolder
<1>10. Valued(c)'
  BY ONLY Zenon, <1>5, <1>6, <1>7, <1>9 DEF Valued
<1>11. Right(c)'
  BY ONLY Zenon, <1>2, <1>4, <1>8, <1>10 DEF Right, AtValue
<1>12. After(c)'
  BY <1>2, <1>4, SameAfter DEF AtValue
<1>13. st'[w] = "close"
  BY <1>1 DEF Types
<1>14. Doing(w, c)'
  BY ONLY Zenon, <1>11, <1>12, <1>13 DEF Doing, AtClose
<1> QED BY <1>1, <1>4, <1>14, ServeKeeps

\* The connection is closed and the next one may come.
LEMMA CloseFdKeeps ==
    ASSUME Types, Shapes, NEW c \in Nat, NEW w \in Workers, Working(w, c), Others(c), CloseFd(w)
    PROVE  c + 1 \in 1 .. MaxItems + 1 /\ Turn(c + 1)'
<1>1. st[w] = "close" /\ st' = [st EXCEPT ![w] = "dequeue"]
  BY DEF CloseFd, At, Go
<1>2. AtClose(w, c)
  BY <1>1 DEF Working, Doing, AtHeader, AtBadKey, AtBody, AtClear, AtCall, AtAnswer, AtValue, AtClose
<1>3. Peer(w) = c /\ c \in Conns
  BY <1>1, PeerIs
<1>4. PICK n : n = c + 1
  OBVIOUS
<1>5. /\ n \in 1 .. MaxItems + 1 /\ n - 1 = c
      /\ \A d \in Conns : (d < n <=> d < c \/ d = c) /\ (d > n => d > c) /\ (d = n => d > c) /\ (d > n => d # c)
  BY <1>3, <1>4, ServerAssumption DEF Conns
<1>6. phase' = [phase EXCEPT ![c] = "closed"]
  BY <1>3 DEF CloseFd
<1>7. UNCHANGED <<request, got, at, items, q_pc, nodes, calls>>
  BY DEF CloseFd, mainvars, queuevars, mapvars
<1>8. phase'[c] = "closed" /\ \A d \in Conns : d # c => phase'[d] = phase[d]
  BY <1>3, <1>6 DEF Shapes
<1>9. \A d \in Conns : Right(d)' <=> Right(d)
  BY <1>7, SameRight
<1>10. Others(n)'
  <2> SUFFICES ASSUME NEW d \in Conns
               PROVE  /\ d < n => phase'[d] = "closed" /\ Right(d)'
                      /\ d > n => phase'[d] = "none" /\ got'[d] = <<>>
    BY DEF Others
  <2>1. Right(d)' <=> Right(d)
    BY <1>7, SameRight
  <2>2. d > c => d # c
    BY <1>3, ServerAssumption DEF Conns
  <2> QED BY ONLY Zenon, <1>2, <1>5, <1>7, <1>8, <2>1, <2>2, Others(c), d \in Conns DEF Others, AtClose
<1>11. Before(n)'
  <2>1. After(c)'
    BY <1>2, <1>7, SameAfter DEF AtClose
  <2> QED BY ONLY Zenon, <1>5, <2>1 DEF Before
<1>12. NobodyBusy'
  <2> SUFFICES ASSUME NEW v \in Workers PROVE ~(Busy(v)')
    BY DEF NobodyBusy
  <2>1. CASE v = w
    <3>1. st'[w] = "dequeue" /\ q_pc'[w] = "idle"
      BY <1>1, <1>7 DEF Types, Working
    <3> QED BY <2>1, <3>1 DEF Busy
  <2>2. CASE v # w
    <3>1. st'[v] = st[v] /\ q_pc'[v] = q_pc[v] /\ ~Busy(v)
      BY <1>1, <1>7, <2>2 DEF Types, Working
    <3> QED BY <3>1 DEF Busy
  <2> QED BY <2>1, <2>2
<1>13. Waiting(n)'
  <2>1. n \in Conns => phase'[n] = "none" /\ got'[n] = <<>>
    <3>1. n \in Conns => n > c /\ n # c
      BY <1>3, <1>4, ServerAssumption DEF Conns
    <3> QED BY ONLY Zenon, <1>7, <1>8, <3>1, Others(c) DEF Others
  <2>2. at' = "accept" /\ items' = 0
    BY <1>7 DEF Working
  <2> QED BY <1>11, <1>12, <2>1, <2>2 DEF Waiting
<1>14. Turn(n)'
  BY <1>10, <1>13 DEF Turn
<1> QED BY ONLY Zenon, <1>4, <1>5, <1>14

-----------------------------------------------------------------------------
(* The worker calls the map *)

\* The locals and the arguments of a call that has begun.
LEMMA CallIs ==
    ASSUME Types, Shapes, NEW w \in Workers, NEW op, NEW k, NEW n, NEW f, NEW label,
           H!Begin(w, H!NewCall(op, k, n, f)), H!Proceed(w, label)
    PROVE  /\ call'[w].op = op /\ call'[w].id = calls + 1 /\ call'[w].key = k
           /\ H!Handed(call'[w]) = [id |-> calls + 1, key |-> k, len |-> n]
           /\ calls < MaxItems /\ calls' = calls + 1 /\ nodes' = nodes
           /\ map_pc'[w] = label /\ loc'[w].kind = "none" /\ IsReturn(ret'[w])
<1>1. /\ call'[w] = H!NewCall(op, k, n, f) /\ loc'[w] = H!NoPlace /\ nodes' = nodes
      /\ calls' = calls + 1 /\ calls < MaxItems
  BY DEF H!Begin, H!fields, Types, Shapes
<1>2. map_pc'[w] = label /\ ret'[w] = H!Failed
  BY DEF H!Proceed, H!Goto, Shapes
<1> QED BY <1>1, <1>2 DEF H!NewCall, H!NoPlace, H!Failed, H!Handed, IsReturn

\* The same for each of the map's operations; none is refused at once.
Started(w, op, label) ==
    \E k, n, f : /\ H!Begin(w, H!NewCall(op, k, n, f)) /\ H!Proceed(w, label)
                 /\ op # "clear" => k \in Keys
                 /\ op = "put" => n \in {r.vsize : r \in Requests} \ {0}

\* None of the four calls is refused, as nobody calls invalidate_map.
LEMMA CallStarts ==
    ASSUME Shapes, NEW w \in Workers
    PROVE  /\ H!PutCall(w) => Started(w, "put", "lock")
           /\ H!GetCall(w) => Started(w, "get", "get_enter")
           /\ H!DeleteCall(w) => Started(w, "delete", "lock")
           /\ H!ClearCall(w) => Started(w, "clear", "lock")
<1>0. map_invalid = FALSE
  BY DEF Shapes
<1>1. ASSUME H!PutCall(w) PROVE Started(w, "put", "lock")
  <2>1. PICK k \in Keys, n \in {r.vsize : r \in Requests} \ {0}, f \in {TRUE} :
            /\ H!Begin(w, H!NewCall("put", k, n, f))
            /\ H!Check(w, map_invalid \/ (H!Full /\ ~f), "lock")
    BY <1>1 DEF H!PutCall
  <2>2. H!Proceed(w, "lock")
    BY <1>0, <2>1 DEF H!Check
  <2> QED BY ONLY Zenon, <2>1, <2>2 DEF Started
<1>2. ASSUME NEW op \in {"get", "delete"}, NEW label, H!KeyCall(w, op, label)
      PROVE  Started(w, op, label)
  <2>1. PICK k \in Keys : /\ H!Begin(w, H!NewCall(op, k, 0, FALSE))
                          /\ H!Check(w, map_invalid, label)
    BY <1>2 DEF H!KeyCall
  <2>2. H!Proceed(w, label) /\ op # "put"
    BY <1>0, <2>1 DEF H!Check
  <2> QED BY ONLY Zenon, <2>1, <2>2 DEF Started
<1>3. ASSUME H!ClearCall(w) PROVE Started(w, "clear", "lock")
  <2>1. H!Begin(w, H!NewCall("clear", NULL, 0, FALSE)) /\ H!Proceed(w, "lock")
    BY <1>0, <1>3 DEF H!ClearCall, H!Check
  <2>2. "clear" # "put"
    OBVIOUS
  <2> QED BY ONLY Zenon, <2>1, <2>2 DEF Started
<1> QED BY <1>1, <1>2, <1>3 DEF H!GetCall, H!DeleteCall

\* What a call that has begun makes of the worker's place.
LEMMA StartedIs ==
    ASSUME Types, Shapes, NEW w \in Workers, NEW op, NEW label, Started(w, op, label)
    PROVE  /\ call'[w].op = op /\ call'[w].id = calls + 1
           /\ op # "clear" => call'[w].key \in Keys
           /\ op = "put" => H!Handed(call'[w]) # NULL
           /\ calls' = calls + 1 /\ nodes' = nodes
           /\ map_pc'[w] = label /\ loc'[w].kind = "none" /\ IsReturn(ret'[w])
<1>1. PICK k, n, f : /\ H!Begin(w, H!NewCall(op, k, n, f)) /\ H!Proceed(w, label)
                     /\ op # "clear" => k \in Keys
                     /\ op = "put" => n \in {r.vsize : r \in Requests} \ {0}
  BY DEF Started
<1>2. /\ call'[w].op = op /\ call'[w].id = calls + 1 /\ call'[w].key = k
      /\ H!Handed(call'[w]) = [id |-> calls + 1, key |-> k, len |-> n]
      /\ calls < MaxItems /\ calls' = calls + 1 /\ nodes' = nodes
      /\ map_pc'[w] = label /\ loc'[w].kind = "none" /\ IsReturn(ret'[w])
  BY <1>1, CallIs
<1>3. ASSUME op = "put" PROVE H!Handed(call'[w]) # NULL
  <2>1. PICK h : h = [id |-> calls + 1, key |-> k, len |-> n]
    OBVIOUS
  <2>2. calls + 1 \in 1 .. MaxItems
    BY <1>2, ServerAssumption DEF Types
  <2>3. k \in Keys /\ n \in {r.vsize : r \in Requests} \ {0}
    BY <1>1, <1>3
  <2>4. h \in H!Buffers
    BY <2>1, <2>2, <2>3 DEF H!Buffers
  <2>5. h # NULL
    BY ONLY <2>4, NullAssumption
  <2> QED BY ONLY Zenon, <1>2, <2>1, <2>5
<1> QED BY <1>1, <1>2, <1>3

\* The call of the map is the one the request asks for, with its key.
LEMMA CallMapKeeps ==
    ASSUME Types, Shapes, NEW c \in Nat, NEW w \in Workers, Working(w, c), Others(c), CallMap(w)
    PROVE  Turn(c)'
<1> DEFINE r == request[c]
<1>1. st[w] = "map" /\ st' = [st EXCEPT ![w] = "call"]
  BY DEF CallMap, At, Go
<1>2. AtBody(w, c) \/ AtClear(w, c)
  BY <1>1 DEF Working, Doing, AtHeader, AtBadKey, AtBody, AtClear, AtCall, AtAnswer, AtValue, AtClose
<1>3. UNCHANGED <<phase, request, unread, got, fds, connfd, at, fd, header, items, q_pc>>
  BY DEF CallMap, clientvars, mainvars, queuevars
<1>4. header[w] = r /\ Before(c) /\ c \in Conns
  BY <1>2 DEF AtBody, AtClear, Working
<1>5. st'[w] = "call" /\ header'[w] = request'[c]
  BY <1>1, <1>3, <1>4 DEF Types
<1>6. \/ r.op = "PUT" /\ r.key # NULL /\ Started(w, "put", "lock")
      \/ r.op = "GET" /\ Started(w, "get", "get_enter")
      \/ r.op = "EVICT" /\ Started(w, "delete", "lock")
      \/ r.op = "CLEAR" /\ Started(w, "clear", "lock")
  BY ONLY Zenon, <1>4, CallMap(w), CallStarts, Shapes, w \in Workers DEF CallMap
<1>7. r.op = "CLEAR" \/ call'[w].key = r.key
  BY <1>4 DEF CallMap
<1>8. CallsMap(r) /\ Begun(c)
  <2>1. CASE AtClear(w, c)
    BY <2>1 DEF AtClear, CallsMap, Settled, Begun, Given
  <2>2. CASE AtBody(w, c)
    <3>1. r.op = "PUT" => r.key # NULL
      BY <1>6
    <3> QED BY <2>2, <3>1 DEF AtBody, CallsMap
  <2> QED BY <1>2, <2>1, <2>2
<1>9. ASSUME NEW op, NEW label, Started(w, op, label)
      PROVE  /\ Table(Stored[c - 1])' /\ calls' = CallOf(c)' /\ call'[w].op = op
             /\ call'[w].id = CallOf(c)'
  <2>1. /\ call'[w].op = op /\ call'[w].id = calls + 1 /\ calls' = calls + 1 /\ nodes' = nodes
    BY <1>9, StartedIs
  <2>2. calls = CallOf(c - 1) /\ Table(Stored[c - 1])
    BY <1>4 DEF Before, After
  <2>3. CallOf(c) = CallOf(c - 1) + 1
    BY <1>4, <1>8, CallsCounted
  <2>4. CallOf(c)' = CallOf(c)
    BY <1>3 DEF CallOf
  <2>5. Table(Stored[c - 1])' <=> Table(Stored[c - 1])
    BY <1>3, <2>1, SameTable
  <2> QED BY <2>1, <2>2, <2>3, <2>4, <2>5
<1>10. InCall(w, c)'
  <2>1. CallsMap(request'[c]) /\ request'[c] = r
    BY ONLY Zenon, <1>3, <1>8
  <2>2. CASE r.op = "PUT" /\ Started(w, "put", "lock")
    <3>1. /\ call'[w].key \in Keys /\ H!Handed(call'[w]) # NULL /\ map_pc'[w] = "lock"
          /\ call'[w].key = r.key /\ call'[w].len = r.vsize
      BY <1>4, <1>7, <2>2, StartedIs, CallMap(w) DEF CallMap
    <3>2. Writing(w, c)'
      BY <1>9, <2>2, <3>1 DEF Writing
    <3> QED BY ONLY Zenon, <1>9, <2>1, <2>2, <3>1, <3>2 DEF InCall, CallsMap, Settled, BadKey, BadValue
  <2>3. CASE r.op = "EVICT" /\ Started(w, "delete", "lock")
    <3>1. call'[w].key \in Keys /\ map_pc'[w] = "lock" /\ call'[w].key = r.key
      BY <1>7, <2>3, StartedIs
    <3>2. Writing(w, c)'
      BY <1>9, <2>3, <3>1 DEF Writing
    <3> QED BY ONLY Zenon, <1>9, <2>1, <2>3, <3>1, <3>2 DEF InCall, CallsMap, Settled, BadKey, BadValue
  <2>4. CASE r.op = "CLEAR" /\ Started(w, "clear", "lock")
    <3>1. map_pc'[w] = "lock"
      BY <2>4, StartedIs
    <3>2. Writing(w, c)'
      BY <1>9, <2>4, <3>1 DEF Writing
    <3> QED BY ONLY Zenon, <1>9, <2>1, <2>4, <3>1, <3>2 DEF InCall, CallsMap, Settled, BadKey, BadValue
  <2>5. CASE r.op = "GET" /\ Started(w, "get", "get_enter")
    <3>1. /\ call'[w].key \in Keys /\ map_pc'[w] = "get_enter" /\ call'[w].key = r.key
          /\ loc'[w].kind = "none" /\ IsReturn(ret'[w])
      BY <1>7, <2>5, StartedIs
    <3>2. Reading(w, c)'
      BY <3>1 DEF Reading
    <3> QED BY ONLY Zenon, <1>9, <2>1, <2>5, <3>1, <3>2 DEF InCall, CallsMap, Settled, BadKey, BadValue
  <2> QED BY <1>6, <2>2, <2>3, <2>4, <2>5
<1>11. Doing(w, c)'
  BY ONLY Zenon, <1>3, <1>5, <1>8, <1>10 DEF Doing, AtCall, Begun
<1>12. st[w] \notin {"dequeue", "load"} /\ \A d \in Conns : d # c => got'[d] = got[d]
  BY <1>1, <1>3
<1> QED BY <1>1, <1>3, <1>11, <1>12, ServeKeeps

-----------------------------------------------------------------------------
(* The table *)

\* A key's home is a slot.
LEMMA HomeIsSlot ==
    ASSUME NEW k \in Keys
    PROVE  H!GetIndex(k) \in H!Slots
<1>1. Hash[k] \in Nat /\ Capacity \in Nat \ {0}
  BY ServerAssumption
<1> QED BY <1>1 DEF H!GetIndex, H!Slots

\* A key's slot is its home: a slot that was filled for key k.
LEMMA KeyAtHome ==
    ASSUME NEW S, Table(S), NEW k \in Keys, NEW i \in H!Slots, H!SameKey(nodes, i, k)
    PROVE  i = H!GetIndex(k)
BY DEF Table, HomeOf, H!SameKey

\* A home in use is used by its own key.
LEMMA HomeIsKeys ==
    ASSUME OneAtATime, NEW S, Table(S), NEW k \in Keys, nodes[H!GetIndex(k)].kbase # NULL
    PROVE  H!SameKey(nodes, H!GetIndex(k), k)
<1>1. PICK h, j : h = H!GetIndex(k) /\ j = nodes[h].kbase.key
  OBVIOUS
<1>2. h \in H!Slots
  BY <1>1, HomeIsSlot
<1>3. j \in Keys /\ H!GetIndex(j) = h
  BY ONLY Zenon, <1>1, <1>2, Table(S), nodes[H!GetIndex(k)].kbase # NULL DEF Table, HomeOf
<1>4. j = k
  BY ONLY Zenon, <1>1, <1>3, k \in Keys, OneAtATime DEF OneAtATime
<1> QED BY ONLY Zenon, <1>1, <1>4, nodes[H!GetIndex(k)].kbase # NULL DEF H!SameKey

\* The first step of a search from a key's home.
LEMMA NearestHome ==
    ASSUME NEW k \in Keys, NEW D, D \subseteq H!Slots, 0 \in D
    PROVE  {H!At(H!GetIndex(k), d) : d \in H!Nearest(D)} = {H!GetIndex(k)}
<1>1. H!Nearest(D) = {0}
  <2>1. \A d \in D : d \in Nat
    BY DEF H!Slots
  <2> QED BY <2>1 DEF H!Nearest
<1>2. H!At(H!GetIndex(k), 0) = H!GetIndex(k)
  BY HomeIsSlot, ServerAssumption DEF H!At, H!Slots
<1>3. \A x : x \in {H!At(H!GetIndex(k), d) : d \in H!Nearest(D)} <=> x = H!GetIndex(k)
  BY ONLY Zenon, <1>1, <1>2
<1> QED BY ONLY Zenon, <1>3

\* There is a slot.
LEMMA ZeroIsSlot == 0 \in H!Slots
BY ServerAssumption DEF H!Slots

\* A search starts at the home.
LEMMA HomeIsFirst ==
    ASSUME NEW k \in Keys
    PROVE  H!At(H!GetIndex(k), 0) = H!GetIndex(k)
BY HomeIsSlot, ServerAssumption DEF H!At, H!Slots

\* put stops at the home of a key when it finds it in use.
LEMMA PutStopsAtHome ==
    ASSUME NEW k \in Keys, H!SameKey(nodes, H!GetIndex(k), k)
    PROVE  H!PutStop(nodes, k) = {H!GetIndex(k)}
<1> DEFINE D == {d \in H!Slots : LET i == H!At(H!GetIndex(k), d)
                                 IN  H!Vacant(nodes, i) \/ H!SameKey(nodes, i, k)}
<1>1. 0 \in D /\ D \subseteq H!Slots
  BY ONLY Zenon, ZeroIsSlot, HomeIsFirst, k \in Keys, H!SameKey(nodes, H!GetIndex(k), k)
<1>2. H!PutStop(nodes, k) = {H!At(H!GetIndex(k), d) : d \in H!Nearest(D)}
  BY ONLY Zenon DEF H!PutStop
<1> HIDE DEF D
<1> QED BY ONLY Zenon, <1>1, <1>2, NearestHome, k \in Keys

\* The steps of a search stay in the table.
LEMMA AtIsSlot ==
    ASSUME NEW h \in H!Slots, NEW d \in H!Slots
    PROVE  H!At(h, d) \in H!Slots
<1>1. Capacity \in Nat /\ h \in 0 .. Capacity - 1 /\ d \in 0 .. Capacity - 1
  BY ServerAssumption DEF H!Slots
<1>2. CASE h + d < Capacity
  BY ONLY <1>1, <1>2 DEF H!At, H!Slots
<1>3. CASE ~(h + d < Capacity)
  BY ONLY <1>1, <1>3 DEF H!At, H!Slots
<1> QED BY <1>2, <1>3

\* get finds a key at its home, or nowhere.
LEMMA GetStopsAtHome ==
    ASSUME OneAtATime, NEW S, Table(S), NEW k \in Keys
    PROVE  H!GetStop(nodes, k) = IF H!Live(nodes, H!GetIndex(k)) THEN {H!GetIndex(k)} ELSE {}
<1> DEFINE D == {d \in H!Slots : LET i == H!At(H!GetIndex(k), d)
                                 IN  H!SameKey(nodes, i, k) /\ ~nodes[i].tombstone}
<1>1. H!GetStop(nodes, k) = {H!At(H!GetIndex(k), d) : d \in H!Nearest(D)}
  BY ONLY Zenon DEF H!GetStop
<1>2. CASE H!Live(nodes, H!GetIndex(k))
  <2>1. H!SameKey(nodes, H!GetIndex(k), k) /\ ~nodes[H!GetIndex(k)].tombstone
    BY <1>2, HomeIsKeys DEF H!Live
  <2>2. 0 \in D /\ D \subseteq H!Slots
    BY ONLY Zenon, <2>1, ZeroIsSlot, HomeIsFirst, k \in Keys
  <2> HIDE DEF D
  <2>3. {H!At(H!GetIndex(k), d) : d \in H!Nearest(D)} = {H!GetIndex(k)}
    BY ONLY Zenon, <2>2, NearestHome, k \in Keys
  <2> QED BY ONLY Zenon, <1>1, <1>2, <2>3
<1>3. CASE ~H!Live(nodes, H!GetIndex(k))
  <2>1. ASSUME NEW d \in D PROVE FALSE
    <3>1. PICK i : i = H!At(H!GetIndex(k), d)
      OBVIOUS
    <3>2. i \in H!Slots /\ H!SameKey(nodes, i, k) /\ ~nodes[i].tombstone
      BY <2>1, <3>1, AtIsSlot, HomeIsSlot
    <3>3. i = H!GetIndex(k)
      BY <3>2, KeyAtHome
    <3> QED BY ONLY Zenon, <1>3, <3>2, <3>3 DEF H!Live, H!SameKey
  <2>2. D = {}
    BY ONLY Zenon, <2>1
  <2> HIDE DEF D
  <2>3. H!Nearest(D) = {}
    BY ONLY Zenon, <2>2 DEF H!Nearest
  <2>4. {H!At(H!GetIndex(k), d) : d \in H!Nearest(D)} = {}
    BY ONLY Zenon, <2>3
  <2> QED BY ONLY Zenon, <1>1, <1>3, <2>4
<1> QED BY <1>2, <1>3

\* delete finds a key at its home, or nowhere.
LEMMA DeleteStopsAtHome ==
    ASSUME OneAtATime, NEW S, Table(S), NEW k \in Keys
    PROVE  H!DeleteStop(nodes, k) = IF H!Live(nodes, H!GetIndex(k)) THEN {H!GetIndex(k)} ELSE {}
<1> DEFINE home == H!GetIndex(k)
           D == {i \in home .. Capacity - 1 : (H!SameKey(nodes, i, k) /\ ~nodes[i].tombstone)
                                              \/ H!Empty(nodes, i)}
<1>1. H!DeleteStop(nodes, k) = {i \in H!Nearest(D) : ~H!Empty(nodes, i)}
  BY ONLY Zenon DEF H!DeleteStop
<1>2. home \in Nat /\ Capacity \in Nat /\ home \in home .. Capacity - 1 /\ home \in H!Slots
  BY HomeIsSlot, ServerAssumption DEF H!Slots
<1>3. \A i \in home .. Capacity - 1 : i \in Nat /\ home <= i /\ i \in H!Slots
  BY <1>2 DEF H!Slots
<1>4. CASE H!Live(nodes, home)
  <2>1. H!SameKey(nodes, home, k) /\ ~nodes[home].tombstone
    BY <1>4, HomeIsKeys DEF H!Live
  <2>2. home \in D /\ D \subseteq home .. Capacity - 1
    BY ONLY Zenon, <2>1, <1>2
  <2>3. ~H!Empty(nodes, home)
    BY ONLY Zenon, <1>4 DEF H!Live, H!Empty
  <2>4. PICK h, E : h = home /\ E = D
    OBVIOUS
  <2>5. h \in E /\ \A d \in E : d \in Nat /\ h <= d
    BY ONLY Zenon, <1>3, <2>2, <2>4
  <2>6. H!Nearest(E) = {h}
    BY ONLY <2>5 DEF H!Nearest
  <2> HIDE DEF D, home
  <2> QED BY ONLY Zenon, <1>1, <1>4, <2>3, <2>4, <2>6 DEF home
<1>5. CASE ~H!Live(nodes, home)
  <2>1. ASSUME NEW i \in D PROVE H!Empty(nodes, i)
    <3>1. i \in H!Slots /\ ((H!SameKey(nodes, i, k) /\ ~nodes[i].tombstone) \/ H!Empty(nodes, i))
      BY <1>3, <2>1
    <3>2. CASE H!SameKey(nodes, i, k) /\ ~nodes[i].tombstone
      <4>1. i = home
        BY <3>1, <3>2, KeyAtHome
      <4> QED BY ONLY Zenon, <1>5, <3>2, <4>1 DEF H!Live, H!SameKey
    <3> QED BY <3>1, <3>2
  <2> HIDE DEF D
  <2>2. {i \in H!Nearest(D) : ~H!Empty(nodes, i)} = {}
    BY ONLY Zenon, <2>1 DEF H!Nearest
  <2> QED BY ONLY Zenon, <1>1, <1>5, <2>2
<1> QED BY <1>4, <1>5

\* A slot is filled for its key.
LEMMA TablePut ==
    ASSUME OneAtATime, nodes \in [H!Slots -> Slot], request' = request,
           NEW S \in Holders, Table(S), NEW k \in Keys, NEW c \in Conns,
           NEW s, s.kbase # NULL, s.kbase.key = k, ~s.tombstone, s.vbase # NULL, s.vbase.id = CallOf(c),
           s.vlen \in SizesOf(c),
           nodes' = [nodes EXCEPT ![H!GetIndex(k)] = s]
    PROVE  Table([S EXCEPT ![k] = c])'
<1>1. PICK h, T : h = H!GetIndex(k) /\ T = [S EXCEPT ![k] = c]
  OBVIOUS
<1>2. h \in H!Slots
  BY <1>1, HomeIsSlot
<1>3. nodes'[h] = s /\ \A i \in H!Slots : i # h => nodes'[i] = nodes[i]
  BY <1>1, <1>2
<1>4. T[k] = c /\ \A j \in Keys : j # k => T[j] = S[j]
  BY <1>1 DEF Holders
<1>5. c # NULL
  BY RequestsAssumption
<1>6. \A x : CallOf(x)' = CallOf(x) /\ SizesOf(x)' = SizesOf(x)
  BY SameSizes DEF CallOf
<1>7. ASSUME NEW i \in H!Slots PROVE HomeOf(i)'
  <2>1. CASE i = h
    BY ONLY Zenon, <1>1, <1>3, <2>1, s.kbase.key = k, k \in Keys DEF HomeOf
  <2>2. CASE i # h
    <3>1. HomeOf(i) /\ nodes'[i] = nodes[i]
      BY ONLY Zenon, <1>3, <2>2, i \in H!Slots, Table(S) DEF Table
    <3> QED BY ONLY Zenon, <3>1 DEF HomeOf
  <2> QED BY <2>1, <2>2
<1>8. ASSUME NEW j \in Keys PROVE ValueOf(j, T[j])'
  <2>1. CASE j = k
    <3>1. CallOf(c)' = CallOf(c) /\ SizesOf(c)' = SizesOf(c)
      BY ONLY Zenon, <1>6
    <3> QED BY ONLY Zenon, <1>1, <1>3, <1>4, <1>5, <3>1, <2>1, s.kbase # NULL, ~s.tombstone,
                           s.vbase # NULL, s.vbase.id = CallOf(c), s.vlen \in SizesOf(c) DEF ValueOf, H!Live
  <2>2. CASE j # k
    <3>1. H!GetIndex(j) \in H!Slots /\ H!GetIndex(j) # h
      BY <1>1, <2>2, HomeIsSlot DEF OneAtATime
    <3>2. ValueOf(j, S[j]) /\ T[j] = S[j] /\ nodes'[H!GetIndex(j)] = nodes[H!GetIndex(j)]
      BY ONLY Zenon, <1>3, <1>4, <2>2, <3>1, j \in Keys, Table(S) DEF Table
    <3>3. CallOf(S[j])' = CallOf(S[j]) /\ SizesOf(S[j])' = SizesOf(S[j])
      BY ONLY Zenon, <1>6
    <3> QED BY ONLY Zenon, <3>2, <3>3 DEF ValueOf, H!Live
  <2> QED BY <2>1, <2>2
<1>9. Table(T)'
  BY ONLY Zenon, <1>7, <1>8 DEF Table
<1> QED BY ONLY Zenon, <1>1, <1>9

\* A key's slot is given up, if it has one.
LEMMA TableErase ==
    ASSUME OneAtATime, nodes \in [H!Slots -> Slot], request' = request,
           NEW S \in Holders, Table(S), NEW k \in Keys,
           \/ nodes' = nodes /\ ~H!Live(nodes, H!GetIndex(k))
           \/ nodes' = [nodes EXCEPT ![H!GetIndex(k)].tombstone = TRUE]
    PROVE  Table([S EXCEPT ![k] = NULL])'
<1>1. PICK h, T : h = H!GetIndex(k) /\ T = [S EXCEPT ![k] = NULL]
  OBVIOUS
<1>2. h \in H!Slots
  BY <1>1, HomeIsSlot
<1>3. nodes'[h].kbase = nodes[h].kbase /\ ~H!Live(nodes', h) /\ \A i \in H!Slots : i # h => nodes'[i] = nodes[i]
  <2>1. CASE nodes' = nodes /\ ~H!Live(nodes, h)
    BY ONLY Zenon, <2>1
  <2>2. CASE nodes' = [nodes EXCEPT ![h].tombstone = TRUE]
    <3>1. nodes[h] \in Slot /\ nodes'[h] = [nodes[h] EXCEPT !.tombstone = TRUE]
      BY <1>2, <2>2
    <3>2. nodes'[h].kbase = nodes[h].kbase /\ nodes'[h].tombstone
      BY ONLY <3>1 DEF Slot
    <3> QED BY <1>2, <2>2, <3>2 DEF H!Live
  <2> QED BY ONLY Zenon, <1>1, <2>1, <2>2, \/ nodes' = nodes /\ ~H!Live(nodes, H!GetIndex(k))
                                         \/ nodes' = [nodes EXCEPT ![H!GetIndex(k)].tombstone = TRUE]
<1>4. T[k] = NULL /\ \A j \in Keys : j # k => T[j] = S[j]
  BY <1>1 DEF Holders
<1>5. \A x : CallOf(x)' = CallOf(x) /\ SizesOf(x)' = SizesOf(x)
  BY SameSizes DEF CallOf
<1>6. ASSUME NEW i \in H!Slots PROVE HomeOf(i)'
  <2>1. HomeOf(i) /\ nodes'[i].kbase = nodes[i].kbase
    BY ONLY Zenon, <1>3, i \in H!Slots, Table(S) DEF Table
  <2> QED BY ONLY Zenon, <2>1 DEF HomeOf
<1>7. ASSUME NEW j \in Keys PROVE ValueOf(j, T[j])'
  <2>1. CASE j = k
    BY ONLY Zenon, <1>1, <1>3, <1>4, <2>1 DEF ValueOf
  <2>2. CASE j # k
    <3>1. H!GetIndex(j) \in H!Slots /\ H!GetIndex(j) # h
      BY <1>1, <2>2, HomeIsSlot DEF OneAtATime
    <3>2. ValueOf(j, S[j]) /\ T[j] = S[j] /\ nodes'[H!GetIndex(j)] = nodes[H!GetIndex(j)]
      BY ONLY Zenon, <1>3, <1>4, <2>2, <3>1, j \in Keys, Table(S) DEF Table
    <3>3. CallOf(S[j])' = CallOf(S[j]) /\ SizesOf(S[j])' = SizesOf(S[j])
      BY ONLY Zenon, <1>5
    <3> QED BY ONLY Zenon, <3>2, <3>3 DEF ValueOf, H!Live
  <2> QED BY <2>1, <2>2
<1>8. Table(T)'
  BY ONLY Zenon, <1>6, <1>7 DEF Table
<1> QED BY ONLY Zenon, <1>1, <1>8

\* Every slot is given up.
LEMMA TableWipe ==
    ASSUME nodes \in [H!Slots -> Slot], NEW S, Table(S),
           nodes' = [i \in H!Slots |-> [nodes[i] EXCEPT !.tombstone = TRUE]]
    PROVE  Table(Nothing)'
<1>1. ASSUME NEW i \in H!Slots
      PROVE  nodes'[i].kbase = nodes[i].kbase /\ nodes'[i].tombstone
  <2>1. nodes[i] \in Slot /\ nodes'[i] = [nodes[i] EXCEPT !.tombstone = TRUE]
    OBVIOUS
  <2> QED BY ONLY <2>1 DEF Slot
<1>2. ASSUME NEW i \in H!Slots PROVE HomeOf(i)'
  <2>1. HomeOf(i)
    BY ONLY Zenon, i \in H!Slots, Table(S) DEF Table
  <2> QED BY ONLY Zenon, <1>1, <2>1, i \in H!Slots DEF HomeOf
<1>3. ASSUME NEW j \in Keys PROVE ValueOf(j, Nothing[j])'
  <2>1. Nothing[j] = NULL
    BY DEF Nothing
  <2>2. H!GetIndex(j) \in H!Slots
    BY HomeIsSlot
  <2>3. ~H!Live(nodes', H!GetIndex(j))
    BY ONLY Zenon, <1>1, <2>2 DEF H!Live
  <2> QED BY ONLY Zenon, <2>1, <2>3 DEF ValueOf
<1> QED BY ONLY Zenon, <1>2, <1>3 DEF Table

-----------------------------------------------------------------------------
(* The calls that write *)

\* The places of a call that writes, and the steps from there.
LEMMA WriterSteps ==
    ASSUME Types, Shapes, NEW w \in Workers, H!Continue(w),
           map_pc[w] \in {"lock", "body", "unlock", "del_ret", "idle"},
           call[w].op \in {"put", "delete", "clear"}
    PROVE  /\ calls' = calls /\ call' = call
           /\ \/ map_pc[w] = "lock" /\ map_pc'[w] = "body" /\ UNCHANGED <<nodes, ret>>
              \/ map_pc[w] = "unlock" /\ map_pc'[w] \in {"idle", "del_ret"} /\ UNCHANGED <<nodes, ret>>
              \/ map_pc[w] = "del_ret" /\ map_pc'[w] = "idle" /\ ret'[w].ok /\ nodes' = nodes
              \/ /\ map_pc[w] = "body"
                 /\ \/ H!PutHome(w) \/ H!PutEvict(w) \/ H!PutProbe(w) \/ H!PutFallThrough(w)
                    \/ H!DeleteBody(w) \/ H!ClearBody(w)
<1> USE DEF Shapes, H!Goto, H!Returning, H!fields, H!Is, H!InBody
<1>1. CASE H!PutHome(w) \/ H!PutEvict(w) \/ H!PutProbe(w) \/ H!PutFallThrough(w)
  BY <1>1 DEF H!PutHome, H!PutEvict, H!PutProbe, H!PutFallThrough, H!Probing
<1>2. CASE H!DeleteBody(w) \/ H!ClearBody(w)
  BY <1>2 DEF H!DeleteBody, H!ClearBody
<1>3. CASE H!DeleteReturn(w)
  BY <1>3 DEF H!DeleteReturn
<1>4. CASE H!FreeBody(w)
  BY <1>4 DEF H!FreeBody
<1>5. CASE H!WriteLock(w)
  BY <1>5 DEF H!WriteLock
<1>6. CASE H!WriteUnlock(w)
  BY <1>6 DEF H!WriteUnlock
<1>7. CASE H!Read(w)
  BY <1>7 DEF H!Read, H!GetCount, H!GetWriteLock, H!GetOpen, H!GetScan, H!GetLeave, H!GetReadBase, H!GetReadLen
<1> QED BY <1>1, <1>2, <1>3, <1>4, <1>5, <1>6, <1>7 DEF H!Continue, H!Write

\* put leaves the value at the key's home, with its length or the one it finds there.
LEMMA PutWrites ==
    ASSUME OneAtATime, Types, Shapes, request' = request, NEW S \in Holders, Table(S), NEW c \in Conns,
           NEW w \in Workers, NEW k \in Keys, call[w].key = k, call[w].id = CallOf(c),
           H!Handed(call[w]) # NULL, call[w].len \in SizesOf(c), S[k] # NULL => SizesOf(S[k]) \subseteq SizesOf(c),
           H!PutHome(w) \/ H!PutEvict(w) \/ H!PutProbe(w) \/ H!PutFallThrough(w)
    PROVE  Table([S EXCEPT ![k] = c])' /\ map_pc'[w] = "unlock" /\ ret'[w].ok
<1>1. PICK h, v : h = H!GetIndex(k) /\ v = H!Handed(call[w])
  OBVIOUS
<1>2. /\ k \in Keys /\ h \in H!Slots /\ v # NULL /\ v.key = k /\ v.id = CallOf(c)
      /\ H!Home(w) = h /\ nodes[h] \in Slot
  BY <1>1, HomeIsSlot DEF H!Handed, H!Home, Types
<1>3. H!Succeeded.ok
  BY DEF H!Succeeded, H!Failed
<1>4. nodes \in [H!Slots -> Slot]
  BY DEF Types
<1>5. ASSUME NEW s, s.kbase # NULL, s.kbase.key = k, ~s.tombstone, s.vbase = v, s.vlen \in SizesOf(c),
             nodes' = [nodes EXCEPT ![h] = s], H!Goto(w, "unlock"), ret' = [ret EXCEPT ![w] = H!Succeeded]
      PROVE  Table([S EXCEPT ![k] = c])' /\ map_pc'[w] = "unlock" /\ ret'[w].ok
  <2>1. nodes' = [nodes EXCEPT ![H!GetIndex(k)] = s] /\ s.vbase # NULL /\ s.vbase.id = CallOf(c)
    BY ONLY Zenon, <1>1, <1>2, <1>5
  <2>2. Table([S EXCEPT ![k] = c])'
    BY <1>2, <1>4, <1>5, <2>1, TablePut
  <2>3. map_pc'[w] = "unlock" /\ ret'[w] = H!Succeeded
    BY <1>5 DEF H!Goto, Shapes
  <2> QED BY ONLY Zenon, <1>1, <1>3, <2>2, <2>3
<1>6. /\ H!Filled(call[w]).kbase = v /\ H!Filled(call[w]).vbase = v /\ ~H!Filled(call[w]).tombstone
      /\ H!Filled(call[w]).vlen \in SizesOf(c)
  BY <1>1 DEF H!Filled
<1>7. CASE H!PutHome(w)
  <2>1. /\ nodes' = [nodes EXCEPT ![h] = H!Filled(call[w])]
        /\ H!Goto(w, "unlock") /\ ret' = [ret EXCEPT ![w] = H!Succeeded]
    BY <1>2, <1>7 DEF H!PutHome
  <2> QED BY <1>2, <1>5, <1>6, <2>1
<1>8. ASSUME ~H!Vacant(nodes, h)
      PROVE  H!SameKey(nodes, h, k) /\ nodes[h].kbase # NULL /\ nodes[h].kbase.key = k /\ ~nodes[h].tombstone
  <2>1. nodes[h].kbase # NULL /\ ~nodes[h].tombstone
    BY <1>8 DEF H!Vacant
  <2>2. H!SameKey(nodes, h, k)
    BY <1>1, <1>2, <2>1, HomeIsKeys
  <2> QED BY <2>1, <2>2 DEF H!SameKey
<1>9. CASE H!PutEvict(w)
  <2> DEFINE s == [nodes[h] EXCEPT !.vbase = v, !.vlen = call[w].len]
  <2>1. ~H!Vacant(nodes, h)
    BY <1>2, <1>9 DEF H!PutEvict
  <2>2. H!SameKey(nodes, h, k) /\ nodes[h].kbase # NULL /\ nodes[h].kbase.key = k /\ ~nodes[h].tombstone
    BY <1>8, <2>1
  <2>3. /\ nodes' = [nodes EXCEPT ![h].vbase = v, ![h].vlen = call[w].len]
        /\ H!Goto(w, "unlock") /\ ret' = [ret EXCEPT ![w] = H!Succeeded]
    BY <1>1, <1>2, <1>9, <2>2 DEF H!PutEvict
  <2>4. nodes' = [nodes EXCEPT ![h] = s]
    BY <1>2, <1>4, <2>3
  <2>5. s.kbase = nodes[h].kbase /\ s.tombstone = nodes[h].tombstone /\ s.vbase = v /\ s.vlen = call[w].len
    BY <1>2 DEF Slot
  <2> HIDE DEF s
  <2>6. s.kbase # NULL /\ s.kbase.key = k /\ ~s.tombstone /\ s.vlen \in SizesOf(c)
    BY ONLY Zenon, <2>2, <2>5, call[w].len \in SizesOf(c)
  <2> QED BY <1>5, <2>3, <2>4, <2>5, <2>6
<1>10. ASSUME H!Probing(w)
       PROVE  H!PutStop(nodes, call[w].key) = {h} /\ ~H!Vacant(nodes, h) /\ H!SameKey(nodes, h, k)
  <2>1. ~H!Vacant(nodes, h)
    BY <1>2, <1>10 DEF H!Probing
  <2>2. H!SameKey(nodes, h, k)
    BY <1>8, <2>1
  <2> QED BY <1>1, <1>2, <2>1, <2>2, PutStopsAtHome
<1>11. CASE H!PutProbe(w)
  <2> DEFINE s == [nodes[h] EXCEPT !.vbase = v]
  <2>1. H!PutStop(nodes, call[w].key) = {h} /\ ~H!Vacant(nodes, h)
    BY <1>10, <1>11 DEF H!PutProbe
  <2>2. nodes[h].kbase # NULL /\ nodes[h].kbase.key = k /\ ~nodes[h].tombstone
    BY <1>8, <2>1
  <2>3. /\ nodes' = [nodes EXCEPT ![h].vbase = v]
        /\ H!Goto(w, "unlock") /\ ret' = [ret EXCEPT ![w] = H!Succeeded]
    BY <1>1, <1>11, <2>1 DEF H!PutProbe
  <2>4. nodes' = [nodes EXCEPT ![h] = s]
    BY <1>2, <1>4, <2>3
  <2>5. s.kbase = nodes[h].kbase /\ s.tombstone = nodes[h].tombstone /\ s.vbase = v /\ s.vlen = nodes[h].vlen
    BY <1>2 DEF Slot
  <2> HIDE DEF s
  <2>6. nodes[h].vlen \in SizesOf(c)
    <3>1. ValueOf(k, S[k]) /\ H!Live(nodes, h)
      BY ONLY Zenon, <2>2, Table(S), k \in Keys DEF Table, H!Live
    <3>2. S[k] # NULL /\ nodes[h].vlen \in SizesOf(S[k])
      BY ONLY Zenon, <1>1, <3>1 DEF ValueOf
    <3> QED BY ONLY <3>2, S[k] # NULL => SizesOf(S[k]) \subseteq SizesOf(c)
  <2>7. s.kbase # NULL /\ s.kbase.key = k /\ ~s.tombstone /\ s.vlen \in SizesOf(c)
    BY ONLY Zenon, <2>2, <2>5, <2>6
  <2> QED BY <1>5, <2>3, <2>4, <2>5, <2>7
<1>12. CASE H!PutFallThrough(w)
  BY <1>10, <1>12 DEF H!PutFallThrough
<1> QED BY <1>7, <1>9, <1>11, <1>12

\* delete gives the key's slot up if it has one.
LEMMA DeleteWrites ==
    ASSUME OneAtATime, Types, Shapes, request' = request, NEW S \in Holders, Table(S),
           NEW w \in Workers, NEW k \in Keys, call[w].key = k, H!DeleteBody(w)
    PROVE  Table([S EXCEPT ![k] = NULL])' /\ map_pc'[w] = "unlock"
<1>1. PICK h : h = H!GetIndex(k)
  OBVIOUS
<1>2. k \in Keys
  OBVIOUS
<1>3. nodes \in [H!Slots -> Slot]
  BY DEF Types
<1>4. H!DeleteStop(nodes, k) = IF H!Live(nodes, h) THEN {h} ELSE {}
  BY <1>1, <1>2, DeleteStopsAtHome
<1>5. \/ H!DeleteStop(nodes, k) = {} /\ nodes' = nodes
      \/ \E i \in H!DeleteStop(nodes, k) : nodes' = [nodes EXCEPT ![i].tombstone = TRUE]
  BY <1>1 DEF H!DeleteBody
<1>6. \/ nodes' = nodes /\ ~H!Live(nodes, H!GetIndex(k))
      \/ nodes' = [nodes EXCEPT ![H!GetIndex(k)].tombstone = TRUE]
  BY <1>1, <1>4, <1>5
<1>7. Table([S EXCEPT ![k] = NULL])'
  BY <1>2, <1>3, <1>6, TableErase
<1>8. map_pc'[w] = "unlock"
  BY DEF H!DeleteBody, H!Goto, Shapes
<1> QED BY <1>7, <1>8

\* clear_map gives every slot up.
LEMMA ClearWrites ==
    ASSUME Types, Shapes, NEW S, Table(S), NEW w \in Workers, H!ClearBody(w)
    PROVE  Table(Nothing)' /\ map_pc'[w] = "unlock" /\ ret'[w].ok
<1>1. nodes \in [H!Slots -> Slot] /\ nodes' = [i \in H!Slots |-> [nodes[i] EXCEPT !.tombstone = TRUE]]
  BY DEF Types, H!ClearBody
<1>2. Table(Nothing)'
  BY <1>1, TableWipe
<1>3. map_pc'[w] = "unlock" /\ ret'[w] = H!Succeeded
  BY DEF H!ClearBody, H!Goto, Shapes
<1> QED BY <1>2, <1>3 DEF H!Succeeded, H!Failed

\* A call that writes has the effect of its request on the table, when it does.
LEMMA WriterKeeps ==
    ASSUME OneAtATime, Types, Shapes, request' = request, NEW c \in Conns, NEW w \in Workers,
           InCall(w, c), request[c].op # "GET", H!Continue(w)
    PROVE  InCall(w, c)'
<1> DEFINE r == request[c]
<1>1. CallsMap(r) /\ calls = CallOf(c) /\ Writing(w, c) /\ call[w].op \in {"put", "delete", "clear"}
  BY DEF InCall
<1>2. map_pc[w] \in {"lock", "body", "unlock", "del_ret", "idle"}
  BY <1>1 DEF Writing
<1>3. /\ calls' = calls /\ call' = call
      /\ \/ map_pc[w] = "lock" /\ map_pc'[w] = "body" /\ UNCHANGED <<nodes, ret>>
         \/ map_pc[w] = "unlock" /\ map_pc'[w] \in {"idle", "del_ret"} /\ UNCHANGED <<nodes, ret>>
         \/ map_pc[w] = "del_ret" /\ map_pc'[w] = "idle" /\ ret'[w].ok /\ nodes' = nodes
         \/ /\ map_pc[w] = "body"
            /\ \/ H!PutHome(w) \/ H!PutEvict(w) \/ H!PutProbe(w) \/ H!PutFallThrough(w)
               \/ H!DeleteBody(w) \/ H!ClearBody(w)
  BY <1>1, <1>2, WriterSteps
<1>4. CallOf(c)' = CallOf(c) /\ Stored' = Stored
  BY SameRequests DEF CallOf
<1>5. Writing(w, c)'
  <2>1. CASE nodes' = nodes /\ map_pc[w] # "body"
    <3>1. (Table(Stored[c])' <=> Table(Stored[c])) /\ (Table(Stored[c - 1])' <=> Table(Stored[c - 1]))
      BY <2>1, SameTable
    <3>2. CASE map_pc[w] = "lock"
      <4>1. map_pc'[w] = "body" /\ Table(Stored[c - 1])
        BY <1>1, <1>3, <3>2 DEF Writing
      <4> QED BY <3>1, <4>1 DEF Writing
    <3>3. CASE map_pc[w] # "lock"
      <4>1. /\ map_pc'[w] \in {"unlock", "del_ret", "idle"} /\ Table(Stored[c])
            /\ call'[w].op \in {"put", "clear"} => ret'[w].ok
        BY <1>1, <1>3, <2>1, <3>3 DEF Writing
      <4> QED BY <3>1, <4>1 DEF Writing
    <3> QED BY <3>2, <3>3
  <2>2. CASE map_pc[w] = "body"
    <3>1. /\ \/ H!PutHome(w) \/ H!PutEvict(w) \/ H!PutProbe(w) \/ H!PutFallThrough(w)
             \/ H!DeleteBody(w) \/ H!ClearBody(w)
          /\ Table(Stored[c - 1])
      BY <1>1, <1>3, <2>2 DEF Writing
    <3>2. PICK S, T : S = Stored[c - 1] /\ T = Stored[c]
      OBVIOUS
    <3>3. S \in Holders /\ T = Effect(S, r, c)
      <4>1. c - 1 \in 0 .. MaxItems
        BY ServerAssumption DEF Conns
      <4>2. Stored[c] = Effect(Stored[c - 1], r, c) /\ Stored[c - 1] \in Holders
        BY ONLY StoredSteps, <4>1, c \in Conns DEF Leaves
      <4> QED BY ONLY Zenon, <3>2, <4>2
    <3>4. Table(S)
      BY ONLY Zenon, <3>1, <3>2
    <3>5. Table(T)' => Table(Stored[c])'
      BY ONLY Zenon, <1>4, <3>2
    <3>6. CASE r.op = "PUT"
      <4>1. /\ call[w].key = r.key /\ r.key \in Keys /\ call[w].op = "put" /\ call[w].id = CallOf(c)
            /\ H!Handed(call[w]) # NULL /\ call[w].len = r.vsize
        BY <3>6 DEF InCall
      <4>2. H!PutHome(w) \/ H!PutEvict(w) \/ H!PutProbe(w) \/ H!PutFallThrough(w)
        BY <3>1, <4>1 DEF H!DeleteBody, H!ClearBody, H!InBody
      <4>3. PICK k : k = r.key
        OBVIOUS
      <4>4. k \in Keys /\ call[w].key = k
        BY ONLY Zenon, <4>1, <4>3
      <4>8. call[w].len \in SizesOf(c)
        BY <1>1, <3>6, <4>1, OwnSize
      <4>9. S[k] # NULL => SizesOf(S[k]) \subseteq SizesOf(c)
        BY <1>1, <3>2, <3>6, <4>1, <4>3, KeptSizes
      <4>5. Table([S EXCEPT ![k] = c])' /\ map_pc'[w] = "unlock" /\ ret'[w].ok
        BY <3>3, <3>4, <4>1, <4>2, <4>4, <4>8, <4>9, PutWrites
      <4>6. T = [S EXCEPT ![k] = c]
        BY <1>1, <3>3, <3>6, <4>3 DEF Effect
      <4>7. Table(T)'
        BY ONLY Zenon, <4>5, <4>6
      <4> QED BY <3>5, <4>5, <4>7 DEF Writing
    <3>7. CASE r.op = "EVICT"
      <4>1. call[w].key = r.key /\ r.key \in Keys /\ call[w].op = "delete"
        BY <3>7 DEF InCall
      <4>2. H!DeleteBody(w)
        BY <3>1, <4>1 DEF H!PutHome, H!PutEvict, H!PutProbe, H!PutFallThrough, H!Probing, H!ClearBody, H!InBody
      <4>3. PICK k : k = r.key
        OBVIOUS
      <4>4. k \in Keys /\ call[w].key = k
        BY ONLY Zenon, <4>1, <4>3
      <4>5. Table([S EXCEPT ![k] = NULL])' /\ map_pc'[w] = "unlock"
        BY <3>3, <3>4, <4>2, <4>4, DeleteWrites
      <4>6. T = [S EXCEPT ![k] = NULL]
        BY <1>1, <3>3, <3>7, <4>3 DEF Effect
      <4>7. Table(T)'
        BY ONLY Zenon, <4>5, <4>6
      <4>8. call'[w].op \notin {"put", "clear"}
        BY <1>3, <4>1
      <4> QED BY <3>5, <4>5, <4>7, <4>8 DEF Writing
    <3>8. CASE r.op = "CLEAR"
      <4>1. call[w].op = "clear"
        BY <3>8 DEF InCall
      <4>2. H!ClearBody(w)
        BY <3>1, <4>1 DEF H!PutHome, H!PutEvict, H!PutProbe, H!PutFallThrough, H!Probing, H!DeleteBody, H!InBody
      <4>3. Table(Nothing)' /\ map_pc'[w] = "unlock" /\ ret'[w].ok
        BY <3>4, <4>2, ClearWrites
      <4>4. T = Nothing
        BY <3>3, <3>8 DEF Effect, Nothing
      <4>5. Table(T)'
        BY ONLY Zenon, <4>3, <4>4
      <4> QED BY <3>5, <4>3, <4>5 DEF Writing
    <3> QED BY <3>6, <3>7, <3>8 DEF InCall
  <2> QED BY <1>3, <2>1, <2>2
<1> QED BY ONLY Zenon, <1>3, <1>4, <1>5, request' = request, InCall(w, c), request[c].op # "GET"
           DEF InCall, CallsMap, Settled, BadKey, BadValue, H!Handed

-----------------------------------------------------------------------------
(* The call that reads *)

\* The places of get, and the steps from there.
LEMMA ReaderSteps ==
    ASSUME Types, Shapes, NEW w \in Workers, H!Continue(w),
           map_pc[w] \notin {"lock", "body", "unlock", "del_ret"}
    PROVE  /\ UNCHANGED <<nodes, calls, call>>
           /\ \/ /\ map_pc[w] \in {"get_enter", "get_wlock", "get_open"}
                 /\ map_pc'[w] \in {"get_wlock", "get_open", "get_scan"}
                 /\ UNCHANGED <<loc, ret>>
              \/ map_pc[w] = "get_scan" /\ map_pc'[w] = "get_leave" /\ ret' = ret /\ H!GetScan(w)
              \/ map_pc[w] = "get_leave" /\ H!GetLeave(w) /\ loc' = loc
              \/ map_pc[w] \in {"get_read", "get_base"} /\ H!GetReadBase(w) /\ loc' = loc
              \/ map_pc[w] \in {"get_read", "get_len"} /\ H!GetReadLen(w) /\ loc' = loc
<1> USE DEF Shapes, H!Goto, H!Returning, H!fields, H!Is, H!InBody
<1>1. H!Read(w)
  BY DEF H!Continue, H!Write, H!WriteLock, H!WriteUnlock, H!PutHome, H!PutEvict, H!PutProbe, H!PutFallThrough,
         H!Probing, H!DeleteBody, H!DeleteReturn, H!ClearBody, H!FreeBody
<1>2. CASE H!GetCount(w) \/ H!GetWriteLock(w) \/ H!GetOpen(w)
  BY <1>2 DEF H!GetCount, H!GetWriteLock, H!GetOpen
<1>3. CASE H!GetScan(w)
  BY <1>3 DEF H!GetScan
<1>4. CASE H!GetLeave(w)
  BY <1>4 DEF H!GetLeave
<1>5. CASE H!GetReadBase(w)
  BY <1>5 DEF H!GetReadBase
<1>6. CASE H!GetReadLen(w)
  BY <1>6 DEF H!GetReadLen
<1> QED BY <1>1, <1>2, <1>3, <1>4, <1>5, <1>6 DEF H!Read

\* get finds the key at its home if the cache has it.
LEMMA ScanFinds ==
    ASSUME OneAtATime, Shapes, NEW S, Table(S), NEW k \in Keys, NEW w \in Workers,
           call[w].key = k, loc[w].kind = "none", H!GetScan(w)
    PROVE  IF S[k] = NULL THEN loc'[w].kind = "none" ELSE FoundAt(w, k)'
<1>1. PICK h : h = H!GetIndex(k)
  OBVIOUS
<1>2. H!GetStop(nodes, k) = IF H!Live(nodes, h) THEN {h} ELSE {}
  BY <1>1, GetStopsAtHome
<1>3. ValueOf(k, S[k])
  BY DEF Table
<1>4. CASE S[k] = NULL
  <2>1. ~H!Live(nodes, h)
    BY <1>1, <1>3, <1>4 DEF ValueOf
  <2>2. loc' = loc
    BY <1>2, <2>1 DEF H!GetScan
  <2> QED BY <1>4, <2>2
<1>5. CASE S[k] # NULL
  <2>1. H!Live(nodes, h)
    BY <1>1, <1>3, <1>5 DEF ValueOf
  <2>2. H!Home(w) = h /\ h >= h
    BY <1>1, HomeIsSlot DEF H!Home, H!Slots
  <2>3. H!GetStop(nodes, call[w].key) = {h}
    BY <1>2, <2>1
  <2>4. loc' = [loc EXCEPT ![w] = [kind |-> "here", slot |-> h]]
    BY <2>2, <2>3 DEF H!GetScan
  <2>5. loc'[w].kind = "here" /\ loc'[w].slot = h
    BY <2>4 DEF Shapes
  <2> QED BY ONLY Zenon, <1>1, <1>5, <2>5 DEF FoundAt
<1> QED BY <1>4, <1>5

\* What get returns is read from the key's home.
LEMMA ReadFinds ==
    ASSUME Shapes, NEW S, Table(S), NEW k \in Keys, S[k] # NULL, NEW w \in Workers,
           FoundAt(w, k), IsReturn(ret[w])
    PROVE  /\ H!GetReadBase(w) =>
                /\ IsReturn(ret'[w]) /\ ret'[w].base # NULL /\ ret'[w].base.id = CallOf(S[k])
                /\ ret'[w].len = ret[w].len
                /\ map_pc'[w] = IF map_pc[w] = "get_read" THEN "get_len" ELSE "idle"
           /\ H!GetReadLen(w) =>
                /\ IsReturn(ret'[w]) /\ ret'[w].base = ret[w].base /\ ret'[w].len \in SizesOf(S[k])
                /\ map_pc'[w] = IF map_pc[w] = "get_read" THEN "get_base" ELSE "idle"
<1>1. PICK h, r : h = H!GetIndex(k) /\ r = ret[w]
  OBVIOUS
<1>2. loc[w].kind = "here" /\ loc[w].slot = h
  BY <1>1 DEF FoundAt
<1>3. nodes[h].vbase # NULL /\ nodes[h].vbase.id = CallOf(S[k]) /\ nodes[h].vlen \in SizesOf(S[k])
  BY <1>1 DEF Table, ValueOf
<1>4. r = [ok |-> r.ok, base |-> r.base, len |-> r.len]
  BY <1>1 DEF IsReturn
<1>5. ASSUME H!GetReadBase(w)
      PROVE  /\ IsReturn(ret'[w]) /\ ret'[w].base # NULL /\ ret'[w].base.id = CallOf(S[k])
             /\ ret'[w].len = ret[w].len
             /\ map_pc'[w] = IF map_pc[w] = "get_read" THEN "get_len" ELSE "idle"
  <2>1. ret'[w] = [r EXCEPT !.base = nodes[h].vbase, !.ok = TRUE]
    BY <1>1, <1>2, <1>5 DEF H!GetReadBase, Shapes
  <2>2. PICK b : b = nodes[h].vbase
    OBVIOUS
  <2>3. ret'[w] = [ok |-> TRUE, base |-> b, len |-> r.len]
    BY ONLY <1>4, <2>1, <2>2
  <2>4. IsReturn(ret'[w]) /\ ret'[w].base = b /\ ret'[w].len = r.len
    BY ONLY <2>3 DEF IsReturn
  <2>5. map_pc'[w] = IF map_pc[w] = "get_read" THEN "get_len" ELSE "idle"
    BY <1>5 DEF H!GetReadBase, H!Goto, Shapes
  <2> QED BY ONLY Zenon, <1>1, <1>3, <2>2, <2>4, <2>5
<1>6. ASSUME H!GetReadLen(w)
      PROVE  /\ IsReturn(ret'[w]) /\ ret'[w].base = ret[w].base /\ ret'[w].len \in SizesOf(S[k])
             /\ map_pc'[w] = IF map_pc[w] = "get_read" THEN "get_base" ELSE "idle"
  <2>1. PICK n : n = nodes[h].vlen /\ ret'[w] = [r EXCEPT !.len = n]
    BY <1>1, <1>2, <1>6 DEF H!GetReadLen, Shapes
  <2>2. ret'[w] = [ok |-> r.ok, base |-> r.base, len |-> n]
    BY ONLY <1>4, <2>1
  <2>3. IsReturn(ret'[w]) /\ ret'[w].base = r.base /\ ret'[w].len = n
    BY ONLY <2>2 DEF IsReturn
  <2>4. map_pc'[w] = IF map_pc[w] = "get_read" THEN "get_base" ELSE "idle"
    BY <1>6 DEF H!GetReadLen, H!Goto, Shapes
  <2> QED BY ONLY Zenon, <1>1, <1>3, <2>1, <2>3, <2>4
<1> QED BY <1>5, <1>6

\* A call of get reads the value the cache has for its key.
LEMMA ReaderKeeps ==
    ASSUME OneAtATime, Types, Shapes, request' = request, NEW c \in Conns, NEW w \in Workers,
           InCall(w, c), request[c].op = "GET", H!Continue(w)
    PROVE  InCall(w, c)'
<1>1. PICK k, S, holder : k = request[c].key /\ S = Stored[c - 1] /\ holder = S[k]
  OBVIOUS
<1>2. /\ k \in Keys /\ call[w].key = k /\ call[w].op = "get" /\ Table(S) /\ Reading(w, c)
      /\ Holder(c) = holder
  BY <1>1 DEF InCall, Holder
<1>3. map_pc[w] \notin {"lock", "body", "unlock", "del_ret"}
  BY <1>2 DEF Reading
<1>4. /\ UNCHANGED <<nodes, calls, call>>
      /\ \/ /\ map_pc[w] \in {"get_enter", "get_wlock", "get_open"}
            /\ map_pc'[w] \in {"get_wlock", "get_open", "get_scan"}
            /\ UNCHANGED <<loc, ret>>
         \/ map_pc[w] = "get_scan" /\ map_pc'[w] = "get_leave" /\ ret' = ret /\ H!GetScan(w)
         \/ map_pc[w] = "get_leave" /\ H!GetLeave(w) /\ loc' = loc
         \/ map_pc[w] \in {"get_read", "get_base"} /\ H!GetReadBase(w) /\ loc' = loc
         \/ map_pc[w] \in {"get_read", "get_len"} /\ H!GetReadLen(w) /\ loc' = loc
  BY <1>3, ReaderSteps
<1>5. Stored' = Stored /\ Holder(c)' = holder /\ CallOf(c)' = CallOf(c)
  BY <1>1, <1>2, SameRequests DEF Holder, CallOf
<1>6. /\ CallOf(holder)' = CallOf(holder) /\ CallOf(Holder(c))' = CallOf(holder)' /\ CallOf(Holder(c)) = CallOf(holder)
      /\ SizesOf(Holder(c))' = SizesOf(holder) /\ SizesOf(Holder(c)) = SizesOf(holder)
  <2>1. CallOf(holder)' = CallOf(holder) /\ CallOf(Holder(c))' = CallOf(holder)' /\ CallOf(Holder(c)) = CallOf(holder)
    BY <1>2, <1>5 DEF CallOf
  <2>2. SizesOf(Holder(c))' = SizesOf(Holder(c))
    BY SameHolder
  <2>3. SizesOf(Holder(c)) = SizesOf(holder)
    BY ONLY Zenon, <1>2
  <2> QED BY ONLY Zenon, <2>1, <2>2, <2>3
<1>7. Table(Stored[c - 1])'
  BY <1>1, <1>2, <1>4, SameTable
<1>8. Reading(w, c)'
  <2>1. CASE map_pc[w] \in {"get_enter", "get_wlock", "get_open"}
    <3>1. loc[w].kind = "none" /\ IsReturn(ret[w])
      BY <1>2, <2>1 DEF Reading
    <3>2. map_pc'[w] \in {"get_enter", "get_wlock", "get_open", "get_scan"} /\ UNCHANGED <<loc, ret>>
      BY <1>4, <2>1
    <3> QED BY ONLY Zenon, <3>1, <3>2 DEF Reading
  <2>2. CASE map_pc[w] = "get_scan"
    <3>1. loc[w].kind = "none" /\ IsReturn(ret[w])
      BY <1>2, <2>2 DEF Reading
    <3>2. map_pc'[w] = "get_leave" /\ ret' = ret /\ H!GetScan(w)
      BY <1>4, <2>2
    <3>3. IF S[k] = NULL THEN loc'[w].kind = "none" ELSE FoundAt(w, k)'
      BY <1>2, <3>1, <3>2, ScanFinds
    <3>4. FoundAt(w, request[c].key)' <=> FoundAt(w, k)'
      BY ONLY Zenon, <1>1, request' = request DEF FoundAt
    <3> QED BY ONLY Zenon, <1>1, <1>5, <3>1, <3>2, <3>3, <3>4, request' = request DEF Reading
  <2>3. CASE map_pc[w] = "get_leave"
    <3>1. IF holder = NULL THEN loc[w].kind = "none" ELSE FoundAt(w, k) /\ IsReturn(ret[w])
      BY <1>1, <1>2, <2>3 DEF Reading
    <3>2. H!GetLeave(w) /\ loc' = loc
      BY <1>4, <2>3
    <3>3. CASE holder = NULL
      <4>1. map_pc'[w] = "idle" /\ ret'[w] = H!Failed
        BY <3>1, <3>2, <3>3 DEF H!GetLeave, H!Returning, H!Goto, Shapes
      <4>2. ret'[w].base = NULL
        BY <4>1 DEF H!Failed
      <4> QED BY ONLY Zenon, <1>5, <3>3, <4>1, <4>2 DEF Reading
    <3>4. CASE holder # NULL
      <4>1. map_pc'[w] = "get_read" /\ ret' = ret
        BY <3>1, <3>2, <3>4 DEF H!GetLeave, H!Returning, H!Goto, Shapes, FoundAt
      <4>2. FoundAt(w, request[c].key)' /\ IsReturn(ret'[w])
        BY ONLY Zenon, <1>1, <3>1, <3>2, <3>4, <4>1, request' = request DEF FoundAt
      <4>3. /\ map_pc'[w] \in {"get_read", "get_base", "get_len"}
            /\ map_pc'[w] # "get_len" /\ map_pc'[w] # "get_base"
        BY <4>1
      <4> QED BY ONLY Zenon, <1>5, <3>4, <4>2, <4>3 DEF Reading
    <3> QED BY <3>3, <3>4
  <2>4. CASE map_pc[w] \in {"get_read", "get_base", "get_len"}
    <3>1. /\ S[k] # NULL /\ FoundAt(w, k) /\ IsReturn(ret[w])
          /\ map_pc[w] = "get_len" => ReadBase(w, c)
          /\ map_pc[w] = "get_base" => ReadLen(w, c)
      BY <1>1, <1>2, <2>4 DEF Reading
    <3>2. /\ H!GetReadBase(w) =>
               /\ IsReturn(ret'[w]) /\ ret'[w].base # NULL /\ ret'[w].base.id = CallOf(S[k])
               /\ ret'[w].len = ret[w].len
               /\ map_pc'[w] = IF map_pc[w] = "get_read" THEN "get_len" ELSE "idle"
          /\ H!GetReadLen(w) =>
               /\ IsReturn(ret'[w]) /\ ret'[w].base = ret[w].base /\ ret'[w].len \in SizesOf(S[k])
               /\ map_pc'[w] = IF map_pc[w] = "get_read" THEN "get_base" ELSE "idle"
      BY <1>2, <3>1, ReadFinds
    <3>3. loc' = loc
      BY <1>4, <2>4
    <3>4. FoundAt(w, request[c].key)'
      BY ONLY Zenon, <1>1, <3>1, <3>3, request' = request DEF FoundAt
    <3>5. CASE H!GetReadBase(w) /\ map_pc[w] \in {"get_read", "get_base"}
      <4>1. ReadBase(w, c)'
        BY ONLY Zenon, <1>1, <1>6, <3>2, <3>5 DEF ReadBase
      <4>2. CASE map_pc[w] = "get_read"
        <5>1. map_pc'[w] = "get_len"
          BY <3>2, <3>5, <4>2
        <5>2. map_pc'[w] \in {"get_read", "get_base", "get_len"} /\ map_pc'[w] # "get_base"
          BY <5>1
        <5> QED BY ONLY Zenon, <1>1, <1>5, <3>1, <3>2, <3>4, <3>5, <4>1, <5>2 DEF Reading
      <4>3. CASE map_pc[w] = "get_base"
        <5>1. map_pc'[w] = "idle" /\ ReadLen(w, c) /\ ret'[w].len = ret[w].len
          BY <3>1, <3>2, <3>5, <4>3
        <5>2. ReadValue(w, c)'
          BY ONLY Zenon, <1>6, <4>1, <5>1 DEF ReadLen, ReadValue
        <5> QED BY ONLY Zenon, <1>1, <1>5, <3>1, <5>1, <5>2 DEF Reading
      <4> QED BY <3>5, <4>2, <4>3
    <3>6. CASE H!GetReadLen(w) /\ map_pc[w] \in {"get_read", "get_len"}
      <4>1. ReadLen(w, c)'
        BY ONLY Zenon, <1>1, <1>6, <3>2, <3>6 DEF ReadLen
      <4>2. CASE map_pc[w] = "get_read"
        <5>1. map_pc'[w] = "get_base"
          BY <3>2, <3>6, <4>2
        <5>2. map_pc'[w] \in {"get_read", "get_base", "get_len"} /\ map_pc'[w] # "get_len"
          BY <5>1
        <5> QED BY ONLY Zenon, <1>1, <1>5, <3>1, <3>2, <3>4, <3>6, <4>1, <5>2 DEF Reading
      <4>3. CASE map_pc[w] = "get_len"
        <5>1. map_pc'[w] = "idle" /\ ReadBase(w, c) /\ ret'[w].base = ret[w].base
          BY <3>1, <3>2, <3>6, <4>3
        <5>2. ReadValue(w, c)'
          BY ONLY Zenon, <1>6, <4>1, <5>1 DEF ReadBase, ReadValue
        <5> QED BY ONLY Zenon, <1>1, <1>5, <3>1, <5>1, <5>2 DEF Reading
      <4> QED BY <3>6, <4>2, <4>3
    <3> QED BY <1>4, <2>4, <3>5, <3>6
  <2> QED BY <1>4, <2>1, <2>2, <2>3, <2>4
<1> QED BY ONLY Zenon, <1>4, <1>5, <1>7, <1>8, request' = request, InCall(w, c), request[c].op = "GET"
           DEF InCall, CallsMap, Settled, BadKey, BadValue, H!Handed

-----------------------------------------------------------------------------
(* The worker in the call, and after it *)

\* The steps of the call, under the lock or in the read section.
LEMMA MapStepKeeps ==
    ASSUME OneAtATime, Types, Shapes, NEW c \in Nat, NEW w \in Workers, Working(w, c), Others(c), MapStep(w)
    PROVE  Turn(c)'
<1>1. st[w] = "call" /\ H!Continue(w)
  BY DEF MapStep, At
<1>2. AtCall(w, c) /\ c \in Conns
  BY <1>1 DEF Working, Doing, AtHeader, AtBadKey, AtBody, AtClear, AtCall, AtAnswer, AtValue, AtClose
<1>3. UNCHANGED <<phase, request, got, fds, connfd, at, st, fd, header, items, q_pc>>
  BY DEF MapStep, clientvars, mainvars, workervars, queuevars
<1>4. InCall(w, c)'
  BY <1>1, <1>2, <1>3, WriterKeeps, ReaderKeeps DEF AtCall
<1>5. Doing(w, c)'
  BY ONLY Zenon, <1>2, <1>3, <1>4 DEF Doing, AtCall, Begun
<1>6. st' = [st EXCEPT ![w] = "call"]
  BY <1>1, <1>3 DEF Types
<1>7. st[w] \notin {"dequeue", "load"} /\ "call" # "dequeue" /\ \A d \in Conns : d # c => got'[d] = got[d]
  BY <1>1, <1>3
<1> QED BY <1>3, <1>5, <1>6, <1>7, ServeKeeps

\* The call has returned: the table is what the request leaves, and the answer is made
\* of what the call returned.
LEMMA ReturnedIs ==
    ASSUME Shapes, NEW c \in Conns, NEW w \in Workers, InCall(w, c), map_pc[w] = "idle"
    PROVE  /\ After(c) /\ CallsMap(request[c])
           /\ Answer(request[c], ret[w]) = Reply(request[c], Holder(c))
           /\ Found(c) => ReadValue(w, c)
<1>1. CallsMap(request[c]) /\ calls = CallOf(c)
  BY DEF InCall
<1>2. CASE request[c].op # "GET"
  <2>1. Writing(w, c)
    BY <1>2 DEF InCall
  <2>2. Table(Stored[c]) /\ (call[w].op \in {"put", "clear"} => ret[w].ok)
    BY <2>1 DEF Writing
  <2>3. Answer(request[c], ret[w]) = Reply(request[c], Holder(c))
    BY <1>2, <2>2 DEF InCall, Answer, Reply
  <2> QED BY <1>1, <1>2, <2>2, <2>3 DEF After, Found
<1>3. CASE request[c].op = "GET"
  <2>1. Table(Stored[c - 1]) /\ Reading(w, c)
    BY <1>3 DEF InCall
  <2>2. IF Holder(c) = NULL THEN ret[w].base = NULL ELSE ReadValue(w, c)
    BY <2>1 DEF Reading
  <2>3. Stored[c] = Stored[c - 1]
    BY <1>3, StoredSteps DEF Leaves, Effect
  <2>4. After(c)
    BY ONLY Zenon, <1>1, <2>1, <2>3 DEF After
  <2>5. Answer(request[c], ret[w]) = Reply(request[c], Holder(c))
    BY <1>3, <2>2 DEF Answer, Reply, ReadValue, ReadBase
  <2> QED BY <1>1, <1>3, <2>2, <2>4, <2>5 DEF Found
<1> QED BY <1>2, <1>3

\* The answer is made of what the call returned.
LEMMA MapReturnKeeps ==
    ASSUME Types, Shapes, NEW c \in Nat, NEW w \in Workers, Working(w, c), Others(c), MapReturn(w)
    PROVE  Turn(c)'
<1>1. st[w] = "call" /\ map_pc[w] = "idle" /\ st' = [st EXCEPT ![w] = "answer"]
  BY DEF MapReturn, At, Go
<1>2. AtCall(w, c) /\ c \in Conns
  BY <1>1 DEF Working, Doing, AtHeader, AtBadKey, AtBody, AtClear, AtCall, AtAnswer, AtValue, AtClose
<1>3. UNCHANGED <<phase, request, got, fds, connfd, at, fd, header, items, q_pc, nodes, calls, ret>>
  BY DEF MapReturn, clientvars, mainvars, queuevars, mapvars
<1>4. /\ After(c) /\ CallsMap(request[c])
      /\ Answer(request[c], ret[w]) = Reply(request[c], Holder(c))
      /\ Found(c) => ReadValue(w, c)
  BY <1>1, <1>2, ReturnedIs DEF AtCall
<1>5. out'[w] = Answer(request[c], ret[w]) /\ st'[w] = "answer"
  BY <1>1, <1>2 DEF MapReturn, AtCall, Shapes, Types
<1>6. After(c)'
  BY <1>3, <1>4, SameAfter
<1>7. Holder(c)' = Holder(c) /\ (Found(c)' <=> Found(c)) /\ (ReadValue(w, c)' <=> ReadValue(w, c))
  BY <1>3, SameHolder, SameReadValue
<1>8. Served(c)' /\ Begun(c)' /\ header'[w] = request'[c]
  BY <1>2, <1>3, <1>4 DEF Served, AtCall, Begun
<1>9. Answering(w, c)'
  BY ONLY Zenon, <1>3, <1>4, <1>5, <1>7, <1>8 DEF Answering, Reply
<1>10. Doing(w, c)'
  BY ONLY Zenon, <1>5, <1>6, <1>8, <1>9 DEF Doing, AtAnswer
<1>11. st[w] \notin {"dequeue", "load"} /\ "answer" # "dequeue" /\ \A d \in Conns : d # c => got'[d] = got[d]
  BY <1>1, <1>3
<1> QED BY <1>1, <1>3, <1>10, <1>11, ServeKeeps

-----------------------------------------------------------------------------
(* All of it *)

\* The connection a worker serves is open, so its reads and writes do not fail.
LEMMA NoBadDescriptor ==
    ASSUME NEW c, NEW w, Working(w, c)
    PROVE  ~BadDescriptor(w)
<1>1. st[w] \notin {"dequeue", "load"} => Peer(w) # NULL
  BY PeerIs
<1> QED BY <1>1 DEF BadDescriptor

\* Whichever worker moves, one connection is being served or waits to be.
LEMMA ThreadTurns ==
    ASSUME OneAtATime, Types, Shapes, NEW c \in 1 .. MaxItems + 1, Turn(c), NEW v \in Workers, Thread(v)
    PROVE  \E d \in 1 .. MaxItems + 1 : Turn(d)'
<1>0. c \in Nat
  BY ServerAssumption
<1>1. CASE ~Busy(v)
  BY <1>1, IdleKeeps
<1>2. CASE Busy(v)
  <2>1. Working(v, c) /\ Others(c)
    BY <1>2 DEF Turn, Waiting, Accepted, NobodyBusy, Working
  <2>2. CASE CloseFd(v)
    BY <1>0, <2>1, <2>2, CloseFdKeeps
  <2>3. CASE Dequeue(v) \/ LoadFd(v) \/ ReadHeader(v) \/ RefuseKey(v) \/ ReadBody(v)
    BY <1>0, <2>1, <2>3, DequeueKeeps, LoadFdKeeps, ReadHeaderKeeps, RefuseKeyKeeps, ReadBodyKeeps
  <2>4. CASE CallMap(v) \/ PutEmptyKey(v) \/ MapStep(v) \/ MapReturn(v)
    BY <1>0, <2>1, <2>4, CallMapKeeps, PutEmptyKeyKeeps, MapStepKeeps, MapReturnKeeps
  <2>5. CASE SendAnswer(v) \/ SendValue(v)
    BY <1>0, <2>1, <2>5, SendAnswerKeeps, SendValueKeeps
  <2> QED BY ONLY Zenon, <2>1, <2>2, <2>3, <2>4, <2>5, NoBadDescriptor, Thread(v) DEF Thread
<1> QED BY <1>1, <1>2

\* Nothing happens, or the process has ended.
LEMMA StutterKeeps ==
    ASSUME NEW c \in Nat, Turn(c), UNCHANGED vars
    PROVE  Turn(c)'
<1>1. UNCHANGED <<phase, request, unread, got, fds, connfd, at, st, fd, header, out, items, q_pc,
                  nodes, calls, map_pc, call, loc, ret>>
  BY DEF vars, servervars, clientvars, mainvars, workervars, queuevars, mapvars
<1>2. Others(c)'
  BY <1>1, SameOthers DEF Turn
<1>3. Before(c)' <=> Before(c)
  BY <1>1, SameAfter DEF Before
<1>4. \A v : Busy(v)' <=> Busy(v)
  BY ONLY Zenon, <1>1 DEF Busy
<1>5. NobodyBusy' <=> NobodyBusy
  BY ONLY Zenon, <1>4 DEF NobodyBusy
<1>6. CASE Waiting(c)
  <2>1. Waiting(c)'
    BY ONLY Zenon, <1>1, <1>3, <1>5, <1>6 DEF Waiting
  <2> QED BY ONLY Zenon, <1>2, <2>1 DEF Turn
<1>7. CASE Accepted(c)
  <2>1. Accepted(c)'
    BY ONLY Zenon, <1>1, <1>3, <1>5, <1>7 DEF Accepted
  <2> QED BY ONLY Zenon, <1>2, <2>1 DEF Turn
<1>8. ASSUME NEW w \in Workers, Working(w, c) PROVE Turn(c)'
  <2>1. Doing(w, c)' <=> Doing(w, c)
    BY <1>1, SameDoing
  <2>2. Working(w, c)'
    BY ONLY Zenon, <1>1, <1>4, <1>8, <2>1 DEF Working
  <2> QED BY ONLY Zenon, <1>2, <2>2, w \in Workers DEF Turn
<1> QED BY <1>6, <1>7, <1>8 DEF Turn

\* The invariant is inductive.
LEMMA NextKeepsOneByOne ==
    ASSUME OneAtATime, OneByOne, [Next]_vars
    PROVE  OneByOne'
<1>1. Within' /\ Shapes' /\ Types /\ Shapes
  BY NextKeepsWithin, NextShapes DEF OneByOne, Within
<1>2. PICK c \in 1 .. MaxItems + 1 : Turn(c)
  BY DEF OneByOne
<1>3. c \in Nat
  BY ServerAssumption
<1>4. \E d \in 1 .. MaxItems + 1 : Turn(d)'
  <2>1. CASE UNCHANGED vars
    BY <1>2, <1>3, <2>1, StutterKeeps
  <2>2. CASE \E d \in Conns : Connect(d) \/ HangUp(d)
    BY <1>1, <1>2, <2>2, ConnectKeeps DEF HangUp, OneAtATime
  <2>3. CASE Main
    BY <1>1, <1>2, <2>3, MainKeeps
  <2>4. CASE \E w \in Workers : Thread(w)
    BY <1>1, <1>2, <2>4, ThreadTurns
  <2> QED BY <2>1, <2>2, <2>3, <2>4 DEF Next, Done
<1> QED BY ONLY Zenon, <1>1, <1>4 DEF OneByOne

\* The first client finds an empty cache.
LEMMA OneByOneAtFirst ==
    ASSUME Init
    PROVE  OneByOne
<1>0. MaxItems \in Nat /\ 1 - 1 = 0 /\ 1 \in 1 .. MaxItems + 1 /\ 0 \in 0 .. MaxItems
  BY ServerAssumption
<1>1. Within
  BY WithinAtFirst
<1>2. Shapes
  BY DEF Init, Q!Init, Q!Threads, H!Init, Shapes, Asked
<1>3. Table(Nothing)
  <2>1. ASSUME NEW i \in H!Slots PROVE HomeOf(i)
    BY DEF Init, H!Init, HomeOf, H!EmptySlot
  <2>2. ASSUME NEW k \in Keys PROVE ValueOf(k, Nothing[k])
    <3>1. Nothing[k] = NULL /\ H!GetIndex(k) \in H!Slots
      BY HomeIsSlot DEF Nothing
    <3>2. ~H!Live(nodes, H!GetIndex(k))
      BY <3>1 DEF Init, H!Init, H!Live, H!EmptySlot
    <3> QED BY ONLY Zenon, <3>1, <3>2 DEF ValueOf
  <2> QED BY ONLY Zenon, <2>1, <2>2 DEF Table
<1>4. Before(1)
  <2>1. Stored[0] = Nothing
    BY StoredSteps DEF Leaves
  <2>2. calls = 0 /\ CallOf(0) = 0
    BY CallsCounted DEF Init, H!Init
  <2> QED BY ONLY Zenon, <1>0, <1>3, <2>1, <2>2 DEF Before, After
<1>5. NobodyBusy
  BY DEF Init, Q!Init, Q!Threads, NobodyBusy, Busy
<1>6. Waiting(1)
  BY <1>4, <1>5 DEF Init, Q!Init, Waiting
<1>7. Others(1)
  BY ServerAssumption DEF Init, Others, Conns
<1> QED BY ONLY Zenon, <1>0, <1>1, <1>2, <1>6, <1>7 DEF OneByOne, Turn

-----------------------------------------------------------------------------
(* What the clients are told *)

\* Whoever has been served was answered right.
LEMMA ClosedIsRight ==
    ASSUME OneByOne, NEW c \in Conns, phase[c] = "closed"
    PROVE  Right(c)
<1>1. PICK t \in 1 .. MaxItems + 1 : Turn(t)
  BY DEF OneByOne
<1>2. c < t \/ c = t \/ c > t
  BY ServerAssumption DEF Conns
<1>3. CASE c = t
  BY <1>1, <1>3 DEF Turn, Waiting, Accepted, Working
<1> QED BY <1>1, <1>2, <1>3 DEF Turn, Others

\* The answer of a GET that finds its key, as the property reads it.
LEMMA ValuedIs ==
    ASSUME NEW c, Valued(c)
    PROVE  ValueSent(c, Holder(c))
<1>1. PICK m, v, g : /\ g = got[c] /\ g = <<m, v>> /\ m.code = "OK" /\ v.code = "value"
                     /\ v.value.id = CallOf(Holder(c)) /\ v.size \in SizesOf(Holder(c))
  BY DEF Valued
<1>2. Len(g) = 2 /\ g[1] = m /\ g[2] = v
  BY ONLY <1>1
<1> QED BY ONLY Zenon, <1>1, <1>2 DEF ValueSent

\* The answer to a PUT, first to last.
LEMMA PutAnswered ==
    ASSUME NEW c, Right(c), request[c].op = "PUT", CallsMap(request[c])
    PROVE  LET n == request[c].vsize IN
           /\ ~BadKey(request[c]) => Answered(c, "OK", n)
           /\ BadKey(request[c]) => got[c] = <<Response("BAD_REQUEST", 0), Response("OK", n)>>
<1>1. PICK m : m = Response("OK", request[c].vsize)
  OBVIOUS
<1>2. got[c] = Append(Given(request[c]), m)
  BY <1>1 DEF Right, Served, Found, Reply
<1>3. CASE ~BadKey(request[c])
  <2>1. got[c] = <<m>>
    BY <1>2, <1>3 DEF Given
  <2> QED BY ONLY Zenon, <1>1, <1>3, <2>1 DEF Answered
<1>4. CASE BadKey(request[c])
  <2>1. Given(request[c]) = <<Response("BAD_REQUEST", 0)>>
    BY <1>4 DEF Given
  <2>2. got[c] = <<Response("BAD_REQUEST", 0), m>>
    BY ONLY Zenon, <1>2, <2>1, AppendedTwo
  <2> QED BY ONLY Zenon, <1>1, <1>4, <2>2
<1> QED BY <1>3, <1>4

\* An answer that is right is the one the property asks for.
LEMMA RightIsExpected ==
    ASSUME Shapes, NEW c \in Conns, Right(c)
    PROVE  AnswerIsRight(c)
<1>1. PICK r : r = request[c]
  OBVIOUS
<1>2. r.op \in {"PUT", "GET", "EVICT", "CLEAR", "other"}
  BY <1>1, RequestsAssumption DEF Shapes, Asked, NoRequest
<1>3. CASE r.op = "PUT" /\ CallsMap(r)
  <2>1. /\ ~BadKey(r) => Answered(c, "OK", r.vsize)
        /\ BadKey(r) => got[c] = <<Response("BAD_REQUEST", 0), Response("OK", r.vsize)>>
    BY <1>1, <1>3, PutAnswered
  <2>2. BadKey(r) => got[c][1] = Response("BAD_REQUEST", 0)
    BY <2>1
  <2> QED BY <1>1, <1>3, <2>1, <2>2 DEF AnswerIsRight
<1>4. CASE r.op = "GET" /\ CallsMap(r)
  <2>1. CASE Holder(c) = NULL
    <3>1. got[c] = <<Response("NOT_FOUND", 0)>>
      BY <1>1, <1>4, <2>1 DEF Right, Served, Found, Reply, Given
    <3>2. Stored[c - 1][r.key] = NULL /\ Answered(c, "NOT_FOUND", 0)
      BY ONLY Zenon, <1>1, <2>1, <3>1 DEF Holder, Answered
    <3> QED BY <1>1, <1>4, <3>2 DEF AnswerIsRight
  <2>2. CASE Holder(c) # NULL
    <3>1. ValueSent(c, Holder(c))
      BY <1>1, <1>4, <2>2, ValuedIs DEF Right, Served, Found
    <3>2. Stored[c - 1][r.key] # NULL /\ ValueSent(c, Stored[c - 1][r.key])
      BY ONLY Zenon, <1>1, <2>2, <3>1 DEF Holder
    <3> QED BY <1>1, <1>4, <3>2 DEF AnswerIsRight
  <2> QED BY <2>1, <2>2
<1>5. CASE r.op \in {"EVICT", "CLEAR"}
  <2>1. Served(c) /\ ~Found(c)
    BY <1>1, <1>5 DEF Served, Found, CallsMap, Settled
  <2>2. got[c] = <<Response("OK", 0)>>
    BY <1>1, <1>5, <2>1 DEF Right, Reply, Given
  <2>3. Answered(c, "OK", 0)
    BY ONLY Zenon, <2>2 DEF Answered
  <2> QED BY <1>1, <1>5, <2>3 DEF AnswerIsRight
<1>6. CASE r.op \notin {"EVICT", "CLEAR"} /\ ~CallsMap(r)
  <2>1. RefusedOnly(c)
    BY <1>1, <1>6 DEF Right, Served
  <2> QED BY <1>1, <1>6, <2>1 DEF AnswerIsRight
<1>7. CASE r.op = "other"
  <2>1. ~CallsMap(r)
    BY <1>7 DEF CallsMap, Settled
  <2> QED BY <1>6, <1>7, <2>1
<1> QED BY <1>2, <1>3, <1>4, <1>5, <1>6, <1>7

\* At any moment the table is what the requests of some first connections leave.
LEMMA TableIsThere ==
    ASSUME OneByOne
    PROVE  \E j \in 0 .. MaxItems : Table(Stored[j])
<1>1. PICK t \in 1 .. MaxItems + 1 : Turn(t)
  BY DEF OneByOne
<1>2. t - 1 \in 0 .. MaxItems /\ (t \in Conns => t \in 0 .. MaxItems)
  BY ServerAssumption DEF Conns
<1>3. Before(t) \/ (t \in Conns /\ (After(t) \/ Before(t) \/ \E w \in Workers : InCall(w, t)))
  BY <1>1 DEF Turn, Waiting, Accepted, Working, Doing, AtHeader, AtBadKey, AtBody, AtClear,
              AtCall, AtAnswer, AtValue, AtClose
<1>4. ASSUME NEW w \in Workers, InCall(w, t) PROVE Table(Stored[t - 1]) \/ Table(Stored[t])
  BY <1>4 DEF InCall, Writing
<1>5. Table(Stored[t - 1]) \/ (t \in Conns /\ Table(Stored[t]))
  BY ONLY Zenon, <1>3, <1>4 DEF Before, After
<1> QED BY ONLY Zenon, <1>2, <1>5

\* The invariant implies the two properties.
LEMMA OneByOneAnswers ==
    ASSUME OneByOne
    PROVE  AnswersAreRight /\ CachedWasAcknowledged
<1>1. AnswersAreRight
  <2>1. ASSUME NEW c \in Conns, phase[c] = "closed"
        PROVE  AnswerIsRight(c)
    BY <2>1, ClosedIsRight, RightIsExpected DEF OneByOne
  <2> QED BY ONLY Zenon, <2>1 DEF AnswersAreRight
<1>2. ASSUME NEW i \in H!LiveSlots(nodes)
      PROVE  \E c \in Conns :
                /\ request[c].op = "PUT" /\ CallsMap(request[c])
                /\ nodes[i].vbase.id = CallOf(c) /\ nodes[i].kbase.key = request[c].key
                /\ phase[c] = "closed" =>
                     /\ got[c][Len(got[c])] = Response("OK", request[c].vsize)
                     /\ (\E m \in DOMAIN got[c] : got[c][m].code = "BAD_REQUEST") => BadKey(request[c])
  <2>1. PICK j \in 0 .. MaxItems : Table(Stored[j])
    BY TableIsThere
  <2>2. PICK k, c : k = nodes[i].kbase.key /\ c = Stored[j][k]
    OBVIOUS
  <2>3. i \in H!Slots /\ H!Live(nodes, i) /\ nodes[i].kbase # NULL
    BY DEF H!LiveSlots, H!Live
  <2>4. k \in Keys /\ H!GetIndex(k) = i
    BY ONLY Zenon, <2>1, <2>2, <2>3 DEF Table, HomeOf
  <2>5. ValueOf(k, c)
    BY ONLY Zenon, <2>1, <2>2, <2>4 DEF Table
  <2>6. c # NULL /\ nodes[i].vbase.id = CallOf(c)
    BY ONLY Zenon, <2>3, <2>4, <2>5 DEF ValueOf
  <2>7. c \in 1 .. j /\ request[c].op = "PUT" /\ CallsMap(request[c]) /\ request[c].key = k
    BY <2>2, <2>4, <2>6, HolderIsPut
  <2>8. c \in Conns
    BY <2>7, ServerAssumption DEF Conns
  <2>9. ASSUME phase[c] = "closed"
        PROVE  /\ got[c][Len(got[c])] = Response("OK", request[c].vsize)
               /\ (\E m \in DOMAIN got[c] : got[c][m].code = "BAD_REQUEST") => BadKey(request[c])
    <3>1. PICK g, first, last : /\ g = got[c] /\ last = Response("OK", request[c].vsize)
                                /\ first = Response("BAD_REQUEST", 0)
      OBVIOUS
    <3>2. Right(c)
      BY <2>8, <2>9, ClosedIsRight
    <3>3. /\ ~BadKey(request[c]) => g = <<last>>
          /\ BadKey(request[c]) => g = <<first, last>>
      BY <2>7, <3>1, <3>2, PutAnswered DEF Answered
    <3>4. last.code = "OK"
      BY <3>1 DEF Response
    <3>5. g[Len(g)] = last
      BY ONLY <3>3
    <3>6. ~BadKey(request[c]) => ~(\E m \in DOMAIN g : g[m].code = "BAD_REQUEST")
      BY ONLY <3>3, <3>4
    <3> QED BY ONLY Zenon, <3>1, <3>5, <3>6
  <2> QED BY ONLY Zenon, <2>2, <2>6, <2>7, <2>8, <2>9
<1> QED BY ONLY Zenon, <1>1, <1>2 DEF CachedWasAcknowledged

\* A client that connects after the one before it was served is answered from the cache
\* those before it left, header by header and value by value, whichever workers, locks and
\* slots are used on the way; the size GET declares and the length of a value that
\* overwrote another are left open, as the code gets them wrong (cream.c:123, hashmap.c:83).
THEOREM AnswersStayRight ==
    ASSUME OneAtATime
    PROVE  Spec => []AnswersAreRight
<1>1. Init => OneByOne
  BY OneByOneAtFirst
<1>2. OneByOne /\ [Next]_vars => OneByOne'
  BY NextKeepsOneByOne
<1>3. OneByOne => AnswersAreRight
  BY OneByOneAnswers
<1> QED BY <1>1, <1>2, <1>3, PTL DEF Spec

\* What the table holds for such clients was put under that key by one that is told OK in
\* the end; among those that were also told BAD_REQUEST only PUTs with a key too long are
\* there (cream.c:76-94): no other refused request leaves anything.
THEOREM CachedStayAcknowledged ==
    ASSUME OneAtATime
    PROVE  Spec => []CachedWasAcknowledged
<1>1. Init => OneByOne
  BY OneByOneAtFirst
<1>2. OneByOne /\ [Next]_vars => OneByOne'
  BY NextKeepsOneByOne
<1>3. OneByOne => CachedWasAcknowledged
  BY OneByOneAnswers
<1> QED BY <1>1, <1>2, <1>3, PTL DEF Spec
=============================================================================
