------------------------------ MODULE HashMap -------------------------------
(***************************************************************************)
(* hw5/src/hashmap.c: the hash map the threads of the server share, with   *)
(* the readers-writers scheme that protects it.  Threads call put, get,    *)
(* delete, clear_map and invalidate_map; every call is split where another *)
(* thread can get in: at the unlocked checks, at the mutexes, and at the   *)
(* reads get and delete make after they have released the lock.            *)
(*                                                                         *)
(* A call number stands for the two buffers a put hands over, so a value   *)
(* carries where it came from: the call, the key and the length it was     *)
(* stored with.  Memory given to free is in "freed"; touching the array    *)
(* after invalidate_map has freed it either finds the old contents or ends *)
(* the process (action Fault).                                             *)
(***************************************************************************)
EXTENDS ProbeTable, FiniteSets

CONSTANTS
    Threads,    \* the calling threads
    Lens,       \* val_len: the lengths of the stored values
    ForceArgs,      \* the values of put's force argument the callers use
    Ops,        \* the operations the callers use
    MaxCalls,   \* bound: calls made altogether
    Free,       \* nobody holds the mutex
    ByReaders,  \* write_lock is held on behalf of all readers together
    InTable     \* an address inside the array of slots

ASSUME ThreadsAssumption ==
    /\ IsFiniteSet(Threads)
    /\ Free \notin Threads /\ ByReaders \notin Threads /\ Free # ByReaders
ASSUME ClientsAssumption ==
    /\ ForceArgs \subseteq BOOLEAN
    /\ Lens \subseteq Nat \ {0}
    /\ Ops \subseteq {"put", "get", "delete", "clear", "invalidate"}
    /\ MaxCalls \in Nat

VARIABLES
    nodes,        \* self->nodes
    size,         \* self->size
    num_readers,  \* self->num_readers
    invalid,      \* self->invalid; the array is freed from then on
    write_lock,   \* who holds self->write_lock
    fields_lock,  \* who holds self->fields_lock
    freed,        \* the buffers given to free
    crashed,      \* the process died of a memory fault
    calls,        \* the number of calls made so far
    pc,           \* where each thread is
    call,         \* the arguments of each thread's current or last call
    loc,          \* what get and delete found: the local i
    ret           \* what the last call returned

fields == <<nodes, size, invalid, freed>>
locks == <<num_readers, write_lock, fields_lock>>
threadvars == <<pc, call, loc, ret>>
vars == <<fields, locks, threadvars, crashed, calls>>

Buffers == [id : 1 .. MaxCalls, key : Keys, len : Lens]
ASSUME NullAssumption == NULL \notin Buffers

CallOps == {"put", "get", "delete", "clear", "wipe", "free"}
Calls == [op : CallOps, id : 0 .. MaxCalls,
          key : Keys \union {NULL}, len : Lens \union {0}, force : BOOLEAN]
Places == [kind : {"none", "here", "wrapped"}, slot : Slots]
Returns == [ok : BOOLEAN, base : Buffers \union {NULL, InTable}, len : Nat]

NoCall == [op |-> "clear", id |-> 0, key |-> NULL, len |-> 0, force |-> FALSE]
NoPlace == [kind |-> "none", slot |-> 0]
Failed == [ok |-> FALSE, base |-> NULL, len |-> 0]
Succeeded == [Failed EXCEPT !.ok = TRUE]

\* create_map
Init ==
    /\ nodes = [i \in Slots |-> EmptySlot]
    /\ size = 0
    /\ num_readers = 0
    /\ invalid = FALSE
    /\ write_lock = Free
    /\ fields_lock = Free
    /\ freed = {}
    /\ crashed = FALSE
    /\ calls = 0
    /\ pc = [t \in Threads |-> "idle"]
    /\ call = [t \in Threads |-> NoCall]
    /\ loc = [t \in Threads |-> NoPlace]
    /\ ret = [t \in Threads |-> Failed]

(***************************************************************************)
(* Entering an operation.                                                  *)
(***************************************************************************)
Goto(t, label) == pc' = [pc EXCEPT ![t] = label]

\* Thread t stands at a label, in a process that is still alive.
Is(t, label) == ~crashed /\ pc[t] = label

Returning(t, r) ==
    /\ Goto(t, "idle")
    /\ ret' = [ret EXCEPT ![t] = r]

Full == size = Capacity

NewCall(op, k, n, f) == [op |-> op, id |-> calls + 1, key |-> k, len |-> n, force |-> f]

\* A thread makes a call: its arguments, and the result not known yet.
Begin(t, c) ==
    /\ Is(t, "idle")
    /\ calls < MaxCalls
    /\ calls' = calls + 1
    /\ call' = [call EXCEPT ![t] = c]
    /\ loc' = [loc EXCEPT ![t] = NoPlace]
    /\ UNCHANGED <<fields, locks, crashed>>

Proceed(t, label) == Goto(t, label) /\ ret' = [ret EXCEPT ![t] = Failed]

\* An early return if the call is refused, else on to a label.
Check(t, refused, label) ==
    \/ refused /\ Returning(t, Failed)
    \/ ~refused /\ Proceed(t, label)

\* The checks before the lock read invalid and size without it.
PutCall(t) ==
    \E k \in Keys, n \in Lens, f \in ForceArgs :
        /\ "put" \in Ops
        /\ Begin(t, NewCall("put", k, n, f))
        /\ Check(t, invalid \/ (Full /\ ~f), "lock")

\* get, delete and clear_map: refused once the map is invalid.
KeyCall(t, op, label) ==
    \E k \in Keys :
        /\ op \in Ops
        /\ Begin(t, NewCall(op, k, 0, FALSE))
        /\ Check(t, invalid, label)

GetCall(t) == KeyCall(t, "get", "get_enter")

DeleteCall(t) == KeyCall(t, "delete", "lock")

ClearCall(t) ==
    /\ "clear" \in Ops
    /\ Begin(t, NewCall("clear", NULL, 0, FALSE))
    /\ Check(t, invalid, "lock")

\* invalidate_map calls clear_map first, whose refusal it ignores.
InvalidateCall(t) ==
    /\ "invalidate" \in Ops
    /\ Begin(t, NewCall(IF invalid THEN "free" ELSE "wipe", NULL, 0, FALSE))
    /\ Proceed(t, "lock")

(***************************************************************************)
(* The critical sections under write_lock.                                 *)
(***************************************************************************)
WriteLock(t) ==
    /\ Is(t, "lock")
    /\ write_lock = Free
    /\ write_lock' = t
    /\ Goto(t, "body")
    /\ UNCHANGED <<fields, num_readers, fields_lock, call, loc, ret, crashed, calls>>

InBody(t, op) == Is(t, "body") /\ call[t].op = op

\* The buffer a put hands over: as a key and as a value it is tagged apart in freed.
Handed(c) == [id |-> c.id, key |-> c.key, len |-> c.len]

Filled(c) == [kbase |-> Handed(c), vbase |-> Handed(c), vlen |-> c.len, tombstone |-> FALSE]

\* What destroy_function frees of a slot: free(NULL) does nothing.
Destroyed(slot) ==
    IF slot.kbase = NULL THEN {} ELSE {<<"key", slot.kbase>>, <<"val", slot.vbase>>}

Home(t) == GetIndex(call[t].key)

\* The home slot is vacant.
PutHome(t) ==
    /\ InBody(t, "put")
    /\ Vacant(nodes, Home(t))
    /\ nodes' = [nodes EXCEPT ![Home(t)] = Filled(call[t])]
    /\ size' = size + 1
    /\ Goto(t, "unlock")
    /\ ret' = [ret EXCEPT ![t] = Succeeded]
    /\ UNCHANGED <<invalid, freed, locks, call, loc, crashed, calls>>

\* The map is full and force is set: the entry at the home slot gives way, or
\* has its value replaced if its key is the same.
PutEvict(t) ==
    LET h == Home(t) IN
    /\ InBody(t, "put")
    /\ ~Vacant(nodes, h)
    /\ Full /\ call[t].force
    /\ IF SameKey(nodes, h, call[t].key)
       THEN /\ nodes' = [nodes EXCEPT ![h].vbase = Handed(call[t]), ![h].vlen = call[t].len]
            /\ UNCHANGED freed
       ELSE /\ nodes' = [nodes EXCEPT ![h] = Filled(call[t])]
            /\ freed' = freed \union Destroyed(nodes[h])
    /\ Goto(t, "unlock")
    /\ ret' = [ret EXCEPT ![t] = Succeeded]
    /\ UNCHANGED <<size, invalid, locks, call, loc, crashed, calls>>

Probing(t) ==
    /\ InBody(t, "put")
    /\ ~Vacant(nodes, Home(t))
    /\ ~(Full /\ call[t].force)

\* The probe fills the first vacant slot, or overwrites the value of the key it
\* meets first: the pointer only, the old length stays.
PutProbe(t) ==
    /\ Probing(t)
    /\ \E i \in PutStop(nodes, call[t].key) :
         IF Vacant(nodes, i)
         THEN /\ nodes' = [nodes EXCEPT ![i] = Filled(call[t])]
              /\ size' = size + 1
         ELSE /\ nodes' = [nodes EXCEPT ![i].vbase = Handed(call[t])]
              /\ UNCHANGED size
    /\ Goto(t, "unlock")
    /\ ret' = [ret EXCEPT ![t] = Succeeded]
    /\ UNCHANGED <<invalid, freed, locks, call, loc, crashed, calls>>

\* No slot to be had: the map filled up since the check.  put returns false
\* without unlocking.
PutFallThrough(t) ==
    /\ Probing(t)
    /\ PutStop(nodes, call[t].key) = {}
    /\ Returning(t, Failed)
    /\ UNCHANGED <<fields, locks, call, loc, crashed, calls>>

\* Faulty variant: delete counts a removal on its not-found paths too.
DeleteBodyCountsMisses(t) ==
    LET hit == DeleteStop(nodes, call[t].key) IN
    /\ InBody(t, "delete")
    /\ nodes' = [i \in Slots |-> IF i \in hit THEN [nodes[i] EXCEPT !.tombstone = TRUE]
                                 ELSE nodes[i]]
    /\ size' = size - 1
    /\ Goto(t, "unlock")
    /\ UNCHANGED <<invalid, freed, locks, call, loc, ret, crashed, calls>>

\* Faulty variant: delete empties the slot instead of leaving a tombstone.
DeleteBodyEmpties(t) ==
    LET hit == DeleteStop(nodes, call[t].key) IN
    /\ InBody(t, "delete")
    /\ nodes' = [i \in Slots |-> IF i \in hit THEN EmptySlot ELSE nodes[i]]
    /\ size' = size - Cardinality(hit)
    /\ Goto(t, "unlock")
    /\ UNCHANGED <<invalid, freed, locks, call, loc, ret, crashed, calls>>

\* delete leaves a tombstone; the node it returns is read later.
DeleteBody(t) ==
    LET hit == DeleteStop(nodes, call[t].key) IN
    /\ InBody(t, "delete")
    /\ IF hit = {}
       THEN UNCHANGED <<nodes, size, loc>>
       ELSE \E i \in hit :
              /\ nodes' = [nodes EXCEPT ![i].tombstone = TRUE]
              /\ size' = size - 1
              /\ loc' = [loc EXCEPT ![t] = [kind |-> "here", slot |-> i]]
    /\ Goto(t, "unlock")
    /\ UNCHANGED <<invalid, freed, locks, call, ret, crashed, calls>>

\* Faulty variant: clear_map does not reset size.
ClearBodyKeepsSize(t) ==
    /\ Is(t, "body") /\ call[t].op \in {"clear", "wipe"}
    /\ nodes' = [i \in Slots |-> [nodes[i] EXCEPT !.tombstone = TRUE]]
    /\ Goto(t, "unlock")
    /\ UNCHANGED <<size, freed, invalid, locks, call, loc, ret, crashed, calls>>

\* Faulty variant: clear_map destroys the entries and leaves them in place.
ClearBodyNoTombstone(t) ==
    /\ Is(t, "body") /\ call[t].op \in {"clear", "wipe"}
    /\ freed' = freed \union UNION {Destroyed(nodes[i]) : i \in Slots}
    /\ Goto(t, "unlock")
    /\ UNCHANGED <<nodes, size, invalid, locks, call, loc, ret, crashed, calls>>

\* Every slot without a tombstone is destroyed and gets one, the empty ones too.
ClearBody(t) ==
    /\ Is(t, "body") /\ call[t].op \in {"clear", "wipe"}
    /\ nodes' = [i \in Slots |-> [nodes[i] EXCEPT !.tombstone = TRUE]]
    /\ freed' = freed \union
                UNION {Destroyed(nodes[i]) : i \in {j \in Slots : ~nodes[j].tombstone}}
    /\ size' = 0
    /\ Goto(t, "unlock")
    /\ ret' = [ret EXCEPT ![t] = Succeeded]
    /\ UNCHANGED <<invalid, locks, call, loc, crashed, calls>>

\* invalidate_map's own critical section; freeing the array again aborts.
FreeBody(t) ==
    /\ InBody(t, "free")
    /\ crashed' = invalid
    /\ invalid' = TRUE
    /\ Goto(t, "unlock")
    /\ ret' = [ret EXCEPT ![t] = Succeeded]
    /\ UNCHANGED <<nodes, size, freed, locks, call, loc, calls>>

\* invalidate_map locks a second time after clear_map has unlocked.
WriteUnlock(t) ==
    /\ Is(t, "unlock")
    /\ write_lock' = Free
    /\ IF call[t].op = "wipe"
       THEN Goto(t, "lock") /\ call' = [call EXCEPT ![t].op = "free"]
       ELSE /\ Goto(t, IF call[t].op = "delete" /\ loc[t].kind = "here"
                       THEN "del_ret" ELSE "idle")
            /\ UNCHANGED call
    /\ UNCHANGED <<fields, num_readers, fields_lock, loc, ret, crashed, calls>>

\* The node delete returns: its lengths are both the slot number, and the value
\* pointer is read now, without the lock.
DeleteReturn(t) ==
    /\ Is(t, "del_ret")
    /\ Returning(t, [ok |-> TRUE, base |-> nodes[loc[t].slot].vbase, len |-> loc[t].slot])
    /\ UNCHANGED <<fields, locks, call, loc, crashed, calls>>

(***************************************************************************)
(* get.                                                                    *)
(***************************************************************************)
\* Lock fields_lock and count the reader.
GetCount(t) ==
    /\ Is(t, "get_enter")
    /\ fields_lock = Free
    /\ fields_lock' = t
    /\ num_readers' = num_readers + 1
    /\ Goto(t, IF num_readers' = 1 THEN "get_wlock" ELSE "get_open")
    /\ UNCHANGED <<fields, write_lock, call, loc, ret, crashed, calls>>

\* The first reader locks the writers out, holding fields_lock while it waits.
GetWriteLock(t) ==
    /\ Is(t, "get_wlock")
    /\ write_lock = Free
    /\ write_lock' = ByReaders
    /\ Goto(t, "get_open")
    /\ UNCHANGED <<fields, num_readers, fields_lock, call, loc, ret, crashed, calls>>

GetOpen(t) ==
    /\ Is(t, "get_open")
    /\ fields_lock' = Free
    /\ Goto(t, "get_scan")
    /\ UNCHANGED <<fields, num_readers, write_lock, call, loc, ret, crashed, calls>>

\* A key found before the end of the array is "here"; found after the scan went
\* on from slot 0, get will read the home slot instead.
GetScan(t) ==
    LET hit == GetStop(nodes, call[t].key) IN
    /\ Is(t, "get_scan")
    /\ IF hit = {}
       THEN UNCHANGED loc
       ELSE \E i \in hit :
              loc' = [loc EXCEPT ![t] = IF i >= Home(t) THEN [kind |-> "here", slot |-> i]
                                        ELSE [kind |-> "wrapped", slot |-> Home(t)]]
    /\ Goto(t, "get_leave")
    /\ UNCHANGED <<fields, locks, call, ret, crashed, calls>>

\* Faulty variant: every reader unlocks write_lock on its way out.
GetLeaveAlwaysUnlocks(t) ==
    /\ Is(t, "get_leave")
    /\ fields_lock = Free
    /\ num_readers' = num_readers - 1
    /\ write_lock' = Free
    /\ Goto(t, IF loc[t].kind = "none" THEN "idle" ELSE "get_read")
    /\ UNCHANGED <<fields, fields_lock, call, loc, ret, crashed, calls>>

\* Faulty variant: the path of a key that is not found forgets write_lock.
GetLeaveMissKeepsLock(t) ==
    /\ Is(t, "get_leave")
    /\ fields_lock = Free
    /\ num_readers' = num_readers - 1
    /\ write_lock' = IF num_readers' = 0 /\ loc[t].kind # "none" THEN Free ELSE write_lock
    /\ Goto(t, IF loc[t].kind = "none" THEN "idle" ELSE "get_read")
    /\ UNCHANGED <<fields, fields_lock, call, loc, ret, crashed, calls>>

\* The last reader to leave unlocks write_lock, all under fields_lock.
GetLeave(t) ==
    /\ Is(t, "get_leave")
    /\ fields_lock = Free
    /\ num_readers' = num_readers - 1
    /\ write_lock' = IF num_readers' = 0 THEN Free ELSE write_lock
    /\ IF loc[t].kind = "none"
       THEN Returning(t, Failed)
       ELSE Goto(t, "get_read") /\ UNCHANGED ret
    /\ UNCHANGED <<fields, fields_lock, call, loc, crashed, calls>>

\* The value's two fields are read without any lock, in the order the compiler
\* chose; for a wrapped key the pointer is an address in the table.
GetReadBase(t) ==
    /\ Is(t, "get_read") \/ Is(t, "get_base")
    /\ ret' = [ret EXCEPT ![t].base = IF loc[t].kind = "wrapped" THEN InTable
                                      ELSE nodes[loc[t].slot].vbase,
                          ![t].ok = TRUE]
    /\ Goto(t, IF pc[t] = "get_read" THEN "get_len" ELSE "idle")
    /\ UNCHANGED <<fields, locks, call, loc, crashed, calls>>

GetReadLen(t) ==
    /\ Is(t, "get_read") \/ Is(t, "get_len")
    /\ ret' = [ret EXCEPT ![t].len = nodes[loc[t].slot].vlen]
    /\ Goto(t, IF pc[t] = "get_read" THEN "get_base" ELSE "idle")
    /\ UNCHANGED <<fields, locks, call, loc, crashed, calls>>

\* The array is gone and a thread is about to touch it.
Fault(t) ==
    /\ ~crashed /\ invalid
    /\ \/ pc[t] \in {"del_ret", "get_scan", "get_read", "get_base", "get_len"}
       \/ pc[t] = "body" /\ call[t].op # "free"
    /\ crashed' = TRUE
    /\ UNCHANGED <<fields, locks, threadvars, calls>>

(***************************************************************************)
(* The specification.                                                      *)
(***************************************************************************)
Enter(t) == PutCall(t) \/ GetCall(t) \/ DeleteCall(t) \/ ClearCall(t) \/ InvalidateCall(t)

Write(t) ==
    \/ WriteLock(t) \/ WriteUnlock(t)
    \/ PutHome(t) \/ PutEvict(t) \/ PutProbe(t) \/ PutFallThrough(t)
    \/ DeleteBody(t) \/ DeleteReturn(t) \/ ClearBody(t) \/ FreeBody(t)

Read(t) ==
    \/ GetCount(t) \/ GetWriteLock(t) \/ GetOpen(t) \/ GetScan(t) \/ GetLeave(t)
    \/ GetReadBase(t) \/ GetReadLen(t)

Continue(t) == Write(t) \/ Read(t)

\* Every call has returned and no more are made, or the process is gone.
Done ==
    /\ crashed \/ (calls = MaxCalls /\ \A t \in Threads : pc[t] = "idle")
    /\ UNCHANGED vars

Next ==
    \/ \E t \in Threads : Enter(t) \/ Continue(t) \/ Fault(t)
    \/ Done

Spec == Init /\ [][Next]_vars

\* A thread in the middle of a call keeps running; nothing makes it call again.
FairSpec == Spec /\ \A t \in Threads : WF_vars(Continue(t))

(***************************************************************************)
(* Properties.                                                             *)
(***************************************************************************)
Labels == {"idle", "lock", "body", "unlock", "del_ret", "get_enter", "get_wlock",
           "get_open", "get_scan", "get_leave", "get_read", "get_base", "get_len"}

\* The type of every field and local of hashmap.c the model keeps.
TypeOK ==
    /\ nodes \in [Slots -> [kbase : Buffers \union {NULL}, vbase : Buffers \union {NULL},
                            vlen : Lens \union {0}, tombstone : BOOLEAN]]
    /\ size \in 0 .. Capacity
    /\ num_readers \in 0 .. Cardinality(Threads)
    /\ invalid \in BOOLEAN
    /\ write_lock \in Threads \union {Free, ByReaders}
    /\ fields_lock \in Threads \union {Free}
    /\ freed \subseteq {"key", "val"} \X Buffers
    /\ crashed \in BOOLEAN
    /\ calls \in 0 .. MaxCalls
    /\ pc \in [Threads -> Labels]
    /\ call \in [Threads -> Calls]
    /\ loc \in [Threads -> Places]
    /\ ret \in [Threads -> Returns]

\* The readers num_readers counts, and those of them inside the read section.
Counted == {t \in Threads : pc[t] \in {"get_wlock", "get_open", "get_scan", "get_leave"}}
Inside == {t \in Threads : pc[t] \in {"get_open", "get_scan", "get_leave"}}

\* The counter in get counts exactly the readers between its two fields_lock
\* sections, and write_lock is held for them from the first one in to the last
\* one out: never while a writer is in its body, whatever the interleaving.
LockProtocol ==
    /\ num_readers = Cardinality(Counted)
    /\ \A t \in Threads : fields_lock = t <=> pc[t] \in {"get_wlock", "get_open"}
    /\ \A t \in Threads : pc[t] \in {"body", "unlock"} => write_lock = t
    /\ write_lock = ByReaders <=> Inside # {}

\* write_lock is never left behind: whoever holds it is in the middle of its
\* critical section.  It holds as long as every put may evict, or callers take
\* turns: then the check of size and the probe agree.
NoOrphanLock == \A t \in Threads : write_lock = t => pc[t] \in {"body", "unlock"}

\* hashmap.c's two mutexes and its counter are a readers-writers lock: the
\* readers inside and the thread write_lock belongs to move as RWLock allows.
RW == INSTANCE RWLock WITH
        reading <- Inside,
        writing <- {t \in Threads : write_lock = t}
ImplementsRWLock == RW!Spec

\* size, which put compares with capacity and delete, clear_map and every
\* insertion update on their own paths, is the number of live slots.
SizeCountsLive == size = Cardinality(LiveSlots(nodes))

\* No empty slot lies between a live key and its home, so that a scan that stops
\* at an empty slot (delete's) cannot miss a key stored further on.
ProbeChains ==
    \A i \in LiveSlots(nodes) :
        LET h == GetIndex(nodes[i].kbase.key)
        IN  \E d \in Slots : At(h, d) = i /\ \A e \in 0 .. d - 1 : ~Empty(nodes, At(h, e))

\* A live slot owns its two buffers: neither was freed, no other live slot uses
\* them (destroy_function would free them twice), and the value was put for the
\* slot's own key.
OwnedBuffers ==
    \A i \in LiveSlots(nodes) :
        /\ Destroyed(nodes[i]) \intersect freed = {}
        /\ nodes[i].vbase.key = nodes[i].kbase.key
        /\ \A j \in LiveSlots(nodes) \ {i} :
              Destroyed(nodes[i]) \intersect Destroyed(nodes[j]) = {}

\* Once the callers stop calling, every call returns: put, get, delete and
\* clear_map leave both mutexes free for the next one.
EveryCallReturns == \A t \in Threads : pc[t] # "idle" ~> (pc[t] = "idle" \/ crashed)

(***************************************************************************)
(* What hashmap.h says of the operations and the code does not do.         *)
(***************************************************************************)
Returned(t, op) == pc[t] = "idle" /\ call[t].op = op /\ ret[t].ok

\* hashmap.h:77, get returns the corresponding value: one that was put for its key.
GetReturnsValueOfKey ==
    \A t \in Threads : Returned(t, "get") => ret[t].base \in Buffers /\ ret[t].base.key = call[t].key
=============================================================================
