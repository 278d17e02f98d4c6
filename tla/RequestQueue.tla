---------------------------- MODULE RequestQueue ----------------------------
(***************************************************************************)
(* hw5/src/queue.c: the linked queue between the accepting thread and the  *)
(* workers.  The mutex is held for whole critical sections that never      *)
(* block, so each of them is one step; what a call does before, between    *)
(* and after them (the unlocked test of invalid, calloc, sem_post,         *)
(* sem_wait, the read of holdFront->item) is a step of its own.            *)
(*                                                                         *)
(* Nodes are memory: dequeue frees a node that stays linked, and a freed   *)
(* node can be read, freed again or handed out by the next calloc.  What   *)
(* reading one yields is what free leaves of its two words: the allocator  *)
(* may or may not have overwritten them.                                   *)
(***************************************************************************)
EXTENDS Naturals, Sequences, FiniteSets

CONSTANTS
    Producers,   \* the threads that call enqueue
    Consumers,   \* the threads that call dequeue
    Closers,     \* the threads that call invalidate_queue, once each
    MaxItems,    \* bound: calls of enqueue
    Outstanding, \* environment: items enqueued and not yet returned, at most
    NULL,
    Junk         \* a word that points to no node and no item

ASSUME BoundsAssumption == MaxItems \in Nat /\ Outstanding \in Nat
ASSUME PointersAssumption == NULL \notin 1 .. MaxItems /\ Junk \notin 1 .. MaxItems /\ NULL # Junk
\* A thread has one of the three roles.
ASSUME ThreadsAssumption ==
    /\ Producers \intersect Consumers = {}
    /\ Closers \intersect (Producers \union Consumers) = {}
\* No word of memory is a whole node.
ASSUME NodesAssumption == NULL \notin [item : (1 .. MaxItems) \union {NULL}, next : (1 .. MaxItems) \union {NULL}]

VARIABLES
    mem,        \* the words of each node, NULL before its first use
    allocated,  \* the nodes calloc handed out and nobody freed since
    front, rear,
    items,      \* the semaphore
    invalid,
    pc,         \* where each thread is
    arg,        \* the item each producer is enqueueing
    node,       \* a producer's new node, a consumer's holdFront
    result,     \* what each consumer's last dequeue returned
    enqueued,   \* history: calls of enqueue so far; the n-th call's item is n
    accepted,   \* history: the items whose enqueue returned true
    returned,   \* history: calls of dequeue that waited for an item and returned
    destroyed,  \* history: the items given to destroy_function
    dangling,   \* history: a node was freed while it was linked
    crashed     \* the process died of a bad pointer

listvars == <<mem, allocated, front, rear, invalid, destroyed, dangling>>
queuevars == <<listvars, items>>
histories == <<enqueued, accepted, returned>>
callvars == <<histories, pc, arg, node, result>>
vars == <<queuevars, callvars, crashed>>

Items == 1 .. MaxItems
Nodes == 1 .. MaxItems
Threads == Producers \union Consumers \union Closers

\* create_queue
Init ==
    /\ mem = [n \in Nodes |-> NULL]
    /\ allocated = {}
    /\ front = NULL /\ rear = NULL
    /\ items = 0
    /\ invalid = FALSE
    /\ pc = [t \in Threads |-> "idle"]
    /\ arg = [p \in Producers |-> NULL]
    /\ node = [t \in Producers \union Consumers |-> NULL]
    /\ result = [c \in Consumers |-> NULL]
    /\ enqueued = 0 /\ accepted = {} /\ returned = 0 /\ destroyed = {}
    /\ dangling = FALSE /\ crashed = FALSE

Is(t, label) == ~crashed /\ pc[t] = label
Goto(t, label) == pc' = [pc EXCEPT ![t] = label]

\* What a load of a node's words can find: free may have written a link or
\* nothing over the first word and a key or nothing over the second.
ItemRead(n) == IF n \in allocated THEN {mem[n].item} ELSE {mem[n].item, NULL, Junk}
NextRead(n) == IF n \in allocated THEN {mem[n].next} ELSE {mem[n].next, Junk}

\* The node k links after front.
Walk[k \in 0 .. MaxItems] ==
    IF k = 0 THEN front
    ELSE IF Walk[k - 1] = NULL THEN NULL ELSE mem[Walk[k - 1]].next

Chain == {Walk[k] : k \in 0 .. MaxItems} \ {NULL}

(***************************************************************************)
(* enqueue.                                                                *)
(***************************************************************************)
\* Any freed node, or the first one never used; zeroed.
Calloc(n) ==
    /\ n \in Nodes \ allocated
    /\ \A m \in Nodes : mem[m] = NULL /\ m < n => mem[n] # NULL
    /\ allocated' = allocated \union {n}
    /\ mem' = [mem EXCEPT ![n] = [item |-> NULL, next |-> NULL]]

\* The test of invalid, before the lock.
EnqueueCall(p) ==
    /\ Is(p, "idle")
    /\ enqueued < MaxItems
    /\ enqueued' = enqueued + 1
    /\ IF invalid
       THEN UNCHANGED <<arg, pc>>
       ELSE arg' = [arg EXCEPT ![p] = enqueued'] /\ Goto(p, "alloc")
    /\ UNCHANGED <<queuevars, accepted, returned, node, result, crashed>>

\* The allocation, before the lock too.
EnqueueAlloc(p) ==
    /\ Is(p, "alloc")
    /\ \E n \in Nodes : Calloc(n) /\ node' = [node EXCEPT ![p] = n]
    /\ Goto(p, "link")
    /\ UNCHANGED <<front, rear, items, invalid, destroyed, dangling, histories, arg, result, crashed>>

\* Faulty variant: the queue is taken for empty when rear is NULL, as a comment
\* of enqueue has it; dequeue never resets rear.
EnqueueLinkTestsRear(p) ==
    LET n == node[p]
        filled == [mem EXCEPT ![n].item = arg[p]] IN
    /\ Is(p, "link")
    /\ rear' = n
    /\ IF rear = NULL
       THEN front' = n /\ mem' = filled
       ELSE mem' = [filled EXCEPT ![rear].next = n] /\ UNCHANGED front
    /\ Goto(p, "post")
    /\ UNCHANGED <<allocated, items, invalid, destroyed, dangling, histories, arg, node,
                   result, crashed>>

\* Faulty variant: a node linked behind rear does not become rear.
EnqueueLinkKeepsRear(p) ==
    LET n == node[p]
        filled == [mem EXCEPT ![n].item = arg[p]] IN
    /\ Is(p, "link")
    /\ IF front = NULL
       THEN front' = n /\ rear' = n /\ mem' = filled
       ELSE mem' = [filled EXCEPT ![rear].next = n] /\ UNCHANGED <<front, rear>>
    /\ Goto(p, "post")
    /\ UNCHANGED <<allocated, items, invalid, destroyed, dangling, histories, arg, node,
                   result, crashed>>

\* Faulty variant: the new node goes before front.
EnqueueLinkAtFront(p) ==
    LET n == node[p] IN
    /\ Is(p, "link")
    /\ front' = n
    /\ rear' = IF front = NULL THEN n ELSE rear
    /\ mem' = [mem EXCEPT ![n] = [item |-> arg[p], next |-> front]]
    /\ Goto(p, "post")
    /\ UNCHANGED <<allocated, items, invalid, destroyed, dangling, histories, arg, node,
                   result, crashed>>

\* Under the lock: the new node is the whole queue or goes behind rear.
EnqueueLink(p) ==
    LET n == node[p]
        filled == [mem EXCEPT ![n].item = arg[p]] IN
    /\ Is(p, "link")
    /\ rear' = n
    /\ IF front = NULL
       THEN front' = n /\ mem' = filled
       ELSE mem' = [filled EXCEPT ![rear].next = n] /\ UNCHANGED front
    /\ Goto(p, "post")
    /\ UNCHANGED <<allocated, items, invalid, destroyed, dangling, histories, arg, node,
                   result, crashed>>

\* Faulty variant: the semaphore is posted only when it is zero.
EnqueuePostIfZero(p) ==
    /\ Is(p, "post")
    /\ items' = IF items = 0 THEN 1 ELSE items
    /\ accepted' = accepted \union {arg[p]}
    /\ arg' = [arg EXCEPT ![p] = NULL] /\ node' = [node EXCEPT ![p] = NULL]
    /\ Goto(p, "idle")
    /\ UNCHANGED <<listvars, enqueued, returned, result, crashed>>

EnqueuePost(p) ==
    /\ Is(p, "post")
    /\ items' = items + 1
    /\ accepted' = accepted \union {arg[p]}
    /\ arg' = [arg EXCEPT ![p] = NULL] /\ node' = [node EXCEPT ![p] = NULL]
    /\ Goto(p, "idle")
    /\ UNCHANGED <<listvars, enqueued, returned, result, crashed>>

(***************************************************************************)
(* dequeue.                                                                *)
(***************************************************************************)
DequeueCall(c) ==
    /\ Is(c, "idle")
    /\ IF invalid
       THEN result' = [result EXCEPT ![c] = NULL] /\ UNCHANGED pc
       ELSE Goto(c, "wait") /\ UNCHANGED result
    /\ UNCHANGED <<queuevars, histories, arg, node, crashed>>

SemWait(c) ==
    /\ Is(c, "wait")
    /\ items > 0
    /\ items' = items - 1
    /\ Goto(c, "remove")
    /\ UNCHANGED <<listvars, histories, arg, node, result, crashed>>

\* Under the lock: front moves on, and the node it moved to is freed instead of
\* the one removed, which is kept for ever.  free aborts on what is no allocated
\* node.
DequeueRemove(c) ==
    /\ Is(c, "remove")
    /\ front # NULL
    /\ \E n \in NextRead(front) :
         /\ front' = n
         /\ allocated' = allocated \ {n}
         /\ dangling' = (dangling \/ n # NULL)
         /\ crashed' = (n # NULL /\ n \notin allocated)
    /\ node' = [node EXCEPT ![c] = front]
    /\ Goto(c, "return")
    /\ UNCHANGED <<mem, rear, items, invalid, destroyed, histories, arg, result>>

DequeueNothing(c) ==
    /\ Is(c, "remove")
    /\ front = NULL
    /\ result' = [result EXCEPT ![c] = NULL]
    /\ returned' = returned + 1
    /\ Goto(c, "idle")
    /\ UNCHANGED <<queuevars, enqueued, accepted, arg, node, crashed>>

\* holdFront->item, read after the unlock.
DequeueReturn(c) ==
    /\ Is(c, "return")
    /\ \E x \in ItemRead(node[c]) : result' = [result EXCEPT ![c] = x]
    /\ returned' = returned + 1
    /\ node' = [node EXCEPT ![c] = NULL]
    /\ Goto(c, "idle")
    /\ UNCHANGED <<queuevars, enqueued, accepted, arg, crashed>>

(***************************************************************************)
(* invalidate_queue.                                                       *)
(***************************************************************************)
\* Faulty variant of ListedItems: without the test for NULL.
ListedWords == {mem[n].item : n \in Chain}

\* The items invalidate_queue destroys.
ListedItems == {mem[n].item : n \in Chain} \ {NULL}

InvalidateCall(x) ==
    /\ Is(x, "idle")
    /\ Goto(x, IF invalid THEN "done" ELSE "invalidate")
    /\ UNCHANGED <<queuevars, histories, arg, node, result, crashed>>

\* Under the lock: every item is destroyed, then every node freed, with the link
\* read from the node just freed: a wild one is freed next.  A list that is
\* already broken does not survive it either.
InvalidateBody(x) ==
    /\ Is(x, "invalidate")
    /\ invalid' = TRUE
    /\ \/ /\ Chain \subseteq allocated /\ Walk[MaxItems] = NULL
          /\ destroyed' = destroyed \union ListedItems
          /\ allocated' = allocated \ Chain
          /\ dangling' = (dangling \/ Chain # {})
          /\ UNCHANGED crashed
       \/ /\ Chain # {}
          /\ crashed' = TRUE
          /\ UNCHANGED <<destroyed, allocated, dangling>>
    /\ Goto(x, "done")
    /\ UNCHANGED <<mem, front, rear, items, histories, arg, node, result>>

(***************************************************************************)
(* The specification.                                                      *)
(***************************************************************************)
\* The items still on their way through the queue.
Pending ==
    {arg[p] : p \in Producers} \union {mem[n].item : n \in Chain}
    \union {mem[node[c]].item : c \in {d \in Consumers : node[d] # NULL}}

\* The callers wait before they enqueue until fewer than Outstanding are pending.
Enqueue(p) ==
    \/ EnqueueCall(p) /\ Cardinality(Pending \ {NULL}) < Outstanding
    \/ EnqueueAlloc(p)
    \/ EnqueueLink(p)
    \/ EnqueuePost(p)

Dequeue(c) ==
    \/ DequeueCall(c) \/ SemWait(c)
    \/ DequeueRemove(c) \/ DequeueNothing(c) \/ DequeueReturn(c)

Invalidate(x) == InvalidateCall(x) \/ InvalidateBody(x)

\* The process died, or everything was enqueued and the consumers wait for more.
Done ==
    /\ \/ crashed
       \/ /\ enqueued = MaxItems
          /\ \A p \in Producers : pc[p] = "idle"
          /\ \A x \in Closers : pc[x] = "done"
          /\ items = 0
          /\ \A c \in Consumers : pc[c] = "wait" \/ (invalid /\ pc[c] = "idle")
    /\ UNCHANGED vars

Next ==
    \/ \E p \in Producers : Enqueue(p)
    \/ \E c \in Consumers : Dequeue(c)
    \/ \E x \in Closers : Invalidate(x)
    \/ Done

Spec == Init /\ [][Next]_vars

\* A producer in a call finishes it, and the consumers call dequeue in a loop, as
\* the server's workers do.
FairSpec ==
    /\ Spec
    /\ \A p \in Producers : WF_vars(EnqueueAlloc(p) \/ EnqueueLink(p) \/ EnqueuePost(p))
    /\ \A c \in Consumers : WF_vars(Dequeue(c))

(***************************************************************************)
(* Properties.                                                             *)
(***************************************************************************)
Pointers == Nodes \union {NULL}

TypeOK ==
    /\ \A n \in Nodes : mem[n] = NULL \/ mem[n] \in [item : Items \union {NULL}, next : Pointers]
    /\ allocated \subseteq {n \in Nodes : mem[n] # NULL}
    /\ front \in Pointers \union {Junk} /\ rear \in Pointers
    /\ items \in Nat /\ enqueued \in 0 .. MaxItems
    /\ invalid \in BOOLEAN /\ dangling \in BOOLEAN /\ crashed \in BOOLEAN
    /\ pc \in [Threads -> {"idle", "alloc", "link", "post", "wait", "remove", "return", "invalidate", "done"}]
    /\ arg \in [Producers -> Items \union {NULL}]
    /\ node \in [Producers \union Consumers -> Pointers]
    /\ result \in [Consumers -> Items \union {NULL, Junk}]
    /\ accepted \subseteq Items /\ returned \in Nat /\ destroyed \subseteq Items

Standing(S, label) == Cardinality({t \in S : pc[t] = label})

\* As long as no linked node was freed, the nodes of the list are those the
\* semaphore counts, those linked and not posted yet, and those a consumer has
\* waited for and not removed yet: so a consumer past sem_wait finds an item.
SemaphoreAccounts ==
    ~dangling => Cardinality(Chain) = items + Standing(Producers, "post") + Standing(Consumers, "remove")

\* As long as no linked node was freed, rear is the last node of the list while
\* there is one, and every node of the list is allocated and no thread's own.
ListIsSound ==
    ~dangling =>
        /\ Chain \subseteq allocated
        /\ front # NULL => rear \in Chain /\ mem[rear].next = NULL
        /\ \A c \in Consumers : node[c] \notin Chain
        /\ \A p \in Producers : pc[p] = "link" => node[p] \notin Chain

\* queue.h:47,56: enqueue puts an item at the tail, dequeue removes and returns
\* the item at the head.  An item is in the queue from its link to its removal
\* and in the consumer's hand until dequeue returns it.
ContentsOf(w) == [k \in 1 .. Cardinality({j \in DOMAIN w : w[j] # NULL}) |-> mem[w[k - 1]].item]
F == INSTANCE Fifo WITH
        q <- ContentsOf(Walk),
        hand <- [c \in Consumers |-> IF node[c] = NULL THEN NULL ELSE mem[node[c]].item],
        got <- result
ImplementsFifo == F!Spec

\* That holds step by step while the queue is valid and no linked node has been
\* freed, which includes the first removal from a backlog: every step puts an item
\* at the tail, removes the one at the head, returns the one removed, or leaves
\* what is queued and in the consumers' hands alone.
OrderUntilFreed ==
    [][~dangling /\ ~invalid => F!Next \/ UNCHANGED F!fifovars]_vars

\* However many items are queued, every one that was enqueued lets a dequeue that
\* waits return, as long as the queue is valid and the process lives: no wakeup is
\* lost between the producers that post and the consumers that wait.
NoWakeupLost ==
    \A k \in 1 .. MaxItems :
        Cardinality(accepted) >= k ~> (returned >= k \/ invalid \/ crashed)
=============================================================================
