----------------------------- MODULE QueueProofs ------------------------------
(***************************************************************************)
(* The request queue of hw5, for any threads and any number of items.      *)
(*                                                                         *)
(* Type correctness is more than bookkeeping here, as dequeue and          *)
(* invalidate_queue free nodes that are still linked: the words of memory  *)
(* keep their types because every pointer the queue follows, kept by a     *)
(* thread or read from a node, is NULL or to a node that was filled once,  *)
(* and a wild one ends the process before it is followed.                  *)
(*                                                                         *)
(* As long as no linked node was freed the list is a list, and the         *)
(* semaphore counts it, and the queue is first-in first-out up to and      *)
(* including the step that frees one.                                      *)
(***************************************************************************)
EXTENDS RequestQueue, DataInduction, FunctionTheorems, FiniteSetTheorems, SequenceTheorems, TLAPS

Node == [item : Items \union {NULL}, next : Pointers]
Words == [Nodes -> Node \union {NULL}]
Used(n) == n \in Nodes /\ mem[n] # NULL
\* A pointer the code may follow: NULL, or to a node that was filled.
Sound(n) == n = NULL \/ Used(n)

\* What memory and the pointers into it keep.
MemoryInv ==
    /\ mem \in Words
    /\ allocated \subseteq {n \in Nodes : mem[n] # NULL}
    /\ \A n \in Nodes : mem[n] # NULL => Sound(mem[n].next)
    /\ Sound(rear)
    /\ ~crashed => Sound(front)
    /\ rear = NULL => front = NULL
    /\ front \in Pointers \union {Junk}

\* What the threads hold at each place of their calls.
CallInv ==
    /\ pc \in [Threads -> {"idle", "alloc", "link", "post", "wait", "remove", "return", "invalidate", "done"}]
    /\ arg \in [Producers -> Items \union {NULL}]
    /\ node \in [Producers \union Consumers -> Pointers]
    /\ result \in [Consumers -> Items \union {NULL, Junk}]
    /\ \A t \in Producers \union Consumers : Sound(node[t])
    /\ \A p \in Producers : pc[p] = "link" => node[p] # NULL
    /\ \A p \in Producers : pc[p] \in {"alloc", "link", "post"} => arg[p] \in Items
    /\ \A c \in Consumers : pc[c] = "return" <=> node[c] # NULL

CountInv ==
    /\ items \in Nat /\ enqueued \in 0 .. MaxItems
    /\ invalid \in BOOLEAN /\ dangling \in BOOLEAN /\ crashed \in BOOLEAN
    /\ accepted \subseteq Items
    /\ returned \in Nat
    /\ destroyed \subseteq Items

Inv == MemoryInv /\ CallInv /\ CountInv

\* A filled node is not NULL.
LEMMA NodeIsNotNull == NULL \notin Node
BY NodesAssumption DEF Node, Items, Pointers, Nodes

\* Writing one word of a filled node leaves memory filled where it was.
LEMMA WriteItem ==
    ASSUME NEW m \in Words, NEW n \in Nodes, m[n] # NULL, NEW x \in Items \union {NULL}
    PROVE  LET w == [m EXCEPT ![n].item = x] IN
           /\ w \in Words
           /\ \A k \in Nodes : w[k] = NULL <=> m[k] = NULL
           /\ \A k \in Nodes : m[k] # NULL => w[k].next = m[k].next
<1> DEFINE w == [m EXCEPT ![n].item = x]
<1>1. m[n] \in Node
  BY DEF Words
<1>2. [m[n] EXCEPT !.item = x] \in Node
  BY <1>1 DEF Node
<1>3. \A k \in Nodes : w[k] = IF k = n THEN [m[n] EXCEPT !.item = x] ELSE m[k]
  BY DEF Words
<1>4. w \in Words
  BY <1>2 DEF Words
<1>5. w[n].next = m[n].next
  BY <1>1, <1>3 DEF Node
<1> HIDE DEF w
<1>6. \A k \in Nodes : w[k] = NULL <=> m[k] = NULL
  BY <1>2, <1>3, NodeIsNotNull
<1>7. \A k \in Nodes : m[k] # NULL => w[k].next = m[k].next
  BY <1>3, <1>5
<1> QED BY <1>4, <1>6, <1>7 DEF w

\* The same for the other word.
LEMMA WriteNext ==
    ASSUME NEW m \in Words, NEW n \in Nodes, m[n] # NULL, NEW x \in Pointers
    PROVE  LET w == [m EXCEPT ![n].next = x] IN
           /\ w \in Words
           /\ \A k \in Nodes : w[k] = NULL <=> m[k] = NULL
           /\ \A k \in Nodes : m[k] # NULL => w[k].next = IF k = n THEN x ELSE m[k].next
<1> DEFINE w == [m EXCEPT ![n].next = x]
<1>1. m[n] \in Node
  BY DEF Words
<1>2. [m[n] EXCEPT !.next = x] \in Node
  BY <1>1 DEF Node
<1>3. \A k \in Nodes : w[k] = IF k = n THEN [m[n] EXCEPT !.next = x] ELSE m[k]
  BY DEF Words
<1>4. w \in Words
  BY <1>2 DEF Words
<1>5. w[n].next = x
  BY <1>1, <1>3 DEF Node
<1> HIDE DEF w
<1>6. \A k \in Nodes : w[k] = NULL <=> m[k] = NULL
  BY <1>2, <1>3, NodeIsNotNull
<1>7. \A k \in Nodes : m[k] # NULL => w[k].next = IF k = n THEN x ELSE m[k].next
  BY <1>3, <1>5
<1> QED BY <1>4, <1>6, <1>7 DEF w

\* create_queue leaves an empty list and no node.
LEMMA InitInv == ASSUME Init PROVE Inv
<1> USE PointersAssumption, BoundsAssumption DEF Init
<1>1. MemoryInv
  <2>1. [n \in Nodes |-> NULL] \in Words
    BY DEF Words
  <2> QED BY <2>1 DEF MemoryInv, Sound, Used, Pointers
<1>2. CallInv
  BY DEF CallInv, Sound, Threads, Pointers
<1>3. CountInv
  <2>1. 0 \in 0 .. MaxItems
    OBVIOUS
  <2> QED BY <2>1 DEF CountInv
<1> QED BY <1>1, <1>2, <1>3 DEF Inv

-----------------------------------------------------------------------------
(* Steps *)

\* A step that leaves memory and list alone keeps what is known of them.
LEMMA SameMemory ==
    ASSUME MemoryInv, UNCHANGED <<mem, allocated, front, rear, crashed>>
    PROVE  MemoryInv'
BY DEF MemoryInv, Sound, Used

\* More memory filled, nothing emptied.
LEMMA SoundStays ==
    ASSUME \A k \in Nodes : mem[k] # NULL => mem'[k] # NULL
    PROVE  \A n : Sound(n) => Sound(n)'
BY DEF Sound, Used

\* A thread goes from one place to another that asks nothing new of it.
LEMMA GotoKeeps ==
    ASSUME CallInv, NEW t \in Threads, NEW l \in {"idle", "wait", "remove", "invalidate", "done"},
           (Goto(t, l) /\ pc[t] # "return") \/ UNCHANGED pc, \A n : Sound(n) => Sound(n)',
           UNCHANGED <<arg, node>>, result' \in [Consumers -> Items \union {NULL, Junk}]
    PROVE  CallInv'
<1>1. pc' \in [Threads -> {"idle", "alloc", "link", "post", "wait", "remove", "return", "invalidate", "done"}]
  BY DEF CallInv, Goto
<1>2. \A u \in Threads : (pc'[u] \in {"alloc", "link", "post", "return"} => pc[u] = pc'[u])
                        /\ (pc[u] = "return" => pc[u] = pc'[u])
  BY DEF CallInv, Goto
<1>3. \A u \in Producers \union Consumers : u \in Threads /\ Sound(node[u])'
  BY DEF CallInv, Threads
<1>4. \A u \in Producers \union Consumers :
        u \in Threads /\ node'[u] = node[u] /\ (pc'[u] = "return" <=> pc[u] = "return")
  BY <1>2 DEF Threads
<1>5. \A p \in Producers : pc'[p] = "link" => node'[p] # NULL
  BY <1>2, <1>4 DEF CallInv
<1>6. \A p \in Producers : pc'[p] \in {"alloc", "link", "post"} => arg'[p] \in Items
  BY <1>2, <1>4 DEF CallInv
<1>7. \A c \in Consumers : pc'[c] = "return" <=> node'[c] # NULL
  BY <1>4 DEF CallInv
<1> QED BY <1>1, <1>3, <1>5, <1>6, <1>7 DEF CallInv

\* The call of enqueue takes an item.
LEMMA EnqueueCallKeeps ==
    ASSUME Inv, NEW p \in Producers, EnqueueCall(p)
    PROVE  Inv'
<1> USE BoundsAssumption, PointersAssumption, ThreadsAssumption
<1>1. enqueued' = enqueued + 1 /\ enqueued' \in Items /\ enqueued' \in 0 .. MaxItems /\ p \in Threads
  BY DEF EnqueueCall, Inv, CountInv, Items, Threads
<1>2. UNCHANGED <<queuevars, accepted, returned, node, result, crashed>>
  BY DEF EnqueueCall
<1>3. MemoryInv'
  BY <1>2, SameMemory DEF Inv, queuevars, listvars
<1>4. CallInv'
  <2>1. CASE UNCHANGED <<arg, pc>>
    BY <1>2, <2>1 DEF Inv, CallInv, Sound, Used, queuevars, listvars
  <2>2. CASE arg' = [arg EXCEPT ![p] = enqueued'] /\ Goto(p, "alloc")
    <3>1. pc[p] = "idle" /\ p \notin Consumers
      BY DEF EnqueueCall, Is
    <3> QED BY <1>1, <1>2, <2>2, <3>1 DEF Inv, CallInv, Goto, Sound, Used, queuevars, listvars, Threads
  <2> QED BY <2>1, <2>2 DEF EnqueueCall
<1>5. CountInv'
  BY <1>1, <1>2 DEF Inv, CountInv, queuevars, listvars
<1> QED BY <1>3, <1>4, <1>5 DEF Inv

\* calloc fills a node nobody else has.
LEMMA EnqueueAllocKeeps ==
    ASSUME Inv, NEW p \in Producers, EnqueueAlloc(p)
    PROVE  Inv'
<1> USE BoundsAssumption, PointersAssumption, ThreadsAssumption
<1> PICK n \in Nodes : Calloc(n) /\ node' = [node EXCEPT ![p] = n]
  BY DEF EnqueueAlloc
<1> DEFINE fresh == [item |-> NULL, next |-> NULL]
<1>1. /\ Goto(p, "link") /\ pc[p] = "alloc" /\ p \in Threads /\ p \notin Consumers
      /\ UNCHANGED <<front, rear, items, invalid, destroyed, dangling, histories, arg, result, crashed>>
  BY DEF EnqueueAlloc, Is, Threads
<1>2. mem' = [mem EXCEPT ![n] = fresh] /\ allocated' = allocated \union {n}
  BY DEF Calloc
<1>3. fresh \in Node /\ fresh # NULL /\ fresh.next = NULL
  BY NodeIsNotNull DEF Node, Pointers
<1> HIDE DEF fresh
<1>4. mem' \in Words /\ \A k \in Nodes : mem'[k] = IF k = n THEN fresh ELSE mem[k]
  BY <1>2, <1>3 DEF Inv, MemoryInv, Words
<1>5. \A k : Sound(k) => Sound(k)'
  BY <1>3, <1>4, SoundStays
<1>6. MemoryInv'
  <2>1. allocated' \subseteq {k \in Nodes : mem'[k] # NULL}
    BY <1>2, <1>3, <1>4 DEF Inv, MemoryInv
  <2>2. \A k \in Nodes : mem'[k] # NULL => Sound(mem[k].next)'
    <3> SUFFICES ASSUME NEW k \in Nodes, mem'[k] # NULL
                 PROVE  Sound(mem[k].next)'
      OBVIOUS
    <3>1. CASE k = n
      <4>1. mem'[k].next = NULL
        BY <3>1, <1>3, <1>4
      <4> QED BY <4>1 DEF Sound
    <3>2. CASE k # n
      <4>1. mem'[k].next = mem[k].next /\ Sound(mem[k].next)
        BY <3>2, <1>4 DEF Inv, MemoryInv
      <4> QED BY <4>1, <1>5 DEF Sound, Used
    <3> QED BY <3>1, <3>2
  <2> QED BY <1>1, <1>4, <1>5, <2>1, <2>2 DEF Inv, MemoryInv
<1>7. CallInv'
  <2>1. Sound(n)' /\ n # NULL /\ n \in Pointers
    BY <1>3, <1>4 DEF Sound, Used, Pointers, Nodes
  <2> QED BY <1>1, <1>5, <2>1 DEF Inv, CallInv, Goto
<1>8. CountInv'
  BY <1>1 DEF Inv, CountInv, histories
<1> QED BY <1>6, <1>7, <1>8 DEF Inv

\* Linking writes one word of a filled node.
LEMMA EnqueueLinkKeeps ==
    ASSUME Inv, NEW p \in Producers, EnqueueLink(p)
    PROVE  Inv'
<1> USE PointersAssumption
<1> PICK n : n = node[p]
  OBVIOUS
<1> DEFINE filled == [mem EXCEPT ![n].item = arg[p]]
<1>1. /\ n \in Nodes /\ mem[n] # NULL /\ arg[p] \in Items /\ p \in Threads
      /\ ~crashed /\ rear' = n /\ Goto(p, "post")
      /\ UNCHANGED <<allocated, items, invalid, destroyed, dangling, histories, arg, node,
                     result, crashed>>
  BY DEF EnqueueLink, Is, Inv, CallInv, Sound, Used, Threads
<1>2. \/ front = NULL /\ front' = n /\ mem' = filled
      \/ front # NULL /\ mem' = [filled EXCEPT ![rear].next = n] /\ UNCHANGED front
  BY DEF EnqueueLink
<1>3. /\ filled \in Words
      /\ \A k \in Nodes : filled[k] = NULL <=> mem[k] = NULL
      /\ \A k \in Nodes : mem[k] # NULL => filled[k].next = mem[k].next
  BY <1>1, WriteItem DEF Inv, MemoryInv
<1> HIDE DEF filled
<1>4. /\ mem' \in Words
      /\ \A k \in Nodes : mem'[k] = NULL <=> mem[k] = NULL
      /\ \A k \in Nodes : mem[k] # NULL => mem'[k].next \in {n, mem[k].next}
  <2>1. CASE front = NULL
    BY <1>2, <1>3, <2>1
  <2>2. CASE front # NULL
    <3>1. rear \in Nodes /\ filled[rear] # NULL /\ n \in Pointers
      BY <1>1, <1>3, <2>2 DEF Inv, MemoryInv, Sound, Used, Pointers
    <3>2. LET w == [filled EXCEPT ![rear].next = n] IN
          /\ w \in Words
          /\ \A k \in Nodes : w[k] = NULL <=> filled[k] = NULL
          /\ \A k \in Nodes : filled[k] # NULL => w[k].next = IF k = rear THEN n ELSE filled[k].next
      BY <1>3, <3>1, WriteNext
    <3> QED BY <1>2, <1>3, <2>2, <3>2
  <2> QED BY <2>1, <2>2
<1>5. \A k : Sound(k) => Sound(k)'
  BY <1>4, SoundStays
<1>6. Sound(n)' /\ n # NULL
  BY <1>1, <1>4 DEF Sound, Used, Nodes
<1>7. MemoryInv'
  <2>1. \A k \in Nodes : mem'[k] # NULL => Sound(mem[k].next)'
    <3> SUFFICES ASSUME NEW k \in Nodes, mem'[k] # NULL
                 PROVE  Sound(mem[k].next)'
      OBVIOUS
    <3>1. mem'[k].next \in {n, mem[k].next} /\ Sound(mem[k].next)
      BY <1>4 DEF Inv, MemoryInv
    <3>2. CASE mem'[k].next = n
      BY <1>6, <3>2 DEF Sound, Used
    <3>3. CASE mem'[k].next = mem[k].next
      BY <1>5, <3>1, <3>3 DEF Sound, Used
    <3> QED BY <3>1, <3>2, <3>3
  <2>2. Sound(rear)' /\ rear' # NULL
    BY <1>1, <1>6 DEF Sound, Used
  <2>3. Sound(front)' /\ front' \in Pointers \union {Junk}
    BY <1>1, <1>2, <1>5, <1>6 DEF Inv, MemoryInv, Sound, Used, Pointers
  <2>4. allocated' \subseteq {k \in Nodes : mem'[k] # NULL}
    BY <1>1, <1>4 DEF Inv, MemoryInv
  <2> QED BY <1>4, <2>1, <2>2, <2>3, <2>4 DEF MemoryInv
<1>8. CallInv'
  <2>1. p \notin Consumers /\ pc[p] = "link"
    BY ThreadsAssumption DEF EnqueueLink, Is
  <2> QED BY <1>1, <1>5, <2>1 DEF Inv, CallInv, Goto
<1>9. CountInv'
  BY <1>1 DEF Inv, CountInv, histories
<1> QED BY <1>7, <1>8, <1>9 DEF Inv

\* sem_post counts one more item.
LEMMA EnqueuePostKeeps ==
    ASSUME Inv, NEW p \in Producers, EnqueuePost(p)
    PROVE  Inv'
<1>1. /\ arg[p] \in Items /\ p \in Threads
      /\ items' = items + 1 /\ accepted' = accepted \union {arg[p]}
      /\ arg' = [arg EXCEPT ![p] = NULL] /\ node' = [node EXCEPT ![p] = NULL]
      /\ pc' = [pc EXCEPT ![p] = "idle"]
      /\ p \notin Consumers /\ UNCHANGED <<listvars, enqueued, returned, result, crashed>>
  BY ThreadsAssumption DEF EnqueuePost, Is, Goto, Inv, CallInv, Threads
<1>2. MemoryInv'
  BY <1>1, SameMemory DEF Inv, listvars
<1>3. CallInv'
  BY <1>1 DEF Inv, CallInv, Sound, Used, Pointers, listvars
<1>4. CountInv'
  BY <1>1 DEF Inv, CountInv, listvars
<1> QED BY <1>2, <1>3, <1>4 DEF Inv

\* The steps of dequeue that leave the list alone.
LEMMA DequeueWaitsKeeps ==
    ASSUME Inv, NEW c \in Consumers, DequeueCall(c) \/ SemWait(c) \/ DequeueNothing(c)
    PROVE  Inv'
<1>1. MemoryInv'
  BY SameMemory DEF Inv, DequeueCall, SemWait, DequeueNothing, queuevars, listvars
<1>2. CallInv'
  <2>1. c \in Threads /\ UNCHANGED <<arg, node, mem>>
    BY DEF Threads, DequeueCall, SemWait, DequeueNothing, queuevars, listvars
  <2>2. /\ pc[c] # "return"
        /\ UNCHANGED pc \/ Goto(c, "wait") \/ Goto(c, "remove") \/ Goto(c, "idle")
    BY DEF DequeueCall, SemWait, DequeueNothing, Is
  <2>3. UNCHANGED result \/ result' = [result EXCEPT ![c] = NULL]
    BY DEF DequeueCall, SemWait, DequeueNothing
  <2>4. \A n : Sound(n) => Sound(n)'
    BY <2>1 DEF Sound, Used
  <2>5. result' \in [Consumers -> Items \union {NULL, Junk}]
    BY <2>3 DEF Inv, CallInv
  <2> QED BY <2>1, <2>2, <2>4, <2>5, GotoKeeps DEF Inv
<1>3. CountInv'
  BY DEF Inv, CountInv, DequeueCall, SemWait, DequeueNothing, queuevars, listvars, histories
<1> QED BY <1>1, <1>2, <1>3 DEF Inv

\* The pointers moved along the list stay those of filled nodes.
LEMMA DequeueRemoveKeeps ==
    ASSUME Inv, NEW c \in Consumers, DequeueRemove(c)
    PROVE  Inv'
<1> USE PointersAssumption
<1>1. front \in Nodes /\ mem[front] # NULL /\ Sound(mem[front].next) /\ rear # NULL /\ c \in Threads
  BY DEF DequeueRemove, Is, Inv, MemoryInv, Sound, Used, Threads
<1> PICK n \in NextRead(front) :
        /\ front' = n
        /\ allocated' = allocated \ {n}
        /\ dangling' = (dangling \/ n # NULL)
        /\ crashed' = (n # NULL /\ n \notin allocated)
  BY DEF DequeueRemove
<1>2. /\ node' = [node EXCEPT ![c] = front] /\ Goto(c, "return")
      /\ UNCHANGED <<mem, rear, items, invalid, destroyed, histories, arg, result>>
  BY DEF DequeueRemove
<1>3. n \in Pointers \union {Junk}
  BY <1>1 DEF NextRead, Sound, Used, Pointers
<1>4. ~crashed' => Sound(n)
  BY DEF Inv, MemoryInv, Sound, Used
<1>5. MemoryInv'
  BY <1>1, <1>2, <1>3, <1>4 DEF Inv, MemoryInv, Sound, Used
<1>6. CallInv'
  <2>1. front \in Pointers /\ front # NULL /\ Sound(front)
    BY <1>1 DEF Sound, Used, Pointers, Nodes
  <2> QED BY <1>1, <1>2, <2>1 DEF Inv, CallInv, Goto, Sound, Used
<1>7. CountInv'
  BY <1>2 DEF Inv, CountInv, histories
<1> QED BY <1>5, <1>6, <1>7 DEF Inv

\* What is returned was in a filled node.
LEMMA DequeueReturnKeeps ==
    ASSUME Inv, NEW c \in Consumers, DequeueReturn(c)
    PROVE  Inv'
<1>1. node[c] \in Nodes /\ mem[node[c]] \in Node /\ c \in Threads
  BY DEF DequeueReturn, Is, Inv, CallInv, MemoryInv, Words, Sound, Used, Threads
<1> PICK x \in ItemRead(node[c]) :
        result' = [result EXCEPT ![c] = x]
  BY DEF DequeueReturn
<1>2. x \in Items \union {NULL, Junk}
  BY <1>1 DEF ItemRead, Node
<1>3. /\ node' = [node EXCEPT ![c] = NULL] /\ Goto(c, "idle") /\ returned' = returned + 1
      /\ UNCHANGED <<queuevars, enqueued, accepted, arg, crashed>>
  BY DEF DequeueReturn
<1>4. MemoryInv'
  BY <1>3, SameMemory DEF Inv, queuevars, listvars
<1>5. CallInv'
  BY <1>1, <1>2, <1>3 DEF Inv, CallInv, Goto, Sound, Used, Pointers, queuevars, listvars
<1>6. CountInv'
  BY <1>2, <1>3 DEF Inv, CountInv, queuevars, listvars
<1> QED BY <1>4, <1>5, <1>6 DEF Inv

\* invalidate_queue frees nodes and empties no word.
LEMMA InvalidateKeeps ==
    ASSUME Inv, NEW x \in Closers, Invalidate(x)
    PROVE  Inv'
<1>1. x \in Threads
  BY DEF Threads
<1>2. CASE InvalidateCall(x)
  <2>1. MemoryInv' /\ CountInv'
    BY <1>2, SameMemory DEF Inv, CountInv, InvalidateCall, queuevars, listvars, histories
  <2>2. (Goto(x, "done") \/ Goto(x, "invalidate")) /\ pc[x] # "return"
    BY <1>2 DEF InvalidateCall, Is
  <2>3. (\A n : Sound(n) => Sound(n)') /\ UNCHANGED <<arg, node, result>>
    BY <1>2 DEF InvalidateCall, queuevars, listvars, Sound, Used
  <2>4. CallInv'
    BY <1>1, <2>2, <2>3, GotoKeeps DEF Inv, CallInv
  <2> QED BY <2>1, <2>4 DEF Inv
<1>3. CASE InvalidateBody(x)
  <2>1. /\ Goto(x, "done") /\ invalid' = TRUE /\ pc[x] # "return"
        /\ UNCHANGED <<mem, front, rear, items, histories, arg, node, result>>
    BY <1>3 DEF InvalidateBody, Is
  <2>2. (\A n : Sound(n) => Sound(n)')
    BY <2>1 DEF Sound, Used
  <2>3. CallInv'
    BY <1>1, <2>1, <2>2, GotoKeeps DEF Inv, CallInv
  <2>4. allocated' \subseteq allocated /\ crashed' \in BOOLEAN /\ (~crashed' => ~crashed)
    BY <1>3 DEF InvalidateBody, Is, Inv, CountInv
  <2>5. MemoryInv'
    BY <2>1, <2>4 DEF Inv, MemoryInv, Sound, Used
  <2>6. destroyed' \subseteq Items
    <3>1. CASE Chain \subseteq allocated /\ destroyed' = destroyed \union ListedItems
      <4>1. \A n \in Chain : mem[n] \in Node
        BY <3>1 DEF Inv, MemoryInv, Words
      <4>2. ListedItems \subseteq Items
        BY <4>1 DEF ListedItems, Node
      <4> QED BY <3>1, <4>2 DEF Inv, CountInv
    <3>2. CASE UNCHANGED destroyed
      BY <3>2 DEF Inv, CountInv
    <3> QED BY <1>3, <3>1, <3>2 DEF InvalidateBody
  <2>7. CountInv'
    BY <1>3, <2>1, <2>4, <2>6 DEF InvalidateBody, Inv, CountInv, histories
  <2> QED BY <2>3, <2>5, <2>7 DEF Inv
<1> QED BY <1>2, <1>3 DEF Invalidate

-----------------------------------------------------------------------------
(* The theorem *)

\* The invariant is inductive.
LEMMA NextKeeps ==
    ASSUME Inv, [Next]_vars
    PROVE  Inv'
<1>1. ASSUME NEW p \in Producers, Enqueue(p)
      PROVE  Inv'
  BY <1>1, EnqueueCallKeeps, EnqueueAllocKeeps, EnqueueLinkKeeps, EnqueuePostKeeps DEF Enqueue
<1>2. ASSUME NEW c \in Consumers, Dequeue(c)
      PROVE  Inv'
  BY <1>2, DequeueWaitsKeeps, DequeueRemoveKeeps, DequeueReturnKeeps DEF Dequeue
<1>3. ASSUME NEW x \in Closers, Invalidate(x)
      PROVE  Inv'
  BY <1>3, InvalidateKeeps
<1>4. CASE UNCHANGED vars
  <2>1. MemoryInv' /\ CallInv' /\ CountInv'
    BY <1>4 DEF Inv, MemoryInv, CallInv, CountInv, Sound, Used, vars, queuevars, listvars,
                callvars, histories
  <2> QED BY <2>1 DEF Inv
<1> QED BY <1>1, <1>2, <1>3, <1>4 DEF Next, Done

\* Any threads and any number of items: the words of memory and what dequeue returns
\* have their types, a pointer that is followed is to a node that was filled, and what
\* is not leads to a crash.
THEOREM TypeCorrect == Spec => []TypeOK
<1>1. Init => Inv
  BY InitInv
<1>2. Inv /\ [Next]_vars => Inv'
  BY NextKeeps
<1>3. Inv => TypeOK
  BY DEF Inv, MemoryInv, CallInv, CountInv, TypeOK, Words, Node, Sound, Used, Pointers
<1> QED BY <1>1, <1>2, <1>3, PTL DEF Spec

-----------------------------------------------------------------------------
(* The walk along the list *)

\* w goes from front along the links.
IsWalk(w) ==
    /\ w[0] = front
    /\ \A k \in 1 .. MaxItems : w[k] = IF w[k - 1] = NULL THEN NULL ELSE mem[w[k - 1]].next

\* The recursive definition has a solution, which meets only pointers that may be followed.
LEMMA WalkSteps ==
    MemoryInv /\ Sound(front) =>
        /\ Walk \in [0 .. MaxItems -> Pointers] /\ IsWalk(Walk)
        /\ \A k \in 0 .. MaxItems : Sound(Walk[k])
<1> SUFFICES ASSUME MemoryInv, Sound(front)
             PROVE  /\ Walk \in [0 .. MaxItems -> Pointers] /\ IsWalk(Walk)
                    /\ \A k \in 0 .. MaxItems : Sound(Walk[k])
  OBVIOUS
<1> USE BoundsAssumption, PointersAssumption
<1> DEFINE A == {x \in Pointers : Sound(x)}
           s == [x \in A |-> IF x = NULL THEN NULL ELSE mem[x].next]
<1>1. front \in A
  BY DEF Sound, Used, Pointers
<1>2. s \in [A -> A]
  <2> SUFFICES ASSUME NEW x \in A, x # NULL PROVE mem[x].next \in A
    BY DEF Sound, Pointers
  <2>1. Sound(mem[x].next)
    BY DEF MemoryInv, Sound, Used
  <2> QED BY <2>1 DEF Sound, Used, Pointers
<1> HIDE DEF s, A
<1>3. PICK f \in [0 .. MaxItems -> A] : Iterates(f, MaxItems, front, s)
  BY <1>1, <1>2, IterationExists
<1>4. ASSUME NEW n \in 1 .. MaxItems
      PROVE  f[n] = IF f[n - 1] = NULL THEN NULL ELSE mem[f[n - 1]].next
  <2>1. f[n - 1] \in A
    BY <1>3
  <2>2. f[n] = s[f[n - 1]]
    BY <1>3 DEF Iterates
  <2> QED BY <2>1, <2>2 DEF s
<1>5. f = [k \in 0 .. MaxItems |-> IF k = 0 THEN front
                                   ELSE IF f[k - 1] = NULL THEN NULL ELSE mem[f[k - 1]].next]
  BY <1>3, <1>4 DEF Iterates
<1>6. Walk = [k \in 0 .. MaxItems |-> IF k = 0 THEN front
                                      ELSE IF Walk[k - 1] = NULL THEN NULL ELSE mem[Walk[k - 1]].next]
  BY <1>5 DEF Walk
<1>7. IsWalk(Walk)
  BY <1>6 DEF IsWalk
<1>8. \A k \in 0 .. MaxItems : Walk[k] \in A
  <2> DEFINE S == {k \in 0 .. MaxItems : Walk[k] \in A}
  <2>1. 0 \in S
    BY <1>1, <1>7 DEF IsWalk
  <2>2. ASSUME NEW n \in 0 .. MaxItems, n \in S, n < MaxItems
        PROVE  n + 1 \in S
    <3>1. n + 1 \in 1 .. MaxItems /\ Walk[n] \in A /\ (n + 1) - 1 = n
      BY <2>2
    <3>2. Walk[n + 1] = IF Walk[n] = NULL THEN NULL ELSE mem[Walk[n]].next
      BY <1>7, <3>1 DEF IsWalk
    <3>3. Walk[n + 1] = s[Walk[n]]
      BY <3>1, <3>2 DEF s
    <3> QED BY <1>2, <3>1, <3>3
  <2> HIDE DEF S
  <2>3. \A k \in 0 .. MaxItems : k \in S
    BY <2>1, <2>2, InductTo
  <2> QED BY <2>3 DEF S
<1> QED BY <1>6, <1>7, <1>8 DEF A

\* It is the only one.
LEMMA WalkIs ==
    MemoryInv /\ Sound(front) => \A w : w \in [0 .. MaxItems -> Pointers] /\ IsWalk(w) => Walk = w
<1> SUFFICES ASSUME MemoryInv, Sound(front), NEW w \in [0 .. MaxItems -> Pointers], IsWalk(w)
             PROVE  Walk = w
  OBVIOUS
<1> USE BoundsAssumption
<1>1. Walk \in [0 .. MaxItems -> Pointers] /\ IsWalk(Walk)
  BY WalkSteps
<1> DEFINE S == {k \in 0 .. MaxItems : Walk[k] = w[k]}
<1>2. 0 \in S
  BY <1>1 DEF IsWalk
<1>3. ASSUME NEW n \in 0 .. MaxItems, n \in S, n < MaxItems
      PROVE  n + 1 \in S
  <2>1. n + 1 \in 1 .. MaxItems /\ Walk[n] = w[n] /\ (n + 1) - 1 = n
    BY <1>3
  <2> QED BY <1>1, <2>1 DEF IsWalk
<1> HIDE DEF S
<1>4. \A k \in 0 .. MaxItems : k \in S
  BY <1>2, <1>3, InductTo
<1> QED BY <1>1, <1>4 DEF S

\* The walk goes from node to node in the next state too.
LEMMA WalkStepsNext ==
    (MemoryInv /\ Sound(front) =>
        /\ Walk \in [0 .. MaxItems -> Pointers] /\ IsWalk(Walk)
        /\ \A k \in 0 .. MaxItems : Sound(Walk[k]))'
BY WalkSteps, PTL

\* There it is the only walk, too.
LEMMA WalkIsNext ==
    (MemoryInv /\ Sound(front) => \A w : w \in [0 .. MaxItems -> Pointers] /\ IsWalk(w) => Walk = w)'
BY WalkIs, PTL

\* The list has n nodes, all different, and rear is the last, with no link.
Shape(n) ==
    /\ \A k \in 0 .. MaxItems : Walk[k] = NULL <=> k >= n
    /\ \A j, k \in 0 .. (n - 1) : Walk[j] = Walk[k] => j = k
    /\ n > 0 => rear = Walk[n - 1] /\ mem[rear].next = NULL

\* A list of n nodes has n nodes that are linked.
LEMMA ChainHasLength ==
    ASSUME MemoryInv, Sound(front), NEW n \in 0 .. MaxItems, Shape(n)
    PROVE  /\ Chain = {Walk[k] : k \in 0 .. (n - 1)}
           /\ Chain \subseteq Nodes
           /\ IsFiniteSet(Chain) /\ Cardinality(Chain) = n
<1> USE BoundsAssumption, PointersAssumption
<1>1. Walk \in [0 .. MaxItems -> Pointers]
  BY WalkSteps
<1>2. Chain = {Walk[k] : k \in 0 .. (n - 1)}
  BY DEF Chain, Shape
<1>3. Chain \subseteq Nodes
  BY <1>1 DEF Chain, Pointers
<1> DEFINE f == [k \in 0 .. (n - 1) |-> Walk[k]]
<1>4. f \in Bijection(0 .. (n - 1), Chain)
  <2>1. f \in [0 .. (n - 1) -> Chain]
    BY <1>2
  <2>2. \A a, b \in 0 .. (n - 1) : f[a] = f[b] => a = b
    BY DEF Shape
  <2>3. \A t \in Chain : \E k \in 0 .. (n - 1) : f[k] = t
    BY <1>2
  <2> QED BY <2>1, <2>2, <2>3, Fun_IsBij
<1>5. ExistsBijection(0 .. (n - 1), Chain)
  BY <1>4 DEF ExistsBijection
<1>6. IsFiniteSet(0 .. (n - 1)) /\ Cardinality(0 .. (n - 1)) = n
  BY FS_Interval
<1> QED BY <1>2, <1>3, <1>5, <1>6, FS_Bijection

-----------------------------------------------------------------------------
(* The list and the semaphore while no linked node was freed *)

At(S, label) == {t \in S : pc[t] = label}

\* Nothing was freed, and the list is a list of filled nodes.
Whole ==
    /\ Sound(front)
    /\ allocated = {n \in Nodes : mem[n] # NULL}
    /\ \E n \in 0 .. MaxItems : Shape(n)
    /\ \A n \in Chain : mem[n].item \in Items

\* A node is in the list or some thread's own.
Owned ==
    /\ \A c \in Consumers : node[c] \notin Chain
    /\ \A c \in Consumers : pc[c] = "return" => mem[node[c]].item \in Items
    /\ \A p \in Producers : pc[p] = "link" => node[p] \notin Chain /\ mem[node[p]].next = NULL
    /\ \A p, q \in Producers : pc[p] = "link" /\ pc[q] = "link" /\ node[p] = node[q] => p = q
    /\ \A p \in Producers, c \in Consumers : pc[p] = "link" => node[p] # node[c]

Counted ==
    /\ IsFiniteSet(At(Producers, "post")) /\ IsFiniteSet(At(Consumers, "remove"))
    /\ Cardinality(Chain) = items + Standing(Producers, "post") + Standing(Consumers, "remove")

ListInv == ~dangling => Whole /\ Owned /\ Counted

\* The queue starts as an empty list.
LEMMA ListInit == ASSUME Init PROVE ListInv
<1> USE PointersAssumption, BoundsAssumption
<1>1. MemoryInv /\ Sound(front) /\ front = NULL
  BY InitInv DEF Inv, Init, Sound
<1>2. Walk \in [0 .. MaxItems -> Pointers] /\ IsWalk(Walk)
  BY <1>1, WalkSteps
<1>3. IsWalk([k \in 0 .. MaxItems |-> NULL]) /\ [k \in 0 .. MaxItems |-> NULL] \in [0 .. MaxItems -> Pointers]
  BY <1>1 DEF IsWalk, Pointers
<1>4. Walk = [k \in 0 .. MaxItems |-> NULL]
  BY <1>1, <1>3, WalkIs
<1>5. Shape(0) /\ Chain = {}
  BY <1>4 DEF Shape, Chain
<1>6. Whole
  BY <1>1, <1>5 DEF Whole, Init
<1>7. Owned
  BY <1>5 DEF Owned, Init, Threads
<1>8. At(Producers, "post") = {} /\ At(Consumers, "remove") = {}
  BY DEF At, Init, Threads
<1>9. Standing(Producers, "post") = 0 /\ Standing(Consumers, "remove") = 0 /\ Cardinality(Chain) = 0
  BY <1>5, <1>8, FS_EmptySet DEF Standing, At
<1>10. items = 0
  BY DEF Init
<1>11. Counted
  BY <1>8, <1>9, <1>10, FS_EmptySet DEF Counted
<1> QED BY <1>6, <1>7, <1>11 DEF ListInv

\* A step that writes no word and keeps front leaves the list as it is.
LEMMA SameList ==
    ASSUME UNCHANGED <<mem, front>>
    PROVE  Walk' = Walk /\ Chain' = Chain
BY DEF Walk, Chain

\* Who stands where after one thread has gone somewhere.
LEMMA Moves ==
    ASSUME CallInv, NEW t \in Threads, NEW l, Goto(t, l),
           NEW S \in SUBSET Threads, NEW m, IsFiniteSet(At(S, m)), pc[t] # l
    PROVE  /\ IsFiniteSet(At(S, m)')
           /\ Standing(S, m) \in Nat /\ Standing(S, m)' \in Nat
           /\ t \notin S \/ (l # m /\ pc[t] # m) => At(S, m)' = At(S, m) /\ Standing(S, m)' = Standing(S, m)
           /\ t \in S /\ l = m => Standing(S, m)' = Standing(S, m) + 1
           /\ t \in S /\ pc[t] = m => Standing(S, m)' = Standing(S, m) - 1
<1>1. \A u \in Threads : pc'[u] = IF u = t THEN l ELSE pc[u]
  BY DEF CallInv, Goto
<1>2. Standing(S, m) = Cardinality(At(S, m)) /\ Standing(S, m)' = Cardinality(At(S, m)')
  BY DEF Standing, At
<1>3. CASE t \notin S \/ (l # m /\ pc[t] # m)
  <2>1. At(S, m)' = At(S, m)
    BY <1>1, <1>3 DEF At
  <2> QED BY <1>2, <1>3, <2>1, FS_CardinalityType
<1>4. CASE t \in S /\ l = m
  <2>1. At(S, m)' = At(S, m) \cup {t} /\ t \notin At(S, m)
    BY <1>1, <1>4 DEF At
  <2>2. IsFiniteSet(At(S, m)') /\ Cardinality(At(S, m)') = Cardinality(At(S, m)) + 1
    BY <2>1, FS_AddElement
  <2>3. Cardinality(At(S, m)) \in Nat
    BY FS_CardinalityType
  <2> QED BY <1>2, <1>4, <2>2, <2>3
<1>5. CASE t \in S /\ pc[t] = m
  <2>1. At(S, m)' = At(S, m) \ {t} /\ t \in At(S, m)
    BY <1>1, <1>5 DEF At
  <2>2. IsFiniteSet(At(S, m)') /\ Cardinality(At(S, m)') = Cardinality(At(S, m)) - 1
    BY <2>1, FS_RemoveElement
  <2>3. Cardinality(At(S, m)) \in Nat /\ Cardinality(At(S, m)') \in Nat
    BY <2>2, FS_CardinalityType
  <2> QED BY <1>2, <1>5, <2>2, <2>3
<1> QED BY <1>3, <1>4, <1>5

\* What the walk meets was filled, and not by calloc just now.
LEMMA ChainIsUsed ==
    ASSUME MemoryInv, Sound(front)
    PROVE  /\ Chain \subseteq {n \in Nodes : mem[n] # NULL}
           /\ \A k \in 0 .. MaxItems : Walk[k] # NULL => Walk[k] \in Chain
BY WalkSteps DEF Chain, Sound, Used

\* A call of enqueue leaves the list as it is.
LEMMA EnqueueCallList ==
    ASSUME Inv, ListInv, ~dangling, NEW p \in Producers, EnqueueCall(p)
    PROVE  (Whole /\ Owned /\ Counted)'
<1> USE ThreadsAssumption
<1>1. MemoryInv /\ CallInv /\ Whole /\ Owned /\ Counted /\ p \in Threads /\ p \notin Consumers
  BY DEF Inv, ListInv, Threads
<1>2. UNCHANGED <<mem, allocated, front, rear, items, node>> /\ Walk' = Walk /\ Chain' = Chain
  BY SameList DEF EnqueueCall, queuevars, listvars
<1>3. \A t \in Threads : pc'[t] = pc[t] \/ (t = p /\ pc'[t] = "alloc" /\ pc[t] = "idle")
  BY <1>1 DEF EnqueueCall, Is, Goto, CallInv
<1>4. Whole'
  BY <1>1, <1>2 DEF Whole, Sound, Used, Shape
<1>5. Owned'
  BY <1>1, <1>2, <1>3 DEF Owned, Threads
<1>6. Counted'
  <2>1. At(Producers, "post")' = At(Producers, "post") /\ At(Consumers, "remove")' = At(Consumers, "remove")
    BY <1>1, <1>3 DEF At, Threads
  <2> QED BY <1>1, <1>2, <2>1 DEF Counted, Standing, At
<1> QED BY <1>4, <1>5, <1>6

\* calloc hands out a node that is not in the list and writes no other.
LEMMA EnqueueAllocList ==
    ASSUME Inv, ListInv, ~dangling, NEW p \in Producers, EnqueueAlloc(p)
    PROVE  /\ (Whole /\ Owned /\ Counted)'
           /\ Walk' = Walk
           /\ \A k \in Chain : mem'[k] = mem[k]
           /\ \A c \in Consumers : node'[c] = node[c] /\ (node[c] # NULL => mem'[node[c]] = mem[node[c]])
<1> USE BoundsAssumption, PointersAssumption, ThreadsAssumption
<1>0. MemoryInv /\ CallInv /\ MemoryInv' /\ Whole /\ Owned /\ Counted /\ p \in Threads /\ p \notin Consumers
  BY EnqueueAllocKeeps DEF Inv, ListInv, Threads
<1> PICK n \in Nodes : Calloc(n) /\ node' = [node EXCEPT ![p] = n]
  BY DEF EnqueueAlloc
<1> DEFINE fresh == [item |-> NULL, next |-> NULL]
<1>1. Goto(p, "link") /\ UNCHANGED <<front, rear, items, result>> /\ pc[p] = "alloc"
  BY DEF EnqueueAlloc, Is
<1>2. n \notin allocated /\ mem' = [mem EXCEPT ![n] = fresh] /\ allocated' = allocated \union {n}
  BY DEF Calloc
<1>3. fresh # NULL /\ fresh.next = NULL
  BY NodeIsNotNull DEF Node, Pointers
<1> HIDE DEF fresh
<1>4. \A k \in Nodes : mem'[k] = IF k = n THEN fresh ELSE mem[k]
  BY <1>0, <1>2 DEF MemoryInv, Words
<1>5. mem[n] = NULL /\ Chain \subseteq Nodes \ {n}
  BY <1>0, <1>2, ChainIsUsed DEF Whole
<1>6. Walk' = Walk
  <2> PICK w : w = Walk
    OBVIOUS
  <2>1. w \in [0 .. MaxItems -> Pointers] /\ IsWalk(w)
    BY <1>0, WalkSteps DEF Whole
  <2>2. IsWalk(w)'
    <3> SUFFICES ASSUME NEW k \in 1 .. MaxItems, w[k - 1] # NULL
                 PROVE  mem'[w[k - 1]] = mem[w[k - 1]]
      BY <1>1, <2>1 DEF IsWalk
    <3>1. k - 1 \in 0 .. MaxItems
      OBVIOUS
    <3>2. w[k - 1] \in Chain
      BY <1>0, <3>1, ChainIsUsed DEF Whole
    <3> QED BY <1>4, <1>5, <3>2
  <2>3. Sound(front)'
    BY <1>0, <1>1, <1>4, <1>5 DEF Whole, Sound, Used
  <2> QED BY <1>0, <2>1, <2>2, <2>3, WalkIsNext
<1>7. Chain' = Chain
  BY <1>6 DEF Chain
<1>8. Whole'
  <2>1. \A k \in Chain : mem'[k] = mem[k]
    BY <1>4, <1>5
  <2>2. ASSUME NEW k \in 0 .. MaxItems, Shape(k) PROVE Shape(k)'
    <3>1. k > 0 => rear \in Chain
      BY <2>2 DEF Shape, Chain
    <3> QED BY <1>1, <1>6, <2>1, <2>2, <3>1 DEF Shape
  <2>3. Sound(front)' /\ allocated' = {k \in Nodes : mem'[k] # NULL}
    BY <1>0, <1>1, <1>2, <1>3, <1>4, <1>5 DEF Whole, Sound, Used
  <2> QED BY <1>0, <1>7, <2>1, <2>2, <2>3 DEF Whole
<1>9. Owned'
  <2>1. /\ \A t \in Producers \cup Consumers : node'[t] = IF t = p THEN n ELSE node[t]
        /\ \A t \in Threads : pc'[t] = IF t = p THEN "link" ELSE pc[t]
    BY <1>0, <1>1 DEF CallInv, Goto
  <2>2. \A t \in Producers \cup Consumers : node[t] # n
    BY <1>0, <1>5 DEF CallInv, Sound, Used, Nodes
  <2>3. \A c \in Consumers : pc[c] = "return" => node[c] \in Nodes
    BY <1>0 DEF CallInv, Sound, Used
  <2>4. \A q \in Producers : pc[q] = "link" => node[q] \in Nodes
    BY <1>0 DEF CallInv, Sound, Used
  <2>5. \A c \in Consumers : c \in Threads /\ c # p
    BY <1>0 DEF Threads
  <2>6. \A q \in Producers : q \in Threads
    BY DEF Threads
  <2>7. \A q \in Producers : pc'[q] = "link" => node'[q] \notin Chain' /\ mem'[node'[q]].next = NULL
    BY <1>0, <1>3, <1>4, <1>5, <1>7, <2>1, <2>2, <2>4, <2>6 DEF Owned
  <2>8. \A c \in Consumers : node'[c] = node[c] /\ pc'[c] = pc[c]
    BY <2>1, <2>5
  <2>9. \A c \in Consumers : pc'[c] = "return" => mem'[node'[c]].item \in Items
    BY <1>0, <1>4, <2>2, <2>3, <2>8 DEF Owned
  <2>10. \A q, r \in Producers : pc'[q] = "link" /\ pc'[r] = "link" /\ node'[q] = node'[r] => q = r
    BY <1>0, <2>1, <2>2, <2>6 DEF Owned
  <2>11. \A q \in Producers, c \in Consumers : pc'[q] = "link" => node'[q] # node'[c]
    BY <1>0, <2>1, <2>2, <2>6, <2>8 DEF Owned
  <2> QED BY <1>0, <1>7, <2>7, <2>8, <2>9, <2>10, <2>11 DEF Owned
<1>10. Counted'
  BY <1>0, <1>1, <1>7, Moves DEF Counted, Threads
<1>11. \A k \in Chain : mem'[k] = mem[k]
  BY <1>4, <1>5
<1>12. \A c \in Consumers : node'[c] = node[c] /\ (node[c] # NULL => mem'[node[c]] = mem[node[c]])
  <2> SUFFICES ASSUME NEW c \in Consumers
               PROVE  node'[c] = node[c] /\ (node[c] # NULL => mem'[node[c]] = mem[node[c]])
    OBVIOUS
  <2>1. node'[c] = node[c] /\ (node[c] # NULL => Used(node[c]))
    BY <1>0, <1>1 DEF CallInv, Sound
  <2> QED BY <1>4, <1>5, <2>1 DEF Used
<1> QED BY <1>6, <1>8, <1>9, <1>10, <1>11, <1>12

\* The node linked becomes the last of the list.
LEMMA EnqueueLinkList ==
    ASSUME Inv, ListInv, ~dangling, NEW p \in Producers, EnqueueLink(p)
    PROVE  /\ (Whole /\ Owned /\ Counted)'
           /\ \A len \in 0 .. MaxItems :
                Shape(len) => Shape(len + 1)' /\ len < MaxItems /\ Walk' = [Walk EXCEPT ![len] = node[p]]
           /\ Chain' = Chain \cup {node[p]}
           /\ \A k \in Chain : mem'[k].item = mem[k].item
           /\ mem'[node[p]].item = arg[p]
           /\ \A c \in Consumers : node[c] # NULL => mem'[node[c]].item = mem[node[c]].item
<1> USE BoundsAssumption, PointersAssumption, ThreadsAssumption
<1> PICK n : n = node[p]
  OBVIOUS
<1> DEFINE filled == [mem EXCEPT ![n].item = arg[p]]
<1>1. /\ MemoryInv /\ CallInv /\ MemoryInv' /\ Whole /\ Owned /\ Counted
      /\ p \in Threads /\ p \notin Consumers
  BY EnqueueLinkKeeps DEF Inv, ListInv, Threads
<1>2. /\ pc[p] = "link" /\ rear' = n /\ Goto(p, "post")
      /\ UNCHANGED <<allocated, items, node>>
      /\ n \in Nodes /\ mem[n] # NULL /\ n # NULL /\ arg[p] \in Items
      /\ n \notin Chain /\ mem[n].next = NULL
  BY <1>1 DEF EnqueueLink, Is, Owned, CallInv, Sound, Used, Nodes
<1>3. \/ front = NULL /\ front' = n /\ mem' = filled
      \/ front # NULL /\ front' = front /\ mem' = [filled EXCEPT ![rear].next = n]
  BY DEF EnqueueLink
<1>4. mem \in [Nodes -> Node \cup {NULL}] /\ mem[n] \in Node
  BY <1>1, <1>2 DEF MemoryInv, Words
<1>5. /\ \A k \in Nodes : filled[k] = IF k = n THEN [mem[n] EXCEPT !.item = arg[p]] ELSE mem[k]
      /\ filled[n].item = arg[p] /\ filled[n].next = NULL /\ DOMAIN filled = Nodes
  BY <1>2, <1>4 DEF Node
<1> HIDE DEF filled
<1> PICK len \in 0 .. MaxItems : Shape(len)
  BY <1>1 DEF Whole
<1>6. /\ Walk \in [0 .. MaxItems -> Pointers] /\ IsWalk(Walk)
      /\ Chain = {Walk[k] : k \in 0 .. (len - 1)} /\ Chain \subseteq Nodes
      /\ IsFiniteSet(Chain) /\ Cardinality(Chain) = len
      /\ Chain \subseteq {k \in Nodes : mem[k] # NULL}
  BY <1>1, WalkSteps, ChainHasLength, ChainIsUsed DEF Whole
<1>7. front = NULL <=> len = 0
  BY <1>6 DEF Shape, IsWalk
<1>8. len > 0 => rear = Walk[len - 1] /\ rear \in Chain /\ rear # n /\ mem[rear] \in Node
  <2> SUFFICES ASSUME len > 0 PROVE rear = Walk[len - 1] /\ rear \in Chain /\ rear # n /\ mem[rear] \in Node
    OBVIOUS
  <2>1. rear = Walk[len - 1] /\ rear \in Chain
    BY <1>6 DEF Shape
  <2> QED BY <2>1, <1>2, <1>4, <1>6
<1>9. \A k \in Nodes : /\ mem'[k].item = IF k = n THEN arg[p] ELSE mem[k].item
                       /\ mem'[k].next = IF len > 0 /\ k = rear THEN n
                                         ELSE IF k = n THEN NULL ELSE mem[k].next
  <2>1. CASE len = 0
    BY <1>3, <1>5, <1>7, <2>1
  <2>2. CASE len > 0
    <3>1. mem' = [filled EXCEPT ![rear].next = n] /\ rear \in Nodes /\ filled[rear] = mem[rear]
      BY <1>3, <1>5, <1>6, <1>7, <1>8, <2>2
    <3>2. mem'[rear].next = n /\ mem'[rear].item = mem[rear].item
      BY <3>1, <1>5, <1>8, <2>2 DEF Node
    <3>3. \A k \in Nodes : k # rear => mem'[k] = filled[k]
      BY <3>1, <1>5
    <3> QED BY <1>5, <1>8, <2>2, <3>2, <3>3
  <2> QED BY <2>1, <2>2
<1>10. len < MaxItems
  <2>1. IsFiniteSet(Nodes) /\ Cardinality(Nodes) = MaxItems
    BY FS_Interval DEF Nodes
  <2>2. Cardinality(Chain \cup {n}) = len + 1
    BY <1>2, <1>6, FS_AddElement
  <2>3. Cardinality(Chain \cup {n}) <= Cardinality(Nodes)
    BY <1>2, <1>6, <2>1, FS_Subset
  <2> QED BY <2>1, <2>2, <2>3
<1> PICK w : w = [Walk EXCEPT ![len] = n]
  OBVIOUS
<1>11. w \in [0 .. MaxItems -> Pointers] /\ \A k \in 0 .. MaxItems : w[k] = IF k = len THEN n ELSE Walk[k]
  BY <1>2, <1>6 DEF Pointers
<1>12. w[0] = front'
  <2>1. w[0] = IF len = 0 THEN n ELSE front
    BY <1>6, <1>11 DEF IsWalk
  <2> QED BY <2>1, <1>3, <1>7
<1>13. ASSUME NEW k \in 1 .. MaxItems
       PROVE  w[k] = IF w[k - 1] = NULL THEN NULL ELSE mem'[w[k - 1]].next
  <2>1. k - 1 \in 0 .. MaxItems /\ k \in 0 .. MaxItems
    OBVIOUS
  <2>2. Walk[k] = IF Walk[k - 1] = NULL THEN NULL ELSE mem[Walk[k - 1]].next
    BY <1>6 DEF IsWalk
  <2>3. CASE k < len
    <3>1. Walk[k - 1] \in Chain /\ Walk[k - 1] # rear /\ Walk[k - 1] # NULL
      <4>1. k - 1 \in 0 .. (len - 1) /\ len - 1 \in 0 .. (len - 1) /\ k - 1 # len - 1
        BY <2>3
      <4> QED BY <4>1, <2>1, <1>6, <1>8 DEF Shape
    <3>2. w[k - 1] = Walk[k - 1] /\ w[k] = Walk[k]
      BY <2>1, <2>3, <1>11
    <3>3. mem'[Walk[k - 1]].next = mem[Walk[k - 1]].next
      BY <1>2, <1>6, <1>9, <3>1
    <3> QED BY <2>2, <3>1, <3>2, <3>3
  <2>4. CASE k = len
    <3>1. w[k - 1] = rear /\ w[k] = n /\ rear # NULL
      BY <2>1, <2>4, <1>6, <1>8, <1>11 DEF Nodes
    <3>2. mem'[rear].next = n
      BY <2>4, <1>6, <1>8, <1>9
    <3> QED BY <3>1, <3>2
  <2>5. CASE k = len + 1
    <3>1. w[k - 1] = n /\ w[k] = Walk[k] /\ Walk[k] = NULL
      BY <2>1, <2>5, <1>11 DEF Shape
    <3>2. mem'[n].next = NULL
      BY <1>2, <1>8, <1>9
    <3> QED BY <3>1, <3>2
  <2>6. CASE k > len + 1
    BY <2>1, <2>6, <1>11 DEF Shape
  <2> QED BY <2>3, <2>4, <2>5, <2>6
<1>14. Sound(front)'
  BY <1>1, <1>2, <1>3, EnqueueLinkKeeps DEF EnqueueLink, Is, Inv, MemoryInv
<1>15. Walk' = w
  <2>1. IsWalk(w)'
    BY <1>12, <1>13 DEF IsWalk
  <2> QED BY <1>1, <1>11, <1>14, <2>1, WalkIsNext
<1>16. Shape(len + 1)'
  <2>1. \A k \in 0 .. MaxItems : w[k] = NULL <=> k >= len + 1
    BY <1>2, <1>11 DEF Shape
  <2>2. \A j, k \in 0 .. len : w[j] = w[k] => j = k
    <3>1. \A j \in 0 .. (len - 1) : Walk[j] # n
      BY <1>2, <1>6
    <3> QED BY <1>10, <1>11, <3>1 DEF Shape
  <2>3. rear' = w[len] /\ mem'[rear'].next = NULL
    BY <1>2, <1>8, <1>9, <1>11
  <2> QED BY <1>10, <1>15, <2>1, <2>2, <2>3 DEF Shape
<1>17. Chain' = Chain \cup {n}
  <2>1. Chain' = {w[k] : k \in 0 .. MaxItems} \ {NULL}
    BY <1>15 DEF Chain
  <2>2. Chain = {Walk[k] : k \in 0 .. MaxItems} \ {NULL}
    BY DEF Chain
  <2>3. Walk[len] = NULL
    BY DEF Shape
  <2> QED BY <1>2, <1>11, <2>1, <2>2, <2>3
<1>18. \A k \in Chain : mem'[k].item = mem[k].item
  BY <1>2, <1>6, <1>9
<1>19. mem'[n].item = arg[p]
  BY <1>2, <1>9
<1>20. Whole'
  <2>1. \A k \in Nodes : mem[k] = NULL <=> mem'[k] = NULL
    <3>1. filled \in Words /\ \A k \in Nodes : filled[k] = NULL <=> mem[k] = NULL
      BY <1>1, <1>2, WriteItem DEF filled, MemoryInv
    <3>2. CASE len = 0
      BY <1>3, <1>7, <3>1, <3>2
    <3>3. CASE len > 0
      <4>1. rear \in Nodes /\ filled[rear] # NULL /\ n \in Pointers
        BY <1>2, <1>6, <1>8, <3>1, <3>3 DEF Pointers
      <4>2. LET v == [filled EXCEPT ![rear].next = n] IN
            /\ v \in Words
            /\ \A k \in Nodes : v[k] = NULL <=> filled[k] = NULL
            /\ \A k \in Nodes : filled[k] # NULL => v[k].next = IF k = rear THEN n ELSE filled[k].next
        BY <3>1, <4>1, WriteNext
      <4> QED BY <1>3, <1>7, <3>1, <3>3, <4>2
    <3> QED BY <3>2, <3>3
  <2>2. allocated' = {k \in Nodes : mem'[k] # NULL}
    BY <1>1, <1>2, <2>1 DEF Whole
  <2>3. \A k \in Chain' : mem'[k].item \in Items
    BY <1>1, <1>2, <1>17, <1>18, <1>19 DEF Whole
  <2>4. len + 1 \in 0 .. MaxItems
    BY <1>10
  <2> QED BY <1>14, <1>16, <2>2, <2>3, <2>4 DEF Whole
<1>21. \A c \in Consumers : node[c] # n /\ (node[c] # NULL => node[c] \in Nodes /\ mem'[node[c]].item = mem[node[c]].item)
  <2> SUFFICES ASSUME NEW c \in Consumers
               PROVE  node[c] # n /\ (node[c] # NULL => node[c] \in Nodes /\ mem'[node[c]].item = mem[node[c]].item)
    OBVIOUS
  <2>1. node[c] # n
    BY <1>1, <1>2 DEF Owned
  <2>2. node[c] # NULL => node[c] \in Nodes
    BY <1>1 DEF CallInv, Sound, Used
  <2> QED BY <1>9, <2>1, <2>2
<1>22. Owned'
  <2>1. \A t \in Threads : pc'[t] = IF t = p THEN "post" ELSE pc[t]
    BY <1>1, <1>2 DEF CallInv, Goto
  <2>2. \A q \in Producers : q \in Threads
    BY DEF Threads
  <2>3. \A c \in Consumers : pc'[c] = pc[c] /\ pc'[c] = "return" => mem'[node[c]].item \in Items
    BY <1>1, <1>21 DEF Owned, CallInv
  <2>4. \A c \in Consumers : pc'[c] = pc[c]
    BY <2>1, <1>1 DEF Threads
  <2>5. ASSUME NEW q \in Producers, pc'[q] = "link"
        PROVE  pc[q] = "link" /\ node[q] # n /\ node[q] \notin Chain' /\ mem'[node[q]].next = NULL
    <3>1. pc[q] = "link" /\ q # p
      BY <2>1, <2>2, <2>5
    <3>2. node[q] # n /\ node[q] \notin Chain /\ mem[node[q]].next = NULL /\ node[q] \in Nodes
      BY <1>1, <1>2, <3>1 DEF Owned, CallInv, Sound, Used
    <3>3. mem'[node[q]].next = NULL
      BY <1>8, <1>9, <3>2
    <3> QED BY <1>17, <3>1, <3>2, <3>3
  <2> QED BY <1>1, <1>2, <1>17, <1>21, <2>3, <2>4, <2>5 DEF Owned
<1>23. Counted'
  <2>1. Cardinality(Chain') = Cardinality(Chain) + 1
    BY <1>2, <1>6, <1>17, FS_AddElement
  <2>2. /\ IsFiniteSet(At(Producers, "post")') /\ Standing(Producers, "post")' = Standing(Producers, "post") + 1
        /\ Standing(Producers, "post") \in Nat
    BY <1>1, <1>2, Moves DEF Counted, Threads
  <2>3. IsFiniteSet(At(Consumers, "remove")') /\ Standing(Consumers, "remove")' = Standing(Consumers, "remove")
        /\ Standing(Consumers, "remove") \in Nat
    BY <1>1, <1>2, Moves DEF Counted, Threads
  <2>4. items \in Nat
    BY DEF Inv, CountInv
  <2> QED BY <1>1, <1>2, <2>1, <2>2, <2>3, <2>4 DEF Counted
<1>24. ASSUME NEW l \in 0 .. MaxItems, Shape(l) PROVE l = len
  BY <1>24 DEF Shape
<1> QED BY <1>10, <1>15, <1>16, <1>17, <1>18, <1>19, <1>20, <1>21, <1>22, <1>23, <1>24

\* The calls of the semaphore move one unit of the account.
LEMMA SemaphoreList ==
    ASSUME Inv, ListInv, ~dangling, NEW t \in Threads,
           \/ t \in Producers /\ EnqueuePost(t)
           \/ t \in Consumers /\ (DequeueCall(t) \/ SemWait(t))
    PROVE  (Whole /\ Owned /\ Counted)'
<1> USE PointersAssumption, ThreadsAssumption
<1>1. /\ MemoryInv /\ CallInv /\ CallInv' /\ Whole /\ Owned /\ Counted /\ items \in Nat
  BY EnqueuePostKeeps, DequeueWaitsKeeps DEF Inv, ListInv, CountInv
<1>2. UNCHANGED <<mem, front, rear, allocated>>
  BY DEF EnqueuePost, DequeueCall, SemWait, queuevars, listvars
<1>3. Walk' = Walk /\ Chain' = Chain
  BY <1>2, SameList
<1>4. Whole'
  BY <1>1, <1>2, <1>3 DEF Whole, Sound, Used, Shape
<1>5. /\ \A u \in Threads : pc'[u] \in {"link", "return"} => pc'[u] = pc[u] /\ u # t
      /\ \A u \in Producers \cup Consumers : u # t => node'[u] = node[u]
      /\ node'[t] \in {node[t], NULL}
  BY <1>1 DEF EnqueuePost, DequeueCall, SemWait, Is, Goto, CallInv, Threads
<1>6. NULL \notin Chain
  BY DEF Chain
<1>7. Owned'
  <2>1. \A c \in Consumers : c \in Threads /\ node'[c] \in {node[c], NULL} /\ node'[c] \notin Chain
    BY <1>1, <1>5, <1>6 DEF Owned, Threads
  <2>2. \A c \in Consumers : pc'[c] = "return" => mem'[node'[c]].item \in Items
    BY <1>1, <1>2, <1>5, <2>1 DEF Owned
  <2>3. \A p \in Producers : p \in Threads /\ (pc'[p] = "link" => pc[p] = "link" /\ node'[p] = node[p] /\ node[p] # NULL)
    BY <1>1, <1>5 DEF Threads, CallInv
  <2>4. \A p \in Producers : pc'[p] = "link" => node'[p] \notin Chain' /\ mem'[node'[p]].next = NULL
    BY <1>1, <1>2, <1>3, <2>3 DEF Owned
  <2>5. \A p, q \in Producers : pc'[p] = "link" /\ pc'[q] = "link" /\ node'[p] = node'[q] => p = q
    BY <1>1, <2>3 DEF Owned
  <2>6. \A p \in Producers, c \in Consumers : pc'[p] = "link" => node'[p] # node'[c]
    BY <1>1, <2>1, <2>3 DEF Owned
  <2> QED BY <1>3, <2>1, <2>2, <2>4, <2>5, <2>6 DEF Owned
<1>8. Counted'
  <2>1. Producers \subseteq Threads /\ Consumers \subseteq Threads
    BY DEF Threads
  <2>2. CASE t \in Producers /\ EnqueuePost(t)
    <3>1. pc[t] = "post" /\ Goto(t, "idle") /\ items' = items + 1 /\ t \notin Consumers
      BY <2>2 DEF EnqueuePost, Is
    <3>2. /\ IsFiniteSet(At(Producers, "post")') /\ Standing(Producers, "post")' = Standing(Producers, "post") - 1
          /\ Standing(Producers, "post") \in Nat
      BY <1>1, <2>1, <2>2, <3>1, Moves DEF Counted
    <3>3. /\ IsFiniteSet(At(Consumers, "remove")') /\ Standing(Consumers, "remove")' = Standing(Consumers, "remove")
          /\ Standing(Consumers, "remove") \in Nat
      BY <1>1, <2>1, <2>2, <3>1, Moves DEF Counted
    <3> QED BY <1>1, <1>3, <3>1, <3>2, <3>3 DEF Counted
  <2>3. CASE t \in Consumers /\ SemWait(t)
    <3>1. pc[t] = "wait" /\ Goto(t, "remove") /\ items' = items - 1 /\ t \notin Producers
      BY <2>3 DEF SemWait, Is
    <3>2. /\ IsFiniteSet(At(Producers, "post")') /\ Standing(Producers, "post")' = Standing(Producers, "post")
          /\ Standing(Producers, "post") \in Nat
      BY <1>1, <2>1, <2>3, <3>1, Moves DEF Counted
    <3>3. /\ IsFiniteSet(At(Consumers, "remove")') /\ Standing(Consumers, "remove")' = Standing(Consumers, "remove") + 1
          /\ Standing(Consumers, "remove") \in Nat
      BY <1>1, <2>1, <2>3, <3>1, Moves DEF Counted
    <3> QED BY <1>1, <1>3, <3>1, <3>2, <3>3 DEF Counted
  <2>4. CASE t \in Consumers /\ DequeueCall(t)
    <3>1. /\ items' = items
          /\ \/ pc' = pc
             \/ pc[t] = "idle" /\ Goto(t, "wait") /\ t \notin Producers
      BY <2>4 DEF DequeueCall, Is, queuevars
    <3>2. CASE pc' = pc
      BY <1>1, <1>3, <3>1, <3>2 DEF Counted, At, Standing
    <3>3. CASE Goto(t, "wait") /\ pc[t] = "idle"
      <4>1. /\ IsFiniteSet(At(Producers, "post")') /\ Standing(Producers, "post")' = Standing(Producers, "post")
            /\ IsFiniteSet(At(Consumers, "remove")') /\ Standing(Consumers, "remove")' = Standing(Consumers, "remove")
        BY <1>1, <2>1, <3>3, Moves DEF Counted
      <4> QED BY <1>1, <1>3, <3>1, <4>1 DEF Counted
    <3> QED BY <3>1, <3>2, <3>3
  <2> QED BY <2>2, <2>3, <2>4
<1> QED BY <1>4, <1>7, <1>8

\* A removal that frees nothing takes the only node.
LEMMA DequeueRemoveList ==
    ASSUME Inv, ListInv, ~dangling', NEW c \in Consumers, DequeueRemove(c)
    PROVE  /\ (Whole /\ Owned /\ Counted)'
           /\ Shape(1) /\ Shape(0)' /\ front' = NULL /\ Chain = {front} /\ Chain' = {} /\ front \in Nodes
<1> USE PointersAssumption, ThreadsAssumption, BoundsAssumption
<1>1. /\ MemoryInv /\ CallInv /\ MemoryInv' /\ ~dangling /\ Whole /\ Owned /\ Counted
      /\ c \in Threads /\ c \notin Producers /\ items \in Nat
  BY DequeueRemoveKeeps DEF Inv, ListInv, CountInv, Threads, DequeueRemove
<1>2. /\ pc[c] = "remove" /\ front # NULL /\ front' = NULL /\ NULL \in NextRead(front)
      /\ allocated' = allocated \ {NULL}
      /\ node' = [node EXCEPT ![c] = front] /\ Goto(c, "return")
      /\ UNCHANGED <<mem, rear, items>>
  BY DEF DequeueRemove, Is
<1>3. front \in Nodes /\ front \in allocated /\ mem[front].next = NULL
  BY <1>1, <1>2 DEF Whole, Sound, Used, NextRead
<1> PICK len \in 0 .. MaxItems : Shape(len)
  BY <1>1 DEF Whole
<1>4. Walk \in [0 .. MaxItems -> Pointers] /\ IsWalk(Walk) /\ Walk[0] = front
  BY <1>1, WalkSteps DEF Whole, IsWalk
<1>5. len = 1
  <2>1. len > 0
    BY <1>2, <1>4 DEF Shape
  <2>2. CASE len > 1
    <3>1. 1 \in 1 .. MaxItems /\ Walk[1] = mem[front].next
      BY <1>2, <1>4, <2>2 DEF IsWalk
    <3> QED BY <1>3, <2>2, <3>1 DEF Shape
  <2> QED BY <2>1, <2>2
<1>6. Chain = {front} /\ Cardinality(Chain) = 1
  BY <1>1, <1>4, <1>5, ChainHasLength DEF Whole
<1> PICK w : w = [k \in 0 .. MaxItems |-> NULL]
  OBVIOUS
<1>7. Walk' = w
  <2>1. w \in [0 .. MaxItems -> Pointers] /\ IsWalk(w)'
    BY <1>2 DEF IsWalk, Pointers
  <2>2. Sound(front)'
    BY <1>2 DEF Sound
  <2> QED BY <1>1, <2>1, <2>2, WalkIsNext
<1>8. Shape(0)' /\ Chain' = {}
  BY <1>7 DEF Shape, Chain
<1>9. Whole'
  <2>1. allocated' = {n \in Nodes : mem'[n] # NULL}
    BY <1>1, <1>2 DEF Whole, Nodes
  <2> QED BY <1>2, <1>8, <2>1 DEF Whole, Sound
<1>10. \A u \in Producers \cup Consumers : node'[u] = IF u = c THEN front ELSE node[u]
  BY <1>1, <1>2 DEF CallInv
<1>11. \A u \in Threads : pc'[u] = IF u = c THEN "return" ELSE pc[u]
  BY <1>1, <1>2 DEF CallInv, Goto
<1>12. Owned'
  <2>1. \A p \in Producers : pc'[p] = pc[p] /\ node'[p] = node[p] /\ (pc[p] = "link" => node[p] # front)
    BY <1>1, <1>6, <1>10, <1>11 DEF Threads, Owned
  <2>2. \A d \in Consumers : pc'[d] = "return" => mem'[node'[d]].item \in Items
    <3>1. mem[front].item \in Items
      BY <1>1, <1>6 DEF Whole
    <3>2. \A d \in Consumers : d \in Threads
      BY DEF Threads
    <3> QED BY <1>1, <1>2, <1>10, <1>11, <3>1, <3>2 DEF Owned
  <2>3. \A p \in Producers, d \in Consumers : pc'[p] = "link" => node'[p] # node'[d]
    BY <1>1, <1>10, <2>1 DEF Owned
  <2>4. \A p \in Producers : pc'[p] = "link" => mem'[node'[p]].next = NULL
    BY <1>1, <1>2, <2>1 DEF Owned
  <2>5. \A p, q \in Producers : pc'[p] = "link" /\ pc'[q] = "link" /\ node'[p] = node'[q] => p = q
    BY <1>1, <2>1 DEF Owned
  <2> QED BY <1>8, <2>2, <2>3, <2>4, <2>5 DEF Owned
<1>13. Counted'
  <2>1. Producers \subseteq Threads /\ Consumers \subseteq Threads
    BY DEF Threads
  <2>2. /\ IsFiniteSet(At(Producers, "post")') /\ Standing(Producers, "post")' = Standing(Producers, "post")
        /\ Standing(Producers, "post") \in Nat
        /\ IsFiniteSet(At(Consumers, "remove")') /\ Standing(Consumers, "remove")' = Standing(Consumers, "remove") - 1
        /\ Standing(Consumers, "remove") \in Nat
    BY <1>1, <1>2, <2>1, Moves DEF Counted
  <2>3. Cardinality(Chain') = 0
    BY <1>8, FS_EmptySet
  <2> QED BY <1>1, <1>2, <1>6, <2>2, <2>3 DEF Counted
<1> QED BY <1>2, <1>3, <1>5, <1>6, <1>8, <1>9, <1>12, <1>13

\* A consumer past sem_wait finds a node.
LEMMA ConsumerFindsNode ==
    ASSUME Inv, ListInv, ~dangling, NEW c \in Consumers, pc[c] = "remove"
    PROVE  front # NULL
<1>1. MemoryInv /\ Whole /\ Counted /\ items \in Nat
  BY DEF Inv, ListInv, CountInv
<1>2. c \in At(Consumers, "remove")
  BY DEF At
<1>3. Cardinality(At(Consumers, "remove")) # 0 /\ Cardinality(At(Consumers, "remove")) \in Nat
  BY <1>1, <1>2, FS_EmptySet, FS_CardinalityType DEF Counted
<1>4. Standing(Producers, "post") \in Nat
  BY <1>1, FS_CardinalityType DEF Counted, Standing, At
<1>5. Cardinality(Chain) # 0
  BY <1>1, <1>3, <1>4 DEF Counted, Standing, At
<1>6. Chain # {}
  BY <1>5, FS_EmptySet
<1> PICK len \in 0 .. MaxItems : Shape(len)
  BY <1>1 DEF Whole
<1>7. len > 0
  BY <1>6, BoundsAssumption DEF Shape, Chain
<1>8. Walk[0] = front
  BY <1>1, WalkSteps DEF Whole, IsWalk
<1> QED BY <1>7, <1>8, BoundsAssumption DEF Shape

\* The end of dequeue keeps the list.
LEMMA DequeueReturnList ==
    ASSUME Inv, ListInv, ~dangling, NEW c \in Consumers, DequeueReturn(c)
    PROVE  (Whole /\ Owned /\ Counted)'
<1> USE ThreadsAssumption
<1>1. /\ MemoryInv /\ CallInv /\ Whole /\ Owned /\ Counted /\ c \in Threads
  BY DEF Inv, ListInv, Threads
<1>2. /\ UNCHANGED <<mem, front, rear, allocated, items>> /\ node' = [node EXCEPT ![c] = NULL]
      /\ pc[c] = "return" /\ Goto(c, "idle")
  BY DEF DequeueReturn, Is, queuevars, listvars
<1>3. Walk' = Walk /\ Chain' = Chain /\ NULL \notin Chain
  BY <1>2, SameList DEF Chain
<1>4. Whole'
  BY <1>1, <1>2, <1>3 DEF Whole, Sound, Used, Shape
<1>5. Owned'
  <2>1. /\ \A u \in Threads : pc'[u] \in {"link", "return"} => pc'[u] = pc[u] /\ u # c
        /\ \A u \in Producers \cup Consumers : node'[u] = IF u = c THEN NULL ELSE node[u]
        /\ \A u \in Producers \cup Consumers : u \in Threads
    BY <1>1, <1>2 DEF CallInv, Goto, Threads
  <2>2. \A p \in Producers : p # c /\ node'[p] = node[p] /\ (pc'[p] = "link" => pc[p] = "link" /\ node[p] # NULL)
    BY <1>1, <2>1 DEF CallInv
  <2>3. \A d \in Consumers : node'[d] \notin Chain'
    BY <1>1, <1>3, <2>1 DEF Owned
  <2>4. \A d \in Consumers : pc'[d] = "return" => mem'[node'[d]].item \in Items
    BY <1>1, <1>2, <2>1 DEF Owned
  <2>5. \A p \in Producers : pc'[p] = "link" => node'[p] \notin Chain' /\ mem'[node'[p]].next = NULL
    BY <1>1, <1>2, <1>3, <2>2 DEF Owned
  <2>6. \A p, q \in Producers : pc'[p] = "link" /\ pc'[q] = "link" /\ node'[p] = node'[q] => p = q
    BY <1>1, <2>2 DEF Owned
  <2>7. \A p \in Producers, d \in Consumers : pc'[p] = "link" => node'[p] # node'[d]
    BY <1>1, <2>1, <2>2 DEF Owned
  <2> QED BY <2>3, <2>4, <2>5, <2>6, <2>7 DEF Owned
<1>6. Counted'
  <2>1. Producers \subseteq Threads /\ Consumers \subseteq Threads
    BY DEF Threads
  <2>2. /\ IsFiniteSet(At(Producers, "post")') /\ Standing(Producers, "post")' = Standing(Producers, "post")
        /\ IsFiniteSet(At(Consumers, "remove")') /\ Standing(Consumers, "remove")' = Standing(Consumers, "remove")
    BY <1>1, <1>2, <2>1, Moves DEF Counted
  <2> QED BY <1>1, <1>2, <1>3, <2>2 DEF Counted
<1> QED BY <1>4, <1>5, <1>6

\* invalidate_queue frees no linked node only if there is none, or if the process ends
\* in it.
LEMMA InvalidateList ==
    ASSUME Inv, ListInv, ~dangling', NEW x \in Closers, Invalidate(x), x \notin Producers \cup Consumers
    PROVE  (Whole /\ Owned /\ Counted)'
<1>1. ~dangling
  BY DEF Invalidate, InvalidateCall, InvalidateBody, queuevars, listvars
<1>2. /\ MemoryInv /\ CallInv /\ Whole /\ Owned /\ Counted /\ x \in Threads
  BY <1>1 DEF Inv, ListInv, Threads
<1>3. /\ UNCHANGED <<mem, front, rear, allocated, items, node>>
      /\ pc[x] \in {"idle", "invalidate"} /\ (Goto(x, "done") \/ (Goto(x, "invalidate") /\ pc[x] = "idle"))
  <2>1. CASE InvalidateCall(x)
    BY <2>1 DEF InvalidateCall, Is, queuevars, listvars
  <2>2. CASE InvalidateBody(x)
    <3>1. allocated' = allocated
      BY <2>2 DEF InvalidateBody
    <3> QED BY <2>2, <3>1 DEF InvalidateBody, Is
  <2> QED BY <2>1, <2>2 DEF Invalidate
<1>4. Walk' = Walk /\ Chain' = Chain
  BY <1>3, SameList
<1>5. Whole'
  BY <1>2, <1>3, <1>4 DEF Whole, Sound, Used, Shape
<1>6. \A u \in Producers \cup Consumers : u \in Threads /\ pc'[u] = pc[u]
  BY <1>2, <1>3 DEF CallInv, Goto, Threads
<1>7. Owned'
  BY <1>2, <1>3, <1>4, <1>6 DEF Owned
<1>8. Counted'
  <2>1. At(Producers, "post")' = At(Producers, "post") /\ At(Consumers, "remove")' = At(Consumers, "remove")
    BY <1>6 DEF At
  <2> QED BY <1>2, <1>3, <1>4, <2>1 DEF Counted, Standing, At
<1> QED BY <1>5, <1>7, <1>8

\* Every step keeps the list.
LEMMA ListKeeps ==
    ASSUME Inv, ListInv, [Next]_vars
    PROVE  ListInv'
<1> SUFFICES ASSUME ~dangling' PROVE (Whole /\ Owned /\ Counted)'
  BY DEF ListInv
<1>1. ASSUME NEW p \in Producers, Enqueue(p)
      PROVE  (Whole /\ Owned /\ Counted)'
  <2>1. p \in Threads /\ ~dangling
    BY <1>1 DEF Threads, Enqueue, EnqueueCall, EnqueueAlloc, EnqueueLink, EnqueuePost, queuevars, listvars
  <2> QED BY <1>1, <2>1, EnqueueCallList, EnqueueAllocList, EnqueueLinkList, SemaphoreList DEF Enqueue
<1>2. ASSUME NEW c \in Consumers, Dequeue(c)
      PROVE  (Whole /\ Owned /\ Counted)'
  <2>1. CASE DequeueRemove(c)
    BY <2>1, DequeueRemoveList
  <2>2. CASE DequeueNothing(c)
    <3>1. ~dangling /\ pc[c] = "remove" /\ front = NULL
      BY <2>2 DEF DequeueNothing, Is, queuevars, listvars
    <3> QED BY <3>1, ConsumerFindsNode
  <2>3. CASE DequeueReturn(c)
    BY <2>3, DequeueReturnList DEF DequeueReturn, queuevars, listvars
  <2>4. CASE DequeueCall(c) \/ SemWait(c)
    <3>1. c \in Threads /\ ~dangling
      BY <2>4 DEF Threads, DequeueCall, SemWait, queuevars, listvars
    <3> QED BY <2>4, <3>1, SemaphoreList
  <2> QED BY <1>2, <2>1, <2>2, <2>3, <2>4 DEF Dequeue
<1>3. ASSUME NEW x \in Closers, Invalidate(x)
      PROVE  (Whole /\ Owned /\ Counted)'
  BY <1>3, InvalidateList, ThreadsAssumption
<1>4. CASE UNCHANGED vars
  <2>1. Walk' = Walk /\ Chain' = Chain /\ Whole /\ Owned /\ Counted
    BY <1>4, SameList DEF ListInv, vars, queuevars, listvars
  <2>2. UNCHANGED <<mem, allocated, front, rear, items, node, pc>>
    BY <1>4 DEF vars, queuevars, listvars, callvars
  <2> QED BY <2>1, <2>2 DEF Whole, Owned, Counted, Sound, Used, Shape, At, Standing
<1> QED BY <1>1, <1>2, <1>3, <1>4 DEF Next, Done

\* The list invariant holds of every state the queue can reach.
LEMMA ListAlways == Spec => [](Inv /\ ListInv)
<1>1. Init => Inv /\ ListInv
  BY InitInv, ListInit
<1>2. Inv /\ ListInv /\ [Next]_vars => (Inv /\ ListInv)'
  BY NextKeeps, ListKeeps
<1> QED BY <1>1, <1>2, PTL DEF Spec

\* Any threads and any number of items: as long as no linked node was freed, what is in
\* the list is what the semaphore counts, what is linked and not posted yet, and what a
\* consumer has waited for and not removed yet.
THEOREM SemaphoreCountsList == Spec => []SemaphoreAccounts
<1>1. Inv /\ ListInv => SemaphoreAccounts
  BY DEF ListInv, Counted, SemaphoreAccounts
<1> QED BY <1>1, ListAlways, PTL

\* Any threads and any number of items: as long as no linked node was freed, rear is the
\* last node of the list, the list's nodes are allocated, and no thread has one of them
\* for itself.
THEOREM ListStaysSound == Spec => []ListIsSound
<1>1. Inv /\ ListInv => ListIsSound
  <2> SUFFICES ASSUME Inv, ListInv, ~dangling
               PROVE  /\ Chain \subseteq allocated
                      /\ front # NULL => rear \in Chain /\ mem[rear].next = NULL
                      /\ \A c \in Consumers : node[c] \notin Chain
                      /\ \A p \in Producers : pc[p] = "link" => node[p] \notin Chain
    BY DEF ListIsSound
  <2>1. MemoryInv /\ Whole /\ Owned
    BY DEF Inv, ListInv
  <2>2. Chain \subseteq allocated
    BY <2>1, ChainIsUsed DEF Whole
  <2>3. ASSUME front # NULL PROVE rear \in Chain /\ mem[rear].next = NULL
    <3> USE BoundsAssumption, PointersAssumption
    <3> PICK len \in 0 .. MaxItems : Shape(len)
      BY <2>1 DEF Whole
    <3>1. Walk \in [0 .. MaxItems -> Pointers] /\ IsWalk(Walk)
      BY <2>1, WalkSteps DEF Whole
    <3>2. len > 0
      BY <2>3, <3>1 DEF Shape, IsWalk
    <3> QED BY <3>2 DEF Shape, Chain
  <2> QED BY <2>1, <2>2, <2>3 DEF Owned
<1> QED BY <1>1, ListAlways, PTL


-----------------------------------------------------------------------------
(* First in, first out, until a linked node is freed *)

\* The items of a list of n nodes.
LEMMA ContentsOfList ==
    \A n \in 0 .. MaxItems :
        MemoryInv /\ Sound(front) /\ Shape(n) => ContentsOf(Walk) = [k \in 1 .. n |-> mem[Walk[k - 1]].item]
<1> SUFFICES ASSUME NEW n \in 0 .. MaxItems, MemoryInv, Sound(front), Shape(n)
             PROVE  ContentsOf(Walk) = [k \in 1 .. n |-> mem[Walk[k - 1]].item]
  OBVIOUS
<1> USE BoundsAssumption
<1>1. Walk \in [0 .. MaxItems -> Pointers]
  BY WalkSteps
<1>2. {j \in DOMAIN Walk : Walk[j] # NULL} = 0 .. (n - 1)
  BY <1>1 DEF Shape
<1>3. Cardinality(0 .. (n - 1)) = n
  BY FS_Interval
<1> QED BY <1>2, <1>3 DEF ContentsOf

\* The items of the next state's list, in order.
LEMMA ContentsOfListNext ==
    (\A n \in 0 .. MaxItems :
        MemoryInv /\ Sound(front) /\ Shape(n) => ContentsOf(Walk) = [k \in 1 .. n |-> mem[Walk[k - 1]].item])'
BY ContentsOfList, PTL

\* The item each consumer has removed and not returned yet.
Hands == [c \in Consumers |-> IF node[c] = NULL THEN NULL ELSE mem[node[c]].item]

\* A step that changes neither the words of memory, front, a consumer's node nor what
\* was returned leaves the abstract queue alone.
LEMMA SameFifo ==
    ASSUME UNCHANGED <<mem, front, result>>, \A c \in Consumers : node'[c] = node[c]
    PROVE  UNCHANGED F!fifovars
<1>1. ContentsOf(Walk)' = ContentsOf(Walk)
  BY SameList DEF ContentsOf
<1>2. Hands' = Hands
  BY DEF Hands
<1> QED BY <1>1, <1>2 DEF F!fifovars, Hands

\* calloc changes no node of the list and none in a consumer's hand.
LEMMA EnqueueAllocFifo ==
    ASSUME Inv, ListInv, ~dangling, NEW p \in Producers, EnqueueAlloc(p)
    PROVE  UNCHANGED F!fifovars
<1>1. /\ Walk' = Walk /\ \A k \in Chain : mem'[k] = mem[k]
      /\ \A c \in Consumers : node'[c] = node[c] /\ (node[c] # NULL => mem'[node[c]] = mem[node[c]])
      /\ Inv' /\ ListInv' /\ UNCHANGED <<front, dangling, result>>
  BY EnqueueAllocList, EnqueueAllocKeeps DEF EnqueueAlloc, ListInv
<1>2. MemoryInv /\ MemoryInv' /\ Whole /\ Whole'
  BY <1>1 DEF Inv, ListInv
<1> PICK len \in 0 .. MaxItems : Shape(len)
  BY <1>2 DEF Whole
<1> PICK len2 \in 0 .. MaxItems : Shape(len2)'
  BY <1>2 DEF Whole
<1>3. len2 = len
  BY <1>1 DEF Shape
<1>4. \A k \in 1 .. len : Walk[k - 1] \in Chain
  BY <1>2, ChainHasLength DEF Whole
<1>5. ContentsOf(Walk) = [k \in 1 .. len |-> mem[Walk[k - 1]].item]
  BY <1>2, ContentsOfList DEF Whole
<1>6. ContentsOf(Walk)' = [k \in 1 .. len |-> mem'[Walk'[k - 1]].item]
  BY <1>2, <1>3, ContentsOfListNext DEF Whole
<1>7. ContentsOf(Walk)' = ContentsOf(Walk)
  BY <1>1, <1>4, <1>5, <1>6
<1>8. Hands' = Hands
  BY <1>1 DEF Hands
<1> QED BY <1>1, <1>7, <1>8 DEF F!fifovars, Hands

\* Linking puts the item at the tail.
LEMMA EnqueueLinkFifo ==
    ASSUME Inv, ListInv, ~dangling, NEW p \in Producers, EnqueueLink(p)
    PROVE  F!Put(arg[p])
<1> USE BoundsAssumption, PointersAssumption, ThreadsAssumption
<1>1. MemoryInv /\ CallInv /\ MemoryInv' /\ Whole /\ Whole'
  BY EnqueueLinkKeeps, EnqueueLinkList DEF Inv, ListInv
<1>2. UNCHANGED <<arg, node, result>>
  BY DEF EnqueueLink
<1> PICK len \in 0 .. MaxItems : Shape(len)
  BY <1>1 DEF Whole
<1>3. /\ Shape(len + 1)' /\ len < MaxItems /\ Walk' = [Walk EXCEPT ![len] = node[p]]
      /\ Chain' = Chain \cup {node[p]}
      /\ \A k \in Chain : mem'[k].item = mem[k].item
      /\ mem'[node[p]].item = arg[p]
      /\ \A c \in Consumers : node[c] # NULL => mem'[node[c]].item = mem[node[c]].item
  BY <1>1, EnqueueLinkList
<1>5. ContentsOf(Walk) = [k \in 1 .. len |-> mem[Walk[k - 1]].item]
  BY <1>1, ContentsOfList DEF Whole
<1>6. ContentsOf(Walk)' = [k \in 1 .. (len + 1) |-> mem'[Walk'[k - 1]].item]
  <2>1. len + 1 \in 0 .. MaxItems
    BY <1>3
  <2> QED BY <1>1, <1>3, <2>1, ContentsOfListNext DEF Whole
<1>7. Walk \in [0 .. MaxItems -> Pointers] /\ \A k \in 0 .. (len - 1) : Walk[k] \in Chain
  BY <1>1, WalkSteps, ChainIsUsed DEF Whole, Shape
<1>8. ContentsOf(Walk)' = Append(ContentsOf(Walk), arg[p])
  <2>1. ASSUME NEW k \in 1 .. (len + 1)
        PROVE  mem'[Walk'[k - 1]].item = IF k = len + 1 THEN arg[p] ELSE mem[Walk[k - 1]].item
    <3>1. CASE k = len + 1
      BY <1>3, <1>7, <3>1
    <3>2. CASE k # len + 1
      <4>1. k - 1 \in 0 .. (len - 1) /\ k - 1 # len
        BY <3>2
      <4> QED BY <1>3, <1>7, <3>2, <4>1
    <3> QED BY <3>1, <3>2
  <2>2. ContentsOf(Walk)' = [k \in 1 .. (len + 1) |-> IF k = len + 1 THEN arg[p] ELSE mem[Walk[k - 1]].item]
    BY <1>6, <2>1
  <2>3. \A s : s = [k \in 1 .. len |-> mem[Walk[k - 1]].item]
               => Append(s, arg[p]) = [k \in 1 .. (len + 1) |-> IF k = len + 1 THEN arg[p] ELSE mem[Walk[k - 1]].item]
    <3> SUFFICES ASSUME NEW s, s = [k \in 1 .. len |-> mem[Walk[k - 1]].item]
                 PROVE  Append(s, arg[p]) = [k \in 1 .. (len + 1) |-> IF k = len + 1 THEN arg[p] ELSE mem[Walk[k - 1]].item]
      OBVIOUS
    <3> DEFINE T == {mem[Walk[k - 1]].item : k \in 1 .. len}
    <3>1. s \in Seq(T) /\ Len(s) = len
      <4>1. s \in [1 .. len -> T] /\ len \in Nat
        OBVIOUS
      <4> HIDE DEF T
      <4> QED BY <4>1
    <3>2. Append(s, arg[p]) = [k \in 1 .. (Len(s) + 1) |-> IF k = Len(s) + 1 THEN arg[p] ELSE s[k]]
      BY <3>1
    <3> QED BY <3>1, <3>2
  <2> QED BY <1>5, <2>2, <2>3
<1>9. [c \in Consumers |-> IF node[c] = NULL THEN NULL ELSE mem[node[c]].item]
      = [c \in Consumers |-> IF node'[c] = NULL THEN NULL ELSE mem'[node'[c]].item]
  BY <1>2, <1>3
<1> QED BY <1>2, <1>8, <1>9 DEF F!Put

\* The walk after front has moved on is the walk before without its first node.
LEMMA WalkMovesOn ==
    ASSUME Inv, ListInv, ~dangling, NEW c \in Consumers, DequeueRemove(c),
           NEW len \in 0 .. MaxItems, Shape(len)
    PROVE  /\ len > 0 /\ MemoryInv' /\ Sound(front)' /\ Shape(len - 1)'
           /\ \A k \in 0 .. (MaxItems - 1) : Walk'[k] = Walk[k + 1]
<1> USE BoundsAssumption, PointersAssumption
<1>1. MemoryInv /\ Whole /\ MemoryInv' /\ Inv'
  BY DequeueRemoveKeeps DEF Inv, ListInv
<1>2. /\ front # NULL /\ front' \in NextRead(front) /\ UNCHANGED <<mem, rear>>
      /\ crashed' = (front' # NULL /\ front' \notin allocated)
  BY DEF DequeueRemove
<1>3. front \in Nodes /\ front \in allocated /\ Sound(mem[front].next)
  BY <1>1, <1>2 DEF Whole, Sound, Used, MemoryInv
<1>4. front' = mem[front].next
  BY <1>2, <1>3 DEF NextRead
<1>5. ~crashed' /\ Sound(front)'
  BY <1>1, <1>2, <1>3, <1>4 DEF Whole, Sound, Used
<1>6. Walk \in [0 .. MaxItems -> Pointers] /\ IsWalk(Walk)
  BY <1>1, WalkSteps DEF Whole
<1>7. len > 0
  BY <1>2, <1>6 DEF Shape, IsWalk
<1> PICK w : w = [k \in 0 .. MaxItems |-> IF k = MaxItems THEN NULL ELSE Walk[k + 1]]
  OBVIOUS
<1>8. w \in [0 .. MaxItems -> Pointers]
  BY <1>6 DEF Pointers
<1>9. w[0] = front'
  <2>1. 1 \in 1 .. MaxItems /\ Walk[1] = mem[front].next
    BY <1>2, <1>6, <1>7 DEF IsWalk
  <2>2. 0 \in 0 .. MaxItems /\ 0 # MaxItems
    BY <1>7
  <2> QED BY <1>4, <2>1, <2>2
<1>10. ASSUME NEW k \in 1 .. MaxItems
       PROVE  w[k] = IF w[k - 1] = NULL THEN NULL ELSE mem'[w[k - 1]].next
  <2>1. k - 1 \in 0 .. MaxItems /\ k - 1 # MaxItems /\ w[k - 1] = Walk[k]
    OBVIOUS
  <2>2. CASE k = MaxItems
    <3>1. w[k] = NULL
      BY <2>2
    <3>2. CASE len < MaxItems
      BY <2>1, <2>2, <3>1, <3>2 DEF Shape
    <3>3. CASE len = MaxItems
      <4>1. Chain \subseteq Nodes /\ IsFiniteSet(Chain) /\ Cardinality(Chain) = len
        BY <1>1, ChainHasLength DEF Whole
      <4>2. Walk[k] = NULL
        BY <2>2, <3>3 DEF Shape
      <4> QED BY <2>1, <3>1, <4>2
    <3> QED BY <3>2, <3>3
  <2>3. CASE k < MaxItems
    <3>1. w[k] = Walk[k + 1] /\ k + 1 \in 1 .. MaxItems /\ (k + 1) - 1 = k
      BY <2>3
    <3>2. Walk[k + 1] = IF Walk[k] = NULL THEN NULL ELSE mem[Walk[k]].next
      BY <1>6, <3>1 DEF IsWalk
    <3> QED BY <1>2, <2>1, <3>1, <3>2
  <2> QED BY <2>2, <2>3
<1>11. Walk' = w
  <2>1. IsWalk(w)'
    BY <1>9, <1>10 DEF IsWalk
  <2> QED BY <1>1, <1>5, <1>8, <2>1, WalkIsNext
<1>12. \A k \in 0 .. (MaxItems - 1) : w[k] = Walk[k + 1]
  OBVIOUS
<1>13. Shape(len - 1)'
  <2>1. \A k \in 0 .. MaxItems : w[k] = NULL <=> k >= len - 1
    <3>1. w[MaxItems] = NULL
      OBVIOUS
    <3>2. \A k \in 0 .. (MaxItems - 1) : k + 1 \in 0 .. MaxItems /\ (Walk[k + 1] = NULL <=> k + 1 >= len)
      BY DEF Shape
    <3> QED BY <1>7, <1>12, <3>1, <3>2
  <2>2. \A j, k \in 0 .. (len - 2) : w[j] = w[k] => j = k
    <3>1. \A k \in 0 .. (len - 2) : k \in 0 .. (MaxItems - 1) /\ k + 1 \in 0 .. (len - 1)
      OBVIOUS
    <3> QED BY <1>12, <3>1 DEF Shape
  <2>3. len - 1 > 0 => rear' = w[len - 2] /\ mem'[rear'].next = NULL
    <3>1. len - 1 > 0 => len - 2 \in 0 .. (MaxItems - 1) /\ (len - 2) + 1 = len - 1
      OBVIOUS
    <3> QED BY <1>2, <1>7, <1>12, <3>1 DEF Shape
  <2> PICK m : m = len - 1
    OBVIOUS
  <2>4. len - 1 = m /\ len - 2 = m - 1
    OBVIOUS
  <2>5. /\ \A k \in 0 .. MaxItems : w[k] = NULL <=> k >= m
        /\ \A j, k \in 0 .. (m - 1) : w[j] = w[k] => j = k
        /\ m > 0 => rear' = w[m - 1] /\ mem'[rear'].next = NULL
    BY ONLY <2>1, <2>2, <2>3, <2>4
  <2>6. Shape(m)'
    BY ONLY <1>11, <2>5 DEF Shape
  <2> QED BY <2>4, <2>6
<1> QED BY <1>1, <1>5, <1>7, <1>11, <1>12, <1>13

\* Removing takes the item at the head into the consumer's hand, whatever is queued
\* behind it.
LEMMA DequeueRemoveFifo ==
    ASSUME Inv, ListInv, ~dangling, NEW c \in Consumers, DequeueRemove(c)
    PROVE  F!Remove(c)
<1> USE BoundsAssumption, PointersAssumption
<1>1. MemoryInv /\ CallInv /\ Whole
  BY DEF Inv, ListInv
<1>2. /\ pc[c] = "remove" /\ node' = [node EXCEPT ![c] = front] /\ UNCHANGED <<mem, result>>
      /\ front # NULL
  BY DEF DequeueRemove, Is
<1>3. node[c] = NULL
  BY <1>1, <1>2 DEF CallInv
<1> PICK len \in 0 .. MaxItems : Shape(len)
  BY <1>1 DEF Whole
<1>4. /\ len > 0 /\ MemoryInv' /\ Sound(front)' /\ Shape(len - 1)'
      /\ \A k \in 0 .. (MaxItems - 1) : Walk'[k] = Walk[k + 1]
  BY WalkMovesOn
<1>5. ContentsOf(Walk) = [k \in 1 .. len |-> mem[Walk[k - 1]].item]
  BY <1>1, ContentsOfList DEF Whole
<1>6. ContentsOf(Walk)' = [k \in 1 .. (len - 1) |-> mem'[Walk'[k - 1]].item]
  <2>1. len - 1 \in 0 .. MaxItems
    BY <1>4
  <2> QED BY <1>4, <2>1, ContentsOfListNext
<1>7. \A k \in 1 .. (len - 1) : mem'[Walk'[k - 1]].item = mem[Walk[k]].item
  BY <1>2, <1>4
<1>8. ContentsOf(Walk)' = [k \in 1 .. (len - 1) |-> mem[Walk[k]].item]
  BY <1>6, <1>7
<1>9. Walk[0] = front
  BY <1>1, WalkSteps DEF Whole, IsWalk
<1>10. ASSUME NEW s, s = [k \in 1 .. len |-> mem[Walk[k - 1]].item]
       PROVE  s # <<>> /\ Head(s) = mem[front].item /\ Tail(s) = [k \in 1 .. (len - 1) |-> mem[Walk[k]].item]
  <2> DEFINE T == {mem[Walk[k - 1]].item : k \in 1 .. len}
  <2>1. s \in Seq(T) /\ Len(s) = len
    <3>1. s \in [1 .. len -> T] /\ len \in Nat
      BY <1>10
    <3> HIDE DEF T
    <3> QED BY <3>1
  <2> HIDE DEF T
  <2>2. s # <<>> /\ Head(s) = s[1]
    BY <1>4, <2>1
  <2>5. Tail(s) = [k \in 1 .. (Len(s) - 1) |-> s[k + 1]]
    <3>1. /\ Tail(s) \in Seq(T) /\ Len(Tail(s)) = Len(s) - 1
          /\ \A i \in 1 .. Len(Tail(s)) : Tail(s)[i] = s[i + 1]
      BY <2>1, <2>2, HeadTailProperties
    <3>2. \A t \in Seq(T) : t = [i \in 1 .. Len(t) |-> t[i]]
      OBVIOUS
    <3> PICK t : t = Tail(s)
      OBVIOUS
    <3>3. t = [i \in 1 .. (Len(s) - 1) |-> s[i + 1]]
      BY <3>1, <3>2
    <3> QED BY <3>3
  <2>3. s[1] = mem[front].item
    BY <1>4, <1>9, <1>10
  <2>4. \A k \in 1 .. (len - 1) : s[k + 1] = mem[Walk[k]].item
    BY <1>10
  <2> QED BY <2>1, <2>2, <2>3, <2>4, <2>5
<1>11. /\ ContentsOf(Walk) # <<>> /\ Head(ContentsOf(Walk)) = mem[front].item
       /\ ContentsOf(Walk)' = Tail(ContentsOf(Walk))
  BY <1>5, <1>8, <1>10
<1>12. Hands[c] = NULL /\ Hands' = [Hands EXCEPT ![c] = mem[front].item]
  <2>1. \A d \in Consumers : node'[d] = IF d = c THEN front ELSE node[d]
    BY <1>1, <1>2 DEF CallInv
  <2>2. \A d \in Consumers : (IF node'[d] = NULL THEN NULL ELSE mem'[node'[d]].item)
                             = IF d = c THEN mem[front].item ELSE (IF node[d] = NULL THEN NULL ELSE mem[node[d]].item)
    BY <1>2, <1>3, <2>1
  <2>3. Hands' = [d \in Consumers |-> IF d = c THEN mem[front].item ELSE Hands[d]]
    BY <2>2 DEF Hands
  <2>4. Hands = [d \in Consumers |-> Hands[d]]
    BY DEF Hands
  <2> QED BY <1>2, <1>3, <2>3, <2>4 DEF Hands
<1> QED BY <1>2, <1>11, <1>12 DEF F!Remove, Hands

\* What the consumer holds is still there when it reads it.
LEMMA DequeueReturnFifo ==
    ASSUME Inv, ListInv, ~dangling, NEW c \in Consumers, DequeueReturn(c)
    PROVE  F!Return(c)
<1> USE PointersAssumption
<1>1. CallInv /\ Whole /\ Owned
  BY DEF Inv, ListInv
<1>2. pc[c] = "return" /\ node' = [node EXCEPT ![c] = NULL] /\ UNCHANGED <<mem, front>>
  BY DEF DequeueReturn, Is, queuevars, listvars
<1>3. node[c] # NULL /\ node[c] \in allocated /\ mem[node[c]].item \in Items /\ mem[node[c]].item # NULL
  BY <1>1, <1>2 DEF CallInv, Sound, Used, Whole, Owned, Items
<1>4. result' = [result EXCEPT ![c] = mem[node[c]].item]
  BY <1>3 DEF DequeueReturn, ItemRead
<1>5. ContentsOf(Walk)' = ContentsOf(Walk)
  BY <1>2, SameList DEF ContentsOf
<1>6. Hands[c] = mem[node[c]].item /\ Hands' = [Hands EXCEPT ![c] = NULL]
  <2>1. \A d \in Consumers : node'[d] = IF d = c THEN NULL ELSE node[d]
    BY <1>1, <1>2 DEF CallInv
  <2>2. \A d \in Consumers : (IF node'[d] = NULL THEN NULL ELSE mem'[node'[d]].item)
                             = IF d = c THEN NULL ELSE (IF node[d] = NULL THEN NULL ELSE mem[node[d]].item)
    BY <1>2, <1>3, <2>1
  <2>3. Hands' = [d \in Consumers |-> IF d = c THEN NULL ELSE Hands[d]]
    BY <2>2 DEF Hands
  <2>4. Hands = [d \in Consumers |-> Hands[d]]
    BY DEF Hands
  <2> QED BY <1>2, <1>3, <2>3, <2>4 DEF Hands
<1> QED BY <1>3, <1>4, <1>5, <1>6 DEF F!Return, Hands

\* Every step is one of the first-in first-out queue or leaves it alone.
LEMMA FifoStep ==
    ASSUME Inv, ListInv, [Next]_vars, ~dangling, ~invalid
    PROVE  F!Next \/ UNCHANGED F!fifovars
<1>1. ASSUME NEW p \in Producers, Enqueue(p)
      PROVE  F!Next \/ UNCHANGED F!fifovars
  <2>1. p \notin Consumers /\ CallInv
    BY ThreadsAssumption DEF Inv
  <2>2. CASE EnqueueCall(p)
    BY <2>2, SameFifo DEF EnqueueCall, queuevars, listvars
  <2>3. CASE EnqueueAlloc(p)
    BY <2>3, EnqueueAllocFifo
  <2>4. CASE EnqueueLink(p)
    <3>1. arg[p] \in Items
      BY <2>4 DEF EnqueueLink, Is, Inv, CallInv
    <3> QED BY <2>4, <3>1, EnqueueLinkFifo DEF F!Next
  <2>5. CASE EnqueuePost(p)
    <3>1. \A c \in Consumers : node'[c] = node[c]
      BY <2>1, <2>5 DEF EnqueuePost, CallInv
    <3> QED BY <2>5, <3>1, SameFifo DEF EnqueuePost, listvars
  <2> QED BY <1>1, <2>2, <2>3, <2>4, <2>5 DEF Enqueue
<1>2. ASSUME NEW c \in Consumers, Dequeue(c)
      PROVE  F!Next \/ UNCHANGED F!fifovars
  <2>1. CASE DequeueRemove(c)
    BY <2>1, DequeueRemoveFifo DEF F!Next
  <2>2. CASE DequeueNothing(c)
    <3>1. pc[c] = "remove" /\ front = NULL
      BY <2>2 DEF DequeueNothing, Is
    <3> QED BY <3>1, ConsumerFindsNode
  <2>3. CASE DequeueReturn(c)
    BY <2>3, DequeueReturnFifo DEF F!Next
  <2>4. CASE DequeueCall(c) \/ SemWait(c)
    BY <2>4, SameFifo DEF DequeueCall, SemWait, queuevars, listvars
  <2> QED BY <1>2, <2>1, <2>2, <2>3, <2>4 DEF Dequeue
<1>3. ASSUME NEW x \in Closers, Invalidate(x)
      PROVE  F!Next \/ UNCHANGED F!fifovars
  BY <1>3, SameFifo DEF Invalidate, InvalidateCall, InvalidateBody, queuevars, listvars
<1>4. CASE UNCHANGED vars
  BY <1>4, SameFifo DEF vars, queuevars, listvars, callvars
<1> QED BY <1>1, <1>2, <1>3, <1>4 DEF Next, Done

\* Any threads and any number of items, queued at once or not: while the queue is valid
\* and no linked node was freed, enqueue puts an item at the tail, dequeue removes the one
\* at the head and returns it, the first removal from a backlog included, which frees the
\* node that stays at the head.
THEOREM FifoUntilFreed == Spec => OrderUntilFreed
<1>1. Inv /\ ListInv /\ [Next]_vars => [~dangling /\ ~invalid => F!Next \/ UNCHANGED F!fifovars]_vars
  BY FifoStep
<1> QED BY <1>1, ListAlways, PTL DEF Spec, OrderUntilFreed
=============================================================================
