-------------------------------- MODULE Sfmm --------------------------------
(***************************************************************************)
(* The allocator of hw3/src/sfmm.c: a heap of at most MaxPages pages in an *)
(* arena of 8-byte words, blocks with a header and a footer, and four free *)
(* lists by block size.                                                    *)
(*                                                                         *)
(* Addresses are offsets into the arena sf_mem_init allocates.  A client's *)
(* pointer p is named by the address p - 8 of its header.  The library     *)
(* calls are functions from heaps to heaps, because sf_realloc calls the   *)
(* other two.  The client's own view (live, resized) is kept beside them.  *)
(*                                                                         *)
(* Two of the code's slips damage blocks that are not the call's: a        *)
(* traversal past the second node of a list takes the wrong node, and a    *)
(* shrink whose next block is not free lists that block.  The second call  *)
(* is modelled to its end, the first to the traversal; the model follows   *)
(* the heap no further after either: heap.damaged.                         *)
(*                                                                         *)
(* One assumption: what a client writes is never the address of a word of  *)
(* the heap, so that following a link made of it is a fault.               *)
(***************************************************************************)
EXTENDS Integers, Sequences, FiniteSets

CONSTANTS
    PAGE_SZ,      \* bytes of a page
    MaxPages,     \* pages of the arena, 4 in sfutil and in sf_malloc's checks
    ListMin,      \* LIST_1_MIN .. LIST_4_MIN, by list index
    ListMax,      \* LIST_1_MAX .. LIST_4_MAX
    Sizes,        \* the sizes clients ask for
    MaxCalls      \* bound: library calls in a behaviour

Lists == 0..3
NULL == 0
JUNK == -1        \* a pointer read from words that hold no pointer
heap_start == 8   \* sf_mem_init leaves one word before the heap
ArenaEnd == heap_start + MaxPages * PAGE_SZ
Words == {8 * i : i \in 0..(ArenaEnd \div 8)}
MaxBlocks == (MaxPages * PAGE_SZ) \div 32

ASSUME PagesAssumption ==
    /\ MaxPages \in Nat \ {0}
    /\ PAGE_SZ \in Nat /\ PAGE_SZ % 16 = 0 /\ PAGE_SZ >= 32
ASSUME ListsAssumption ==
    /\ ListMin \in [Lists -> Nat] /\ ListMax \in [Lists -> Nat]
    /\ ListMin[0] = 32
    /\ \A i \in 0..2 : ListMin[i] <= ListMax[i] /\ ListMin[i + 1] = ListMax[i] + 1
    /\ ListMax[3] >= MaxPages * PAGE_SZ
ASSUME ClientAssumption == Sizes \subseteq Nat /\ MaxCalls \in Nat

VARIABLES
    heap,      \* [mem, head, brk, errno, faulted, damaged]; damaged: "no", "node" or "cut"
    status,    \* "running", "aborted" or "faulted": how the process is
    live,      \* the client's blocks: address |-> [size, data, len]
    resized,   \* live blocks sf_realloc has shrunk in place or moved
    calls      \* library calls so far

vars == <<heap, status, live, resized, calls>>

-----------------------------------------------------------------------------
(* Words of memory *)

Zero == <<"zero">>
Tag(a, p, s, r) == <<"tag", a, p, s, r>>       \* a header or a footer
Link(b) == IF b = NULL THEN Zero ELSE <<"ptr", b>>
Data(d) == <<"data", d>>                       \* what the client wrote

\* A word read as a pointer, and as each field of a header or footer.  A client's bytes
\* hold no heap address: the code would follow one that does (sfmm.c:177, 198, 241).
AsPointer(w) == CASE w[1] = "zero" -> NULL
                  [] w[1] = "ptr"  -> w[2]
                  [] OTHER         -> JUNK
AsTag(w) == IF w[1] = "tag" THEN w ELSE Tag(0, 0, 0, 0)
allocated(w) == AsTag(w)[2]
padded(w) == AsTag(w)[3]
block_size(w) == AsTag(w)[4]
requested_size(w) == AsTag(w)[5]
WithSize(w, s) == [AsTag(w) EXCEPT ![4] = s]

next(h, b) == AsPointer(h.mem[b + 8])
prev(h, b) == AsPointer(h.mem[b + 16])
SizeAt(h, b) == block_size(h.mem[b])
FooterOf(h, b) == b + SizeAt(h, b) - 8

Fault(h) == [h EXCEPT !.faulted = TRUE]
Damage(h, how) == [h EXCEPT !.damaged = how]
Stopped(h) == h.faulted \/ h.damaged # "no"

-----------------------------------------------------------------------------
(* Free lists *)

get_list_index(s) == CHOOSE i \in Lists : ListMin[i] <= s /\ s <= ListMax[i]

\* Node n of list i, NULL beyond the end, JUNK from a wild pointer on.
Nodes(h, i) ==
    LET node[n \in 0..MaxBlocks] ==
            IF n = 0 THEN h.head[i]
            ELSE LET b == node[n - 1]
                 IN IF b \in {NULL, JUNK} THEN b ELSE next(h, b)
    IN [n \in 0..MaxBlocks |-> node[n]]

NotFound == [list |-> 4, pos |-> 0, node |-> NULL]

\* The first place, walking the lists from index on, whose node is wild or wanted.
FirstPlace(h, index, wanted) ==
    LET nodes == [i \in index..3 |-> Nodes(h, i)]
        Stop(b) == b # NULL /\ (b = JUNK \/ b \in wanted)
        lists == {i \in index..3 : \E n \in 0..MaxBlocks : Stop(nodes[i][n])}
        list == CHOOSE i \in lists : \A j \in lists : i <= j
        pos == CHOOSE n \in 0..MaxBlocks :
                   Stop(nodes[list][n]) /\ \A m \in 0..(n - 1) : ~Stop(nodes[list][m])
    IN IF lists = {} THEN NotFound
       ELSE [list |-> list, pos |-> pos, node |-> nodes[list][pos]]

find_fit(h, size) ==
    FirstPlace(h, get_list_index(size), {b \in Words : SizeAt(h, b) >= size})

location_in_sfl(h, block) == FirstPlace(h, 0, {block})

append(h, i, b) ==
    IF h.head[i] = NULL THEN [h EXCEPT !.head[i] = b]
    ELSE [h EXCEPT !.mem[h.head[i] + 16] = Link(b),
                   !.mem[b + 8] = Link(h.head[i]),
                   !.head[i] = b]

\* Both traversals take head->next, however far they were to go.
Traverse(h, i, pos) == IF pos = 0 THEN h.head[i] ELSE next(h, h.head[i])

relink(h, i, pos) ==
    LET b == Traverse(h, i, pos)
        n == next(h, b)
        p == prev(h, b)
    IN CASE n = JUNK -> Fault(h)
         [] pos = 0 /\ n = NULL -> [h EXCEPT !.head[i] = NULL]
         [] pos = 0 /\ n \notin {NULL, JUNK} ->
                [h EXCEPT !.mem[n + 16] = Zero, !.head[i] = n, !.mem[b + 8] = Zero]
         [] pos = 1 /\ n = NULL ->
                [h EXCEPT !.mem[p + 8] = Zero, !.mem[b + 16] = Zero]
         [] pos = 1 /\ n \notin {NULL, JUNK} ->
                [h EXCEPT !.mem[p + 8] = Link(n), !.mem[n + 16] = Link(p),
                          !.mem[b + 16] = Zero, !.mem[b + 8] = Zero]
         [] OTHER -> Damage(h, "node")

\* Take a block the caller has found out of its list.
Unlink(h, place) == IF place.node = JUNK THEN Fault(h)
                    ELSE relink(h, place.list, place.pos)
Remove(h, b) == Unlink(h, location_in_sfl(h, b))

\* A free block of s bytes at b: links cleared, then put at the head of its list.
AddFree(h, b, s) ==
    IF Stopped(h) THEN h
    ELSE append([h EXCEPT !.mem[b + 8] = Zero, !.mem[b + 16] = Zero,
                          !.mem[b] = Tag(0, 0, s, 0)],
                get_list_index(s), b)

-----------------------------------------------------------------------------
(* sf_malloc *)

\* Faulty variant: the remainder itself is added.
PaddingRemainder(size) == size % 16

Padding(size) == IF size % 16 = 0 THEN 0 ELSE 16 - (size % 16)
BlockFor(size) == size + 16 + Padding(size)

\* One more page: merged with a free block that ends the heap, or a block of its own.
\* sf_sbrk fails after MaxPages pages and its result is used as a pointer all the same.
MorePages(h) ==
    LET last == h.mem[h.brk - 8]
        foot == h.brk + PAGE_SZ - 8
        grown == [h EXCEPT !.brk = @ + PAGE_SZ]
        b == h.brk - block_size(last)
        s == block_size(last) + PAGE_SZ
        merged == [grown EXCEPT !.mem[b] = WithSize(@, s), !.mem[foot] = WithSize(@, s)]
    IN CASE h.brk = ArenaEnd -> Fault([h EXCEPT !.errno = "ENOMEM"])
         [] h.brk < ArenaEnd /\ allocated(last) = 0 /\ block_size(last) > 0 ->
                AddFree(Remove(merged, b), b, s)
         [] OTHER ->
                append([grown EXCEPT !.mem[h.brk] = Tag(0, 0, PAGE_SZ, 0),
                                     !.mem[foot] = Tag(0, 0, PAGE_SZ, requested_size(@))],
                       get_list_index(PAGE_SZ), h.brk)

\* Pages are added until a block fits.
WithRoom(h, s) ==
    LET room[n \in 0..MaxPages + 1] ==
            IF n = 0 THEN h
            ELSE LET g == room[n - 1]
                 IN IF Stopped(g) \/ find_fit(g, s) # NotFound THEN g ELSE MorePages(g)
    IN room[MaxPages + 1]

\* Faulty variant: the footer of what is left keeps the size before the split.
CarveKeepsFooter(h, size, place) ==
    LET b == Traverse(h, place.list, place.pos)
        original == SizeAt(h, b)
        splinter == SizeAt(h, place.node) - BlockFor(size) < 32
        s == IF splinter THEN original ELSE BlockFor(size)
        pad == IF s # size + 16 THEN 1 ELSE padded(h.mem[b])
        taken == relink([h EXCEPT !.mem[b] = Tag(1, pad, s, 0),
                                  !.mem[b + s - 8] = Tag(1, pad, s, size)],
                        place.list, place.pos)
    IN IF splinter \/ Stopped(taken) THEN taken ELSE AddFree(taken, b + s, original - s)

\* Carve the block out of the free block found; what is left must make a block of 32 bytes.
Carve(h, size, place) ==
    LET b == Traverse(h, place.list, place.pos)
        original == SizeAt(h, b)
        splinter == SizeAt(h, place.node) - BlockFor(size) < 32
        s == IF splinter THEN original ELSE BlockFor(size)
        pad == IF s # size + 16 THEN 1 ELSE padded(h.mem[b])
        taken == relink([h EXCEPT !.mem[b] = Tag(1, pad, s, 0),
                                  !.mem[b + s - 8] = Tag(1, pad, s, size)],
                        place.list, place.pos)
        rest == [taken EXCEPT !.mem[b + original - 8] =
                     Tag(0, padded(@), original - s, requested_size(@))]
    IN IF splinter \/ Stopped(taken) THEN taken ELSE AddFree(rest, b + s, original - s)

\* The block for a request, from a heap that has room: what sf_malloc does after its loop.
AllocateAt(h, size, place) ==
    IF Stopped(h) THEN [heap |-> h, ret |-> NULL]
    ELSE IF place.node = JUNK THEN [heap |-> Fault(h), ret |-> NULL]
    ELSE IF place.pos > 1 THEN [heap |-> Damage(h, "node"), ret |-> NULL]
    ELSE [heap |-> Carve(h, size, place), ret |-> Traverse(h, place.list, place.pos)]
Allocate(h, size) == AllocateAt(h, size, find_fit(h, BlockFor(size)))

\* Faulty variant: a request that does not fit with its header and footer is EINVAL.
sf_mallocInvalid(h, size) ==
    CASE size = 0 \/ BlockFor(size) > MaxPages * PAGE_SZ ->
                [heap |-> [h EXCEPT !.errno = "EINVAL"], ret |-> NULL]
         [] OTHER -> Allocate(WithRoom(h, BlockFor(size)), size)

\* The heap after sf_malloc(size), and the block it returns.
sf_malloc(h, size) ==
    CASE size = 0 \/ size > MaxPages * PAGE_SZ ->
                [heap |-> [h EXCEPT !.errno = "EINVAL"], ret |-> NULL]
         [] size > 0 /\ size <= MaxPages * PAGE_SZ /\ BlockFor(size) > MaxPages * PAGE_SZ ->
                [heap |-> [h EXCEPT !.errno = "ENOMEM"], ret |-> NULL]
         [] OTHER -> Allocate(WithRoom(h, BlockFor(size)), size)

-----------------------------------------------------------------------------
(* sf_free *)

\* The checks sf_free and sf_realloc abort on.
Refused(h, b) ==
    LET head == h.mem[b]
        foot == h.mem[FooterOf(h, b)]
        exact == requested_size(foot) + 16 = block_size(head)
    IN \/ b = NULL
       \/ b < heap_start \/ b + block_size(head) > h.brk
       \/ allocated(head) = 0 \/ allocated(foot) = 0
       \/ ~exact /\ padded(foot) = 0
       \/ exact /\ padded(foot) = 1
       \/ padded(foot) # padded(head)
       \/ allocated(foot) # allocated(head)

\* Faulty variant: the block merged stays in its list.
MergeKeepsNode(h, start, follower) ==
    LET s == (follower - start) + SizeAt(h, follower)
        sized == [h EXCEPT !.mem[start] = WithSize(@, s),
                           !.mem[FooterOf(h, follower)] = WithSize(@, s)]
    IN AddFree(sized, start, s)

\* The block from start on and the free block that follows it become one.
\* Links and flags are those of the merged block, whose footer is the old one.
Merge(h, start, follower) ==
    LET s == (follower - start) + SizeAt(h, follower)
        sized == [h EXCEPT !.mem[start] = WithSize(@, s),
                           !.mem[FooterOf(h, follower)] = WithSize(@, s)]
    IN AddFree(Remove(sized, follower), start, s)

FreeBlockAt(h, b) == SizeAt(h, b) > 0 /\ allocated(h.mem[b]) = 0

\* Faulty variant: a block freed alone keeps the allocated bit of its header.
ReleaseKeepsHeader(h, b) ==
    LET s == SizeAt(h, b)
    IN IF FreeBlockAt(h, b + s) THEN Merge(h, b, b + s)
       ELSE append([h EXCEPT !.mem[FooterOf(h, b)] = Tag(0, 0, s, 0)],
                   get_list_index(s), b)

\* coalesce with i = 0.  A block freed alone keeps what its client left where the
\* links are: append sets next only when the list has another block.
Release(h, b) ==
    LET s == SizeAt(h, b)
    IN IF FreeBlockAt(h, b + s) THEN Merge(h, b, b + s)
       ELSE append([h EXCEPT !.mem[b] = Tag(0, 0, s, 0),
                             !.mem[FooterOf(h, b)] = Tag(0, 0, s, 0)],
                   get_list_index(s), b)

-----------------------------------------------------------------------------
(* sf_realloc, for a block that is not refused *)

\* size bytes go from block b to block to, also those b does not have.
CopyTo(h, b, to, size) ==
    LET from(a) == a - to + b
    IN [h EXCEPT !.mem = [a \in Words |->
            IF a \notin (to + 8)..(to + 7 + size) THEN @[a]
            ELSE IF from(a) \in Words THEN @[from(a)] ELSE Zero]]

\* The flag goes into the new header only.
Flagged(h, to, size) == [h EXCEPT !.mem[to] = [@ EXCEPT ![3] = IF Padding(size) = 0 THEN 0 ELSE 1]]

\* Faulty variant: the old block is freed before its bytes are copied.
MoveToFreesFirst(m, b, size) ==
    IF Stopped(m.heap) THEN m
    ELSE IF m.ret = NULL THEN [heap |-> Fault(m.heap), ret |-> NULL]
    ELSE [heap |-> CopyTo(Flagged(Release(m.heap, b), m.ret, size), b, m.ret, size), ret |-> m.ret]

\* A larger block, m being what sf_malloc returned: without a test for NULL.
MoveTo(m, b, size) ==
    IF Stopped(m.heap) THEN m
    ELSE IF m.ret = NULL THEN [heap |-> Fault(m.heap), ret |-> NULL]
    ELSE [heap |-> Release(CopyTo(Flagged(m.heap, m.ret, size), b, m.ret, size), b), ret |-> m.ret]

Move(h, b, size) == MoveTo(sf_malloc(h, size), b, size)

\* coalesce with i > 0 and no free block behind what is cut off: it is given the block
\* behind, n, for the one to free and the new footer for its footer.  So n is marked free
\* and listed by the size s of the block that stays, whose footer says free.
FreeBehind(h, foot, s, n) ==
    Damage(append([h EXCEPT !.mem[n] = Tag(0, 0, block_size(@), requested_size(@)),
                            !.mem[foot] = Tag(0, 0, s, 0)],
                  get_list_index(s), n), "cut")

\* A smaller block: what is cut off is merged with a free block behind it.
Shrink(h, b, size) ==
    LET old == SizeAt(h, b)
        s == BlockFor(size)
        pad == IF Padding(size) # 0 THEN 1 ELSE padded(h.mem[b])
        cut == [h EXCEPT !.mem[b] = Tag(1, pad, s, 0),
                         !.mem[b + s - 8] = Tag(1, pad, s, size)]
    IN CASE old - s < 32 -> [h EXCEPT !.mem[FooterOf(h, b)] = [@ EXCEPT ![5] = size]]
         [] old - s >= 32 /\ FreeBlockAt(h, b + old) -> Merge(cut, b + s, b + old)
         [] OTHER -> FreeBehind(cut, b + s - 8, s, b + old)

\* Faulty variant: the flag stays as it was.
KeepFlag(h, b, size) == [h EXCEPT !.mem[FooterOf(h, b)] = [@ EXCEPT ![5] = size]]

\* The same block: flag and size follow the request.
Keep(h, b, size) ==
    LET pad == IF Padding(size) = 0 THEN 0 ELSE 1
        foot == FooterOf(h, b)
    IN IF requested_size(h.mem[foot]) = size THEN h
       ELSE [h EXCEPT !.mem[b] = [@ EXCEPT ![3] = pad],
                      !.mem[foot] = [[@ EXCEPT ![3] = pad] EXCEPT ![5] = size]]

-----------------------------------------------------------------------------
(* Clients *)

Init ==
    /\ heap = [mem  |-> [a \in Words |-> IF a = ArenaEnd THEN Tag(1, 0, 16, 0) ELSE Zero],
               head |-> [i \in Lists |-> NULL],
               brk |-> heap_start, errno |-> "0", faulted |-> FALSE, damaged |-> "no"]
    /\ status = "running"
    /\ live = <<>>
    /\ resized = {}
    /\ calls = 0

Call ==
    /\ status = "running" /\ heap.damaged = "no"
    /\ calls < MaxCalls
    /\ calls' = calls + 1

Reply(h) ==
    /\ heap' = h
    /\ status' = IF h.faulted THEN "faulted" ELSE "running"

Add(b, r) == [x \in DOMAIN live \cup {b} |-> IF x = b THEN r ELSE live[x]]
Drop(b) == [x \in DOMAIN live \ {b} |-> live[x]]
Fresh(size) == [size |-> size, data |-> NULL, len |-> 0]
Least(m, n) == IF m < n THEN m ELSE n

\* Blocks that were freed and not handed out again.
FreeBlocks(h) ==
    {b \in UNION {{Nodes(h, i)[n] : n \in 0..MaxBlocks} : i \in Lists} : b > NULL}

Malloc(size) ==
    /\ Call
    /\ \E m \in {sf_malloc(heap, size)} :
         /\ Reply(m.heap)
         /\ live' = IF m.ret = NULL THEN live ELSE Add(m.ret, Fresh(size))
    /\ UNCHANGED resized

Abort == status' = "aborted" /\ UNCHANGED <<heap, live, resized>>

Free(b) ==
    /\ Call
    /\ IF Refused(heap, b) THEN Abort
       ELSE /\ Reply(Release(heap, b))
            /\ live' = Drop(b)
            /\ resized' = resized \ {b}

\* What the client knows of a block once it has its new size.
Resized(b, size) == [live[b] EXCEPT !.size = size, !.len = Least(@, size)]

\* The block is where sf_realloc has moved it.
Moved(m, b, size) ==
    /\ Reply(m.heap)
    /\ IF m.ret = NULL THEN UNCHANGED <<live, resized>>
       ELSE /\ live' = [x \in (DOMAIN live \ {b}) \cup {m.ret} |->
                           IF x = m.ret THEN Resized(b, size) ELSE live[x]]
            /\ resized' = (resized \ {b}) \cup {m.ret}

Realloc(b, size) ==
    LET old == SizeAt(heap, b)
        s == BlockFor(size)
    IN /\ size > 0
       /\ Call
       /\ CASE size > MaxPages * PAGE_SZ ->
                 Reply([heap EXCEPT !.errno = "EINVAL"]) /\ UNCHANGED <<live, resized>>
            [] size <= MaxPages * PAGE_SZ /\ Refused(heap, b) -> Abort
            [] size <= MaxPages * PAGE_SZ /\ ~Refused(heap, b) /\ s > old ->
                 Moved(Move(heap, b, size), b, size)
            [] size <= MaxPages * PAGE_SZ /\ ~Refused(heap, b) /\ s < old ->
                 /\ Reply(Shrink(heap, b, size))
                 /\ live' = Add(b, Resized(b, size))
                 /\ resized' = resized \cup {b}
            [] OTHER ->
                 /\ Reply(Keep(heap, b, size))
                 /\ live' = Add(b, Resized(b, size))
                 /\ UNCHANGED resized

\* sf_realloc(p, 0) is sf_free(p).
ReallocZero(b) == 0 \in Sizes /\ Free(b)

\* The client fills its block.
Write(b) ==
    /\ status = "running" /\ heap.damaged = "no"
    /\ live[b].len < live[b].size
    /\ heap' = [heap EXCEPT !.mem = [a \in Words |->
                    IF a \in (b + 8)..(b + 7 + live[b].size) THEN Data(b) ELSE @[a]]]
    /\ live' = Add(b, [live[b] EXCEPT !.data = b, !.len = live[b].size])
    /\ UNCHANGED <<status, resized, calls>>

\* The bound on calls, an abort, a fault or damage: the behaviour ends.
Done ==
    /\ calls = MaxCalls \/ status # "running" \/ heap.damaged # "no"
    /\ UNCHANGED vars

\* What clients pass to sf_free and sf_realloc.
Pointers == IF heap.damaged # "no" THEN {} ELSE DOMAIN live \cup FreeBlocks(heap) \cup {NULL}

Next ==
    \/ \E size \in Sizes : Malloc(size)
    \/ \E b \in Pointers : Free(b) \/ ReallocZero(b)
    \/ \E b \in Pointers, size \in Sizes : Realloc(b, size)
    \/ \E b \in DOMAIN live : Write(b)
    \/ Done

Spec == Init /\ [][Next]_vars

-----------------------------------------------------------------------------
(* Properties *)

\* The headers met on a walk from the start of the heap to the break.
Starts(h) ==
    LET at[n \in 0..MaxBlocks] ==
            IF n = 0 THEN heap_start
            ELSE LET b == at[n - 1]
                 IN IF b >= h.brk THEN h.brk ELSE b + SizeAt(h, b)
    IN {at[n] : n \in 0..MaxBlocks} \ {h.brk}

WildLink(h) == \E i \in Lists, n \in 0..MaxBlocks : Nodes(h, i)[n] = JUNK

\* The heap is whole as long as no call has written into its neighbours.
Whole == status # "faulted" /\ heap.damaged = "no"

\* The words hold what the four bit fields can: sizes that are multiples of 16, as
\* block_size is stored shifted by 4; and the break is at the end of a page.
TypeOK ==
    /\ \A a \in Words : LET w == heap.mem[a]
                        IN /\ w[1] \in {"zero", "ptr", "data", "tag"}
                           /\ w[1] = "tag" => /\ w[2] \in {0, 1} /\ w[3] \in {0, 1}
                                              /\ w[4] % 16 = 0
    /\ heap.head \in [Lists -> Words]
    /\ heap.brk \in {heap_start + n * PAGE_SZ : n \in 0..MaxPages}
    /\ heap.errno \in {"0", "EINVAL", "ENOMEM"}
    /\ heap.faulted \in BOOLEAN /\ heap.damaged \in {"no", "node", "cut"}
    /\ status \in {"running", "aborted", "faulted"}
    /\ DOMAIN live \subseteq Words /\ resized \subseteq DOMAIN live
    /\ calls \in 0..MaxCalls

\* Whatever was split, merged and extended, the blocks tile the heap: each header's
\* size leads to the next header, its footer says the same, no block is below 32 bytes.
HeapTiles ==
    Whole => \A b \in Starts(heap) :
        LET head == heap.mem[b]
            foot == heap.mem[FooterOf(heap, b)]
        IN /\ block_size(head) >= 32
           /\ b + block_size(head) <= heap.brk
           /\ block_size(foot) = block_size(head)
           /\ allocated(foot) = allocated(head)

\* The free lists hold the free blocks of the heap, each once, in the list of its
\* size, and relink and append leave every node with its predecessor.
FreeListsExact ==
    Whole =>
        LET Real(i) == {n \in 0..MaxBlocks : Nodes(heap, i)[n] > NULL}
            InList(i) == {Nodes(heap, i)[n] : n \in Real(i)}
        IN /\ FreeBlocks(heap) = {b \in Starts(heap) : allocated(heap.mem[b]) = 0}
           /\ \A i \in Lists :
                /\ Cardinality(InList(i)) = Cardinality(Real(i))
                /\ \A b \in InList(i) : get_list_index(SizeAt(heap, b)) = i
                /\ \A n \in Real(i) \ {0} :
                       prev(heap, Nodes(heap, i)[n]) = Nodes(heap, i)[n - 1]

\* What the heap holds as allocated is what the clients were given and have not
\* freed, and each block has room for what its client asked for.
LiveBlocksHeld ==
    Whole => /\ DOMAIN live = {b \in Starts(heap) : allocated(heap.mem[b]) = 1}
             /\ \A b \in DOMAIN live : live[b].size + 16 <= SizeAt(heap, b)

\* The words a cut has made a link of: a block listed by FreeBehind heads its list, and
\* append has put the list's former head into its first word (sfmm.c:177).
CutLinks == IF heap.damaged = "cut" THEN {heap.head[i] + 8 : i \in Lists} ELSE {}

\* No call changes what a client wrote, up to the least size its block had since, but for
\* one word: sf_realloc cutting a block in front of one that is not free may write a link
\* into the first word of the block behind (sfmm.c:537-545).  Nothing is said of a heap
\* the wrong node was taken from, or once the process is dead.
ContentsKept ==
    status # "faulted" /\ heap.damaged # "node" =>
        \A b \in DOMAIN live :
            \A a \in {x \in Words : b + 8 <= x /\ x < b + 8 + live[b].len} \ CutLinks :
                heap.mem[a] = Data(live[b].data)

\* sf_free aborts on a block that is free.  A block a client holds it refuses for its
\* padding flags alone, when header and footer disagree or do not tell whether the size
\* asked for leaves padding; and that never of a block sf_realloc has neither shrunk nor
\* moved.  (sf_realloc aborts on the same blocks, where sfmm.h:140 wants EINVAL.)
RefusalsAreRight ==
    Whole => /\ \A b \in FreeBlocks(heap) : Refused(heap, b)
             /\ \A b \in DOMAIN live :
                  LET foot == heap.mem[FooterOf(heap, b)]
                      flag == IF requested_size(foot) + 16 = SizeAt(heap, b) THEN 0 ELSE 1
                  IN Refused(heap, b) => /\ b \in resized
                                         /\ padded(heap.mem[b]) # flag \/ padded(foot) # flag

\* A call of the library dies only for want of memory, or because a block freed into
\* an empty list kept its client's bytes as its links.
FaultsExplained ==
    [][status = "running" /\ status' = "faulted" =>
           heap'.errno = "ENOMEM" \/ WildLink(heap)]_vars
=============================================================================
