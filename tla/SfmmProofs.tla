----------------------------- MODULE SfmmProofs ------------------------------
(***************************************************************************)
(* The allocator of hw3, for any number of lists and ranges of sizes, any  *)
(* number and size of pages, any sizes asked for and any number of calls.  *)
(*                                                                         *)
(* The inductive invariant, HeapInv, says that as long as no call has      *)
(* written into its neighbours there are block addresses S with sizes z    *)
(* such that                                                               *)
(*                                                                         *)
(*   Tiles    the blocks tile the heap from its start to the break         *)
(*   Tagged   headers and footers say what each block is                   *)
(*   Linked   every list is a path of nodes, next and prev in agreement,   *)
(*            that ends in NULL or in a client's bytes                     *)
(*   Listed   the nodes are the free blocks, each once, in its list        *)
(*   Held     the allocated blocks are the clients', with their bytes      *)
(*                                                                         *)
(* The properties read S, z and the paths from the heap: what Starts,      *)
(* Nodes and Refused find is shown to be them by induction over the walk.  *)
(* The functions of sfmm.c are followed piece by piece: Laid is Sound with *)
(* some blocks in no list yet, and each XLaid or XSound lemma takes one    *)
(* piece of a call from one heap to the next.                              *)
(***************************************************************************)
EXTENDS Sfmm, DataInduction, FunctionTheorems, FiniteSetTheorems, TLAPS

-----------------------------------------------------------------------------
(* Addresses *)

\* Where sf_sbrk can leave the break.
Breaks == {heap_start + n * PAGE_SZ : n \in 0 .. MaxPages}

\* The arena is whole pages behind the word at its start.
LEMMA ArenaIs == /\ ArenaEnd \in Nat /\ ArenaEnd % 16 = 8 /\ ArenaEnd >= 40
                 /\ ArenaEnd = heap_start + MaxPages * PAGE_SZ
                 /\ MaxPages * PAGE_SZ \in Nat /\ heap_start = 8 /\ PAGE_SZ \in Nat
<1> PICK p \in Nat : PAGE_SZ = 16 * p
  <2>1. PAGE_SZ = 16 * (PAGE_SZ \div 16)
    BY PagesAssumption
  <2> QED BY <2>1, PagesAssumption
<1>1. MaxPages * PAGE_SZ = 16 * (MaxPages * p)
  BY PagesAssumption
<1>2. MaxPages * p \in Nat
  BY PagesAssumption
<1>3. MaxPages * PAGE_SZ >= 32
  BY PagesAssumption
<1> QED BY <1>1, <1>2, <1>3, PagesAssumption DEF ArenaEnd, heap_start

\* The addresses of words are the multiples of 8 in the arena.
LEMMA WordsAre == \A a : a \in Words <=> a \in Nat /\ a % 8 = 0 /\ a <= ArenaEnd
<1> SUFFICES ASSUME NEW a PROVE a \in Words <=> a \in Nat /\ a % 8 = 0 /\ a <= ArenaEnd
  OBVIOUS
<1> USE ArenaIs
<1>1. ASSUME a \in Words PROVE a \in Nat /\ a % 8 = 0 /\ a <= ArenaEnd
  <2> HIDE DEF ArenaEnd
  <2> QED BY <1>1 DEF Words
<1>2. ASSUME a \in Nat, a % 8 = 0, a <= ArenaEnd PROVE a \in Words
  <2>1. a = 8 * (a \div 8) /\ a \div 8 \in 0 .. (ArenaEnd \div 8)
    BY <1>2
  <2> QED BY <2>1 DEF Words
<1> QED BY <1>1, <1>2

\* The break is in the arena, at an odd word, and sf_sbrk moves it a page on.
LEMMA BreaksAre ==
    ASSUME NEW k \in Breaks
    PROVE  /\ k \in Nat /\ k % 16 = 8 /\ heap_start <= k /\ k <= ArenaEnd
           /\ k # ArenaEnd => k + PAGE_SZ \in Breaks /\ k + PAGE_SZ <= ArenaEnd
<1> USE PagesAssumption
<1> PICK n \in 0 .. MaxPages : k = heap_start + n * PAGE_SZ
  BY DEF Breaks
<1> PICK p \in Nat : PAGE_SZ = 16 * p
  <2>1. PAGE_SZ = 16 * (PAGE_SZ \div 16)
    OBVIOUS
  <2> QED BY <2>1
<1>1. n * PAGE_SZ = 16 * (n * p) /\ n * p \in Nat
  OBVIOUS
<1>2. n * PAGE_SZ <= MaxPages * PAGE_SZ
  OBVIOUS
<1>3. k \in Nat /\ k % 16 = 8 /\ heap_start <= k /\ k <= ArenaEnd
  BY <1>1, <1>2, ArenaIs
<1>4. ASSUME k # ArenaEnd PROVE k + PAGE_SZ \in Breaks /\ k + PAGE_SZ <= ArenaEnd
  <2>1. n + 1 \in 0 .. MaxPages
    BY <1>4 DEF ArenaEnd
  <2>2. k + PAGE_SZ = heap_start + (n + 1) * PAGE_SZ
    BY DEF heap_start
  <2>3. (n + 1) * PAGE_SZ <= MaxPages * PAGE_SZ
    BY <2>1
  <2> QED BY <2>1, <2>2, <2>3 DEF Breaks, ArenaEnd, heap_start
<1> QED BY <1>3, <1>4

-----------------------------------------------------------------------------
(* Words of memory *)

Size16 == {s \in Nat : s % 16 = 0}
TagWords == {Tag(a, p, s, r) : a \in {0, 1}, p \in {0, 1}, s \in Size16, r \in Nat}
Word == {Zero} \cup TagWords \cup {Link(b) : b \in Words \ {NULL}} \cup {Data(d) : d \in Words}

\* What is read from each kind of word.
LEMMA ReadTag ==
    \A a, p, s, r : /\ AsTag(Tag(a, p, s, r)) = Tag(a, p, s, r)
                    /\ allocated(Tag(a, p, s, r)) = a /\ padded(Tag(a, p, s, r)) = p
                    /\ block_size(Tag(a, p, s, r)) = s /\ requested_size(Tag(a, p, s, r)) = r
                    /\ AsPointer(Tag(a, p, s, r)) = JUNK
                    /\ Tag(a, p, s, r)[1] = "tag"
BY DEF AsTag, Tag, allocated, padded, block_size, requested_size, AsPointer

\* What the words that are no header or footer read as.
LEMMA ReadOther ==
    /\ AsPointer(Zero) = NULL /\ allocated(Zero) = 0 /\ block_size(Zero) = 0 /\ Zero[1] = "zero"
    /\ AsTag(Zero) = Tag(0, 0, 0, 0)
    /\ \A d : AsPointer(Data(d)) = JUNK /\ AsTag(Data(d)) = Tag(0, 0, 0, 0) /\ Data(d)[1] = "data"
    /\ \A b : b # NULL => AsPointer(Link(b)) = b /\ AsTag(Link(b)) = Tag(0, 0, 0, 0) /\ Link(b)[1] = "ptr"
    /\ Link(NULL) = Zero
BY DEF Zero, Data, Link, AsPointer, AsTag, allocated, block_size, Tag

\* The fields of any word.
LEMMA ReadWord ==
    ASSUME NEW w \in Word
    PROVE  /\ AsTag(w) = Tag(allocated(w), padded(w), block_size(w), requested_size(w))
           /\ allocated(w) \in {0, 1} /\ padded(w) \in {0, 1}
           /\ block_size(w) \in Size16 /\ requested_size(w) \in Nat
           /\ AsPointer(w) \in Words \cup {JUNK}
           /\ block_size(w) > 0 => w = AsTag(w)
<1>1. CASE w \in TagWords
  <2> PICK a \in {0, 1}, p \in {0, 1}, s \in Size16, r \in Nat : w = Tag(a, p, s, r)
    BY <1>1 DEF TagWords
  <2> QED BY ReadTag
<1>2. CASE w \notin TagWords
  <2>1. AsTag(w) = Tag(0, 0, 0, 0)
    BY <1>2, ReadOther DEF Word
  <2>2. allocated(w) = 0 /\ padded(w) = 0 /\ block_size(w) = 0 /\ requested_size(w) = 0
    BY <2>1 DEF allocated, padded, block_size, requested_size, Tag
  <2>3. AsPointer(w) \in Words \cup {JUNK}
    <3>1. NULL \in Words
      BY WordsAre, ArenaIs DEF NULL
    <3> QED BY <1>2, <3>1, ReadOther DEF Word
  <2> QED BY <2>1, <2>2, <2>3 DEF Size16
<1> QED BY <1>1, <1>2

\* Writing one field of a header or a footer.
LEMMA WriteField ==
    \A a, p, s, r, x :
        /\ [Tag(a, p, s, r) EXCEPT ![3] = x] = Tag(a, x, s, r)
        /\ [Tag(a, p, s, r) EXCEPT ![4] = x] = Tag(a, p, x, r)
        /\ [Tag(a, p, s, r) EXCEPT ![5] = x] = Tag(a, p, s, x)
BY DEF Tag

\* A header or footer given a new block size keeps its other fields.
LEMMA WithSizeIs ==
    ASSUME NEW w \in Word, NEW s
    PROVE  WithSize(w, s) = Tag(allocated(w), padded(w), s, requested_size(w))
BY ReadWord, WriteField DEF WithSize

\* The words the library and its clients write are words.
LEMMA WordIs ==
    /\ Zero \in Word
    /\ \A a \in {0, 1}, p \in {0, 1}, s \in Size16, r \in Nat : Tag(a, p, s, r) \in Word
    /\ \A b \in Words : Link(b) \in Word /\ Data(b) \in Word
BY ReadOther DEF Word, TagWords

-----------------------------------------------------------------------------
(* Blocks that tile the heap *)

\* The blocks at S, of the sizes z, lie end to end from heap_start to top.
Tiles(S, z, top) ==
    /\ S \subseteq Words /\ z \in [S -> Size16]
    /\ \A b \in S : heap_start <= b /\ z[b] >= 32 /\ b + z[b] <= top
    /\ \A b \in S : b + z[b] = top \/ b + z[b] \in S
    /\ top = heap_start \/ heap_start \in S
    /\ \A b, c \in S : b < c => b + z[b] <= c

\* Blocks that tile lie in the arena and apart from each other.
LEMMA TilesApart ==
    ASSUME NEW S, NEW z, NEW top \in Nat, top <= ArenaEnd, Tiles(S, z, top), NEW b \in S
    PROVE  /\ b \in Nat /\ b % 8 = 0 /\ b >= 8 /\ z[b] \in Nat /\ z[b] % 16 = 0 /\ z[b] >= 32
           /\ b + z[b] <= top
           /\ b \in Words /\ b + 8 \in Words /\ b + 16 \in Words /\ b + z[b] - 8 \in Words
           /\ \A c \in S : c # b => b + z[b] <= c \/ c + z[c] <= b
<1>1. b \in Nat /\ b % 8 = 0 /\ b >= 8 /\ z[b] \in Nat /\ z[b] % 16 = 0 /\ z[b] >= 32 /\ b + z[b] <= top
  BY WordsAre DEF Tiles, Size16, heap_start
<1>2. b \in Words /\ b + 8 \in Words /\ b + 16 \in Words /\ b + z[b] - 8 \in Words
  <2>1. \A k \in {8, 16, z[b] - 8} : k \in Nat /\ k % 8 = 0 /\ b + k <= ArenaEnd
    BY <1>1, ArenaIs
  <2>2. \A k \in {8, 16, z[b] - 8} : b + k \in Words
    BY <1>1, <2>1, WordsAre
  <2>3. b + (z[b] - 8) = b + z[b] - 8
    BY <1>1
  <2> QED BY <2>2, <2>3 DEF Tiles
<1>3. ASSUME NEW c \in S, c # b PROVE b + z[b] <= c \/ c + z[c] <= b
  BY <1>1, <1>3, WordsAre DEF Tiles
<1> QED BY <1>1, <1>2, <1>3

\* A block is cut in two.
SplitSizes(S, z, b, s) ==
    [c \in S \cup {b + s} |-> IF c = b THEN s ELSE IF c = b + s THEN z[b] - s ELSE z[c]]

\* A block split in two leaves the heap tiled.
LEMMA SplitTiles ==
    ASSUME NEW S, NEW z, NEW top \in Nat, top <= ArenaEnd, Tiles(S, z, top), NEW b \in S,
           NEW s \in Size16, s >= 32, z[b] - s >= 32
    PROVE  Tiles(S \cup {b + s}, SplitSizes(S, z, b, s), top) /\ b + s \notin S
<1> DEFINE y == SplitSizes(S, z, b, s)
           T == S \cup {b + s}
<1>1. \A c \in S : /\ c \in Nat /\ c >= 8 /\ z[c] \in Nat /\ z[c] % 16 = 0 /\ z[c] >= 32
                   /\ c + z[c] <= top
                   /\ (c # b => b + z[b] <= c \/ c + z[c] <= b)
  BY TilesApart
<1>2. s \in Nat /\ s % 16 = 0 /\ z[b] - s \in Size16 /\ b % 8 = 0
  BY <1>1, WordsAre DEF Size16, Tiles
<1>3. b + s \notin S
  BY <1>1, <1>2
<1>4. b + s \in Words
  <2>1. b + s \in Nat /\ (b + s) % 8 = 0 /\ b + s <= ArenaEnd
    BY <1>1, <1>2, ArenaIs
  <2> QED BY <2>1, WordsAre
<1>5. \A c \in T : y[c] = IF c = b THEN s ELSE IF c = b + s THEN z[b] - s ELSE z[c]
  BY DEF SplitSizes
<1>6. T \subseteq Words /\ y \in [T -> Size16]
  BY <1>2, <1>4 DEF Tiles, SplitSizes
<1>7. \A c \in T : heap_start <= c /\ y[c] >= 32 /\ c + y[c] <= top
  BY <1>1, <1>2, <1>5 DEF heap_start
<1>8. \A c \in T : c + y[c] = top \/ c + y[c] \in T
  <2> SUFFICES ASSUME NEW c \in T PROVE c + y[c] = top \/ c + y[c] \in T
    OBVIOUS
  <2>1. CASE c = b
    BY <1>5, <2>1
  <2>2. CASE c = b + s /\ c # b
    <3>1. c + y[c] = b + z[b]
      BY <1>1, <1>2, <1>5, <2>2
    <3> QED BY <3>1 DEF Tiles
  <2>3. CASE c # b /\ c # b + s
    BY <1>5, <2>3 DEF Tiles
  <2> QED BY <2>1, <2>2, <2>3
<1>9. top = heap_start \/ heap_start \in T
  BY DEF Tiles
<1>10. ASSUME NEW c \in T, NEW d \in T, c < d PROVE c + y[c] <= d
  <2>1. \A e \in S : \A g \in S : e < g => e + z[e] <= g
    BY DEF Tiles
  <2> QED BY <1>1, <1>2, <1>5, <1>10, <2>1
<1> HIDE DEF y, T
<1>11. Tiles(T, y, top)
  BY <1>6, <1>7, <1>8, <1>9, <1>10 DEF Tiles
<1> QED BY <1>3, <1>11 DEF T, y

\* A block and the one behind it become one.
MergeSizes(S, z, b, c) == [x \in S \ {c} |-> IF x = b THEN z[b] + z[c] ELSE z[x]]

\* So does a block merged with the one behind it.
LEMMA MergeTiles ==
    ASSUME NEW S, NEW z, NEW top \in Nat, top <= ArenaEnd, Tiles(S, z, top), NEW b \in S,
           NEW c \in S, c = b + z[b]
    PROVE  Tiles(S \ {c}, MergeSizes(S, z, b, c), top)
<1> DEFINE y == MergeSizes(S, z, b, c)
           T == S \ {c}
<1>1. \A x \in S : /\ x \in Nat /\ x >= 8 /\ z[x] \in Nat /\ z[x] % 16 = 0 /\ z[x] >= 32
                   /\ x + z[x] <= top
                   /\ (x # b => b + z[b] <= x \/ x + z[x] <= b)
                   /\ (x # c => c + z[c] <= x \/ x + z[x] <= c)
  BY TilesApart
<1>2. \A x \in T : y[x] = IF x = b THEN z[b] + z[c] ELSE z[x]
  BY DEF MergeSizes
<1>3. z[b] + z[c] \in Size16
  BY <1>1 DEF Size16
<1>4. T \subseteq Words /\ y \in [T -> Size16]
  BY <1>3 DEF Tiles, MergeSizes
<1>5. \A x \in T : heap_start <= x /\ y[x] >= 32 /\ x + y[x] <= top
  BY <1>1, <1>2 DEF heap_start
<1>6. \A x \in T : x + y[x] = top \/ x + y[x] \in T
  <2> SUFFICES ASSUME NEW x \in T PROVE x + y[x] = top \/ x + y[x] \in T
    OBVIOUS
  <2>1. CASE x = b
    <3>1. x + y[x] = c + z[c] /\ c + z[c] # c
      BY <1>1, <1>2, <2>1
    <3> QED BY <3>1 DEF Tiles
  <2>2. CASE x # b
    <3>1. x + y[x] # c
      BY <1>1, <1>2, <2>2
    <3> QED BY <1>2, <2>2, <3>1 DEF Tiles
  <2> QED BY <2>1, <2>2
<1>7. top = heap_start \/ heap_start \in T
  BY <1>1 DEF Tiles, heap_start
<1>8. ASSUME NEW x \in T, NEW d \in T, x < d PROVE x + y[x] <= d
  <2>1. \A e \in S : \A g \in S : e < g => e + z[e] <= g
    BY DEF Tiles
  <2> QED BY <1>1, <1>2, <1>8, <2>1
<1> HIDE DEF y, T
<1>9. Tiles(T, y, top)
  BY <1>4, <1>5, <1>6, <1>7, <1>8 DEF Tiles
<1> QED BY <1>9 DEF T, y

\* A new block behind the last one.
GrowSizes(S, z, top, p) == [x \in S \cup {top} |-> IF x = top THEN p ELSE z[x]]

\* So does a new page at the break.
LEMMA GrowTiles ==
    ASSUME NEW S, NEW z, NEW top \in Words, heap_start <= top, top <= ArenaEnd, Tiles(S, z, top),
           NEW p \in Size16, p >= 32
    PROVE  Tiles(S \cup {top}, GrowSizes(S, z, top, p), top + p) /\ top \notin S
<1> DEFINE y == GrowSizes(S, z, top, p)
           T == S \cup {top}
<1>1. top \in Nat /\ p \in Nat
  BY WordsAre DEF Size16
<1>2. \A x \in S : /\ x \in Nat /\ x >= 8 /\ z[x] \in Nat /\ z[x] % 16 = 0 /\ z[x] >= 32
                   /\ x + z[x] <= top
  BY <1>1, TilesApart
<1>3. top \notin S
  BY <1>1, <1>2
<1>4. \A x \in T : y[x] = IF x = top THEN p ELSE z[x]
  BY DEF GrowSizes
<1>5. T \subseteq Words /\ y \in [T -> Size16]
  BY DEF Tiles, GrowSizes
<1>6. \A x \in T : heap_start <= x /\ y[x] >= 32 /\ x + y[x] <= top + p
  BY <1>1, <1>2, <1>4 DEF heap_start
<1>7. \A x \in T : x + y[x] = top + p \/ x + y[x] \in T
  BY <1>1, <1>2, <1>4 DEF Tiles
<1>8. top + p = heap_start \/ heap_start \in T
  BY DEF Tiles
<1>9. ASSUME NEW x \in T, NEW d \in T, x < d PROVE x + y[x] <= d
  <2>1. \A e \in S : \A g \in S : e < g => e + z[e] <= g
    BY DEF Tiles
  <2> QED BY <1>1, <1>2, <1>4, <1>9, <2>1
<1> HIDE DEF y, T
<1>10. Tiles(T, y, top + p)
  BY <1>5, <1>6, <1>7, <1>8, <1>9 DEF Tiles
<1> QED BY <1>3, <1>10 DEF T, y

\* The last block grows.
LEMMA ExtendTiles ==
    ASSUME NEW S, NEW z, NEW top \in Nat, top <= ArenaEnd, Tiles(S, z, top), NEW b \in S,
           b + z[b] = top, NEW p \in Size16
    PROVE  Tiles(S, [z EXCEPT ![b] = @ + p], top + p)
<1> DEFINE y == [z EXCEPT ![b] = @ + p]
<1>1. \A x \in S : /\ x \in Nat /\ x >= 8 /\ z[x] \in Nat /\ z[x] % 16 = 0 /\ z[x] >= 32
                   /\ x + z[x] <= top
                   /\ (x # b => b + z[b] <= x \/ x + z[x] <= b)
  BY TilesApart
<1>2. \A x \in S : y[x] = IF x = b THEN z[b] + p ELSE z[x]
  BY DEF Tiles
<1>3. z[b] + p \in Size16 /\ p \in Nat
  BY <1>1 DEF Size16
<1>4. S \subseteq Words /\ y \in [S -> Size16]
  BY <1>3 DEF Tiles
<1>5. \A x \in S : heap_start <= x /\ y[x] >= 32 /\ x + y[x] <= top + p
  BY <1>1, <1>2, <1>3 DEF heap_start
<1>6. \A x \in S : x + y[x] = top + p \/ x + y[x] \in S
  BY <1>1, <1>2, <1>3 DEF Tiles
<1>7. top + p = heap_start \/ heap_start \in S
  BY <1>1, <1>3 DEF Tiles, heap_start
<1>8. ASSUME NEW x \in S, NEW d \in S, x < d PROVE x + y[x] <= d
  <2>1. \A e \in S : \A g \in S : e < g => e + z[e] <= g
    BY DEF Tiles
  <2> QED BY <1>1, <1>2, <1>3, <1>8, <2>1
<1> HIDE DEF y
<1>9. Tiles(S, y, top + p)
  BY <1>4, <1>5, <1>6, <1>7, <1>8 DEF Tiles
<1> QED BY <1>9 DEF y

\* A heap that is not empty has a last block.
LEMMA LastTile ==
    ASSUME NEW S, NEW z, NEW top \in Nat, top <= ArenaEnd, Tiles(S, z, top), top # heap_start
    PROVE  \E b \in S : b + z[b] = top
<1> DEFINE T == {top - b : b \in S}
<1>1. \A x \in S : x \in Nat /\ z[x] \in Nat /\ z[x] >= 32 /\ x + z[x] <= top
  BY TilesApart
<1>2. T \in SUBSET Nat /\ T # {}
  BY <1>1 DEF Tiles
<1> PICK m \in T : \A y \in T : m <= y
  BY <1>2, LeastNumber
<1> PICK b \in S : m = top - b
  OBVIOUS
<1>3. ASSUME NEW x \in S PROVE x <= b
  <2>1. top - x \in T
    OBVIOUS
  <2>2. m <= top - x
    BY <2>1
  <2> QED BY <1>1, <2>2
<1> QED BY <1>1, <1>3 DEF Tiles

-----------------------------------------------------------------------------
(* Free lists *)

Errors == {"0", "EINVAL", "ENOMEM"}
Mems == [Words -> Word]
Damages == {"no", "node", "cut"}
Heads == [Lists -> Words]
Heaps == [mem : Mems, head : Heads, brk : Breaks, errno : Errors,
          faulted : BOOLEAN, damaged : Damages]

\* List i of h is f[i][0] .. f[i][n[i] - 1], linked both ways; no two nodes share a
\* word; the last node's link may be wild.
Linked(h, n, f, wild) ==
    /\ n \in [Lists -> Nat]
    /\ \A i \in Lists : h.head[i] = IF n[i] = 0 THEN NULL ELSE f[i][0]
    /\ \A i \in Lists, k \in Nat :
         k < n[i] => f[i][k] \in Words /\ f[i][k] >= heap_start /\ f[i][k] + 32 <= h.brk
    /\ \A i \in Lists, k \in Nat :
         k + 1 < n[i] => next(h, f[i][k]) = f[i][k + 1] /\ prev(h, f[i][k + 1]) = f[i][k]
    /\ \A i \in Lists :
         n[i] > 0 => \/ next(h, f[i][n[i] - 1]) = NULL
                     \/ wild /\ next(h, f[i][n[i] - 1]) = JUNK
    /\ \A i, j \in Lists, k, l \in Nat :
         k < n[i] /\ l < n[j] => \/ i = j /\ k = l
                                 \/ f[i][k] + 32 <= f[j][l]
                                 \/ f[j][l] + 32 <= f[i][k]

\* a is no link of a node.
OffLinks(a, n, f) == \A i \in Lists, k \in Nat : k < n[i] => a # f[i][k] + 8 /\ a # f[i][k] + 16

\* g has the words of h, but for those with no P; everything else is the same.
SameRest(h, g) == g.brk = h.brk /\ g.errno = h.errno /\ g.faulted = h.faulted /\ g.damaged = h.damaged

\* A node is a word, and so are its links.
LEMMA NodeWords ==
    ASSUME NEW x \in Words, NEW top \in Breaks, x >= heap_start, x + 32 <= top
    PROVE  x \in Nat /\ x >= 8 /\ x + 8 \in Words /\ x + 16 \in Words /\ x # NULL /\ x # JUNK
<1>1. x \in Nat /\ x % 8 = 0 /\ x >= 8 /\ top \in Nat /\ top <= ArenaEnd
  BY WordsAre, BreaksAre DEF heap_start
<1>2. (x + 8) % 8 = 0 /\ (x + 16) % 8 = 0 /\ x + 8 <= ArenaEnd /\ x + 16 <= ArenaEnd
  BY <1>1, ArenaIs
<1>3. x + 8 \in Words /\ x + 16 \in Words
  BY <1>1, <1>2, WordsAre
<1> QED BY <1>1, <1>3 DEF NULL, JUNK

\* A step that writes no link of a node leaves the lists as they are.
LEMMA LinkedFrame ==
    ASSUME NEW h \in Heaps, NEW g \in Heaps, NEW n, NEW f, NEW wild, Linked(h, n, f, wild),
           g.head = h.head, g.brk >= h.brk,
           \A a \in Words : OffLinks(a, n, f) \/ g.mem[a] = h.mem[a]
    PROVE  Linked(g, n, f, wild)
<1>1. h.brk \in Nat /\ g.brk \in Nat /\ h.brk \in Breaks
  BY BreaksAre DEF Heaps
<1>2. \A i \in Lists, k \in Nat : k < n[i] => /\ f[i][k] + 8 \in Words /\ f[i][k] + 16 \in Words
                                              /\ f[i][k] \in Nat
  BY <1>1, NodeWords DEF Linked
<1>3. \A i \in Lists, k \in Nat : k < n[i] => next(g, f[i][k]) = next(h, f[i][k]) /\ prev(g, f[i][k]) = prev(h, f[i][k])
  BY <1>2 DEF OffLinks, next, prev
<1>4. \A i \in Lists : n[i] > 0 => n[i] - 1 \in Nat /\ n[i] - 1 < n[i]
  BY DEF Linked
<1>5. \A i \in Lists, k \in Nat : k + 1 < n[i] => k < n[i] /\ k + 1 \in Nat
  BY DEF Linked
<1>6. \A i \in Lists, k \in Nat :
         k < n[i] => f[i][k] \in Words /\ f[i][k] >= heap_start /\ f[i][k] + 32 <= g.brk
  BY <1>1, <1>2 DEF Linked
<1>7. \A i \in Lists, k \in Nat :
         k + 1 < n[i] => next(g, f[i][k]) = f[i][k + 1] /\ prev(g, f[i][k + 1]) = f[i][k]
  BY <1>3, <1>5 DEF Linked
<1>8. \A i \in Lists :
         n[i] > 0 => \/ next(g, f[i][n[i] - 1]) = NULL
                     \/ wild /\ next(g, f[i][n[i] - 1]) = JUNK
  BY <1>3, <1>4 DEF Linked
<1> QED BY <1>6, <1>7, <1>8 DEF Linked

\* The lists with b at the head of list i.
ConsLen(n, i) == [n EXCEPT ![i] = @ + 1]
ConsAt(f, i, b) == [j \in Lists |-> [k \in Nat |-> IF j # i THEN f[j][k] ELSE IF k = 0 THEN b ELSE f[j][k - 1]]]

\* b shares no word with a node.
OffNodes(b, n, f) == \A i \in Lists, k \in Nat : k < n[i] => f[i][k] + 32 <= b \/ b + 32 <= f[i][k]

\* append puts a block at the head of its list.
LEMMA AppendLinked ==
    ASSUME NEW h \in Heaps, NEW n, NEW f, NEW wild, Linked(h, n, f, wild), NEW i \in Lists,
           NEW b \in Words, b >= heap_start, b + 32 <= h.brk, OffNodes(b, n, f),
           next(h, b) = NULL \/ (wild /\ next(h, b) = JUNK)
    PROVE  /\ append(h, i, b) \in Heaps /\ SameRest(h, append(h, i, b))
           /\ Linked(append(h, i, b), ConsLen(n, i), ConsAt(f, i, b), wild)
           /\ \A a \in Words : OffLinks(a, n, f) /\ a # b + 8 => append(h, i, b).mem[a] = h.mem[a]
<1> DEFINE g == append(h, i, b)
           m == ConsLen(n, i)
           e == ConsAt(f, i, b)
<1>1. h.brk \in Breaks /\ h.brk \in Nat /\ h.mem \in [Words -> Word] /\ h.head \in [Lists -> Words]
  BY BreaksAre DEF Heaps, Mems, Heads
<1>2. /\ b \in Nat /\ b >= 8 /\ b + 8 \in Words /\ b + 16 \in Words /\ b # NULL
      /\ Link(b) \in Word
  BY <1>1, NodeWords, WordIs
<1>3. \A j \in Lists, k \in Nat : k < n[j] =>
         /\ f[j][k] \in Nat /\ f[j][k] \in Words /\ f[j][k] # NULL
         /\ f[j][k] + 8 \in Words /\ f[j][k] + 16 \in Words
         /\ f[j][k] >= heap_start /\ f[j][k] + 32 <= h.brk
         /\ f[j][k] + 32 <= b \/ b + 32 <= f[j][k]
  <2> SUFFICES ASSUME NEW j \in Lists, NEW k \in Nat, k < n[j]
               PROVE  /\ f[j][k] \in Nat /\ f[j][k] \in Words /\ f[j][k] # NULL
                      /\ f[j][k] + 8 \in Words /\ f[j][k] + 16 \in Words
                      /\ f[j][k] >= heap_start /\ f[j][k] + 32 <= h.brk
                      /\ f[j][k] + 32 <= b \/ b + 32 <= f[j][k]
    OBVIOUS
  <2>1. f[j][k] \in Words /\ f[j][k] >= heap_start /\ f[j][k] + 32 <= h.brk
    BY DEF Linked
  <2> QED BY <1>1, <2>1, NodeWords DEF OffNodes
<1>4. n \in [Lists -> Nat] /\ m \in [Lists -> Nat] /\ \A j \in Lists : m[j] = IF j = i THEN n[i] + 1 ELSE n[j]
  BY DEF Linked, ConsLen
<1>5. \A j \in Lists, k \in Nat : e[j][k] = IF j # i THEN f[j][k] ELSE IF k = 0 THEN b ELSE f[j][k - 1]
  BY DEF ConsAt
<1> DEFINE r == f[i][0]
<1>6. /\ n[i] > 0 => h.head[i] = r /\ r \in Words /\ r # NULL /\ r \in Nat /\ r + 16 \in Words
      /\ n[i] = 0 => h.head[i] = NULL
  <2>1. h.head[i] = IF n[i] = 0 THEN NULL ELSE f[i][0]
    BY DEF Linked
  <2>2. n[i] > 0 => 0 < n[i] /\ n[i] # 0
    BY <1>4
  <2> QED BY <1>3, <1>4, <2>1, <2>2
<1>7. /\ g \in Heaps /\ SameRest(h, g)
      /\ g.head = [h.head EXCEPT ![i] = b]
      /\ \A a \in Words : g.mem[a] = IF n[i] > 0 /\ a = b + 8 THEN Link(r)
                                     ELSE IF n[i] > 0 /\ a = r + 16 THEN Link(b)
                                     ELSE h.mem[a]
  <2>1. CASE n[i] = 0
    <3>1. g = [h EXCEPT !.head[i] = b]
      BY <1>6, <2>1 DEF append
    <3> QED BY <1>1, <2>1, <3>1 DEF Heaps, SameRest, Mems, Heads
  <2>2. CASE n[i] > 0
    <3>1. g = [h EXCEPT !.mem = [[h.mem EXCEPT ![r + 16] = Link(b)] EXCEPT ![b + 8] = Link(r)],
                        !.head = [h.head EXCEPT ![i] = b]]
      BY <1>6, <2>2 DEF append, Heaps, Mems, Heads
    <3>2. Link(r) \in Word
      BY <1>6, <2>2, WordIs
    <3>3. [[h.mem EXCEPT ![r + 16] = Link(b)] EXCEPT ![b + 8] = Link(r)] \in [Words -> Word]
      BY <1>1, <1>2, <3>2
    <3>4. [h.head EXCEPT ![i] = b] \in [Lists -> Words]
      BY <1>1
    <3>5. g \in Heaps /\ SameRest(h, g) /\ g.head = [h.head EXCEPT ![i] = b]
          /\ g.mem = [[h.mem EXCEPT ![r + 16] = Link(b)] EXCEPT ![b + 8] = Link(r)]
      BY <3>1, <3>3, <3>4 DEF Heaps, SameRest, Mems, Heads
    <3> QED BY <1>1, <2>2, <3>5
  <2> QED BY <1>4, <2>1, <2>2
<1> HIDE DEF g, m, e
\* What is read of the nodes.
<1>8. ASSUME NEW j \in Lists, NEW k \in Nat, k < n[j]
      PROVE  /\ next(g, f[j][k]) = next(h, f[j][k])
             /\ j # i \/ k > 0 => prev(g, f[j][k]) = prev(h, f[j][k])
  <2>1. f[j][k] + 8 # b + 8 /\ f[j][k] + 16 # b + 8
    BY <1>2, <1>3, <1>8
  <2>2. n[i] > 0 => /\ f[j][k] + 8 # r + 16
                    /\ j # i \/ k > 0 => f[j][k] + 16 # r + 16
    <3> SUFFICES ASSUME n[i] > 0 PROVE /\ f[j][k] + 8 # r + 16
                                       /\ j # i \/ k > 0 => f[j][k] + 16 # r + 16
      OBVIOUS
    <3>1. (i = j /\ k = 0) \/ f[i][0] + 32 <= f[j][k] \/ f[j][k] + 32 <= f[i][0]
      <4>1. 0 \in Nat /\ 0 < n[i]
        OBVIOUS
      <4> QED BY <4>1, <1>8 DEF Linked
    <3> QED BY <1>3, <1>6, <1>8, <3>1
  <2> QED BY <1>3, <1>7, <1>8, <2>1, <2>2 DEF next, prev
<1>9. /\ n[i] > 0 => next(g, b) = r /\ prev(g, r) = b
      /\ n[i] = 0 => next(g, b) = next(h, b)
  <2>1. n[i] > 0 => r + 16 # b + 8 /\ r # NULL
    <3> SUFFICES ASSUME n[i] > 0 PROVE r + 16 # b + 8 /\ r # NULL
      OBVIOUS
    <3>1. r + 32 <= b \/ b + 32 <= r
      BY <1>3
    <3> QED BY <1>2, <1>6, <3>1
  <2> QED BY <1>2, <1>4, <1>6, <1>7, <2>1, ReadOther DEF next, prev
\* The lists of g.
<1>10. \A j \in Lists : g.head[j] = IF m[j] = 0 THEN NULL ELSE e[j][0]
  <2> SUFFICES ASSUME NEW j \in Lists PROVE g.head[j] = IF m[j] = 0 THEN NULL ELSE e[j][0]
    OBVIOUS
  <2>1. CASE j = i
    BY <1>1, <1>4, <1>5, <1>7, <2>1
  <2>2. CASE j # i
    BY <1>1, <1>4, <1>5, <1>7, <2>2 DEF Linked
  <2> QED BY <2>1, <2>2
<1>11. ASSUME NEW j \in Lists, NEW k \in Nat, k < m[j]
       PROVE  \/ j = i /\ k = 0 /\ e[j][k] = b
              \/ j = i /\ k > 0 /\ k - 1 \in Nat /\ k - 1 < n[j] /\ e[j][k] = f[j][k - 1]
              \/ j # i /\ k < n[j] /\ e[j][k] = f[j][k]
  BY <1>4, <1>5, <1>11
<1>12. \A j \in Lists, k \in Nat :
         k < m[j] => e[j][k] \in Words /\ e[j][k] >= heap_start /\ e[j][k] + 32 <= g.brk
  BY <1>3, <1>7, <1>11 DEF SameRest
<1>13. ASSUME NEW j \in Lists, NEW k \in Nat, k + 1 < m[j]
       PROVE  next(g, e[j][k]) = e[j][k + 1] /\ prev(g, e[j][k + 1]) = e[j][k]
  <2>1. CASE j # i
    <3>1. k < n[j] /\ k + 1 < n[j] /\ k + 1 \in Nat /\ e[j][k] = f[j][k] /\ e[j][k + 1] = f[j][k + 1]
      BY <1>4, <1>5, <1>13, <2>1
    <3>2. next(h, f[j][k]) = f[j][k + 1] /\ prev(h, f[j][k + 1]) = f[j][k]
      BY <3>1 DEF Linked
    <3>3. next(g, f[j][k]) = next(h, f[j][k]) /\ prev(g, f[j][k + 1]) = prev(h, f[j][k + 1])
      BY <1>8, <2>1, <3>1
    <3> QED BY <3>1, <3>2, <3>3
  <2>2. CASE j = i /\ k = 0
    <3>1. n[i] > 0 /\ e[j][k] = b /\ e[j][k + 1] = r
      BY <1>4, <1>5, <1>13, <2>2
    <3> QED BY <1>9, <3>1
  <2>3. CASE j = i /\ k > 0
    <3>1. /\ k - 1 \in Nat /\ k < n[j] /\ (k - 1) + 1 < n[j] /\ k - 1 < n[j]
          /\ e[j][k] = f[j][k - 1] /\ e[j][k + 1] = f[j][k] /\ (k - 1) + 1 = k
      BY <1>4, <1>5, <1>13, <2>3
    <3>2. next(h, f[j][k - 1]) = f[j][k] /\ prev(h, f[j][k]) = f[j][k - 1]
      <4>1. \A l \in Lists, q \in Nat :
               q + 1 < n[l] => next(h, f[l][q]) = f[l][q + 1] /\ prev(h, f[l][q + 1]) = f[l][q]
        BY DEF Linked
      <4> QED BY <3>1, <4>1
    <3>3. next(g, f[j][k - 1]) = next(h, f[j][k - 1]) /\ prev(g, f[j][k]) = prev(h, f[j][k])
      BY <1>8, <2>3, <3>1
    <3> QED BY <3>1, <3>2, <3>3
  <2> QED BY <2>1, <2>2, <2>3
<1>14. ASSUME NEW j \in Lists, m[j] > 0
       PROVE  \/ next(g, e[j][m[j] - 1]) = NULL
              \/ wild /\ next(g, e[j][m[j] - 1]) = JUNK
  <2>1. CASE j = i /\ n[i] = 0
    <3>1. e[j][m[j] - 1] = b
      BY <1>4, <1>5, <2>1
    <3> QED BY <1>9, <2>1, <3>1
  <2>2. CASE j = i /\ n[i] > 0
    <3>1. e[j][m[j] - 1] = f[j][n[j] - 1] /\ n[j] > 0 /\ n[j] - 1 \in Nat /\ n[j] - 1 < n[j]
      <4>1. m[j] - 1 = n[j] /\ m[j] - 1 \in Nat /\ m[j] - 1 # 0
        BY <1>4, <2>2
      <4> QED BY <1>4, <1>5, <2>2, <4>1
    <3> QED BY <1>8, <3>1 DEF Linked
  <2>3. CASE j # i
    <3>1. e[j][m[j] - 1] = f[j][n[j] - 1] /\ n[j] > 0 /\ n[j] - 1 \in Nat /\ n[j] - 1 < n[j]
      BY <1>4, <1>5, <1>14, <2>3
    <3> QED BY <1>8, <3>1 DEF Linked
  <2> QED BY <1>4, <2>1, <2>2, <2>3
<1>15. ASSUME NEW j \in Lists, NEW q \in Lists, NEW k \in Nat, NEW l \in Nat, k < m[j], l < m[q]
       PROVE  \/ j = q /\ k = l
              \/ e[j][k] + 32 <= e[q][l]
              \/ e[q][l] + 32 <= e[j][k]
  <2>1. \A x, y \in Lists, u, v \in Nat :
         u < n[x] /\ v < n[y] => \/ x = y /\ u = v
                                 \/ f[x][u] + 32 <= f[y][v]
                                 \/ f[y][v] + 32 <= f[x][u]
    BY DEF Linked
  <2>2. \/ j = i /\ k = 0 /\ e[j][k] = b
        \/ j = i /\ k > 0 /\ k - 1 \in Nat /\ k - 1 < n[j] /\ e[j][k] = f[j][k - 1]
        \/ j # i /\ k < n[j] /\ e[j][k] = f[j][k]
    BY <1>11, <1>15
  <2>3. \/ q = i /\ l = 0 /\ e[q][l] = b
        \/ q = i /\ l > 0 /\ l - 1 \in Nat /\ l - 1 < n[q] /\ e[q][l] = f[q][l - 1]
        \/ q # i /\ l < n[q] /\ e[q][l] = f[q][l]
    BY <1>11, <1>15
  <2> QED BY <1>3, <2>1, <2>2, <2>3
<1>16. Linked(g, m, e, wild)
  BY <1>4, <1>10, <1>12, <1>13, <1>14, <1>15 DEF Linked
<1>17. \A a \in Words : OffLinks(a, n, f) /\ a # b + 8 => g.mem[a] = h.mem[a]
  BY <1>4, <1>7 DEF OffLinks
<1> QED BY <1>7, <1>16, <1>17 DEF g, m, e

\* The lists without node pos of list i.
DropLen(n, i) == [n EXCEPT ![i] = @ - 1]
DropAt(f, i, pos) == [j \in Lists |-> [k \in Nat |-> IF j = i /\ k >= pos THEN f[j][k + 1] ELSE f[j][k]]]

\* What taking node pos of list i out of its list leaves.
Relinked(h, g, n, f, wild, i, pos) ==
    /\ g \in Heaps /\ SameRest(h, g)
    /\ Linked(g, DropLen(n, i), DropAt(f, i, pos), wild)
    /\ next(g, f[i][pos]) = NULL
    /\ \A a \in Words : OffLinks(a, n, f) => g.mem[a] = h.mem[a]

\* What the links of nodes read after the words of two of them changed.
LEMMA NodesOfLinked ==
    ASSUME NEW h \in Heaps, NEW n, NEW f, NEW wild, Linked(h, n, f, wild)
    PROVE  /\ n \in [Lists -> Nat] /\ h.brk \in Breaks /\ h.mem \in Mems /\ h.head \in Heads
           /\ \A j \in Lists, k \in Nat : k < n[j] =>
                /\ f[j][k] \in Nat /\ f[j][k] \in Words /\ f[j][k] # NULL /\ f[j][k] # JUNK
                /\ f[j][k] + 8 \in Words /\ f[j][k] + 16 \in Words
                /\ f[j][k] >= heap_start /\ f[j][k] + 32 <= h.brk
           /\ \A j, q \in Lists, k, l \in Nat : k < n[j] /\ l < n[q] =>
                /\ f[j][k] + 8 # f[q][l] + 16
                /\ (f[j][k] = f[q][l] \/ f[j][k] + 8 = f[q][l] + 8 \/ f[j][k] + 16 = f[q][l] + 16) => j = q /\ k = l
<1>1. h.brk \in Breaks /\ h.brk \in Nat /\ h.mem \in Mems /\ h.head \in Heads
  BY BreaksAre DEF Heaps
<1>2. ASSUME NEW j \in Lists, NEW k \in Nat, k < n[j]
      PROVE  /\ f[j][k] \in Nat /\ f[j][k] \in Words /\ f[j][k] # NULL /\ f[j][k] # JUNK
             /\ f[j][k] + 8 \in Words /\ f[j][k] + 16 \in Words
             /\ f[j][k] >= heap_start /\ f[j][k] + 32 <= h.brk
  <2>1. f[j][k] \in Words /\ f[j][k] >= heap_start /\ f[j][k] + 32 <= h.brk
    BY <1>2 DEF Linked
  <2> QED BY <1>1, <2>1, NodeWords
<1>3. ASSUME NEW j \in Lists, NEW q \in Lists, NEW k \in Nat, NEW l \in Nat, k < n[j], l < n[q]
      PROVE  /\ f[j][k] + 8 # f[q][l] + 16
             /\ (f[j][k] = f[q][l] \/ f[j][k] + 8 = f[q][l] + 8 \/ f[j][k] + 16 = f[q][l] + 16) => j = q /\ k = l
  <2>1. f[j][k] \in Nat /\ f[q][l] \in Nat
    BY <1>2, <1>3
  <2>2. (j = q /\ k = l) \/ f[j][k] + 32 <= f[q][l] \/ f[q][l] + 32 <= f[j][k]
    BY <1>3 DEF Linked
  <2> QED BY <2>1, <2>2
<1> QED BY <1>1, <1>2, <1>3 DEF Linked

\* NULL is the word at 0.
LEMMA NullIs == NULL # JUNK /\ NULL = 0 /\ JUNK = -1
BY DEF NULL, JUNK

\* A word or a head written.
Put(m, a, w) == [m EXCEPT ![a] = w]

\* A word written leaves memory words.
LEMMA PutIs ==
    \A m \in Mems, a \in Words, w \in Word : Put(m, a, w) \in Mems
BY DEF Put, Mems

\* Reading a word after a write.
LEMMA PutAt ==
    \A m \in Mems, a \in Words, w \in Word, x \in Words :
        Put(m, a, w)[x] = IF x = a THEN w ELSE m[x]
BY DEF Put, Mems

\* A list's head written leaves the other heads.
LEMMA PutHead ==
    \A l \in Heads, i \in Lists, b \in Words :
        /\ Put(l, i, b) \in Heads
        /\ \A x \in Lists : Put(l, i, b)[x] = IF x = i THEN b ELSE l[x]
BY DEF Put, Heads

\* The heap with other words and other lists.
SetHeap(h, m, l) == [h EXCEPT !.mem = m, !.head = l]

\* Memory and heads replaced leave the rest of the heap.
LEMMA SetHeapIs ==
    ASSUME NEW h \in Heaps, NEW m \in Mems, NEW l \in Heads
    PROVE  /\ SetHeap(h, m, l) \in Heaps /\ SameRest(h, SetHeap(h, m, l))
           /\ SetHeap(h, m, l).mem = m /\ SetHeap(h, m, l).head = l
BY DEF SetHeap, Heaps, SameRest

\* What relink does, by the neighbours of the node it takes.
LEMMA RelinkIs ==
    ASSUME NEW h \in Heaps, NEW i, NEW pos
    PROVE  LET b == Traverse(h, i, pos)
               c == next(h, b)
               p == prev(h, b)
           IN /\ c = JUNK => relink(h, i, pos) = Fault(h)
              /\ c = NULL /\ pos = 0 => relink(h, i, pos) = SetHeap(h, h.mem, Put(h.head, i, NULL))
              /\ c # NULL /\ c # JUNK /\ pos = 0 =>
                   relink(h, i, pos) = SetHeap(h, Put(Put(h.mem, c + 16, Zero), b + 8, Zero),
                                               Put(h.head, i, c))
              /\ c = NULL /\ pos = 1 =>
                   relink(h, i, pos) = SetHeap(h, Put(Put(h.mem, p + 8, Zero), b + 16, Zero), h.head)
              /\ c # NULL /\ c # JUNK /\ pos = 1 =>
                   relink(h, i, pos) = SetHeap(h, Put(Put(Put(Put(h.mem, p + 8, Link(c)), c + 16, Link(p)), b + 16, Zero), b + 8, Zero), h.head)
              /\ c # JUNK /\ pos # 0 /\ pos # 1 => relink(h, i, pos) = Damage(h, "node")
<1> PICK b, c, p : b = Traverse(h, i, pos) /\ c = next(h, b) /\ p = prev(h, b)
  OBVIOUS
<1> USE NullIs
<1>1. c = JUNK => relink(h, i, pos) = Fault(h)
  BY DEF relink
<1>2. c = NULL /\ pos = 0 => relink(h, i, pos) = SetHeap(h, h.mem, Put(h.head, i, NULL))
  <2>1. c = NULL /\ pos = 0 => relink(h, i, pos) = [h EXCEPT !.head[i] = NULL]
    BY DEF relink
  <2>2. [h EXCEPT !.head[i] = NULL] = SetHeap(h, h.mem, Put(h.head, i, NULL))
    BY DEF SetHeap, Heaps, Put, Mems, Heads
  <2> QED BY <2>1, <2>2
<1>3. c # NULL /\ c # JUNK /\ pos = 0 =>
                   relink(h, i, pos) = SetHeap(h, Put(Put(h.mem, c + 16, Zero), b + 8, Zero),
                                               Put(h.head, i, c))
  <2>1. c # NULL /\ c # JUNK /\ pos = 0 =>
          relink(h, i, pos) = [h EXCEPT !.mem[c + 16] = Zero, !.head[i] = c, !.mem[b + 8] = Zero]
    BY DEF relink
  <2>2. [h EXCEPT !.mem[c + 16] = Zero, !.head[i] = c, !.mem[b + 8] = Zero]
        = SetHeap(h, Put(Put(h.mem, c + 16, Zero), b + 8, Zero), Put(h.head, i, c))
    BY DEF SetHeap, Heaps, Put, Mems, Heads
  <2> QED BY <2>1, <2>2
<1>4. c = NULL /\ pos = 1 =>
                   relink(h, i, pos) = SetHeap(h, Put(Put(h.mem, p + 8, Zero), b + 16, Zero), h.head)
  <2>1. c = NULL /\ pos = 1 => relink(h, i, pos) = [h EXCEPT !.mem[p + 8] = Zero, !.mem[b + 16] = Zero]
    BY DEF relink
  <2>2. [h EXCEPT !.mem[p + 8] = Zero, !.mem[b + 16] = Zero]
        = SetHeap(h, Put(Put(h.mem, p + 8, Zero), b + 16, Zero), h.head)
    BY DEF SetHeap, Heaps, Put, Mems, Heads
  <2> QED BY <2>1, <2>2
<1>5. c # NULL /\ c # JUNK /\ pos = 1 =>
                   relink(h, i, pos) = SetHeap(h, Put(Put(Put(Put(h.mem, p + 8, Link(c)), c + 16, Link(p)), b + 16, Zero), b + 8, Zero), h.head)
  <2>1. c # NULL /\ c # JUNK /\ pos = 1 =>
          relink(h, i, pos) = [h EXCEPT !.mem[p + 8] = Link(c), !.mem[c + 16] = Link(p),
                                        !.mem[b + 16] = Zero, !.mem[b + 8] = Zero]
    BY DEF relink
  <2>2. [h EXCEPT !.mem[p + 8] = Link(c), !.mem[c + 16] = Link(p), !.mem[b + 16] = Zero, !.mem[b + 8] = Zero]
        = SetHeap(h, Put(Put(Put(Put(h.mem, p + 8, Link(c)), c + 16, Link(p)), b + 16, Zero), b + 8, Zero), h.head)
    BY DEF SetHeap, Heaps, Put, Mems, Heads
  <2> QED BY <2>1, <2>2
<1>6. c # JUNK /\ pos # 0 /\ pos # 1 => relink(h, i, pos) = Damage(h, "node")
  BY DEF relink
<1> QED BY <1>1, <1>2, <1>3, <1>4, <1>5, <1>6

\* relink at the head of a list.
LEMMA RelinkFirst ==
    ASSUME NEW h \in Heaps, NEW n, NEW f, NEW wild, Linked(h, n, f, wild), NEW i \in Lists, n[i] > 0
    PROVE  \/ relink(h, i, 0) = Fault(h) /\ wild
           \/ Relinked(h, relink(h, i, 0), n, f, wild, i, 0)
<1> DEFINE g == relink(h, i, 0)
           m == DropLen(n, i)
           e == DropAt(f, i, 0)
           b == f[i][0]
           c == f[i][1]
<1>1. /\ n \in [Lists -> Nat] /\ h.brk \in Breaks /\ h.mem \in Mems /\ h.head \in Heads
      /\ \A j \in Lists, k \in Nat : k < n[j] =>
                /\ f[j][k] \in Nat /\ f[j][k] \in Words /\ f[j][k] # NULL /\ f[j][k] # JUNK
                /\ f[j][k] + 8 \in Words /\ f[j][k] + 16 \in Words
                /\ f[j][k] >= heap_start /\ f[j][k] + 32 <= h.brk
  BY NodesOfLinked
<1>2. \A j, q \in Lists, k, l \in Nat : k < n[j] /\ l < n[q] =>
                /\ f[j][k] + 8 # f[q][l] + 16
                /\ (f[j][k] = f[q][l] \/ f[j][k] + 8 = f[q][l] + 8 \/ f[j][k] + 16 = f[q][l] + 16) => j = q /\ k = l
  BY NodesOfLinked
<1>3. /\ n[i] \in Nat /\ n[i] > 0 /\ h.head[i] = b
      /\ n[i] = 1 => next(h, b) = NULL \/ (wild /\ next(h, b) = JUNK)
      /\ n[i] > 1 => next(h, b) = c /\ c # NULL /\ c # JUNK
  <2>1. n[i] \in Nat /\ 0 < n[i] /\ n[i] # 0 /\ (n[i] = 1 => n[i] - 1 = 0) /\ (n[i] > 1 => 0 + 1 < n[i] /\ 1 < n[i])
    BY <1>1
  <2> QED BY <1>1, <2>1 DEF Linked
<1>4. Traverse(h, i, 0) = b
  BY <1>3 DEF Traverse
<1>5. CASE next(h, b) = JUNK
  <2>1. g = Fault(h)
    BY <1>4, <1>5, RelinkIs
  <2>2. wild
    <3> HIDE DEF b, c, g
    <3>1. n[i] = 1
      BY <1>3, <1>5
    <3> QED BY <1>3, <1>5, <3>1, NullIs
  <2> QED BY <2>1, <2>2
<1>6. CASE next(h, b) # JUNK
  <2>1. /\ g \in Heaps /\ SameRest(h, g)
        /\ g.head = Put(h.head, i, IF n[i] = 1 THEN NULL ELSE c)
        /\ \A a \in Words : g.mem[a] = IF n[i] > 1 /\ (a = b + 8 \/ a = c + 16) THEN Zero ELSE h.mem[a]
    <3>1. CASE n[i] = 1
      <4>1. g = SetHeap(h, h.mem, Put(h.head, i, NULL))
        BY <1>3, <1>4, <1>6, <3>1, RelinkIs
      <4>2. NULL \in Words
        BY WordsAre, ArenaIs DEF NULL
      <4>3. g \in Heaps /\ SameRest(h, g) /\ g.head = Put(h.head, i, NULL) /\ g.mem = h.mem
        BY <1>1, <4>1, <4>2, SetHeapIs, PutHead
      <4> QED BY <3>1, <4>3
    <3>2. CASE n[i] > 1
      <4>1. g = SetHeap(h, Put(Put(h.mem, c + 16, Zero), b + 8, Zero), Put(h.head, i, c))
        BY <1>3, <1>4, <3>2, RelinkIs
      <4>2. b + 8 \in Words /\ c + 16 \in Words /\ c \in Words
        <5>1. 0 \in Nat /\ 1 \in Nat /\ 0 < n[i] /\ 1 < n[i]
          BY <3>2
        <5> QED BY <1>1, <5>1
      <4>3. /\ Put(h.mem, c + 16, Zero) \in Mems
            /\ Put(Put(h.mem, c + 16, Zero), b + 8, Zero) \in Mems
            /\ Put(h.head, i, c) \in Heads
        BY <1>1, <4>2, WordIs, PutIs, PutHead
      <4>4. g \in Heaps /\ SameRest(h, g) /\ g.head = Put(h.head, i, c)
            /\ g.mem = Put(Put(h.mem, c + 16, Zero), b + 8, Zero)
        BY <4>1, <4>3, SetHeapIs
      <4>5. \A a \in Words : g.mem[a] = IF a = b + 8 \/ a = c + 16 THEN Zero ELSE h.mem[a]
        <5>1. Zero \in Word
          BY WordIs
        <5>2. \A a \in Words : Put(h.mem, c + 16, Zero)[a] = IF a = c + 16 THEN Zero ELSE h.mem[a]
          BY <1>1, <4>2, <5>1, PutIs, PutAt
        <5>3. \A a \in Words : g.mem[a] = IF a = b + 8 THEN Zero ELSE Put(h.mem, c + 16, Zero)[a]
          BY <4>2, <4>3, <4>4, <5>1, PutIs, PutAt
        <5> QED BY <5>2, <5>3
      <4> QED BY <3>2, <4>4, <4>5
    <3> QED BY <1>3, <3>1, <3>2
  <2> HIDE DEF g
  <2>2. next(g, b) = NULL
    BY <1>1, <1>3, <1>6, <2>1, ReadOther DEF next
  <2>3. /\ m \in [Lists -> Nat] /\ \A j \in Lists : m[j] = IF j = i THEN n[i] - 1 ELSE n[j]
        /\ \A j \in Lists, k \in Nat : e[j][k] = IF j = i THEN f[j][k + 1] ELSE f[j][k]
    BY <1>1, <1>3 DEF DropLen, DropAt
  <2> HIDE DEF m, e
  <2>4. ASSUME NEW j \in Lists, NEW k \in Nat, k < n[j], j # i \/ k > 0
        PROVE  /\ next(g, f[j][k]) = next(h, f[j][k])
               /\ j # i \/ k > 1 => prev(g, f[j][k]) = prev(h, f[j][k])
    <3>1. 0 \in Nat /\ 1 \in Nat
      OBVIOUS
    <3>2. f[j][k] + 8 # b + 8 /\ f[j][k] + 16 # b + 8
      BY <1>2, <1>3, <2>4, <3>1
    <3>3. n[i] > 1 => f[j][k] + 8 # c + 16 /\ (j # i \/ k > 1 => f[j][k] + 16 # c + 16)
      BY <1>2, <1>3, <2>4, <3>1
    <3> QED BY <1>1, <2>1, <2>4, <3>2, <3>3 DEF next, prev
  <2>5. ASSUME NEW j \in Lists, NEW k \in Nat, k < m[j]
        PROVE  \/ j = i /\ k + 1 \in Nat /\ k + 1 < n[j] /\ e[j][k] = f[j][k + 1]
               \/ j # i /\ k < n[j] /\ e[j][k] = f[j][k]
    BY <1>1, <2>3, <2>5
  <2>6. \A j \in Lists : g.head[j] = IF m[j] = 0 THEN NULL ELSE e[j][0]
    <3> SUFFICES ASSUME NEW j \in Lists PROVE g.head[j] = IF m[j] = 0 THEN NULL ELSE e[j][0]
      OBVIOUS
    <3>1. CASE j = i
      <4>1. g.head[i] = IF n[i] = 1 THEN NULL ELSE c
        BY <1>1, <2>1 DEF Put, Heads
      <4>2. m[j] = n[i] - 1 /\ e[j][0] = c
        BY <2>3, <3>1
      <4> QED BY <1>1, <3>1, <4>1, <4>2
    <3>2. CASE j # i
      <4>1. g.head[j] = h.head[j]
        BY <1>1, <2>1, <3>2 DEF Put, Heads
      <4>2. m[j] = n[j] /\ e[j][0] = f[j][0]
        BY <2>3, <3>2
      <4> QED BY <4>1, <4>2 DEF Linked
    <3> QED BY <3>1, <3>2
  <2>7. \A j \in Lists, k \in Nat :
         k < m[j] => e[j][k] \in Words /\ e[j][k] >= heap_start /\ e[j][k] + 32 <= g.brk
    BY <1>1, <2>1, <2>5 DEF SameRest
  <2>8. ASSUME NEW j \in Lists, NEW k \in Nat, k + 1 < m[j]
        PROVE  next(g, e[j][k]) = e[j][k + 1] /\ prev(g, e[j][k + 1]) = e[j][k]
    <3> DEFINE q == IF j = i THEN k + 1 ELSE k
    <3>1. /\ q \in Nat /\ q + 1 \in Nat /\ q < n[j] /\ q + 1 < n[j] /\ (j = i => q > 0)
          /\ e[j][k] = f[j][q] /\ e[j][k + 1] = f[j][q + 1]
      BY <1>1, <2>3, <2>8
    <3> HIDE DEF q
    <3>2. next(h, f[j][q]) = f[j][q + 1] /\ prev(h, f[j][q + 1]) = f[j][q]
      BY <3>1 DEF Linked
    <3>3. next(g, f[j][q]) = next(h, f[j][q]) /\ prev(g, f[j][q + 1]) = prev(h, f[j][q + 1])
      BY <2>4, <3>1
    <3> QED BY <3>1, <3>2, <3>3
  <2>9. ASSUME NEW j \in Lists, m[j] > 0
        PROVE  \/ next(g, e[j][m[j] - 1]) = NULL
               \/ wild /\ next(g, e[j][m[j] - 1]) = JUNK
    <3>1. /\ n[j] > 0 /\ n[j] - 1 \in Nat /\ n[j] - 1 < n[j] /\ e[j][m[j] - 1] = f[j][n[j] - 1]
          /\ j # i \/ n[j] - 1 > 0
      BY <1>1, <2>3, <2>9
    <3>2. next(g, f[j][n[j] - 1]) = next(h, f[j][n[j] - 1])
      BY <2>4, <3>1
    <3> QED BY <3>1, <3>2 DEF Linked
  <2>10. ASSUME NEW j \in Lists, NEW q \in Lists, NEW k \in Nat, NEW l \in Nat, k < m[j], l < m[q]
         PROVE  \/ j = q /\ k = l
                \/ e[j][k] + 32 <= e[q][l]
                \/ e[q][l] + 32 <= e[j][k]
    <3> DEFINE u == IF j = i THEN k + 1 ELSE k
               v == IF q = i THEN l + 1 ELSE l
    <3>1. u \in Nat /\ v \in Nat /\ u < n[j] /\ v < n[q] /\ e[j][k] = f[j][u] /\ e[q][l] = f[q][v]
      BY <2>5, <2>10
    <3>2. \/ j = q /\ u = v
          \/ f[j][u] + 32 <= f[q][v]
          \/ f[q][v] + 32 <= f[j][u]
      <4> HIDE DEF u, v
      <4> QED BY <3>1 DEF Linked
    <3> QED BY <3>1, <3>2
  <2>11. Linked(g, m, e, wild)
    BY <2>3, <2>6, <2>7, <2>8, <2>9, <2>10 DEF Linked
  <2>12. \A a \in Words : OffLinks(a, n, f) => g.mem[a] = h.mem[a]
    <3>1. 0 \in Nat /\ 1 \in Nat
      OBVIOUS
    <3> QED BY <1>3, <2>1, <3>1 DEF OffLinks
  <2> QED BY <2>1, <2>2, <2>11, <2>12 DEF g, m, e, Relinked
<1> QED BY <1>5, <1>6

\* The four words relink may write when it takes the second node of a list.
LEMMA RelinkSecondWords ==
    ASSUME NEW h \in Heaps, NEW n, NEW f, NEW wild, Linked(h, n, f, wild), NEW i \in Lists, n[i] > 1,
           next(h, f[i][1]) # JUNK
    PROVE  LET g == relink(h, i, 1)
               p == f[i][0]
               b == f[i][1]
               c == f[i][2]
           IN /\ g \in Heaps /\ SameRest(h, g) /\ g.head = h.head
              /\ \A a \in Words : a # p + 8 /\ a # b + 8 /\ a # b + 16 /\ (n[i] > 2 => a # c + 16)
                                  => g.mem[a] = h.mem[a]
              /\ next(g, b) = NULL
              /\ n[i] = 2 => next(g, p) = NULL
              /\ n[i] > 2 => next(g, p) = c /\ prev(g, c) = p
<1> DEFINE g == relink(h, i, 1)
           p == f[i][0]
           b == f[i][1]
           c == f[i][2]
<1>1. /\ n \in [Lists -> Nat] /\ h.brk \in Breaks /\ h.mem \in Mems /\ h.head \in Heads
      /\ \A j \in Lists, k \in Nat : k < n[j] =>
                /\ f[j][k] \in Nat /\ f[j][k] \in Words /\ f[j][k] # NULL /\ f[j][k] # JUNK
                /\ f[j][k] + 8 \in Words /\ f[j][k] + 16 \in Words
                /\ f[j][k] >= heap_start /\ f[j][k] + 32 <= h.brk
  BY NodesOfLinked
<1>2. \A j, q \in Lists, k, l \in Nat : k < n[j] /\ l < n[q] =>
                /\ f[j][k] + 8 # f[q][l] + 16
                /\ (f[j][k] = f[q][l] \/ f[j][k] + 8 = f[q][l] + 8 \/ f[j][k] + 16 = f[q][l] + 16) => j = q /\ k = l
  BY NodesOfLinked
<1>3. /\ 0 \in Nat /\ 1 \in Nat /\ 2 \in Nat /\ 0 < n[i] /\ 1 < n[i] /\ 0 + 1 < n[i] /\ n[i] # 0
      /\ n[i] = 2 \/ n[i] > 2
      /\ n[i] = 2 => n[i] - 1 = 1
      /\ n[i] > 2 => 1 + 1 < n[i] /\ 2 < n[i]
  BY <1>1
<1>4. /\ h.head[i] = p /\ next(h, p) = b /\ prev(h, b) = p
      /\ n[i] > 2 => next(h, b) = c /\ prev(h, c) = b
      /\ n[i] = 2 => next(h, b) = NULL
  BY <1>3 DEF Linked
<1>5. /\ p \in Words /\ p \in Nat /\ p # NULL /\ p + 8 \in Words /\ p + 16 \in Words
      /\ b \in Words /\ b \in Nat /\ b # NULL /\ b + 8 \in Words /\ b + 16 \in Words
      /\ n[i] > 2 => c \in Words /\ c \in Nat /\ c # NULL /\ c # JUNK /\ c + 8 \in Words /\ c + 16 \in Words
  BY <1>1, <1>3
<1>6. /\ p + 8 # b + 16 /\ p + 8 # b + 8
      /\ n[i] > 2 => c + 16 # p + 8 /\ c + 16 # b + 16 /\ c + 16 # b + 8
  BY <1>2, <1>3
<1>7. Traverse(h, i, 1) = b
  BY <1>4 DEF Traverse
<1>8. Zero \in Word /\ Link(p) \in Word /\ (n[i] > 2 => Link(c) \in Word)
  BY <1>5, WordIs
<1> HIDE DEF p, b, c
<1>9. /\ h.mem \in Mems /\ Zero \in Word /\ Link(p) \in Word
      /\ p + 8 \in Words /\ b + 8 \in Words /\ b + 16 \in Words
      /\ n[i] > 2 => c + 16 \in Words /\ Link(c) \in Word
  BY <1>1, <1>5, <1>8
<1>10. CASE n[i] = 2
  <2> DEFINE m1 == Put(h.mem, p + 8, Zero)
             m2 == Put(m1, b + 16, Zero)
  <2>1. g = SetHeap(h, m2, h.head)
    BY <1>4, <1>7, <1>10, RelinkIs
  <2>2. m1 \in Mems /\ \A a \in Words : m1[a] = IF a = p + 8 THEN Zero ELSE h.mem[a]
    <3>1. m1 \in Mems
      BY <1>9, PutIs
    <3>2. \A a \in Words : m1[a] = IF a = p + 8 THEN Zero ELSE h.mem[a]
      BY <1>9, PutAt
    <3> QED BY <3>1, <3>2
  <2> HIDE DEF m1
  <2>3. m2 \in Mems /\ \A a \in Words : m2[a] = IF a = b + 16 THEN Zero ELSE m1[a]
    <3>1. m2 \in Mems
      BY <1>9, <2>2, PutIs
    <3>2. \A a \in Words : m2[a] = IF a = b + 16 THEN Zero ELSE m1[a]
      BY <1>9, <2>2, PutAt
    <3> QED BY <3>1, <3>2
  <2> HIDE DEF m2, g
  <2>4. g \in Heaps /\ SameRest(h, g) /\ g.head = h.head /\ g.mem = m2
    BY <1>1, <2>1, <2>3, SetHeapIs
  <2>5. g.mem[p + 8] = Zero /\ g.mem[b + 8] = h.mem[b + 8]
    BY <1>5, <1>6, <2>2, <2>3, <2>4
  <2>6. next(g, p) = NULL /\ next(g, b) = NULL
    BY <1>4, <1>10, <2>5, ReadOther DEF next
  <2>7. \A a \in Words : a # p + 8 /\ a # b + 16 => g.mem[a] = h.mem[a]
    BY <2>2, <2>3, <2>4
  <2> QED BY <1>10, <2>4, <2>6, <2>7 DEF g, p, b, c
<1>11. CASE n[i] > 2
  <2> DEFINE m1 == Put(h.mem, p + 8, Link(c))
             m2 == Put(m1, c + 16, Link(p))
             m3 == Put(m2, b + 16, Zero)
             m4 == Put(m3, b + 8, Zero)
  <2>1. g = SetHeap(h, m4, h.head)
    BY <1>4, <1>5, <1>7, <1>11, RelinkIs
  <2>2. m1 \in Mems /\ \A a \in Words : m1[a] = IF a = p + 8 THEN Link(c) ELSE h.mem[a]
    <3>1. m1 \in Mems
      BY <1>9, <1>11, PutIs
    <3>2. \A a \in Words : m1[a] = IF a = p + 8 THEN Link(c) ELSE h.mem[a]
      BY <1>9, <1>11, PutAt
    <3> QED BY <3>1, <3>2
  <2> HIDE DEF m1
  <2>3. m2 \in Mems /\ \A a \in Words : m2[a] = IF a = c + 16 THEN Link(p) ELSE m1[a]
    <3>1. m2 \in Mems
      BY <1>9, <1>11, <2>2, PutIs
    <3>2. \A a \in Words : m2[a] = IF a = c + 16 THEN Link(p) ELSE m1[a]
      BY <1>9, <1>11, <2>2, PutAt
    <3> QED BY <3>1, <3>2
  <2> HIDE DEF m2
  <2>4. m3 \in Mems /\ \A a \in Words : m3[a] = IF a = b + 16 THEN Zero ELSE m2[a]
    <3>1. m3 \in Mems
      BY <1>9, <2>3, PutIs
    <3>2. \A a \in Words : m3[a] = IF a = b + 16 THEN Zero ELSE m2[a]
      BY <1>9, <2>3, PutAt
    <3> QED BY <3>1, <3>2
  <2> HIDE DEF m3
  <2>5. m4 \in Mems /\ \A a \in Words : m4[a] = IF a = b + 8 THEN Zero ELSE m3[a]
    <3>1. m4 \in Mems
      BY <1>9, <2>4, PutIs
    <3>2. \A a \in Words : m4[a] = IF a = b + 8 THEN Zero ELSE m3[a]
      BY <1>9, <2>4, PutAt
    <3> QED BY <3>1, <3>2
  <2> HIDE DEF m4, g
  <2>6. g \in Heaps /\ SameRest(h, g) /\ g.head = h.head /\ g.mem = m4
    BY <1>1, <2>1, <2>5, SetHeapIs
  <2>7. g.mem[p + 8] = Link(c) /\ g.mem[c + 16] = Link(p) /\ g.mem[b + 8] = Zero
    BY <1>5, <1>6, <1>11, <2>2, <2>3, <2>4, <2>5, <2>6
  <2>8. next(g, p) = c /\ prev(g, c) = p /\ next(g, b) = NULL
    BY <1>5, <1>11, <2>7, ReadOther DEF next, prev
  <2>9. \A a \in Words : a # p + 8 /\ a # b + 8 /\ a # b + 16 /\ a # c + 16 => g.mem[a] = h.mem[a]
    BY <2>2, <2>3, <2>4, <2>5, <2>6
  <2> QED BY <1>11, <2>6, <2>8, <2>9 DEF g, p, b, c
<1> QED BY <1>3, <1>10, <1>11 DEF p, b, c

\* relink behind a node.
LEMMA RelinkSecond ==
    ASSUME NEW h \in Heaps, NEW n, NEW f, NEW wild, Linked(h, n, f, wild), NEW i \in Lists, n[i] > 1
    PROVE  \/ relink(h, i, 1) = Fault(h) /\ wild
           \/ Relinked(h, relink(h, i, 1), n, f, wild, i, 1)
<1> DEFINE g == relink(h, i, 1)
           m == DropLen(n, i)
           e == DropAt(f, i, 1)
           p == f[i][0]
           b == f[i][1]
           c == f[i][2]
<1>1. /\ n \in [Lists -> Nat] /\ h.brk \in Breaks /\ h.mem \in Mems /\ h.head \in Heads
      /\ \A j \in Lists, k \in Nat : k < n[j] =>
                /\ f[j][k] \in Nat /\ f[j][k] \in Words /\ f[j][k] # NULL /\ f[j][k] # JUNK
                /\ f[j][k] + 8 \in Words /\ f[j][k] + 16 \in Words
                /\ f[j][k] >= heap_start /\ f[j][k] + 32 <= h.brk
  BY NodesOfLinked
<1>2. \A j, q \in Lists, k, l \in Nat : k < n[j] /\ l < n[q] =>
                /\ f[j][k] + 8 # f[q][l] + 16
                /\ (f[j][k] = f[q][l] \/ f[j][k] + 8 = f[q][l] + 8 \/ f[j][k] + 16 = f[q][l] + 16) => j = q /\ k = l
  BY NodesOfLinked
<1>3. /\ 0 \in Nat /\ 1 \in Nat /\ 2 \in Nat /\ 0 < n[i] /\ 1 < n[i] /\ 0 + 1 < n[i] /\ n[i] # 0
      /\ n[i] = 2 \/ n[i] > 2
      /\ n[i] = 2 => n[i] - 1 = 1
      /\ n[i] > 2 => 1 + 1 < n[i] /\ 2 < n[i]
  BY <1>1
<1>4. /\ h.head[i] = p /\ next(h, p) = b
      /\ n[i] > 2 => next(h, b) = c
      /\ n[i] = 2 => next(h, b) = NULL \/ (wild /\ next(h, b) = JUNK)
  <2>1. h.head[i] = p
    BY <1>3 DEF Linked
  <2>2. \A k \in Nat : k + 1 < n[i] => next(h, f[i][k]) = f[i][k + 1]
    BY DEF Linked
  <2>3. next(h, p) = b /\ (n[i] > 2 => next(h, b) = c)
    BY <1>3, <2>2
  <2>4. \/ next(h, f[i][n[i] - 1]) = NULL
        \/ wild /\ next(h, f[i][n[i] - 1]) = JUNK
    BY <1>3 DEF Linked
  <2> QED BY <1>3, <2>1, <2>3, <2>4
<1>5. CASE next(h, b) = JUNK
  <2>1. Traverse(h, i, 1) = b
    BY <1>4 DEF Traverse
  <2>2. g = Fault(h)
    BY <1>5, <2>1, RelinkIs
  <2>3. wild
    <3>1. n[i] > 2 => c # JUNK
      BY <1>1, <1>3
    <3>2. n[i] = 2
      BY <1>3, <1>4, <1>5, <3>1
    <3> QED BY <1>4, <1>5, <3>2, NullIs
  <2> QED BY <2>2, <2>3
<1>6. CASE next(h, b) # JUNK
  <2>1. /\ g \in Heaps /\ SameRest(h, g) /\ g.head = h.head
        /\ \A a \in Words : a # p + 8 /\ a # b + 8 /\ a # b + 16 /\ (n[i] > 2 => a # c + 16)
                            => g.mem[a] = h.mem[a]
        /\ next(g, b) = NULL
        /\ n[i] = 2 => next(g, p) = NULL
        /\ n[i] > 2 => next(g, p) = c /\ prev(g, c) = p
    BY <1>6, RelinkSecondWords
  <2>2. /\ m \in [Lists -> Nat] /\ \A j \in Lists : m[j] = IF j = i THEN n[i] - 1 ELSE n[j]
        /\ \A j \in Lists, k \in Nat : e[j][k] = IF j = i /\ k >= 1 THEN f[j][k + 1] ELSE f[j][k]
    BY <1>1, <1>3 DEF DropLen, DropAt
  <2> HIDE DEF m, e, g
  <2>3. ASSUME NEW j \in Lists, NEW k \in Nat, k < n[j]
        PROVE  /\ j # i \/ k > 1 => next(g, f[j][k]) = next(h, f[j][k])
               /\ j # i \/ k > 2 => prev(g, f[j][k]) = prev(h, f[j][k])
    <3>1. f[j][k] + 8 \in Words /\ f[j][k] + 16 \in Words
      BY <1>1, <2>3
    <3>2. /\ f[j][k] + 8 # b + 16 /\ f[j][k] + 16 # b + 8 /\ f[j][k] + 16 # p + 8
          /\ n[i] > 2 => f[j][k] + 8 # c + 16
      BY <1>2, <1>3, <2>3
    <3>3. j # i \/ k > 1 => f[j][k] + 8 # p + 8 /\ f[j][k] + 8 # b + 8 /\ f[j][k] + 16 # b + 16
      <4>1. k > 1 => k # 0 /\ k # 1
        OBVIOUS
      <4> QED BY <1>2, <1>3, <2>3, <4>1
    <3>4. j # i \/ k > 2 => (n[i] > 2 => f[j][k] + 16 # c + 16) /\ (j # i \/ k > 1)
      <4>1. k > 2 => k # 2 /\ k > 1
        OBVIOUS
      <4> QED BY <1>2, <1>3, <2>3, <4>1
    <3>5. j # i \/ k > 1 => g.mem[f[j][k] + 8] = h.mem[f[j][k] + 8]
      BY <2>1, <3>1, <3>2, <3>3
    <3>6. j # i \/ k > 2 => g.mem[f[j][k] + 16] = h.mem[f[j][k] + 16]
      BY <2>1, <3>1, <3>2, <3>3, <3>4
    <3> QED BY <3>5, <3>6 DEF next, prev
  <2>4. ASSUME NEW j \in Lists, NEW k \in Nat, k < m[j]
        PROVE  \/ j = i /\ k >= 1 /\ k + 1 \in Nat /\ k + 1 < n[j] /\ e[j][k] = f[j][k + 1]
               \/ j = i /\ k = 0 /\ k < n[j] /\ e[j][k] = f[j][k]
               \/ j # i /\ k < n[j] /\ e[j][k] = f[j][k]
    BY <1>1, <1>3, <2>2, <2>4
  <2>5. \A j \in Lists : g.head[j] = IF m[j] = 0 THEN NULL ELSE e[j][0]
    <3> SUFFICES ASSUME NEW j \in Lists PROVE g.head[j] = IF m[j] = 0 THEN NULL ELSE e[j][0]
      OBVIOUS
    <3>1. e[j][0] = f[j][0]
      BY <2>2
    <3>2. m[j] = 0 <=> n[j] = 0
      BY <1>1, <1>3, <2>2
    <3> QED BY <2>1, <3>1, <3>2 DEF Linked
  <2>6. \A j \in Lists, k \in Nat :
         k < m[j] => e[j][k] \in Words /\ e[j][k] >= heap_start /\ e[j][k] + 32 <= g.brk
    BY <1>1, <2>1, <2>4 DEF SameRest
  <2>7. ASSUME NEW j \in Lists, NEW k \in Nat, k + 1 < m[j]
        PROVE  next(g, e[j][k]) = e[j][k + 1] /\ prev(g, e[j][k + 1]) = e[j][k]
    <3>1. CASE j = i /\ k = 0
      <4>1. n[i] > 2 /\ e[j][k] = p /\ e[j][k + 1] = c
        BY <1>1, <2>2, <2>7, <3>1
      <4> QED BY <2>1, <4>1
    <3>2. CASE j # i \/ k > 0
      <4> DEFINE q == IF j = i THEN k + 1 ELSE k
      <4>1. /\ q \in Nat /\ q + 1 \in Nat /\ q < n[j] /\ q + 1 < n[j] /\ (j = i => q > 1 /\ q + 1 > 2)
            /\ e[j][k] = f[j][q] /\ e[j][k + 1] = f[j][q + 1]
        BY <1>1, <2>2, <2>7, <3>2
      <4> HIDE DEF q
      <4>2. next(h, f[j][q]) = f[j][q + 1] /\ prev(h, f[j][q + 1]) = f[j][q]
        BY <4>1 DEF Linked
      <4>3. next(g, f[j][q]) = next(h, f[j][q]) /\ prev(g, f[j][q + 1]) = prev(h, f[j][q + 1])
        BY <2>3, <4>1
      <4> QED BY <4>1, <4>2, <4>3
    <3> QED BY <3>1, <3>2
  <2>8. ASSUME NEW j \in Lists, m[j] > 0
        PROVE  \/ next(g, e[j][m[j] - 1]) = NULL
               \/ wild /\ next(g, e[j][m[j] - 1]) = JUNK
    <3>1. CASE j = i /\ n[i] = 2
      <4>1. e[j][m[j] - 1] = p
        BY <2>2, <3>1
      <4> QED BY <2>1, <3>1, <4>1
    <3>2. CASE j # i \/ n[i] > 2
      <4>1. /\ n[j] > 0 /\ n[j] - 1 \in Nat /\ n[j] - 1 < n[j] /\ e[j][m[j] - 1] = f[j][n[j] - 1]
            /\ j # i \/ n[j] - 1 > 1
        BY <1>1, <2>2, <2>8, <3>2
      <4>2. next(g, f[j][n[j] - 1]) = next(h, f[j][n[j] - 1])
        BY <2>3, <4>1
      <4> QED BY <4>1, <4>2 DEF Linked
    <3> QED BY <1>3, <3>1, <3>2
  <2>9. ASSUME NEW j \in Lists, NEW q \in Lists, NEW k \in Nat, NEW l \in Nat, k < m[j], l < m[q]
        PROVE  \/ j = q /\ k = l
               \/ e[j][k] + 32 <= e[q][l]
               \/ e[q][l] + 32 <= e[j][k]
    <3> DEFINE u == IF j = i /\ k >= 1 THEN k + 1 ELSE k
               v == IF q = i /\ l >= 1 THEN l + 1 ELSE l
    <3>1. /\ u \in Nat /\ v \in Nat /\ u < n[j] /\ v < n[q] /\ e[j][k] = f[j][u] /\ e[q][l] = f[q][v]
          /\ j = q /\ u = v => k = l
      BY <2>4, <2>9
    <3>2. \/ j = q /\ u = v
          \/ f[j][u] + 32 <= f[q][v]
          \/ f[q][v] + 32 <= f[j][u]
      <4> HIDE DEF u, v
      <4> QED BY <3>1 DEF Linked
    <3> QED BY <3>1, <3>2
  <2>10. Linked(g, m, e, wild)
    BY <2>2, <2>5, <2>6, <2>7, <2>8, <2>9 DEF Linked
  <2>11. \A a \in Words : OffLinks(a, n, f) => g.mem[a] = h.mem[a]
    BY <1>3, <2>1 DEF OffLinks
  <2> QED BY <2>1, <2>10, <2>11 DEF g, m, e, Relinked
<1> QED BY <1>5, <1>6

\* Taking a node out of its list: a wild link faults, and only the first two can be reached.
LEMMA RelinkNode ==
    ASSUME NEW h \in Heaps, NEW n, NEW f, NEW wild, Linked(h, n, f, wild), NEW i \in Lists,
           NEW k \in Nat, k < n[i]
    PROVE  \/ relink(h, i, k) = Fault(h) /\ wild
           \/ relink(h, i, k) = Damage(h, "node") /\ k > 1
           \/ Relinked(h, relink(h, i, k), n, f, wild, i, k)
<1>1. n[i] \in Nat
  BY DEF Linked
<1>2. CASE k = 0
  BY <1>1, <1>2, RelinkFirst
<1>3. CASE k = 1
  BY <1>1, <1>3, RelinkSecond
<1>4. CASE k > 1
  <2>1. 0 < n[i] /\ 0 + 1 < n[i] /\ 1 + 1 < n[i] /\ 2 < n[i] /\ n[i] # 0 /\ 0 \in Nat /\ 1 \in Nat /\ 2 \in Nat
    BY <1>1, <1>4
  <2>2. h.head[i] = f[i][0]
    BY <2>1 DEF Linked
  <2>3. \A x \in Nat : x + 1 < n[i] => next(h, f[i][x]) = f[i][x + 1]
    BY DEF Linked
  <2>4. next(h, f[i][0]) = f[i][1] /\ next(h, f[i][1]) = f[i][2]
    BY <2>1, <2>3
  <2>5. f[i][2] # JUNK
    BY <2>1, NodesOfLinked
  <2>6. k # 0 /\ k # 1
    BY <1>4
  <2>7. Traverse(h, i, k) = f[i][1]
    BY <2>2, <2>4, <2>6 DEF Traverse
  <2>8. relink(h, i, k) = Damage(h, "node")
    BY <2>4, <2>5, <2>6, <2>7, RelinkIs
  <2> QED BY <1>4, <2>8
<1> QED BY <1>2, <1>3, <1>4


\* What follows the last node of list i: NULL, or a wild link.
EndOf(h, n, f, i) == IF n[i] = 0 THEN NULL ELSE next(h, f[i][n[i] - 1])

\* The nodes as the code walks them.
LEMMA NodesAre ==
    ASSUME NEW h \in Heaps, NEW n, NEW f, NEW wild, Linked(h, n, f, wild), NEW i \in Lists
    PROVE  /\ \A k \in 0 .. MaxBlocks : Nodes(h, i)[k] = IF k < n[i] THEN f[i][k] ELSE EndOf(h, n, f, i)
           /\ EndOf(h, n, f, i) = NULL \/ (EndOf(h, n, f, i) = JUNK /\ wild)
<1> DEFINE last == EndOf(h, n, f, i)
           walk == [k \in 0 .. MaxBlocks |-> IF k < n[i] THEN f[i][k] ELSE last]
           Step(g) == [k \in 0 .. MaxBlocks |-> IF k = 0 THEN h.head[i]
                                                ELSE LET b == g[k - 1]
                                                     IN IF b \in {NULL, JUNK} THEN b ELSE next(h, b)]
           nodes == CHOOSE g : g = Step(g)
<1>1. /\ n \in [Lists -> Nat]
      /\ \A k \in Nat : k < n[i] => f[i][k] # NULL /\ f[i][k] # JUNK
      /\ MaxBlocks \in Nat
  <2>1. MaxBlocks \in Nat
    BY ArenaIs DEF MaxBlocks
  <2> QED BY <2>1, NodesOfLinked
<1>2. last = NULL \/ (last = JUNK /\ wild)
  BY <1>1 DEF Linked, EndOf
<1> HIDE DEF last
<1>3. walk = Step(walk)
  <2>1. \A k \in 0 .. MaxBlocks : walk[k] = IF k < n[i] THEN f[i][k] ELSE last
    OBVIOUS
  <2> HIDE DEF walk
  <2>2. ASSUME NEW k \in 0 .. MaxBlocks
        PROVE  walk[k] = IF k = 0 THEN h.head[i]
                         ELSE IF walk[k - 1] \in {NULL, JUNK} THEN walk[k - 1] ELSE next(h, walk[k - 1])
    <3>1. CASE k = 0
      BY <1>1, <2>1, <3>1 DEF Linked, last, EndOf
    <3>2. CASE k > 0 /\ k < n[i]
      <4>1. k - 1 \in Nat /\ k - 1 \in 0 .. MaxBlocks /\ k - 1 < n[i] /\ (k - 1) + 1 < n[i] /\ (k - 1) + 1 = k
        BY <1>1, <3>2
      <4>2. next(h, f[i][k - 1]) = f[i][k]
        BY <3>2, <4>1 DEF Linked
      <4>3. walk[k - 1] = f[i][k - 1] /\ walk[k] = f[i][k]
        BY <2>1, <3>2, <4>1
      <4> QED BY <1>1, <3>2, <4>1, <4>2, <4>3
    <3>3. CASE k > 0 /\ k = n[i]
      <4>1. k - 1 \in Nat /\ k - 1 \in 0 .. MaxBlocks /\ k - 1 < n[i] /\ k - 1 = n[i] - 1 /\ n[i] # 0
        BY <1>1, <3>3
      <4>2. walk[k - 1] = f[i][k - 1] /\ walk[k] = last
        BY <1>1, <2>1, <3>3, <4>1
      <4>3. last = next(h, f[i][k - 1])
        BY <4>1 DEF last, EndOf
      <4> QED BY <1>1, <3>3, <4>1, <4>2, <4>3
    <3>4. CASE k > 0 /\ k > n[i]
      <4>1. k - 1 \in 0 .. MaxBlocks /\ ~(k - 1 < n[i]) /\ ~(k < n[i])
        BY <1>1, <3>4
      <4>2. walk[k - 1] = last /\ walk[k] = last
        BY <2>1, <4>1
      <4> QED BY <1>2, <3>4, <4>2
    <3> QED BY <1>1, <3>1, <3>2, <3>3, <3>4
  <2>3. walk = [k \in 0 .. MaxBlocks |-> walk[k]]
    BY DEF walk
  <2> QED BY <2>2, <2>3
<1>4. nodes = Step(nodes)
  <2> HIDE DEF walk, Step
  <2> QED BY <1>3
<1>5. Nodes(h, i) = [k \in 0 .. MaxBlocks |-> nodes[k]]
  BY DEF Nodes
<1> HIDE DEF nodes
<1> DEFINE same == {k \in 0 .. MaxBlocks : nodes[k] = walk[k]}
<1>6. \A k \in 0 .. MaxBlocks : k \in same
  <2>1. 0 \in same
    <3>1. 0 \in 0 .. MaxBlocks
      BY <1>1
    <3>2. nodes[0] = h.head[i]
      BY <1>4, <3>1
    <3>3. walk[0] = h.head[i]
      <4> HIDE DEF walk
      <4> QED BY <1>3, <3>1
    <3> QED BY <3>1, <3>2, <3>3
  <2>2. ASSUME NEW k \in 0 .. MaxBlocks, k \in same, k < MaxBlocks PROVE k + 1 \in same
    <3>1. k + 1 \in 0 .. MaxBlocks /\ k + 1 # 0 /\ (k + 1) - 1 = k
      BY <1>1, <2>2
    <3> DEFINE Next1(b) == IF b \in {NULL, JUNK} THEN b ELSE next(h, b)
    <3>2. walk[k + 1] = Next1(walk[k])
      <4> HIDE DEF walk
      <4> QED BY <1>3, <3>1
    <3>3. nodes[k + 1] = Next1(nodes[k])
      BY <1>4, <3>1
    <3>4. nodes[k] = walk[k]
      BY <2>2
    <3> HIDE DEF walk, Next1
    <3> QED BY <3>1, <3>2, <3>3, <3>4
  <2> HIDE DEF same
  <2> QED BY <1>1, <2>1, <2>2, InductTo
<1>7. \A k \in 0 .. MaxBlocks : Nodes(h, i)[k] = walk[k]
  BY <1>5, <1>6
<1> QED BY <1>2, <1>7 DEF last

\* N places 32 bytes apart need 32 * N bytes.
LEMMA Spaced ==
    ASSUME NEW N \in Nat, NEW M \in Nat, NEW g \in [0 .. (N - 1) -> Nat],
           \A k \in 0 .. (N - 1) : g[k] + 32 <= M,
           \A k, l \in 0 .. (N - 1) : k # l => g[k] + 32 <= g[l] \/ g[l] + 32 <= g[k]
    PROVE  N <= M \div 32
<1> DEFINE D == 0 .. (N - 1)
           B == M \div 32
           C == 0 .. (B - 1)
           row == [k \in D |-> g[k] \div 32]
<1>1. B \in Nat
  OBVIOUS
<1>2. row \in [D -> C]
  <2>1. ASSUME NEW k \in D PROVE g[k] \div 32 \in C
    <3> PICK x \in Nat : x = g[k] /\ x + 32 <= M
      OBVIOUS
    <3>1. x \div 32 \in Nat /\ x \div 32 <= (M \div 32) - 1
      OBVIOUS
    <3> QED BY <3>1
  <2> QED BY <2>1
<1>3. ASSUME NEW k \in D, NEW l \in D, row[k] = row[l] PROVE k = l
  <2> SUFFICES ASSUME k # l PROVE FALSE
    OBVIOUS
  <2> PICK x \in Nat, y \in Nat : x = g[k] /\ y = g[l]
    OBVIOUS
  <2>1. x \div 32 = y \div 32
    BY <1>3
  <2>2. x + 32 <= y \/ y + 32 <= x
    OBVIOUS
  <2> QED BY <2>1, <2>2
<1>4. row \in Injection(D, C)
  <2> HIDE DEF D, C, row
  <2> QED BY <1>2, <1>3, Fun_IsInj
<1>5. IsFiniteSet(C) /\ Cardinality(C) = B /\ Cardinality(D) = N
  <2>1. 0 \in Int /\ B - 1 \in Int /\ N - 1 \in Int
    BY <1>1
  <2>2. IsFiniteSet(C) /\ Cardinality(C) = IF 0 > B - 1 THEN 0 ELSE (B - 1) - 0 + 1
    <3> HIDE DEF B
    <3> QED BY <2>1, FS_Interval, Zenon
  <2>3. Cardinality(D) = IF 0 > N - 1 THEN 0 ELSE (N - 1) - 0 + 1
    BY <2>1, FS_Interval, Zenon
  <2> HIDE DEF B, C, D
  <2> QED BY <1>1, <2>2, <2>3
<1>6. Cardinality(D) <= Cardinality(C)
  <2> HIDE DEF D, C, row
  <2> QED BY <1>4, <1>5, FS_Injection
<1> QED BY <1>5, <1>6

\* The heap has room for no more than MaxBlocks nodes.
LEMMA NodesBound ==
    ASSUME NEW h \in Heaps, NEW n, NEW f, NEW wild, Linked(h, n, f, wild), NEW i \in Lists
    PROVE  n[i] <= MaxBlocks
<1> DEFINE M == MaxPages * PAGE_SZ
           g == [k \in 0 .. (n[i] - 1) |-> f[i][k] - 8]
<1>1. M \in Nat /\ MaxBlocks = M \div 32 /\ n[i] \in Nat /\ h.brk \in Nat /\ h.brk <= 8 + M
  <2>1. h.brk \in Nat /\ h.brk <= ArenaEnd
    BY BreaksAre DEF Heaps
  <2> QED BY <2>1, ArenaIs DEF MaxBlocks, Linked
<1>2. \A k \in 0 .. (n[i] - 1) : /\ k \in Nat /\ k < n[i] /\ f[i][k] \in Nat
                                 /\ f[i][k] >= 8 /\ f[i][k] + 32 <= 8 + M
  <2>1. \A k \in 0 .. (n[i] - 1) : k \in Nat /\ k < n[i]
    BY <1>1
  <2>2. \A k \in 0 .. (n[i] - 1) : f[i][k] \in Nat /\ f[i][k] >= heap_start /\ f[i][k] + 32 <= h.brk
    BY <2>1, NodesOfLinked
  <2> HIDE DEF M
  <2> QED BY <1>1, <2>1, <2>2 DEF heap_start
<1> HIDE DEF M
<1>3. ASSUME NEW k \in 0 .. (n[i] - 1)
      PROVE  f[i][k] - 8 \in Nat /\ f[i][k] - 8 + 32 <= M
  <2> PICK x \in Nat : x = f[i][k] /\ x >= 8 /\ x + 32 <= 8 + M
    BY <1>2
  <2>1. x - 8 \in Nat /\ x - 8 + 32 <= M
    BY <1>1
  <2> QED BY <2>1
<1>4. g \in [0 .. (n[i] - 1) -> Nat] /\ \A k \in 0 .. (n[i] - 1) : g[k] = f[i][k] - 8
  BY <1>3
<1> HIDE DEF g
<1>5. \A k \in 0 .. (n[i] - 1) : g[k] + 32 <= M
  BY <1>3, <1>4
<1>6. ASSUME NEW k \in 0 .. (n[i] - 1), NEW l \in 0 .. (n[i] - 1), k # l
      PROVE  g[k] + 32 <= g[l] \/ g[l] + 32 <= g[k]
  <2> PICK x \in Nat, y \in Nat : x = f[i][k] /\ y = f[i][l] /\ x >= 8 /\ y >= 8
    BY <1>2
  <2>1. x + 32 <= y \/ y + 32 <= x
    BY <1>2, <1>6 DEF Linked
  <2>2. x - 8 + 32 <= y - 8 \/ y - 8 + 32 <= x - 8
    BY <2>1
  <2> QED BY <1>4, <2>2
<1> QED BY <1>1, <1>4, <1>5, <1>6, Spaced

\* What a walk along the lists finds: nothing, a wild link, or a node that is wanted.
LEMMA FirstPlaceIs ==
    ASSUME NEW h \in Heaps, NEW n, NEW f, NEW wild, Linked(h, n, f, wild), NEW index \in Lists, NEW wanted
    PROVE  LET r == FirstPlace(h, index, wanted)
           IN \/ /\ r = NotFound
                 /\ \A i \in index .. 3, k \in Nat : k < n[i] => f[i][k] \notin wanted
              \/ r.list \in Lists /\ r.node = JUNK /\ wild
              \/ /\ r.list \in Lists /\ r.pos \in Nat /\ r.pos < n[r.list]
                 /\ r.node = f[r.list][r.pos] /\ r.node \in wanted
<1> DEFINE nodes == [i \in index .. 3 |-> Nodes(h, i)]
           Stop(b) == b # NULL /\ (b = JUNK \/ b \in wanted)
           lists == {i \in index .. 3 : \E k \in 0 .. MaxBlocks : Stop(nodes[i][k])}
           list == CHOOSE i \in lists : \A j \in lists : i <= j
           stops == {k \in 0 .. MaxBlocks : Stop(nodes[list][k])}
           pos == CHOOSE k \in 0 .. MaxBlocks :
                     Stop(nodes[list][k]) /\ \A m \in 0 .. (k - 1) : ~Stop(nodes[list][m])
           r == FirstPlace(h, index, wanted)
<1>1. r = IF lists = {} THEN NotFound ELSE [list |-> list, pos |-> pos, node |-> nodes[list][pos]]
  BY DEF FirstPlace
<1>2. /\ \A i \in index .. 3 : i \in Lists /\ nodes[i] = Nodes(h, i)
      /\ \A i \in index .. 3 : n[i] \in Nat /\ n[i] <= MaxBlocks
      /\ MaxBlocks \in Nat
  <2>1. \A i \in index .. 3 : i \in Lists
    BY DEF Lists
  <2>2. \A i \in Lists : n[i] \in Nat /\ n[i] <= MaxBlocks
    <3>1. \A i \in Lists : n[i] \in Nat
      BY DEF Linked
    <3>2. \A i \in Lists : n[i] <= MaxBlocks
      BY NodesBound
    <3> QED BY <3>1, <3>2
  <2>3. MaxBlocks \in Nat
    BY ArenaIs DEF MaxBlocks
  <2> QED BY <2>1, <2>2, <2>3
<1>3. \A i \in index .. 3, k \in 0 .. MaxBlocks :
         /\ k < n[i] => nodes[i][k] = f[i][k] /\ f[i][k] # NULL /\ f[i][k] # JUNK
         /\ ~(k < n[i]) => nodes[i][k] = NULL \/ (nodes[i][k] = JUNK /\ wild)
  <2> SUFFICES ASSUME NEW i \in index .. 3, NEW k \in 0 .. MaxBlocks
               PROVE  /\ k < n[i] => nodes[i][k] = f[i][k] /\ f[i][k] # NULL /\ f[i][k] # JUNK
                      /\ ~(k < n[i]) => nodes[i][k] = NULL \/ (nodes[i][k] = JUNK /\ wild)
    OBVIOUS
  <2>1. nodes[i] = Nodes(h, i) /\ i \in Lists /\ k \in Nat
    BY <1>2
  <2>2. /\ Nodes(h, i)[k] = IF k < n[i] THEN f[i][k] ELSE EndOf(h, n, f, i)
        /\ EndOf(h, n, f, i) = NULL \/ (EndOf(h, n, f, i) = JUNK /\ wild)
    BY <2>1, NodesAre
  <2>3. k < n[i] => f[i][k] # NULL /\ f[i][k] # JUNK
    BY <2>1, NodesOfLinked
  <2> QED BY <2>1, <2>2, <2>3
<1> HIDE DEF nodes, r
<1>4. CASE lists = {}
  <2>1. ASSUME NEW i \in index .. 3, NEW k \in Nat, k < n[i] PROVE f[i][k] \notin wanted
    <3>1. k \in 0 .. MaxBlocks
      BY <1>2, <2>1
    <3>2. ~Stop(nodes[i][k])
      BY <1>4, <3>1
    <3> QED BY <1>3, <2>1, <3>1, <3>2
  <2> QED BY <1>1, <1>4, <2>1 DEF r
<1>5. CASE lists # {}
  <2>1. list \in lists
    <3>1. lists \in SUBSET Nat
      BY DEF Lists
    <3> HIDE DEF lists
    <3>2. \E i \in lists : \A j \in lists : i <= j
      BY <1>5, <3>1, LeastNumber
    <3> QED BY <3>2
  <2> HIDE DEF list
  <2>2. list \in index .. 3 /\ stops # {}
    BY <2>1
  <2>3. pos \in 0 .. MaxBlocks /\ Stop(nodes[list][pos])
    <3>1. stops \in SUBSET Nat
      OBVIOUS
    <3> PICK k \in stops : \A j \in stops : k <= j
      <4> HIDE DEF stops
      <4> QED BY <2>2, <3>1, LeastNumber
    <3>2. ASSUME NEW m \in 0 .. (k - 1), Stop(nodes[list][m]) PROVE FALSE
      <4>1. m \in 0 .. MaxBlocks /\ m < k /\ k \in Nat /\ m \in Nat
        BY <1>2
      <4>2. m \in stops
        BY <3>2, <4>1
      <4>3. k <= m
        BY <4>2
      <4> QED BY <4>1, <4>3
    <3>3. \E x \in 0 .. MaxBlocks : Stop(nodes[list][x]) /\ \A m \in 0 .. (x - 1) : ~Stop(nodes[list][m])
      BY <3>2
    <3> HIDE DEF Stop
    <3> QED BY <3>3
  <2> HIDE DEF pos
  <2>4. r.list = list /\ r.pos = pos /\ r.node = nodes[list][pos]
    BY <1>1, <1>5
  <2>5. list \in Lists /\ pos \in Nat
    BY <1>2, <2>2, <2>3
  <2>6. CASE pos < n[list]
    <3>1. r.node = f[list][pos] /\ r.node \in wanted
      BY <1>3, <2>2, <2>3, <2>4, <2>6
    <3> QED BY <2>4, <2>5, <2>6, <3>1 DEF r
  <2>7. CASE ~(pos < n[list])
    <3>1. r.node = JUNK /\ wild
      <4>1. nodes[list][pos] = NULL \/ (nodes[list][pos] = JUNK /\ wild)
        BY <1>3, <2>2, <2>3, <2>7
      <4> QED BY <2>3, <2>4, <4>1
    <3> QED BY <2>4, <2>5, <3>1 DEF r
  <2> QED BY <2>6, <2>7
<1> QED BY <1>4, <1>5

-----------------------------------------------------------------------------
(* The heap as a whole *)

\* Every block's size has a list.
LEMMA ListIndexIs ==
    ASSUME NEW s \in Nat, s >= 32, s <= MaxPages * PAGE_SZ
    PROVE  get_list_index(s) \in Lists
<1>1. \E i \in Lists : ListMin[i] <= s /\ s <= ListMax[i]
  <2>1. 0 \in Lists /\ 1 \in Lists /\ 2 \in Lists /\ 3 \in Lists
    BY DEF Lists
  <2>2. /\ ListMin[0] = 32 /\ s <= ListMax[3]
        /\ ListMin[1] = ListMax[0] + 1 /\ ListMin[2] = ListMax[1] + 1 /\ ListMin[3] = ListMax[2] + 1
        /\ ListMax[0] \in Nat /\ ListMax[1] \in Nat /\ ListMax[2] \in Nat /\ ListMax[3] \in Nat
    <3>1. /\ ListMin[0 + 1] = ListMax[0] + 1 /\ ListMin[1 + 1] = ListMax[1] + 1
          /\ ListMin[2 + 1] = ListMax[2] + 1
      BY ListsAssumption
    <3>2. ListMax[3] >= MaxPages * PAGE_SZ /\ MaxPages * PAGE_SZ \in Nat
      BY ListsAssumption, ArenaIs
    <3>3. \A i \in Lists : ListMax[i] \in Nat
      BY ListsAssumption
    <3>4. s <= ListMax[3]
      <4> PICK p : p = MaxPages * PAGE_SZ
        OBVIOUS
      <4> QED BY <2>1, <3>2, <3>3
    <3> QED BY <2>1, <3>1, <3>3, <3>4, ListsAssumption
  <2> QED BY <2>1, <2>2
<1> QED BY <1>1 DEF get_list_index

\* The blocks B have the sizes z in header and footer, and are allocated (x = 1) or free.
Tagged(h, B, z, x) ==
    \A b \in B : /\ block_size(h.mem[b]) = z[b] /\ allocated(h.mem[b]) = x
                 /\ block_size(h.mem[b + z[b] - 8]) = z[b] /\ allocated(h.mem[b + z[b] - 8]) = x

\* The lists hold the blocks F, those not in U by their sizes.
Listed(n, f, z, F, U) ==
    /\ \A i \in Lists, k \in Nat :
          k < n[i] => f[i][k] \in F /\ (f[i][k] \notin U => get_list_index(z[f[i][k]]) = i)
    /\ \A b \in F : \E i \in Lists, k \in Nat : k < n[i] /\ f[i][k] = b

\* Nothing is written before the heap or behind it.
Edges(h) ==
    /\ \A a \in Words : a < heap_start \/ (h.brk <= a /\ a < ArenaEnd) => h.mem[a] = Zero
    /\ h.mem[ArenaEnd] = Tag(1, 0, 16, 0)

\* The blocks S, of sizes z, tile the heap.  Those in A are allocated, those in F free
\* and listed; in the middle of a call a block may be in neither.  Nothing is said of the
\* tags of the blocks in U.  Links are wild only if wild.
Laid(h, S, z, wild, A, F, U) ==
    /\ h \in Heaps
    /\ Tiles(S, z, h.brk) /\ A \subseteq S /\ F \subseteq S /\ A \cap F = {}
    /\ Tagged(h, A \ U, z, 1) /\ Tagged(h, F \ U, z, 0)
    /\ \A b \in F \ U : padded(h.mem[b]) = 0
    /\ \A b \in A : next(h, b) \in {NULL, JUNK}
    /\ \E n, f : Linked(h, n, f, wild) /\ Listed(n, f, z, F, U)
    /\ Edges(h)

\* The fields of a heap have their types.
LEMMA HeapFields ==
    ASSUME NEW h \in Heaps
    PROVE  /\ h.mem \in Mems /\ h.head \in Heads /\ h.brk \in Breaks /\ h.errno \in Errors
           /\ h.faulted \in BOOLEAN /\ h.damaged \in Damages
           /\ h.brk \in Nat /\ h.brk <= ArenaEnd /\ heap_start <= h.brk
           /\ ArenaEnd \in Words /\ ArenaEnd \in Nat /\ NULL \in Words
<1>1. /\ h.mem \in Mems /\ h.head \in Heads /\ h.brk \in Breaks /\ h.errno \in Errors
      /\ h.faulted \in BOOLEAN /\ h.damaged \in Damages
  BY DEF Heaps
<1>2. h.brk \in Nat /\ h.brk <= ArenaEnd /\ heap_start <= h.brk
  BY <1>1, BreaksAre
<1>3. ArenaEnd \in Nat /\ ArenaEnd % 8 = 0
  BY ArenaIs
<1>4. ArenaEnd \in Words /\ NULL \in Words
  BY <1>3, WordsAre DEF NULL
<1> QED BY <1>1, <1>2, <1>3, <1>4

\* A word lies in one block only.
LEMMA OneBlock ==
    ASSUME NEW S, NEW z, NEW top \in Nat, top <= ArenaEnd, Tiles(S, z, top), NEW a \in Nat,
           NEW b \in S, NEW c \in S, b <= a, a < b + z[b], c <= a, a < c + z[c]
    PROVE  b = c
<1>1. /\ b \in Nat /\ c \in Nat /\ z[b] \in Nat /\ z[c] \in Nat
      /\ c # b => b + z[b] <= c \/ c + z[c] <= b
  BY TilesApart
<1> QED BY <1>1

\* The words of a block that the library reads.
LEMMA BlockWords ==
    ASSUME NEW h \in Heaps, NEW S, NEW z, Tiles(S, z, h.brk), NEW b \in S
    PROVE  /\ h.brk \in Nat /\ h.brk <= ArenaEnd /\ ArenaEnd \in Nat
           /\ b \in Nat /\ b >= 8 /\ z[b] \in Nat /\ z[b] >= 32 /\ z[b] \in Size16 /\ b + z[b] <= h.brk
           /\ \A a \in {b, b + 8, b + 16, b + z[b] - 8} :
                 a \in Words /\ a \in Nat /\ b <= a /\ a < b + z[b] /\ heap_start <= a /\ a < h.brk
           /\ b + z[b] - 8 # b + 8 /\ b + z[b] - 8 # b + 16 /\ b # b + 8 /\ b # b + 16 /\ b + z[b] - 8 # b
           /\ b \in Words /\ b + 8 \in Words /\ b + 16 \in Words /\ b + z[b] - 8 \in Words
<1>1. h.brk \in Nat /\ h.brk <= ArenaEnd /\ ArenaEnd \in Nat
  BY BreaksAre, ArenaIs DEF Heaps
<1>2. /\ b \in Nat /\ b >= 8 /\ z[b] \in Nat /\ z[b] >= 32 /\ b + z[b] <= h.brk
      /\ b \in Words /\ b + 8 \in Words /\ b + 16 \in Words /\ b + z[b] - 8 \in Words
  BY <1>1, TilesApart
<1>3. z[b] \in Size16
  BY DEF Tiles
<1> QED BY <1>1, <1>2, <1>3 DEF heap_start

\* Writing inside blocks: to the tags only of those in V, never to a link in a list, and
\* where the link of an allocated block would be nothing that reads as one.
LEMMA LaidFrame ==
    ASSUME NEW h, NEW g \in Heaps, NEW S, NEW z, NEW wild, NEW A, NEW F, NEW U, NEW V,
           Laid(h, S, z, wild, A, F, U), U \subseteq V, g.head = h.head, g.brk = h.brk,
           \A a \in Words :
              \/ g.mem[a] = h.mem[a]
              \/ \E b \in S : /\ b <= a /\ a < b + z[b]
                              /\ b \in V \/ (a # b /\ a # b + z[b] - 8)
                              /\ b \in F => a # b + 8 /\ a # b + 16
                              /\ b \in A /\ a = b + 8 => AsPointer(g.mem[a]) \in {NULL, JUNK}
    PROVE  Laid(g, S, z, wild, A, F, V)
<1>1. h \in Heaps /\ Tiles(S, z, h.brk) /\ A \subseteq S /\ F \subseteq S /\ A \cap F = {}
  BY DEF Laid
<1>2. ASSUME NEW x \in S
      PROVE  /\ x \notin V => /\ g.mem[x] = h.mem[x]
                              /\ g.mem[x + z[x] - 8] = h.mem[x + z[x] - 8]
             /\ x \in A => \/ g.mem[x + 8] = h.mem[x + 8]
                           \/ AsPointer(g.mem[x + 8]) \in {NULL, JUNK}
             /\ x \in F => g.mem[x + 8] = h.mem[x + 8] /\ g.mem[x + 16] = h.mem[x + 16]
  <2>1. /\ h.brk \in Nat /\ h.brk <= ArenaEnd
        /\ \A a \in {x, x + 8, x + 16, x + z[x] - 8} :
              a \in Words /\ a \in Nat /\ x <= a /\ a < x + z[x]
    BY <1>1, BlockWords
  <2>2. ASSUME NEW a \in {x, x + 8, x + 16, x + z[x] - 8}
        PROVE  \/ g.mem[a] = h.mem[a]
               \/ /\ x \in V \/ (a # x /\ a # x + z[x] - 8)
                  /\ x \in F => a # x + 8 /\ a # x + 16
                  /\ x \in A /\ a = x + 8 => AsPointer(g.mem[a]) \in {NULL, JUNK}
    <3> SUFFICES ASSUME g.mem[a] # h.mem[a]
                 PROVE  /\ x \in V \/ (a # x /\ a # x + z[x] - 8)
                        /\ x \in F => a # x + 8 /\ a # x + 16
                        /\ x \in A /\ a = x + 8 => AsPointer(g.mem[a]) \in {NULL, JUNK}
      OBVIOUS
    <3>1. a \in Words /\ a \in Nat /\ x <= a /\ a < x + z[x]
      BY <2>1
    <3> PICK b \in S : /\ b <= a /\ a < b + z[b]
                       /\ b \in V \/ (a # b /\ a # b + z[b] - 8)
                       /\ b \in F => a # b + 8 /\ a # b + 16
                       /\ b \in A /\ a = b + 8 => AsPointer(g.mem[a]) \in {NULL, JUNK}
      BY <3>1
    <3>2. b = x
      BY <1>1, <2>1, <3>1, OneBlock
    <3> QED BY <3>2
  <2> QED BY <2>2
<1>3. Tiles(S, z, g.brk)
  BY <1>1
<1>4. Tagged(g, A \ V, z, 1) /\ Tagged(g, F \ V, z, 0)
  BY <1>1, <1>2 DEF Laid, Tagged
<1>5. \A b \in F \ V : padded(g.mem[b]) = 0
  BY <1>1, <1>2 DEF Laid
<1>6. \A b \in A : next(g, b) \in {NULL, JUNK}
  BY <1>1, <1>2 DEF Laid, next
<1>7. \E n, f : Linked(g, n, f, wild) /\ Listed(n, f, z, F, V)
  <2> PICK n, f : Linked(h, n, f, wild) /\ Listed(n, f, z, F, U)
    BY DEF Laid
  <2>1. \A a \in Words : OffLinks(a, n, f) \/ g.mem[a] = h.mem[a]
    BY <1>1, <1>2 DEF OffLinks, Listed
  <2>2. g.brk >= h.brk
    <3>1. h.brk \in Nat
      BY <1>1, HeapFields, BreaksAre
    <3> QED BY <1>1, <3>1
  <2>3. Linked(g, n, f, wild)
    BY <1>1, <2>1, <2>2, LinkedFrame
  <2>4. Listed(n, f, z, F, V)
    BY DEF Listed
  <2> QED BY <2>3, <2>4
<1>8. Edges(g)
  <2>1. ASSUME NEW a \in Words, a < heap_start \/ h.brk <= a
        PROVE  g.mem[a] = h.mem[a]
    <3> SUFFICES ASSUME NEW b \in S, b <= a, a < b + z[b] PROVE FALSE
      OBVIOUS
    <3>1. b \in Nat /\ b >= 8 /\ z[b] \in Nat /\ b + z[b] <= h.brk /\ h.brk \in Nat /\ a \in Nat
      BY <1>1, BlockWords, WordsAre
    <3> QED BY <2>1, <3>1 DEF heap_start
  <2>2. ArenaEnd \in Words /\ h.brk <= ArenaEnd
    BY <1>1, HeapFields
  <2> QED BY <2>1, <2>2 DEF Laid, Edges
<1> QED BY <1>1, <1>3, <1>4, <1>5, <1>6, <1>7, <1>8 DEF Laid

\* The links of a block are no tags, and no links of another.
LEMMA LinksApart ==
    ASSUME NEW h \in Heaps, NEW S, NEW z, Tiles(S, z, h.brk), NEW x \in S, NEW y \in S
    PROVE  /\ x # y + 8 /\ x # y + 16 /\ x + z[x] - 8 # y + 8 /\ x + z[x] - 8 # y + 16
           /\ x + 8 # y + 16
           /\ x # y => x + 8 # y + 8 /\ x + 16 # y + 8 /\ x + 16 # y + 16 /\ x # y + z[y] - 8
           /\ x # y => x + z[x] - 8 # y + z[y] - 8
<1>1. /\ x \in Nat /\ y \in Nat /\ z[x] \in Nat /\ z[y] \in Nat /\ z[x] >= 32 /\ z[y] >= 32
      /\ y # x => x + z[x] <= y \/ y + z[y] <= x
  BY HeapFields, TilesApart
<1> QED BY <1>1

\* g differs from h in links of the blocks B only.
OnlyLinks(h, g, B) ==
    \A a \in Words : (\A x \in B : a # x + 8 /\ a # x + 16) => g.mem[a] = h.mem[a]

\* What of Laid does not depend on the lists is left by a change of links.
LEMMA OnlyLinksLaid ==
    ASSUME NEW h, NEW g \in Heaps, NEW S, NEW z, NEW wild, NEW A, NEW F, NEW U, NEW w, NEW G,
           Laid(h, S, z, wild, A, F, U), g.brk = h.brk, NEW B \in SUBSET S, B \cap A = {},
           OnlyLinks(h, g, B), G \subseteq S, A \cap G = {},
           Tagged(h, G \ U, z, 0), \A b \in G \ U : padded(h.mem[b]) = 0,
           \E n, f : Linked(g, n, f, w) /\ Listed(n, f, z, G, U)
    PROVE  Laid(g, S, z, w, A, G, U)
<1>1. h \in Heaps /\ Tiles(S, z, h.brk) /\ A \subseteq S /\ F \subseteq S
  BY DEF Laid
<1>2. ASSUME NEW x \in S
      PROVE  /\ g.mem[x] = h.mem[x] /\ g.mem[x + z[x] - 8] = h.mem[x + z[x] - 8]
             /\ x \in A => g.mem[x + 8] = h.mem[x + 8]
  <2>1. x \in Words /\ x + 8 \in Words /\ x + z[x] - 8 \in Words
    BY <1>1, BlockWords
  <2>2. \A y \in B : /\ x # y + 8 /\ x # y + 16 /\ x + z[x] - 8 # y + 8 /\ x + z[x] - 8 # y + 16
                     /\ x \in A => x + 8 # y + 8 /\ x + 8 # y + 16
    BY <1>1, LinksApart
  <2> QED BY <2>1, <2>2 DEF OnlyLinks
<1>3. Tagged(g, A \ U, z, 1) /\ Tagged(g, G \ U, z, 0) /\ \A b \in G \ U : padded(g.mem[b]) = 0
  BY <1>1, <1>2 DEF Laid, Tagged
<1>4. \A b \in A : next(g, b) \in {NULL, JUNK}
  BY <1>1, <1>2 DEF Laid, next
<1>5. Edges(g)
  <2>1. ASSUME NEW a \in Words, a < heap_start \/ h.brk <= a PROVE g.mem[a] = h.mem[a]
    <3>1. ASSUME NEW y \in B PROVE a # y + 8 /\ a # y + 16
      <4>1. y >= heap_start /\ y + 8 < h.brk /\ y + 16 < h.brk /\ y \in Nat /\ h.brk \in Nat
        BY <1>1, BlockWords DEF heap_start
      <4> QED BY <2>1, <4>1, WordsAre DEF heap_start
    <3> QED BY <3>1 DEF OnlyLinks
  <2>2. ArenaEnd \in Words /\ h.brk <= ArenaEnd
    BY <1>1, HeapFields
  <2> QED BY <2>1, <2>2 DEF Laid, Edges
<1> QED BY <1>1, <1>3, <1>4, <1>5 DEF Laid

\* What a list is after one of its nodes was taken out.
LEMMA DropListed ==
    ASSUME NEW h \in Heaps, NEW n, NEW f, NEW wild, Linked(h, n, f, wild), NEW z, NEW F, NEW U,
           Listed(n, f, z, F, U), NEW i \in Lists, NEW k \in Nat, k < n[i]
    PROVE  Listed(DropLen(n, i), DropAt(f, i, k), z, F \ {f[i][k]}, U)
<1> DEFINE m == DropLen(n, i)
           e == DropAt(f, i, k)
           b == f[i][k]
<1>1. n \in [Lists -> Nat]
  BY DEF Linked
<1>2. /\ \A j \in Lists : m[j] = IF j = i THEN n[i] - 1 ELSE n[j]
      /\ \A j \in Lists, q \in Nat : e[j][q] = IF j = i /\ q >= k THEN f[j][q + 1] ELSE f[j][q]
  BY <1>1 DEF DropLen, DropAt
<1> HIDE DEF m, e
<1>3. \A j \in Lists, q \in Nat : q < n[j] /\ f[j][q] = b => j = i /\ q = k
  BY NodesOfLinked
<1>4. ASSUME NEW j \in Lists, NEW q \in Nat, q < m[j]
      PROVE  e[j][q] \in F \ {b} /\ (e[j][q] \notin U => get_list_index(z[e[j][q]]) = j)
  <2> DEFINE u == IF j = i /\ q >= k THEN q + 1 ELSE q
  <2>1. u \in Nat /\ u < n[j] /\ e[j][q] = f[j][u] /\ (j = i => u # k)
    BY <1>1, <1>2, <1>4
  <2> HIDE DEF u
  <2>2. f[j][u] \in F /\ (f[j][u] \notin U => get_list_index(z[f[j][u]]) = j)
    BY <2>1 DEF Listed
  <2>3. f[j][u] # b
    BY <1>3, <2>1
  <2> QED BY <2>1, <2>2, <2>3
<1>5. ASSUME NEW x \in F \ {b} PROVE \E j \in Lists, q \in Nat : q < m[j] /\ e[j][q] = x
  <2> PICK j \in Lists, u \in Nat : u < n[j] /\ f[j][u] = x
    BY DEF Listed
  <2> DEFINE q == IF j = i /\ u > k THEN u - 1 ELSE u
  <2>1. j = i => u # k
    OBVIOUS
  <2>2. q \in Nat /\ q < m[j] /\ e[j][q] = f[j][u]
    <3>1. CASE j = i /\ u > k
      <4>1. u - 1 \in Nat /\ u - 1 >= k /\ (u - 1) + 1 = u /\ u - 1 < n[i] - 1
        BY <1>1, <3>1
      <4>2. e[j][u - 1] = f[j][u]
        BY <1>2, <3>1, <4>1
      <4> QED BY <1>2, <3>1, <4>1, <4>2
    <3>2. CASE ~(j = i /\ u > k)
      <4>1. ~(j = i /\ u >= k)
        BY <2>1, <3>2
      <4>2. e[j][u] = f[j][u]
        BY <1>2, <4>1
      <4>3. u < m[j]
        BY <1>1, <1>2, <4>1
      <4> QED BY <3>2, <4>2, <4>3
    <3> QED BY <3>1, <3>2
  <2> QED BY <2>2
<1> QED BY <1>4, <1>5 DEF Listed, m, e

\* g is h with block b taken out of its list.
TakenOut(h, g, S, z, wild, A, F, U, b) ==
    /\ Laid(g, S, z, wild, A, F \ {b}, U)
    /\ SameRest(h, g) /\ next(g, b) = NULL /\ OnlyLinks(h, g, F)

\* relink takes a free block out of its list and nothing else.
LEMMA RelinkLaid ==
    ASSUME NEW h, NEW S, NEW z, NEW wild, NEW A, NEW F, NEW U, Laid(h, S, z, wild, A, F, U),
           NEW n, NEW f, Linked(h, n, f, wild), Listed(n, f, z, F, U),
           NEW i \in Lists, NEW k \in Nat, k < n[i]
    PROVE  \/ relink(h, i, k) = Fault(h) /\ wild
           \/ relink(h, i, k) = Damage(h, "node") /\ k > 1
           \/ TakenOut(h, relink(h, i, k), S, z, wild, A, F, U, f[i][k])
<1> DEFINE g == relink(h, i, k)
           b == f[i][k]
<1>1. h \in Heaps /\ F \subseteq S /\ A \cap F = {} /\ b \in F
  BY DEF Laid, Listed
<1>2. ASSUME Relinked(h, g, n, f, wild, i, k)
      PROVE  TakenOut(h, g, S, z, wild, A, F, U, b)
  <2> HIDE DEF g
  <2>1. /\ g \in Heaps /\ SameRest(h, g) /\ next(g, b) = NULL
        /\ Linked(g, DropLen(n, i), DropAt(f, i, k), wild)
        /\ \A a \in Words : OffLinks(a, n, f) => g.mem[a] = h.mem[a]
    BY <1>2 DEF Relinked
  <2>2. OnlyLinks(h, g, F)
    BY <2>1 DEF OnlyLinks, OffLinks, Listed
  <2>3. Listed(DropLen(n, i), DropAt(f, i, k), z, F \ {b}, U)
    BY <1>1, DropListed
  <2>4. Tagged(h, (F \ {b}) \ U, z, 0) /\ \A x \in (F \ {b}) \ U : padded(h.mem[x]) = 0
    BY DEF Laid, Tagged
  <2>5. \E m, e : Linked(g, m, e, wild) /\ Listed(m, e, z, F \ {b}, U)
    BY <2>1, <2>3
  <2>6. g.brk = h.brk /\ F \in SUBSET S /\ F \cap A = {} /\ F \ {b} \subseteq S /\ A \cap (F \ {b}) = {}
    BY <1>1, <2>1 DEF SameRest
  <2> HIDE DEF b
  <2>7. Laid(g, S, z, wild, A, F \ {b}, U)
    BY <2>1, <2>2, <2>4, <2>5, <2>6, OnlyLinksLaid
  <2> QED BY <2>1, <2>2, <2>7 DEF TakenOut
<1> QED BY <1>1, <1>2, RelinkNode

\* remove takes a free block out of its list, or the call dies.
LEMMA RemoveLaid ==
    ASSUME NEW h, NEW S, NEW z, NEW wild, NEW A, NEW F, NEW U, Laid(h, S, z, wild, A, F, U),
           NEW b \in F
    PROVE  \/ Remove(h, b) = Fault(h) /\ wild
           \/ Remove(h, b) = Damage(h, "node")
           \/ TakenOut(h, Remove(h, b), S, z, wild, A, F, U, b)
<1>1. h \in Heaps
  BY DEF Laid
<1> PICK n, f : Linked(h, n, f, wild) /\ Listed(n, f, z, F, U)
  BY DEF Laid
<1> PICK i \in Lists, k \in Nat : k < n[i] /\ f[i][k] = b
  BY DEF Listed
<1> PICK r : r = FirstPlace(h, 0, {b})
  OBVIOUS
<1>2. Remove(h, b) = IF r.node = JUNK THEN Fault(h) ELSE relink(h, r.list, r.pos)
  BY DEF Remove, Unlink, location_in_sfl
<1>3. \/ /\ r = NotFound
         /\ \A j \in 0 .. 3, q \in Nat : q < n[j] => f[j][q] \notin {b}
      \/ r.list \in Lists /\ r.node = JUNK /\ wild
      \/ /\ r.list \in Lists /\ r.pos \in Nat /\ r.pos < n[r.list]
         /\ r.node = f[r.list][r.pos] /\ r.node \in {b}
  <2>1. 0 \in Lists
    BY DEF Lists
  <2> QED BY <1>1, <2>1, FirstPlaceIs
<1>4. ~ \A j \in 0 .. 3, q \in Nat : q < n[j] => f[j][q] \notin {b}
  BY DEF Lists
<1>5. CASE r.node = JUNK /\ wild
  BY <1>2, <1>5
<1>6. CASE /\ r.list \in Lists /\ r.pos \in Nat /\ r.pos < n[r.list]
           /\ r.node = f[r.list][r.pos] /\ r.node \in {b}
  <2>1. r.node # JUNK
    BY <1>1, <1>6, NodesOfLinked
  <2>2. \/ relink(h, r.list, r.pos) = Fault(h) /\ wild
        \/ relink(h, r.list, r.pos) = Damage(h, "node")
        \/ TakenOut(h, relink(h, r.list, r.pos), S, z, wild, A, F, U, f[r.list][r.pos])
    BY <1>6, RelinkLaid
  <2> QED BY <1>2, <1>6, <2>1, <2>2
<1> QED BY <1>3, <1>4, <1>5, <1>6

\* What a list is with one node more.
LEMMA ConsListed ==
    ASSUME NEW h \in Heaps, NEW n, NEW f, NEW wild, Linked(h, n, f, wild), NEW z, NEW F, NEW U,
           Listed(n, f, z, F, U), NEW b, get_list_index(z[b]) \in Lists
    PROVE  Listed(ConsLen(n, get_list_index(z[b])), ConsAt(f, get_list_index(z[b]), b), z, F \cup {b}, U)
<1> DEFINE i == get_list_index(z[b])
           m == ConsLen(n, i)
           e == ConsAt(f, i, b)
<1>1. n \in [Lists -> Nat]
  BY DEF Linked
<1>2. /\ \A j \in Lists : m[j] = IF j = i THEN n[i] + 1 ELSE n[j]
      /\ \A j \in Lists, k \in Nat : e[j][k] = IF j # i THEN f[j][k] ELSE IF k = 0 THEN b ELSE f[j][k - 1]
  BY <1>1 DEF ConsLen, ConsAt
<1> HIDE DEF m, e
<1>3. ASSUME NEW j \in Lists, NEW q \in Nat, q < m[j]
      PROVE  e[j][q] \in F \cup {b} /\ (e[j][q] \notin U => get_list_index(z[e[j][q]]) = j)
  <2>1. CASE j = i /\ q = 0
    BY <1>2, <2>1
  <2>2. CASE j = i /\ q > 0
    <3>1. q - 1 \in Nat /\ q - 1 < n[j] /\ e[j][q] = f[j][q - 1]
      BY <1>1, <1>2, <1>3, <2>2
    <3> QED BY <3>1 DEF Listed
  <2>3. CASE j # i
    BY <1>2, <1>3, <2>3 DEF Listed
  <2> QED BY <2>1, <2>2, <2>3
<1>4. ASSUME NEW x \in F \cup {b} PROVE \E j \in Lists, q \in Nat : q < m[j] /\ e[j][q] = x
  <2>1. CASE x = b
    <3>1. 0 \in Nat /\ 0 < m[i] /\ e[i][0] = b
      BY <1>1, <1>2
    <3> QED BY <2>1, <3>1
  <2>2. CASE x \in F
    <3> PICK j \in Lists, u \in Nat : u < n[j] /\ f[j][u] = x
      BY <2>2 DEF Listed
    <3>1. CASE j = i
      <4>1. u + 1 \in Nat /\ u + 1 # 0 /\ (u + 1) - 1 = u /\ u + 1 < m[j]
        BY <1>1, <1>2, <3>1
      <4>2. e[j][u + 1] = f[j][u]
        BY <1>2, <3>1, <4>1
      <4> QED BY <4>1, <4>2
    <3>2. CASE j # i
      <4>1. u < m[j] /\ e[j][u] = x
        BY <1>2, <3>2
      <4> QED BY <4>1
    <3> QED BY <3>1, <3>2
  <2> QED BY <2>1, <2>2
<1> HIDE DEF i
<1>5. Listed(m, e, z, F \cup {b}, U)
  BY <1>3, <1>4 DEF Listed
<1> QED BY <1>5 DEF m, e, i

\* append leaves the block it lists in the list of its size.
LEMMA AppendLaid ==
    ASSUME NEW h, NEW S, NEW z, NEW wild, NEW A, NEW F, NEW U, Laid(h, S, z, wild, A, F, U),
           NEW b \in S, b \notin A, b \notin F, Tagged(h, {b}, z, 0), padded(h.mem[b]) = 0,
           next(h, b) = NULL \/ (wild /\ next(h, b) = JUNK)
    PROVE  LET g == append(h, get_list_index(z[b]), b)
           IN /\ Laid(g, S, z, wild, A, F \cup {b}, U)
              /\ SameRest(h, g) /\ OnlyLinks(h, g, F \cup {b})
<1> DEFINE i == get_list_index(z[b])
           g == append(h, i, b)
<1>1. h \in Heaps /\ Tiles(S, z, h.brk) /\ A \subseteq S /\ F \subseteq S /\ A \cap F = {}
  BY DEF Laid
<1>2. /\ b \in Nat /\ z[b] \in Nat /\ z[b] >= 32 /\ b >= heap_start /\ b + z[b] <= h.brk
      /\ h.brk <= ArenaEnd /\ b \in Words /\ b + 32 <= h.brk
  <2>1. /\ b \in Nat /\ z[b] \in Nat /\ z[b] >= 32 /\ b >= 8 /\ b + z[b] <= h.brk /\ b \in Words
        /\ h.brk \in Nat /\ h.brk <= ArenaEnd
    BY <1>1, BlockWords
  <2>2. b + 32 <= h.brk
    BY <2>1
  <2> QED BY <2>1, <2>2 DEF heap_start
<1>3. z[b] <= MaxPages * PAGE_SZ
  <2> PICK M : M = MaxPages * PAGE_SZ
    OBVIOUS
  <2>1. M \in Nat /\ ArenaEnd = 8 + M
    BY ArenaIs
  <2>2. h.brk \in Nat /\ b >= 8
    BY <1>1, <1>2, HeapFields DEF heap_start
  <2> QED BY <1>2, <2>1, <2>2
<1>4. i \in Lists
  BY <1>2, <1>3, ListIndexIs
<1> PICK n, f : Linked(h, n, f, wild) /\ Listed(n, f, z, F, U)
  BY DEF Laid
<1>5. OffNodes(b, n, f)
  <2> SUFFICES ASSUME NEW j \in Lists, NEW k \in Nat, k < n[j]
               PROVE  f[j][k] + 32 <= b \/ b + 32 <= f[j][k]
    BY DEF OffNodes
  <2> PICK y : y = f[j][k]
    OBVIOUS
  <2>1. y \in S /\ y # b
    BY <1>1 DEF Listed
  <2>2. /\ y \in Nat /\ z[y] \in Nat /\ z[y] >= 32
        /\ b + z[b] <= y \/ y + z[y] <= b
    BY <1>1, <2>1, HeapFields, TilesApart
  <2>3. y + 32 <= b \/ b + 32 <= y
    BY <1>2, <2>2
  <2> QED BY <2>3
<1>6. /\ g \in Heaps /\ SameRest(h, g)
      /\ Linked(g, ConsLen(n, i), ConsAt(f, i, b), wild)
      /\ \A a \in Words : OffLinks(a, n, f) /\ a # b + 8 => g.mem[a] = h.mem[a]
  <2> HIDE DEF i
  <2> QED BY <1>1, <1>2, <1>4, <1>5, AppendLinked
<1>7. Listed(ConsLen(n, i), ConsAt(f, i, b), z, F \cup {b}, U)
  BY <1>1, <1>4, ConsListed
<1> HIDE DEF g
<1>8. OnlyLinks(h, g, F \cup {b})
  BY <1>6 DEF OnlyLinks, OffLinks, Listed
<1>9. /\ g.brk = h.brk /\ F \cup {b} \in SUBSET S /\ (F \cup {b}) \cap A = {}
      /\ Tagged(h, (F \cup {b}) \ U, z, 0) /\ \A x \in (F \cup {b}) \ U : padded(h.mem[x]) = 0
      /\ \E m, e : Linked(g, m, e, wild) /\ Listed(m, e, z, F \cup {b}, U)
  BY <1>1, <1>6, <1>7 DEF SameRest, Laid, Tagged
<1>10. Laid(g, S, z, wild, A, F \cup {b}, U)
  <2> PICK G : G = F \cup {b}
    OBVIOUS
  <2>1. G \in SUBSET S /\ G \cap A = {} /\ A \cap G = {} /\ OnlyLinks(h, g, G) /\ G \subseteq S
        /\ Tagged(h, G \ U, z, 0) /\ \A x \in G \ U : padded(h.mem[x]) = 0
    BY <1>8, <1>9
  <2>2. \E m, e : Linked(g, m, e, wild) /\ Listed(m, e, z, G, U)
    BY <1>9
  <2>3. Laid(g, S, z, wild, A, G, U)
    BY <1>6, <1>9, <2>1, <2>2, OnlyLinksLaid
  <2> QED BY <2>3
<1> QED BY <1>6, <1>8, <1>10 DEF g, i

\* The same words seen as other blocks, those with tags and those in the lists the same.
LEMMA LaidRetile ==
    ASSUME NEW h, NEW S, NEW z, NEW wild, NEW A, NEW F, NEW U, Laid(h, S, z, wild, A, F, U),
           NEW g \in Heaps, g.mem = h.mem, g.head = h.head, g.brk >= h.brk,
           NEW T, NEW y, Tiles(T, y, g.brk), A \subseteq T, F \subseteq T,
           \A x \in A \cup F : x \notin U => y[x] = z[x]
    PROVE  Laid(g, T, y, wild, A, F, U)
<1>1. h \in Heaps /\ A \cap F = {}
  BY DEF Laid
<1>2. Tagged(g, A \ U, y, 1) /\ Tagged(g, F \ U, y, 0) /\ \A b \in F \ U : padded(g.mem[b]) = 0
  BY DEF Laid, Tagged
<1>3. \A b \in A : next(g, b) \in {NULL, JUNK}
  BY DEF Laid, next
<1>4. \E n, f : Linked(g, n, f, wild) /\ Listed(n, f, y, F, U)
  <2> PICK n, f : Linked(h, n, f, wild) /\ Listed(n, f, z, F, U)
    BY DEF Laid
  <2>1. Linked(g, n, f, wild)
    BY <1>1, LinkedFrame
  <2>2. Listed(n, f, y, F, U)
    BY DEF Listed
  <2> QED BY <2>1, <2>2
<1>5. Edges(g)
  <2>1. \A a \in Words : a \in Nat
    BY WordsAre
  <2>2. h.brk \in Nat /\ g.brk \in Nat
    BY <1>1, HeapFields
  <2>3. Edges(h)
    BY DEF Laid
  <2> QED BY <2>1, <2>2, <2>3 DEF Edges
<1> QED BY <1>1, <1>2, <1>3, <1>4, <1>5 DEF Laid

\* Other blocks have tags that hold.
LEMMA LaidTags ==
    ASSUME NEW h, NEW S, NEW z, NEW wild, NEW A, NEW F, NEW U, Laid(h, S, z, wild, A, F, U),
           NEW V, F \cap U \subseteq V, NEW B, B \subseteq S, B \cap F = {}, Tagged(h, B \ V, z, 1),
           \A b \in B : next(h, b) \in {NULL, JUNK}
    PROVE  Laid(h, S, z, wild, B, F, V)
<1>1. Tagged(h, F \ V, z, 0) /\ \A b \in F \ V : padded(h.mem[b]) = 0
  BY DEF Laid, Tagged
<1>2. \E n, f : Linked(h, n, f, wild) /\ Listed(n, f, z, F, V)
  <2> PICK n, f : Linked(h, n, f, wild) /\ Listed(n, f, z, F, U)
    BY DEF Laid
  <2>1. Listed(n, f, z, F, V)
    BY DEF Listed
  <2> QED BY <2>1
<1> QED BY <1>1, <1>2 DEF Laid

\* The blocks B are as they were.
Kept(h, g, z, B) == \A x \in B, a \in Words : x <= a /\ a < x + z[x] => g.mem[a] = h.mem[a]

\* Writing the links of some blocks leaves the bytes of the others.
LEMMA LinksKeep ==
    ASSUME NEW h \in Heaps, NEW g, NEW S, NEW z, Tiles(S, z, h.brk), NEW A \in SUBSET S, NEW B \in SUBSET S,
           A \cap B = {}, OnlyLinks(h, g, B)
    PROVE  Kept(h, g, z, A)
<1> SUFFICES ASSUME NEW x \in A, NEW a \in Words, x <= a, a < x + z[x] PROVE g.mem[a] = h.mem[a]
  BY DEF Kept
<1>1. ASSUME NEW y \in B PROVE a # y + 8 /\ a # y + 16
  <2>1. /\ y \in Nat /\ x \in Nat /\ z[x] \in Nat /\ z[y] \in Nat /\ z[y] >= 32 /\ x # y
        /\ x + z[x] <= y \/ y + z[y] <= x
    BY HeapFields, TilesApart
  <2>2. a \in Nat
    BY WordsAre
  <2> QED BY <2>1, <2>2
<1> QED BY <1>1 DEF OnlyLinks

\* Words written in one block.
LEMMA WritesKeep ==
    ASSUME NEW h \in Heaps, NEW g, NEW S, NEW z, Tiles(S, z, h.brk), NEW b \in S, NEW A \in SUBSET S,
           b \notin A, \A a \in Words : g.mem[a] = h.mem[a] \/ (b <= a /\ a < b + z[b])
    PROVE  Kept(h, g, z, A)
<1> SUFFICES ASSUME NEW x \in A, NEW a \in Words, x <= a, a < x + z[x], b <= a, a < b + z[b] PROVE FALSE
  BY DEF Kept
<1>1. h.brk \in Nat /\ h.brk <= ArenaEnd /\ a \in Nat
  BY HeapFields, WordsAre
<1>2. x = b
  BY <1>1, OneBlock
<1> QED BY <1>2

\* A block that is in no list is made free and put at the head of its list.
LEMMA AddFreeLaid ==
    ASSUME NEW h, NEW S, NEW z, NEW wild, NEW A, NEW F, NEW U, Laid(h, S, z, wild, A, F, U),
           ~Stopped(h), NEW b \in S, b \notin A, b \notin F,
           block_size(h.mem[b + z[b] - 8]) = z[b], allocated(h.mem[b + z[b] - 8]) = 0
    PROVE  LET g == AddFree(h, b, z[b])
           IN /\ Laid(g, S, z, wild, A, F \cup {b}, U \ {b})
              /\ SameRest(h, g) /\ Kept(h, g, z, A)
<1> DEFINE s == z[b]
           t == Tag(0, 0, s, 0)
           m1 == Put(h.mem, b + 8, Zero)
           m2 == Put(m1, b + 16, Zero)
           m3 == Put(m2, b, t)
           h1 == SetHeap(h, m3, h.head)
           g == append(h1, get_list_index(s), b)
<1>1. h \in Heaps /\ Tiles(S, z, h.brk) /\ A \subseteq S /\ F \subseteq S /\ A \cap F = {}
  BY DEF Laid
<1>2. /\ b \in Nat /\ s \in Nat /\ s >= 32 /\ s \in Size16
      /\ \A a \in {b, b + 8, b + 16, b + s - 8} : a \in Words /\ a \in Nat /\ b <= a /\ a < b + s
      /\ b + s - 8 # b + 8 /\ b + s - 8 # b + 16 /\ b # b + 8 /\ b # b + 16 /\ b + s - 8 # b
  <2>1. /\ b \in Nat /\ s \in Nat /\ s >= 32 /\ s \in Size16
        /\ b \in Words /\ b + 8 \in Words /\ b + 16 \in Words /\ b + s - 8 \in Words
    BY <1>1, BlockWords
  <2>2. b + s - 8 # b + 8 /\ b + s - 8 # b + 16 /\ b # b + 8 /\ b # b + 16 /\ b + s - 8 # b
    BY <2>1
  <2> QED BY <2>1, <2>2
<1>3. h.mem \in Mems /\ h.head \in Heads /\ h.brk \in Nat
  BY <1>1, HeapFields
<1>4. t \in Word /\ Zero \in Word
  BY <1>2, WordIs
<1>5. m1 \in Mems /\ \A a \in Words : m1[a] = IF a = b + 8 THEN Zero ELSE h.mem[a]
  <2>1. b + 8 \in Words
    BY <1>2
  <2>2. m1 \in Mems
    BY <1>3, <1>4, <2>1, PutIs
  <2>3. \A a \in Words : m1[a] = IF a = b + 8 THEN Zero ELSE h.mem[a]
    BY <1>3, <1>4, <2>1, PutAt
  <2> QED BY <2>2, <2>3
<1> HIDE DEF m1
<1>6. m2 \in Mems /\ \A a \in Words : m2[a] = IF a = b + 16 THEN Zero ELSE m1[a]
  <2>1. b + 16 \in Words
    BY <1>2
  <2>2. m2 \in Mems
    BY <1>4, <1>5, <2>1, PutIs
  <2>3. \A a \in Words : m2[a] = IF a = b + 16 THEN Zero ELSE m1[a]
    BY <1>4, <1>5, <2>1, PutAt
  <2> QED BY <2>2, <2>3
<1> HIDE DEF m2
<1>7. m3 \in Mems /\ \A a \in Words : m3[a] = IF a = b THEN t ELSE m2[a]
  <2>1. b \in Words
    BY <1>2
  <2>2. m3 \in Mems
    BY <1>4, <1>6, <2>1, PutIs
  <2>3. \A a \in Words : m3[a] = IF a = b THEN t ELSE m2[a]
    BY <1>4, <1>6, <2>1, PutAt
  <2> QED BY <2>2, <2>3
<1>8. AddFree(h, b, s) = g
  <2>1. [h EXCEPT !.mem[b + 8] = Zero, !.mem[b + 16] = Zero, !.mem[b] = Tag(0, 0, s, 0)] = h1
    BY <1>1 DEF SetHeap, Heaps, Put, Mems, Heads, m1, m2
  <2> HIDE DEF h1, s
  <2> QED BY <2>1 DEF AddFree
<1> HIDE DEF m3
<1>9. h1 \in Heaps /\ SameRest(h, h1) /\ h1.mem = m3 /\ h1.head = h.head
  BY <1>1, <1>3, <1>7, SetHeapIs
<1> HIDE DEF h1
<1>10. \A a \in Words : h1.mem[a] = IF a = b THEN t ELSE IF a = b + 16 \/ a = b + 8 THEN Zero ELSE h.mem[a]
  BY <1>5, <1>6, <1>7, <1>9
<1>11. \A a \in Words : h1.mem[a] = h.mem[a] \/ (b <= a /\ a < b + s)
  BY <1>2, <1>10
<1>12. Laid(h1, S, z, wild, A, F, U \cup {b})
  <2>1. U \subseteq U \cup {b} /\ h1.brk = h.brk /\ b \in U \cup {b}
    BY <1>9 DEF SameRest
  <2>2. \A a \in Words :
              \/ h1.mem[a] = h.mem[a]
              \/ \E x \in S : /\ x <= a /\ a < x + z[x]
                              /\ x \in U \cup {b} \/ (a # x /\ a # x + z[x] - 8)
                              /\ x \in F => a # x + 8 /\ a # x + 16
                              /\ x \in A /\ a = x + 8 => AsPointer(h1.mem[a]) \in {NULL, JUNK}
    BY <1>11, <2>1
  <2> QED BY <1>9, <2>1, <2>2, LaidFrame
<1>13. Laid(h1, S, z, wild, A, F, U \ {b})
  <2>1. Tagged(h1, A \ (U \ {b}), z, 1) /\ \A x \in A : next(h1, x) \in {NULL, JUNK}
    BY <1>12 DEF Laid, Tagged
  <2>2. F \cap (U \cup {b}) \subseteq U \ {b}
    OBVIOUS
  <2> QED BY <1>1, <1>12, <2>1, <2>2, LaidTags
<1>14. next(h1, b) = NULL /\ padded(h1.mem[b]) = 0 /\ Tagged(h1, {b}, z, 0)
  <2>1. /\ h1.mem[b + 8] = Zero /\ h1.mem[b] = t /\ h1.mem[b + s - 8] = h.mem[b + s - 8]
    BY <1>2, <1>10
  <2>2. block_size(t) = s /\ allocated(t) = 0 /\ padded(t) = 0
    BY ReadTag
  <2> HIDE DEF t
  <2> QED BY <2>1, <2>2, ReadOther DEF next, Tagged
<1>15. /\ Laid(g, S, z, wild, A, F \cup {b}, U \ {b})
       /\ SameRest(h1, g) /\ OnlyLinks(h1, g, F \cup {b})
  BY <1>13, <1>14, AppendLaid
<1> HIDE DEF g
<1>16. Kept(h, g, z, A)
  <2>1. Kept(h, h1, z, A)
    BY <1>1, <1>11, WritesKeep
  <2>2. Kept(h1, g, z, A)
    <3>1. F \cup {b} \in SUBSET S /\ A \cap (F \cup {b}) = {} /\ A \in SUBSET S /\ Tiles(S, z, h1.brk)
      BY <1>1, <1>9 DEF SameRest
    <3> QED BY <1>9, <1>15, <3>1, LinksKeep
  <2> QED BY <2>1, <2>2 DEF Kept
<1>17. SameRest(h, g)
  BY <1>9, <1>15 DEF SameRest
<1> QED BY <1>8, <1>15, <1>16, <1>17

\* How a call may end: for want of memory, by a wild link, or with the wrong node.
Died(g, wild) ==
    g \in Heaps /\ Stopped(g) /\ g.damaged # "cut" /\ (g.faulted => wild \/ g.errno = "ENOMEM")

\* The two ways a call dies.
LEMMA DiedIs ==
    ASSUME NEW h \in Heaps, NEW wild, ~Stopped(h)
    PROVE  /\ Died(Damage(h, "node"), wild) /\ (wild => Died(Fault(h), wild))
           /\ Fault(h) \in Heaps /\ Damage(h, "node") \in Heaps /\ Stopped(Fault(h)) /\ Stopped(Damage(h, "node"))
BY DEF Died, Damage, Fault, Stopped, Heaps, Damages

\* Two words written.
Put2(h, a, v, c, w) == SetHeap(h, Put(Put(h.mem, a, v), c, w), h.head)

\* Writing a header and a footer.
LEMMA Put2Is ==
    ASSUME NEW h \in Heaps, NEW a \in Words, NEW c \in Words, NEW v \in Word, NEW w \in Word
    PROVE  /\ Put2(h, a, v, c, w) \in Heaps /\ SameRest(h, Put2(h, a, v, c, w))
           /\ Put2(h, a, v, c, w).head = h.head
           /\ \A x \in Words : Put2(h, a, v, c, w).mem[x] = IF x = c THEN w ELSE IF x = a THEN v ELSE h.mem[x]
<1> DEFINE m1 == Put(h.mem, a, v)
           m2 == Put(m1, c, w)
<1>1. h.mem \in Mems /\ h.head \in Heads
  BY HeapFields
<1>2. m1 \in Mems
  BY <1>1, PutIs
<1>3. \A x \in Words : m1[x] = IF x = a THEN v ELSE h.mem[x]
  BY <1>1, PutAt
<1> HIDE DEF m1
<1>4. m2 \in Mems
  BY <1>2, PutIs
<1>5. \A x \in Words : m2[x] = IF x = c THEN w ELSE m1[x]
  BY <1>2, PutAt
<1> HIDE DEF m2
<1>6. Put2(h, a, v, c, w) = SetHeap(h, m2, h.head)
  BY DEF Put2, m1, m2
<1>7. /\ SetHeap(h, m2, h.head) \in Heaps /\ SameRest(h, SetHeap(h, m2, h.head))
      /\ SetHeap(h, m2, h.head).mem = m2 /\ SetHeap(h, m2, h.head).head = h.head
  BY <1>1, <1>4, SetHeapIs
<1> QED BY <1>3, <1>5, <1>6, <1>7

\* The same, for places where the words of a heap are one fact among many.
Written2(h, g, a, v, c, w) ==
    /\ g \in Heaps /\ SameRest(h, g) /\ g.head = h.head
    /\ \A x \in Words : g.mem[x] = IF x = c THEN w ELSE IF x = a THEN v ELSE h.mem[x]

\* Two writes are those two words.
LEMMA Put2Writes ==
    ASSUME NEW h \in Heaps, NEW a \in Words, NEW c \in Words, NEW v \in Word, NEW w \in Word
    PROVE  Written2(h, Put2(h, a, v, c, w), a, v, c, w)
BY Put2Is DEF Written2

\* Two words written into blocks that may be.
LEMMA Put2Laid ==
    ASSUME NEW h, NEW S, NEW z, NEW wild, NEW A, NEW F, NEW U, Laid(h, S, z, wild, A, F, U),
           NEW a \in Words, NEW c \in Words, NEW v \in Word, NEW w \in Word,
           NEW b \in S, NEW d \in S, b <= a, a < b + z[b], d <= c, c < d + z[d],
           a # b + 8, a # b + 16, c # d + 8, c # d + 16
    PROVE  Laid(Put2(h, a, v, c, w), S, z, wild, A, F, U \cup {b, d})
<1> DEFINE g == Put2(h, a, v, c, w)
<1>1. h \in Heaps
  BY DEF Laid
<1>2. /\ g \in Heaps /\ SameRest(h, g) /\ g.head = h.head
      /\ \A x \in Words : g.mem[x] = IF x = c THEN w ELSE IF x = a THEN v ELSE h.mem[x]
  BY <1>1, Put2Is
<1> HIDE DEF g
<1>3. \A x \in Words :
              \/ g.mem[x] = h.mem[x]
              \/ \E y \in S : /\ y <= x /\ x < y + z[y]
                              /\ y \in U \cup {b, d} \/ (x # y /\ x # y + z[y] - 8)
                              /\ y \in F => x # y + 8 /\ x # y + 16
                              /\ y \in A /\ x = y + 8 => AsPointer(g.mem[x]) \in {NULL, JUNK}
  <2> SUFFICES ASSUME NEW x \in Words, x = a \/ x = c
               PROVE  \E y \in S : /\ y <= x /\ x < y + z[y]
                                   /\ y \in U \cup {b, d} \/ (x # y /\ x # y + z[y] - 8)
                                   /\ y \in F => x # y + 8 /\ x # y + 16
                                   /\ y \in A /\ x = y + 8 => AsPointer(g.mem[x]) \in {NULL, JUNK}
    BY <1>2
  <2>1. CASE x = a
    BY <2>1
  <2>2. CASE x = c
    BY <2>2
  <2> QED BY <2>1, <2>2
<1>4. g.brk = h.brk /\ U \subseteq U \cup {b, d}
  BY <1>2 DEF SameRest
<1>5. Laid(g, S, z, wild, A, F, U \cup {b, d})
  <2> PICK V : V = U \cup {b, d}
    OBVIOUS
  <2>1. U \subseteq V /\ \A x \in Words :
              \/ g.mem[x] = h.mem[x]
              \/ \E y \in S : /\ y <= x /\ x < y + z[y]
                              /\ y \in V \/ (x # y /\ x # y + z[y] - 8)
                              /\ y \in F => x # y + 8 /\ x # y + 16
                              /\ y \in A /\ x = y + 8 => AsPointer(g.mem[x]) \in {NULL, JUNK}
    BY <1>3
  <2>2. Laid(g, S, z, wild, A, F, V)
    BY <1>2, <1>4, <2>1, LaidFrame
  <2> QED BY <2>2
<1> QED BY <1>5 DEF g

\* A block and the free block behind it become one free block.
LEMMA MergeLaid ==
    ASSUME NEW h, NEW S, NEW z, NEW wild, NEW A, NEW F, NEW U, Laid(h, S, z, wild, A, F, U),
           ~Stopped(h), NEW b \in S, b \notin A, b \notin F, b \in U,
           NEW c \in F, c \notin U, c = b + z[b]
    PROVE  LET g == Merge(h, b, c)
           IN \/ Died(g, wild)
              \/ /\ Laid(g, S \ {c}, MergeSizes(S, z, b, c), wild, A, (F \ {c}) \cup {b}, U \ {b})
                 /\ SameRest(h, g) /\ Kept(h, g, z, A)
<1> DEFINE s == z[b] + z[c]
           foot == c + z[c] - 8
           v == WithSize(h.mem[b], s)
           w == WithSize(h.mem[foot], s)
           h1 == Put2(h, b, v, foot, w)
           T == S \ {c}
           y == MergeSizes(S, z, b, c)
           r == Remove(h1, c)
           g == AddFree(r, b, s)
<1>1. h \in Heaps /\ Tiles(S, z, h.brk) /\ A \subseteq S /\ F \subseteq S /\ A \cap F = {} /\ c \in S /\ c # b
  BY DEF Laid
<1>2. /\ b \in Nat /\ z[b] \in Nat /\ z[b] >= 32 /\ b \in Words
      /\ c \in Nat /\ z[c] \in Nat /\ z[c] >= 32 /\ foot \in Words
      /\ z[b] \in Size16 /\ z[c] \in Size16
  BY <1>1, BlockWords
<1>3. /\ foot # b /\ c <= foot /\ foot < c + z[c] /\ foot # c + 8 /\ foot # c + 16
      /\ b <= b /\ b < b + z[b] /\ b # b + 8 /\ b # b + 16
      /\ s \in Size16 /\ (c - b) + z[c] = s
  BY <1>2 DEF Size16
<1>4. h.mem \in Mems /\ h.head \in Heads /\ h.brk \in Nat /\ h.brk <= ArenaEnd /\ h.mem[b] \in Word /\ h.mem[foot] \in Word
  BY <1>1, <1>2, HeapFields DEF Mems
<1>5. /\ block_size(h.mem[c]) = z[c]
      /\ block_size(h.mem[foot]) = z[c] /\ allocated(h.mem[foot]) = 0
  BY DEF Laid, Tagged
<1>6. v \in Word /\ w \in Word /\ block_size(w) = s /\ allocated(w) = 0
  <2>1. \A x \in Word : /\ WithSize(x, s) = Tag(allocated(x), padded(x), s, requested_size(x))
                        /\ allocated(x) \in {0, 1} /\ padded(x) \in {0, 1} /\ requested_size(x) \in Nat
    BY WithSizeIs, ReadWord
  <2> HIDE DEF s, foot
  <2> QED BY <1>3, <1>4, <1>5, <2>1, WordIs, ReadTag
<1>7. Merge(h, b, c) = g
  <2>1. FooterOf(h, c) = foot /\ (c - b) + SizeAt(h, c) = s
    BY <1>3, <1>5 DEF FooterOf, SizeAt
  <2>2. [h EXCEPT !.mem[b] = WithSize(@, s), !.mem[foot] = WithSize(@, s)] = h1
    <3> HIDE DEF s, foot
    <3> QED BY <1>1, <1>2, <1>3 DEF Put2, SetHeap, Heaps, Put, Mems, Heads
  <2> HIDE DEF s, foot, h1
  <2> QED BY <2>1, <2>2 DEF Merge
<1>8. /\ h1 \in Heaps /\ SameRest(h, h1)
      /\ \A x \in Words : h1.mem[x] = IF x = foot THEN w ELSE IF x = b THEN v ELSE h.mem[x]
  <2> HIDE DEF foot, v, w
  <2> QED BY <1>1, <1>2, <1>6, Put2Is
<1>9. Laid(h1, S, z, wild, A, F, U \cup {c})
  <2>1. U \cup {b, c} = U \cup {c}
    OBVIOUS
  <2>2. Laid(h1, S, z, wild, A, F, U \cup {b, c})
    <3> HIDE DEF foot, v, w
    <3> QED BY <1>1, <1>2, <1>3, <1>6, Put2Laid
  <2> QED BY <2>1, <2>2
<1> HIDE DEF h1, v, w
<1>10. ~Stopped(h1)
  BY <1>8 DEF SameRest, Stopped
<1>11. \/ r = Fault(h1) /\ wild
       \/ r = Damage(h1, "node")
       \/ TakenOut(h1, r, S, z, wild, A, F, U \cup {c}, c)
  BY <1>9, RemoveLaid
<1> HIDE DEF r
<1>12. CASE (r = Fault(h1) /\ wild) \/ r = Damage(h1, "node")
  <2>1. Died(r, wild)
    BY <1>8, <1>10, <1>12, DiedIs
  <2>2. g = r
    BY <2>1 DEF Died, AddFree
  <2> QED BY <1>7, <2>1, <2>2
<1>13. CASE TakenOut(h1, r, S, z, wild, A, F, U \cup {c}, c)
  <2>1. Laid(r, S, z, wild, A, F \ {c}, U \cup {c}) /\ SameRest(h1, r) /\ OnlyLinks(h1, r, F)
    BY <1>13 DEF TakenOut
  <2>2. r \in Heaps /\ r.brk = h.brk /\ ~Stopped(r)
    BY <1>8, <1>10, <2>1 DEF Laid, SameRest, Stopped
  <2>3. Tiles(T, y, h.brk)
    BY <1>1, <1>4, MergeTiles
  <2>4. \A x \in T : y[x] = IF x = b THEN s ELSE z[x]
    BY DEF MergeSizes
  <2>5. b \in T /\ y[b] = s
    BY <1>1, <2>4
  <2> HIDE DEF y
  <2>6. Laid(r, T, y, wild, A, F \ {c}, U \cup {c})
    <3>1. r.brk >= r.brk /\ A \subseteq T /\ F \ {c} \subseteq T
      BY <1>1, <1>4, <2>2
    <3>2. \A x \in A \cup (F \ {c}) : x \notin U \cup {c} => y[x] = z[x]
      BY <1>1, <2>4
    <3> HIDE DEF T
    <3> QED BY <2>1, <2>2, <2>3, <3>1, <3>2, LaidRetile
  <2>7. block_size(r.mem[b + y[b] - 8]) = y[b] /\ allocated(r.mem[b + y[b] - 8]) = 0
    <3>1. b + y[b] - 8 = foot
      BY <1>2, <2>5
    <3>2. ASSUME NEW x \in F PROVE foot # x + 8 /\ foot # x + 16
      <4>1. x \in S
        BY <1>1
      <4>2. \A k \in S : k + z[k] - 8 # x + 8 /\ k + z[k] - 8 # x + 16
        BY <1>1, <4>1, LinksApart
      <4> QED BY <1>1, <4>2
    <3>3. r.mem[foot] = w
      BY <1>2, <1>8, <2>1, <3>2 DEF OnlyLinks
    <3> QED BY <1>6, <2>5, <3>1, <3>3
  <2>8. /\ Laid(g, T, y, wild, A, (F \ {c}) \cup {b}, (U \cup {c}) \ {b})
        /\ SameRest(r, g) /\ Kept(r, g, y, A)
    <3>1. b \notin F \ {c}
      OBVIOUS
    <3> HIDE DEF T
    <3>2. LET k == AddFree(r, b, y[b])
          IN /\ Laid(k, T, y, wild, A, (F \ {c}) \cup {b}, (U \cup {c}) \ {b})
             /\ SameRest(r, k) /\ Kept(r, k, y, A)
      BY <2>2, <2>5, <2>6, <2>7, <3>1, AddFreeLaid
    <3> QED BY <2>5, <3>2
  <2> HIDE DEF g
  <2>9. Laid(g, T, y, wild, A, (F \ {c}) \cup {b}, U \ {b})
    <3>1. ((F \ {c}) \cup {b}) \cap ((U \cup {c}) \ {b}) \subseteq U \ {b}
      BY <1>1
    <3>2. A \subseteq T /\ A \cap ((F \ {c}) \cup {b}) = {}
      BY <1>1
    <3>3. Tagged(g, A \ (U \ {b}), y, 1) /\ \A x \in A : next(g, x) \in {NULL, JUNK}
      BY <1>1, <2>8 DEF Laid, Tagged
    <3> HIDE DEF T
    <3> QED BY <2>8, <3>1, <3>2, <3>3, LaidTags
  <2>10. Kept(h, g, z, A)
    <3>1. Kept(h1, r, z, A)
      <4>1. F \in SUBSET S /\ A \in SUBSET S /\ h1.brk = h.brk
        BY <1>1, <1>8 DEF SameRest
      <4> QED BY <1>1, <1>8, <2>1, <4>1, LinksKeep
    <3>2. Kept(h, h1, z, A)
      <4> SUFFICES ASSUME NEW x \in A, NEW a \in Words, x <= a, a < x + z[x], a = b \/ a = foot
                   PROVE  FALSE
        BY <1>8 DEF Kept
      <4>1. x \in S /\ a \in Nat /\ x # b /\ x # c
        BY <1>1, WordsAre
      <4>2. a = b => x = b
        BY <1>1, <1>3, <1>4, <4>1, OneBlock
      <4>3. a = foot => x = c
        BY <1>1, <1>3, <1>4, <4>1, OneBlock
      <4> QED BY <4>1, <4>2, <4>3
    <3>3. \A x \in A : y[x] = z[x]
      BY <1>1, <2>4
    <3> QED BY <2>8, <3>1, <3>2, <3>3 DEF Kept
  <2>11. SameRest(h, g)
    BY <1>8, <2>1, <2>8 DEF SameRest
  <2> QED BY <1>7, <2>9, <2>10, <2>11 DEF y
<1> QED BY <1>11, <1>12, <1>13

\* A heap between two calls, whose allocated blocks are A.
Sound(h, S, z, wild, A) == Laid(h, S, z, wild, A, S \ A, {}) /\ ~Stopped(h)

\* g is sound, and its allocated blocks are those of h, with what is in them.
After(h, g, z, wild, A) ==
    \E T, y : /\ Sound(g, T, y, wild, A) /\ A \subseteq T
              /\ \A x \in A : y[x] = z[x]
              /\ Kept(h, g, z, A)

Grown(h) == [h EXCEPT !.brk = @ + PAGE_SZ]

\* The heap after sf_sbrk has moved its break.
LEMMA GrownIs ==
    ASSUME NEW h \in Heaps, h.brk # ArenaEnd
    PROVE  /\ Grown(h) \in Heaps /\ Grown(h).brk = h.brk + PAGE_SZ /\ Grown(h).mem = h.mem
           /\ Grown(h).head = h.head /\ Grown(h).errno = h.errno
           /\ Grown(h).faulted = h.faulted /\ Grown(h).damaged = h.damaged
           /\ h.brk + PAGE_SZ <= ArenaEnd /\ PAGE_SZ \in Size16 /\ PAGE_SZ >= 32 /\ PAGE_SZ \in Nat
           /\ h.brk \in Words /\ h.brk + PAGE_SZ - 8 \in Words
<1>1. h.brk + PAGE_SZ \in Breaks /\ h.brk + PAGE_SZ <= ArenaEnd /\ h.brk \in Nat /\ h.brk % 16 = 8
  BY HeapFields, BreaksAre
<1>2. PAGE_SZ \in Nat /\ PAGE_SZ % 16 = 0 /\ PAGE_SZ >= 32 /\ ArenaEnd \in Nat
  BY PagesAssumption, ArenaIs
<1>3. h.brk % 8 = 0 /\ (h.brk + PAGE_SZ - 8) % 8 = 0 /\ h.brk <= ArenaEnd
      /\ h.brk + PAGE_SZ - 8 \in Nat /\ h.brk + PAGE_SZ - 8 <= ArenaEnd
  BY <1>1, <1>2
<1>4. h.brk \in Words /\ h.brk + PAGE_SZ - 8 \in Words
  BY <1>1, <1>3, WordsAre
<1> QED BY <1>1, <1>2, <1>4 DEF Grown, Heaps, Size16

\* One more page, for a heap whose last block is free: that block grows.
LEMMA GrowLast ==
    ASSUME NEW h, NEW S, NEW z, NEW wild, NEW A, Sound(h, S, z, wild, A), h.brk # ArenaEnd,
           NEW b \in S, b \notin A, b + z[b] = h.brk
    PROVE  LET s == z[b] + PAGE_SZ
               foot == h.brk + PAGE_SZ - 8
               h1 == Put2(Grown(h), b, WithSize(h.mem[b], s), foot, WithSize(h.mem[foot], s))
               g == AddFree(Remove(h1, b), b, s)
           IN \/ Died(g, wild)
              \/ g.brk = h.brk + PAGE_SZ /\ After(h, g, z, wild, A)
<1> DEFINE s == z[b] + PAGE_SZ
           foot == h.brk + PAGE_SZ - 8
           v == WithSize(h.mem[b], s)
           w == WithSize(h.mem[foot], s)
           h0 == Grown(h)
           h1 == Put2(h0, b, v, foot, w)
           r == Remove(h1, b)
           g == AddFree(r, b, s)
           F == S \ A
           y == [z EXCEPT ![b] = @ + PAGE_SZ]
<1>1. /\ Laid(h, S, z, wild, A, F, {}) /\ ~Stopped(h)
      /\ h \in Heaps /\ Tiles(S, z, h.brk) /\ A \subseteq S /\ F \subseteq S /\ A \cap F = {} /\ b \in F
  BY DEF Laid, Sound
<1>2. /\ h0 \in Heaps /\ h0.brk = h.brk + PAGE_SZ /\ h0.mem = h.mem /\ h0.head = h.head
      /\ h0.errno = h.errno /\ h0.faulted = h.faulted /\ h0.damaged = h.damaged
      /\ h.brk + PAGE_SZ <= ArenaEnd /\ PAGE_SZ \in Size16 /\ PAGE_SZ >= 32 /\ PAGE_SZ \in Nat
      /\ foot \in Words
  BY <1>1, GrownIs
<1> HIDE DEF h0
<1>3. /\ b \in Nat /\ z[b] \in Nat /\ z[b] >= 32 /\ b \in Words /\ z[b] \in Size16
      /\ h.brk \in Nat /\ h.brk <= ArenaEnd /\ ArenaEnd \in Nat /\ h.mem \in Mems
  BY <1>1, BlockWords, HeapFields
<1>4. /\ s \in Size16 /\ foot = b + s - 8 /\ foot # b /\ foot # b + 8 /\ foot # b + 16
      /\ b <= foot /\ foot < b + s /\ b < b + s /\ b # b + 8 /\ b # b + 16 /\ h.brk <= foot /\ foot < ArenaEnd
  <2> PICK q, p, k : q = h.brk /\ p = PAGE_SZ /\ k = z[b]
    OBVIOUS
  <2>1. /\ k + p \in Size16
        /\ q \in Nat /\ p \in Nat /\ k \in Nat /\ b \in Nat /\ ArenaEnd \in Nat
        /\ k >= 32 /\ p >= 32 /\ q + p <= ArenaEnd /\ b + k = q
    BY <1>2, <1>3 DEF Size16
  <2>2. /\ q + p - 8 = b + (k + p) - 8 /\ q + p - 8 # b /\ q + p - 8 # b + 8 /\ q + p - 8 # b + 16
        /\ b <= q + p - 8 /\ q + p - 8 < b + (k + p) /\ b < b + (k + p) /\ b # b + 8 /\ b # b + 16
        /\ q <= q + p - 8 /\ q + p - 8 < ArenaEnd
    BY <2>1
  <2> QED BY <2>1, <2>2
<1>5. Tiles(S, y, h.brk + PAGE_SZ)
  BY <1>1, <1>2, <1>3, ExtendTiles
<1>6. y[b] = s /\ \A x \in S : x # b => y[x] = z[x]
  BY <1>1 DEF Tiles
<1> HIDE DEF y
<1>7. Laid(h, S, z, wild, A, F, {b})
  <2>1. F \cap {} \subseteq {b} /\ Tagged(h, A \ {b}, z, 1) /\ \A x \in A : next(h, x) \in {NULL, JUNK}
    BY <1>1 DEF Laid, Tagged
  <2> HIDE DEF F
  <2> QED BY <1>1, <2>1, LaidTags
<1>8. Laid(h0, S, y, wild, A, F, {b})
  <2>1. h0.brk >= h.brk
    BY <1>2, <1>3
  <2> HIDE DEF F
  <2> QED BY <1>1, <1>2, <1>5, <1>6, <1>7, <2>1, LaidRetile
<1>9. v \in Word /\ w \in Word /\ block_size(w) = s /\ allocated(w) = 0
  <2>1. h.mem[b] \in Word /\ h.mem[foot] = Zero
    BY <1>1, <1>2, <1>3, <1>4 DEF Mems, Laid, Edges
  <2>2. \A x \in Word : /\ WithSize(x, s) = Tag(allocated(x), padded(x), s, requested_size(x))
                        /\ allocated(x) \in {0, 1} /\ padded(x) \in {0, 1} /\ requested_size(x) \in Nat
    BY WithSizeIs, ReadWord
  <2> HIDE DEF s, foot
  <2> QED BY <1>4, <2>1, <2>2, WordIs, ReadTag, ReadOther
<1>10. /\ h1 \in Heaps /\ SameRest(h0, h1)
       /\ \A x \in Words : h1.mem[x] = IF x = foot THEN w ELSE IF x = b THEN v ELSE h.mem[x]
  <2> HIDE DEF foot, v, w
  <2>1. h0 \in Heaps /\ b \in Words /\ foot \in Words /\ v \in Word /\ w \in Word
    BY <1>2, <1>3, <1>9
  <2>2. h1 \in Heaps /\ SameRest(h0, h1)
    BY <2>1, Put2Is
  <2>3. \A x \in Words : h1.mem[x] = IF x = foot THEN w ELSE IF x = b THEN v ELSE h0.mem[x]
    BY <2>1, Put2Is
  <2> QED BY <1>2, <2>2, <2>3
<1>11. Laid(h1, S, y, wild, A, F, {b})
  <2>1. {b} \cup {b, b} = {b}
    OBVIOUS
  <2>2. Laid(h1, S, y, wild, A, F, {b} \cup {b, b})
    <3>1. b <= b /\ b < b + y[b] /\ b <= foot /\ foot < b + y[b]
      BY <1>3, <1>4, <1>6
    <3> HIDE DEF foot, v, w, F
    <3> QED BY <1>1, <1>2, <1>3, <1>4, <1>8, <1>9, <3>1, Put2Laid
  <2> QED BY <2>1, <2>2
<1> HIDE DEF h1, v, w
<1>12. ~Stopped(h1) /\ h1.brk = h.brk + PAGE_SZ
  BY <1>1, <1>2, <1>10 DEF SameRest, Stopped
<1>13. \/ r = Fault(h1) /\ wild
       \/ r = Damage(h1, "node")
       \/ TakenOut(h1, r, S, y, wild, A, F, {b}, b)
  <2> HIDE DEF F
  <2> QED BY <1>1, <1>11, RemoveLaid
<1> HIDE DEF r
<1>14. CASE (r = Fault(h1) /\ wild) \/ r = Damage(h1, "node")
  <2>1. Died(r, wild)
    BY <1>10, <1>12, <1>14, DiedIs
  <2>2. g = r
    BY <2>1 DEF Died, AddFree
  <2> QED BY <2>1, <2>2 DEF h1, v, w, r, h0
<1>15. CASE TakenOut(h1, r, S, y, wild, A, F, {b}, b)
  <2>1. Laid(r, S, y, wild, A, F \ {b}, {b}) /\ SameRest(h1, r) /\ OnlyLinks(h1, r, F)
    BY <1>15 DEF TakenOut
  <2>2. ~Stopped(r) /\ r.brk = h.brk + PAGE_SZ
    BY <1>12, <2>1 DEF SameRest, Stopped
  <2>3. block_size(r.mem[b + y[b] - 8]) = y[b] /\ allocated(r.mem[b + y[b] - 8]) = 0
    <3>1. ASSUME NEW x \in F PROVE foot # x + 8 /\ foot # x + 16
      <4>1. \A k \in S : k + y[k] - 8 # x + 8 /\ k + y[k] - 8 # x + 16
        BY <1>1, <1>5, <1>10, <1>12, LinksApart
      <4> QED BY <1>4, <1>6, <4>1
    <3>2. r.mem[foot] = w
      BY <1>2, <1>10, <2>1, <3>1 DEF OnlyLinks
    <3> QED BY <1>4, <1>6, <1>9, <3>2
  <2>4. /\ Laid(g, S, y, wild, A, (F \ {b}) \cup {b}, {b} \ {b})
        /\ SameRest(r, g) /\ Kept(r, g, y, A)
    <3>1. b \notin F \ {b}
      OBVIOUS
    <3> HIDE DEF F
    <3>2. LET k == AddFree(r, b, y[b])
          IN /\ Laid(k, S, y, wild, A, (F \ {b}) \cup {b}, {b} \ {b})
             /\ SameRest(r, k) /\ Kept(r, k, y, A)
      BY <2>1, <2>2, <2>3, <3>1, AddFreeLaid
    <3> QED BY <1>6, <3>2
  <2> HIDE DEF g
  <2>5. (F \ {b}) \cup {b} = S \ A /\ {b} \ {b} = {}
    BY <1>1
  <2>6. Sound(g, S, y, wild, A)
    BY <2>2, <2>4, <2>5 DEF Sound, SameRest, Stopped
  <2>7. \A x \in A : y[x] = z[x]
    BY <1>1, <1>6
  <2>8. Kept(h, g, z, A)
    <3>1. Kept(h1, r, y, A)
      <4>1. F \in SUBSET S /\ A \in SUBSET S
        BY <1>1
      <4> HIDE DEF F
      <4> QED BY <1>1, <1>5, <1>10, <1>12, <2>1, <4>1, LinksKeep
    <3>2. Kept(h0, h1, y, A)
      <4>1. A \in SUBSET S
        BY <1>1
      <4>2. \A a \in Words : h1.mem[a] = h0.mem[a] \/ (b <= a /\ a < b + y[b])
        BY <1>2, <1>3, <1>4, <1>6, <1>10
      <4> QED BY <1>2, <1>5, <4>1, <4>2, WritesKeep
    <3> QED BY <1>2, <2>4, <2>7, <3>1, <3>2 DEF Kept
  <2>9. g.brk = h.brk + PAGE_SZ
    BY <2>2, <2>4 DEF SameRest
  <2>10. After(h, g, z, wild, A)
    BY <1>1, <2>6, <2>7, <2>8 DEF After
  <2> QED BY <2>9, <2>10 DEF g, h1, v, w, r, h0
<1> QED BY <1>13, <1>14, <1>15

\* One more page as a block of its own.
LEMMA GrowNew ==
    ASSUME NEW h, NEW S, NEW z, NEW wild, NEW A, Sound(h, S, z, wild, A), h.brk # ArenaEnd, NEW q \in Nat
    PROVE  LET foot == h.brk + PAGE_SZ - 8
               h1 == Put2(Grown(h), h.brk, Tag(0, 0, PAGE_SZ, 0), foot, Tag(0, 0, PAGE_SZ, q))
               g == append(h1, get_list_index(PAGE_SZ), h.brk)
           IN g.brk = h.brk + PAGE_SZ /\ After(h, g, z, wild, A)
<1> DEFINE foot == h.brk + PAGE_SZ - 8
           v == Tag(0, 0, PAGE_SZ, 0)
           w == Tag(0, 0, PAGE_SZ, q)
           h0 == Grown(h)
           h1 == Put2(h0, h.brk, v, foot, w)
           g == append(h1, get_list_index(PAGE_SZ), h.brk)
           F == S \ A
           T == S \cup {h.brk}
           y == GrowSizes(S, z, h.brk, PAGE_SZ)
<1> PICK b : b = h.brk
  OBVIOUS
<1>1. /\ Laid(h, S, z, wild, A, F, {}) /\ ~Stopped(h)
      /\ h \in Heaps /\ Tiles(S, z, h.brk) /\ A \subseteq S /\ F \subseteq S /\ A \cap F = {}
  BY DEF Laid, Sound
<1>2. /\ h0 \in Heaps /\ h0.brk = b + PAGE_SZ /\ h0.mem = h.mem /\ h0.head = h.head
      /\ h0.errno = h.errno /\ h0.faulted = h.faulted /\ h0.damaged = h.damaged
      /\ b + PAGE_SZ <= ArenaEnd /\ PAGE_SZ \in Size16 /\ PAGE_SZ >= 32 /\ PAGE_SZ \in Nat
      /\ foot \in Words /\ b \in Words
  BY <1>1, GrownIs
<1> HIDE DEF h0
<1>3. b \in Nat /\ heap_start <= b /\ b <= ArenaEnd /\ ArenaEnd \in Nat /\ h.mem \in Mems
  BY <1>1, HeapFields
<1>4. /\ foot = b + PAGE_SZ - 8 /\ foot # b /\ foot # b + 8 /\ foot # b + 16
      /\ b <= foot /\ foot < b + PAGE_SZ /\ b < b + PAGE_SZ /\ b # b + 8 /\ b # b + 16
      /\ b + 8 \in Nat /\ b <= b + 8 /\ b + 8 < ArenaEnd
  <2> PICK p : p = PAGE_SZ
    OBVIOUS
  <2> QED BY <1>2, <1>3
<1>5. Tiles(T, y, b + PAGE_SZ) /\ b \notin S
  BY <1>1, <1>2, <1>3, GrowTiles
<1>6. b \in T /\ y[b] = PAGE_SZ /\ \A x \in S : y[x] = z[x]
  BY <1>5 DEF GrowSizes
<1> HIDE DEF y
<1>7. Laid(h0, T, y, wild, A, F, {})
  <2>1. h0.brk >= h.brk /\ A \subseteq T /\ F \subseteq T /\ \A x \in A \cup F : x \notin {} => y[x] = z[x]
    BY <1>1, <1>2, <1>3, <1>6
  <2> HIDE DEF F, T
  <2> QED BY <1>1, <1>2, <1>5, <2>1, LaidRetile
<1>8. v \in Word /\ w \in Word
  BY <1>2, WordIs
<1>9. /\ h1 \in Heaps /\ SameRest(h0, h1)
      /\ \A x \in Words : h1.mem[x] = IF x = foot THEN w ELSE IF x = b THEN v ELSE h.mem[x]
  <2> HIDE DEF foot, v, w
  <2>1. h0 \in Heaps /\ b \in Words /\ foot \in Words /\ v \in Word /\ w \in Word
    BY <1>2, <1>8
  <2>2. Written2(h0, h1, b, v, foot, w)
    BY <2>1, Put2Writes
  <2> HIDE DEF h1
  <2> QED BY <1>2, <2>2 DEF Written2
<1>10. Laid(h1, T, y, wild, A, F, {b})
  <2>1. {} \cup {b, b} = {b}
    OBVIOUS
  <2>2. Laid(h1, T, y, wild, A, F, {} \cup {b, b})
    <3>1. b <= b /\ b < b + y[b] /\ b <= foot /\ foot < b + y[b]
      BY <1>3, <1>4, <1>6
    <3> HIDE DEF foot, v, w, F, T
    <3> QED BY <1>2, <1>4, <1>6, <1>7, <1>8, <3>1, Put2Laid
  <2> QED BY <2>1, <2>2
<1>11. /\ next(h1, b) = NULL /\ padded(h1.mem[b]) = 0 /\ Tagged(h1, {b}, y, 0)
  <2>1. b + 8 \in Words
    <3>1. (b + 8) % 8 = 0
      BY <1>2, <1>3, WordsAre
    <3>2. b + 8 \in Nat /\ b + 8 <= ArenaEnd
      BY <1>3, <1>4
    <3> QED BY <3>1, <3>2, WordsAre
  <2>2. h.mem[b + 8] = Zero
    BY <1>1, <1>4, <2>1 DEF Laid, Edges
  <2>3. h1.mem[b + 8] = Zero /\ h1.mem[b] = v /\ h1.mem[foot] = w
    BY <1>2, <1>4, <1>9, <2>1, <2>2
  <2>4. b + y[b] - 8 = foot
    BY <1>4, <1>6
  <2>5. /\ block_size(v) = PAGE_SZ /\ allocated(v) = 0 /\ padded(v) = 0
        /\ block_size(w) = PAGE_SZ /\ allocated(w) = 0
    BY ReadTag
  <2> HIDE DEF v, w, h1, foot
  <2> QED BY <1>6, <2>3, <2>4, <2>5, ReadOther DEF next, Tagged
<1> HIDE DEF h1, v, w
<1>12. Laid(h1, T, y, wild, A, F, {})
  <2>1. F \cap {b} \subseteq {} /\ A \subseteq T
    BY <1>1, <1>5
  <2>2. Tagged(h1, A \ {}, y, 1) /\ \A x \in A : next(h1, x) \in {NULL, JUNK}
    BY <1>1, <1>5, <1>10 DEF Laid, Tagged
  <2> HIDE DEF F, T
  <2> QED BY <1>1, <1>10, <2>1, <2>2, LaidTags
<1>13. /\ Laid(g, T, y, wild, A, F \cup {b}, {})
       /\ SameRest(h1, g) /\ OnlyLinks(h1, g, F \cup {b})
  <2>1. b \notin A /\ b \notin F
    BY <1>1, <1>5
  <2> HIDE DEF F, T
  <2> QED BY <1>6, <1>11, <1>12, <2>1, AppendLaid
<1> HIDE DEF g
<1>14. F \cup {b} = T \ A
  BY <1>1, <1>5
<1>15. Sound(g, T, y, wild, A)
  BY <1>1, <1>2, <1>9, <1>13, <1>14 DEF Sound, SameRest, Stopped
<1>16. Kept(h, g, z, A)
  <2>1. Kept(h0, h1, y, A)
    <3>1. A \in SUBSET T /\ b \notin A
      BY <1>1, <1>5
    <3>2. \A a \in Words : h1.mem[a] = h0.mem[a] \/ (b <= a /\ a < b + y[b])
      BY <1>2, <1>3, <1>4, <1>6, <1>9
    <3> HIDE DEF T
    <3> QED BY <1>2, <1>5, <1>6, <3>1, <3>2, WritesKeep
  <2>2. Kept(h1, g, y, A)
    <3>1. A \in SUBSET T /\ F \cup {b} \in SUBSET T /\ A \cap (F \cup {b}) = {}
      BY <1>1, <1>5
    <3>2. h1.brk = b + PAGE_SZ
      BY <1>2, <1>9 DEF SameRest
    <3> HIDE DEF T, F
    <3> QED BY <1>5, <1>9, <1>13, <3>1, <3>2, LinksKeep
  <2>3. \A x \in A : y[x] = z[x]
    BY <1>1, <1>6
  <2> QED BY <1>2, <2>1, <2>2, <2>3 DEF Kept
<1>17. g.brk = h.brk + PAGE_SZ
  BY <1>2, <1>9, <1>13 DEF SameRest
<1>18. After(h, g, z, wild, A)
  <2>1. A \subseteq T /\ \A x \in A : y[x] = z[x]
    BY <1>1, <1>6
  <2> QED BY <1>15, <1>16, <2>1 DEF After
<1> QED BY <1>17, <1>18 DEF g, h1, v, w, h0

\* Another page leaves a sound heap with the same allocated blocks, or the call dies.
LEMMA MorePagesSound ==
    ASSUME NEW h, NEW S, NEW z, NEW wild, NEW A, Sound(h, S, z, wild, A)
    PROVE  LET g == MorePages(h)
           IN \/ Died(g, wild)
              \/ g.brk = h.brk + PAGE_SZ /\ h.brk # ArenaEnd /\ After(h, g, z, wild, A)
<1> DEFINE g == MorePages(h)
           last == h.mem[h.brk - 8]
           foot == h.brk + PAGE_SZ - 8
<1>1. /\ Laid(h, S, z, wild, A, S \ A, {}) /\ ~Stopped(h) /\ h \in Heaps /\ Tiles(S, z, h.brk) /\ A \subseteq S
  BY DEF Laid, Sound
<1>2. /\ h.brk \in Nat /\ heap_start <= h.brk /\ h.brk <= ArenaEnd /\ ArenaEnd \in Nat
      /\ h.mem \in Mems /\ h.head \in Heads
  BY <1>1, HeapFields
<1>3. CASE h.brk = ArenaEnd
  <2>1. g = Fault([h EXCEPT !.errno = "ENOMEM"])
    BY <1>2, <1>3 DEF MorePages
  <2>2. Died(g, wild)
    BY <1>1, <2>1 DEF Died, Fault, Stopped, Heaps, Errors
  <2> QED BY <2>2
<1>4. CASE h.brk # ArenaEnd /\ allocated(last) = 0 /\ block_size(last) > 0
  <2>1. h.brk # heap_start
    <3> SUFFICES ASSUME h.brk = heap_start PROVE FALSE
      OBVIOUS
    <3>1. h.brk - 8 = 0 /\ 0 \in Words /\ 0 < heap_start
      BY <1>1, HeapFields DEF heap_start, NULL
    <3>2. last = Zero
      BY <1>1, <3>1 DEF Laid, Edges
    <3> QED BY <1>4, <3>2, ReadOther
  <2> PICK b \in S : b + z[b] = h.brk
    BY <1>1, <1>2, <2>1, LastTile
  <2>2. b \in Nat /\ z[b] \in Nat
    BY <1>1, BlockWords
  <2>3. last = h.mem[b + z[b] - 8]
    <3>1. h.brk - 8 = b + z[b] - 8
      BY <1>2, <2>2
    <3> QED BY <3>1
  <2>4. b \notin A /\ block_size(last) = z[b]
    <3>1. \A x \in A : allocated(h.mem[x + z[x] - 8]) = 1
      BY <1>1 DEF Laid, Tagged
    <3>2. b \notin A
      BY <1>4, <2>3, <3>1
    <3>3. \A x \in S \ A : block_size(h.mem[x + z[x] - 8]) = z[x]
      BY <1>1 DEF Laid, Tagged
    <3> QED BY <2>3, <3>2, <3>3
  <2> DEFINE s == z[b] + PAGE_SZ
             h1 == Put2(Grown(h), b, WithSize(h.mem[b], s), foot, WithSize(h.mem[foot], s))
  <2>5. h.brk - block_size(last) = b
    BY <1>2, <2>2, <2>4
  <2>6. foot # b /\ foot \in Words /\ b \in Words /\ h.brk < ArenaEnd
    <3>1. PAGE_SZ \in Nat /\ PAGE_SZ >= 32 /\ foot \in Words
      BY <1>1, <1>4, GrownIs
    <3>2. b \in Words /\ z[b] >= 32
      BY <1>1, BlockWords
    <3>3. b + z[b] + PAGE_SZ - 8 # b
      BY <2>2, <3>1, <3>2
    <3>4. h.brk < ArenaEnd
      BY <1>2, <1>4
    <3> QED BY <3>1, <3>2, <3>3, <3>4
  <2>7. [[h EXCEPT !.brk = @ + PAGE_SZ] EXCEPT !.mem[b] = WithSize(@, s), !.mem[foot] = WithSize(@, s)] = h1
    <3> HIDE DEF foot, s
    <3> QED BY <1>1, <2>6 DEF Put2, SetHeap, Grown, Heaps, Put, Mems, Heads
  <2>8. g = AddFree(Remove(h1, b), b, s)
    <3>1. h.brk # ArenaEnd /\ h.brk < ArenaEnd /\ allocated(last) = 0 /\ block_size(last) > 0
      BY <1>4, <2>6
    <3> HIDE DEF h1
    <3>2. MorePages(h) = LET gr == [h EXCEPT !.brk = @ + PAGE_SZ]
                             bb == h.brk - block_size(last)
                             ss == block_size(last) + PAGE_SZ
                             merged == [gr EXCEPT !.mem[bb] = WithSize(@, ss), !.mem[foot] = WithSize(@, ss)]
                         IN AddFree(Remove(merged, bb), bb, ss)
      BY <3>1 DEF MorePages
    <3> HIDE DEF last, foot
    <3> QED BY <2>4, <2>5, <2>7, <3>2
  <2>9. \/ Died(AddFree(Remove(h1, b), b, s), wild)
        \/ AddFree(Remove(h1, b), b, s).brk = h.brk + PAGE_SZ /\ After(h, AddFree(Remove(h1, b), b, s), z, wild, A)
    BY <1>4, <2>4, GrowLast
  <2> HIDE DEF h1, s, g
  <2> QED BY <1>4, <2>8, <2>9 DEF g
<1>5. CASE h.brk # ArenaEnd /\ ~(allocated(last) = 0 /\ block_size(last) > 0)
  <2> DEFINE q == requested_size(h.mem[foot])
             h1 == Put2(Grown(h), h.brk, Tag(0, 0, PAGE_SZ, 0), foot, Tag(0, 0, PAGE_SZ, q))
  <2>1. foot \in Words /\ foot # h.brk /\ h.brk \in Words
    <3>1. foot \in Words /\ h.brk \in Words /\ PAGE_SZ \in Nat /\ PAGE_SZ >= 32
      BY <1>1, <1>5, GrownIs
    <3> QED BY <1>2, <3>1
  <2>2. q \in Nat
    BY <1>2, <2>1, ReadWord DEF Mems
  <2>3. [[h EXCEPT !.brk = @ + PAGE_SZ] EXCEPT !.mem[h.brk] = Tag(0, 0, PAGE_SZ, 0),
                                       !.mem[foot] = Tag(0, 0, PAGE_SZ, requested_size(@))] = h1
    <3> HIDE DEF foot
    <3> QED BY <1>1, <2>1 DEF Put2, SetHeap, Grown, Heaps, Put, Mems, Heads
  <2>4. g = append(h1, get_list_index(PAGE_SZ), h.brk)
    <3> HIDE DEF h1
    <3>1. MorePages(h) = LET gr == [h EXCEPT !.brk = @ + PAGE_SZ]
                         IN append([gr EXCEPT !.mem[h.brk] = Tag(0, 0, PAGE_SZ, 0),
                                     !.mem[foot] = Tag(0, 0, PAGE_SZ, requested_size(@))],
                       get_list_index(PAGE_SZ), h.brk)
      BY <1>5 DEF MorePages
    <3> HIDE DEF foot
    <3> QED BY <2>3, <3>1
  <2>5. /\ append(h1, get_list_index(PAGE_SZ), h.brk).brk = h.brk + PAGE_SZ
        /\ After(h, append(h1, get_list_index(PAGE_SZ), h.brk), z, wild, A)
    <3> HIDE DEF q
    <3> QED BY <1>5, <2>2, GrowNew
  <2> HIDE DEF h1, g
  <2> QED BY <1>5, <2>4, <2>5 DEF g
<1> QED BY <1>3, <1>4, <1>5

\* A sound heap is what it was.
LEMMA AfterSelf ==
    ASSUME NEW h, NEW S, NEW z, NEW wild, NEW A, Sound(h, S, z, wild, A)
    PROVE  After(h, h, z, wild, A)
BY DEF After, Kept, Sound, Laid

\* After is transitive.
LEMMA AfterThen ==
    ASSUME NEW h, NEW g, NEW k, NEW z, NEW wild, NEW A, NEW T, NEW y, A \subseteq T,
           \A x \in A : y[x] = z[x], Kept(h, g, z, A), After(g, k, y, wild, A)
    PROVE  After(h, k, z, wild, A)
<1> PICK V, u : /\ Sound(k, V, u, wild, A) /\ A \subseteq V
                /\ \A x \in A : u[x] = y[x]
                /\ Kept(g, k, y, A)
  BY DEF After
<1>1. Kept(h, k, z, A)
  BY DEF Kept
<1> QED BY <1>1 DEF After

\* The loop of sf_malloc that adds pages.
RoomStep(g, s) == IF Stopped(g) \/ find_fit(g, s) # NotFound THEN g ELSE MorePages(g)
Roomy(n, h, g, s, z, wild, A) ==
    \/ Died(g, wild)
    \/ After(h, g, z, wild, A) /\ (find_fit(g, s) # NotFound \/ g.brk = h.brk + n * PAGE_SZ)

\* One more page if no free block fits.
LEMMA RoomStepIs ==
    ASSUME NEW n \in Nat, NEW h, NEW g, NEW s, NEW z, NEW wild, NEW A, Roomy(n, h, g, s, z, wild, A),
           h.brk \in Nat
    PROVE  Roomy(n + 1, h, RoomStep(g, s), s, z, wild, A)
<1>1. CASE Died(g, wild)
  BY <1>1 DEF Died, RoomStep, Roomy
<1>2. CASE After(h, g, z, wild, A) /\ find_fit(g, s) # NotFound
  BY <1>2 DEF RoomStep, Roomy
<1>3. CASE After(h, g, z, wild, A) /\ g.brk = h.brk + n * PAGE_SZ /\ find_fit(g, s) = NotFound
  <2> PICK T, y : /\ Sound(g, T, y, wild, A) /\ A \subseteq T
                  /\ \A x \in A : y[x] = z[x]
                  /\ Kept(h, g, z, A)
    BY <1>3 DEF After
  <2>1. RoomStep(g, s) = MorePages(g)
    BY <1>3 DEF RoomStep, Sound
  <2>2. \/ Died(MorePages(g), wild)
        \/ MorePages(g).brk = g.brk + PAGE_SZ /\ g.brk # ArenaEnd /\ After(g, MorePages(g), y, wild, A)
    BY MorePagesSound
  <2>3. (h.brk + n * PAGE_SZ) + PAGE_SZ = h.brk + (n + 1) * PAGE_SZ
    BY PagesAssumption
  <2>4. After(g, MorePages(g), y, wild, A) => After(h, MorePages(g), z, wild, A)
    BY AfterThen
  <2> QED BY <1>3, <2>1, <2>2, <2>3, <2>4 DEF Roomy
<1> QED BY <1>1, <1>2, <1>3 DEF Roomy

\* Every stage of the search for room is a heap.
LEMMA RoomyHeap ==
    ASSUME NEW n, NEW h, NEW g, NEW s, NEW z, NEW wild, NEW A, Roomy(n, h, g, s, z, wild, A)
    PROVE  g \in Heaps
BY DEF Roomy, Died, After, Sound, Laid

\* After the loop there is room, unless the process is dead.
LEMMA WithRoomSound ==
    ASSUME NEW h, NEW S, NEW z, NEW wild, NEW A, Sound(h, S, z, wild, A), NEW s
    PROVE  LET g == WithRoom(h, s)
           IN Died(g, wild) \/ (After(h, g, z, wild, A) /\ find_fit(g, s) # NotFound)
<1> DEFINE N == MaxPages + 1
           Step(r) == [n \in 0 .. N |-> IF n = 0 THEN h ELSE RoomStep(r[n - 1], s)]
           room == CHOOSE r : r = Step(r)
           P(n, g) == Roomy(n, h, g, s, z, wild, A)
<1>1. /\ h \in Heaps /\ h.brk \in Nat /\ heap_start <= h.brk /\ N \in Nat /\ MaxPages \in Nat
  BY HeapFields, PagesAssumption DEF Sound, Laid
<1>2. P(0, h)
  BY <1>1, AfterSelf, PagesAssumption DEF Roomy
<1>3. ASSUME NEW n \in Nat, NEW g, P(n, g) PROVE P(n + 1, RoomStep(g, s)) /\ g \in Heaps
  BY <1>1, <1>3, RoomStepIs, RoomyHeap
<1> HIDE DEF P, N
<1>4. \E r : r = Step(r)
  <2> DEFINE F == [g \in Heaps |-> IF RoomStep(g, s) \in Heaps THEN RoomStep(g, s) ELSE g]
  <2>1. F \in [Heaps -> Heaps]
    OBVIOUS
  <2> HIDE DEF F
  <2> PICK f \in [0 .. N -> Heaps] : Iterates(f, N, h, F)
    BY <1>1, <2>1, IterationExists
  <2> DEFINE good == {n \in 0 .. N : P(n, f[n])}
  <2>2. ASSUME NEW n \in 0 .. N, n \in good, n < N
        PROVE  n + 1 \in good /\ f[n + 1] = RoomStep(f[n], s)
    <3>1. n \in Nat /\ n + 1 \in 1 .. N /\ n + 1 \in 0 .. N /\ (n + 1) - 1 = n
      BY <1>1, <2>2
    <3>2. P(n, f[n]) /\ f[n] \in Heaps
      BY <2>2
    <3>3. P(n + 1, RoomStep(f[n], s))
      BY <1>3, <3>1, <3>2
    <3>4. RoomStep(f[n], s) \in Heaps
      BY <1>3, <3>1, <3>3
    <3>5. f[n + 1] = F[f[n]]
      BY <3>1 DEF Iterates
    <3>6. f[n + 1] = RoomStep(f[n], s)
      BY <3>2, <3>4, <3>5 DEF F
    <3> QED BY <3>1, <3>3, <3>6
  <2>3. \A n \in 0 .. N : n \in good
    <3>1. 0 \in good
      BY <1>1, <1>2 DEF Iterates
    <3> HIDE DEF good
    <3> QED BY <1>1, <2>2, <3>1, InductTo
  <2>4. ASSUME NEW n \in 0 .. N PROVE f[n] = IF n = 0 THEN h ELSE RoomStep(f[n - 1], s)
    <3>1. CASE n = 0
      BY <3>1 DEF Iterates
    <3>2. CASE n # 0
      <4>1. n - 1 \in 0 .. N /\ n - 1 < N /\ (n - 1) + 1 = n
        BY <1>1, <3>2
      <4> HIDE DEF good
      <4>2. f[(n - 1) + 1] = RoomStep(f[n - 1], s)
        BY <2>2, <2>3, <4>1
      <4> QED BY <3>2, <4>1, <4>2
    <3> QED BY <3>1, <3>2
  <2>5. f = [n \in 0 .. N |-> f[n]]
    OBVIOUS
  <2>6. f = Step(f)
    BY <2>4, <2>5
  <2> QED BY <2>6
<1>5. room = Step(room)
  <2> HIDE DEF Step
  <2> QED BY <1>4
<1>6. WithRoom(h, s) = room[N]
  BY DEF WithRoom, N, RoomStep
<1> HIDE DEF room
<1>7. \A n \in 0 .. N : room[n] = IF n = 0 THEN h ELSE RoomStep(room[n - 1], s)
  <2> PICK r : r = room
    OBVIOUS
  <2> QED BY <1>5
<1> DEFINE good == {n \in 0 .. N : P(n, room[n])}
<1>8. \A n \in 0 .. N : n \in good
  <2>1. 0 \in good
    BY <1>1, <1>2, <1>7
  <2>2. ASSUME NEW n \in 0 .. N, n \in good, n < N PROVE n + 1 \in good
    <3>1. n \in Nat /\ n + 1 \in 0 .. N /\ (n + 1) - 1 = n /\ n + 1 # 0
      BY <1>1, <2>2
    <3>2. room[n + 1] = RoomStep(room[n], s)
      BY <1>7, <3>1
    <3>3. P(n + 1, RoomStep(room[n], s))
      BY <1>3, <2>2, <3>1
    <3> QED BY <3>1, <3>2, <3>3
  <2> HIDE DEF good
  <2> QED BY <1>1, <2>1, <2>2, InductTo
<1>9. P(N, room[N]) /\ room[N] \in Heaps
  <2>1. N \in 0 .. N /\ N \in Nat
    BY <1>1
  <2> QED BY <1>3, <1>8, <2>1
<1>10. room[N].brk # h.brk + N * PAGE_SZ
  <2>1. room[N].brk <= ArenaEnd /\ room[N].brk \in Nat
    BY <1>9, HeapFields
  <2>2. N * PAGE_SZ = MaxPages * PAGE_SZ + PAGE_SZ
    BY PagesAssumption DEF N
  <2> PICK q \in Nat : q = MaxPages * PAGE_SZ
    BY ArenaIs
  <2> PICK m \in Nat : m = N * PAGE_SZ /\ m = q + PAGE_SZ
    BY <2>2, PagesAssumption
  <2>3. ArenaEnd = 8 + q
    BY ArenaIs
  <2> QED BY <1>1, <2>1, <2>3, PagesAssumption DEF heap_start
<1> QED BY <1>6, <1>9, <1>10 DEF P, Roomy

-----------------------------------------------------------------------------
(* sf_malloc *)

\* A block has room for what was asked and its header and footer, in multiples of 16.
LEMMA BlockForIs ==
    ASSUME NEW size \in Nat
    PROVE  /\ Padding(size) \in 0 .. 15 /\ BlockFor(size) = size + 16 + Padding(size)
           /\ BlockFor(size) \in Size16 /\ BlockFor(size) >= 16
           /\ BlockFor(size) \in Nat /\ BlockFor(size) >= size + 16
           /\ size >= 1 => BlockFor(size) >= 32
<1>1. Padding(size) \in 0 .. 15 /\ (size + Padding(size)) % 16 = 0
  BY DEF Padding
<1>2. BlockFor(size) % 16 = 0 /\ BlockFor(size) \in Nat
  <2> PICK p \in 0 .. 15 : p = Padding(size)
    BY <1>1
  <2>1. (size + p) % 16 = 0
    BY <1>1
  <2>2. (size + 16 + p) % 16 = 0
    <3>1. ASSUME NEW x \in Nat, x % 16 = 0 PROVE (x + 16) % 16 = 0
      <4>1. x = 16 * (x \div 16) /\ x \div 16 \in Nat
        BY <3>1
      <4> PICK y \in Nat : x = 16 * y
        BY <4>1
      <4> QED OBVIOUS
    <3>2. size + p \in Nat /\ size + 16 + p = (size + p) + 16
      OBVIOUS
    <3> QED BY <2>1, <3>1, <3>2
  <2>3. size + 16 + p \in Nat
    OBVIOUS
  <2> QED BY <2>2, <2>3 DEF BlockFor
<1>3. size >= 1 => size + Padding(size) >= 16
  <2> PICK p \in 0 .. 15 : p = Padding(size)
    BY <1>1
  <2>1. (size + p) % 16 = 0
    BY <1>1
  <2>2. size >= 1 => size + p >= 16
    BY <2>1
  <2> QED BY <2>2
<1>4. BlockFor(size) = size + 16 + Padding(size)
  BY DEF BlockFor
<1>5. /\ BlockFor(size) >= 16 /\ BlockFor(size) >= size + 16
      /\ size >= 1 => BlockFor(size) >= 32
  <2> PICK p \in 0 .. 15 : p = Padding(size)
    BY <1>1
  <2>1. size >= 1 => size + p >= 16
    BY <1>3
  <2> QED BY <1>4, <2>1
<1> QED BY <1>1, <1>2, <1>4, <1>5 DEF Size16

\* A free block, or its first part, tagged as allocated and taken out of its list.
TakenFor(h, r, S, z, wild, A, b, s, v, w) ==
    /\ Laid(r, S, z, wild, A, (S \ A) \ {b}, {b})
    /\ SameRest(h, r) /\ Kept(h, r, z, A)
    /\ r.mem[b] = v /\ r.mem[b + s - 8] = w /\ next(r, b) = NULL

\* A free block given its header and footer and taken out of its list.
LEMMA TakeLaid ==
    ASSUME NEW h, NEW S, NEW z, NEW wild, NEW A, Sound(h, S, z, wild, A),
           NEW n, NEW f, Linked(h, n, f, wild), Listed(n, f, z, S \ A, {}),
           NEW i \in Lists, NEW k \in Nat, k < n[i], k <= 1,
           NEW b, b = f[i][k], NEW s \in Size16, s >= 32, s <= z[b], NEW v \in Word, NEW w \in Word
    PROVE  LET h1 == Put2(h, b, v, b + s - 8, w)
               r == relink(h1, i, k)
           IN Died(r, wild) \/ TakenFor(h, r, S, z, wild, A, b, s, v, w)
<1> DEFINE F == S \ A
           foot == b + s - 8
           h1 == Put2(h, b, v, foot, w)
           r == relink(h1, i, k)
<1>1. /\ Laid(h, S, z, wild, A, F, {}) /\ ~Stopped(h) /\ h \in Heaps /\ Tiles(S, z, h.brk)
      /\ A \subseteq S /\ F \subseteq S /\ A \cap F = {}
      /\ b \in F /\ b \in S
  BY DEF Laid, Sound, Listed
<1>2. /\ b \in Nat /\ z[b] \in Nat /\ z[b] >= 32 /\ b \in Words /\ s \in Nat /\ s % 16 = 0
      /\ b >= 8 /\ b + z[b] <= h.brk /\ h.brk <= ArenaEnd /\ h.brk \in Nat /\ ArenaEnd \in Nat
  <2>1. s \in Nat /\ s % 16 = 0
    BY DEF Size16
  <2> QED BY <1>1, <2>1, BlockWords
<1>3. /\ foot \in Nat /\ foot # b /\ b <= foot /\ foot < b + z[b] /\ foot # b + 8 /\ foot # b + 16
      /\ b <= b /\ b < b + z[b] /\ b # b + 8 /\ b # b + 16 /\ foot <= ArenaEnd
  BY <1>2
<1>4. foot \in Words
  <2>1. b % 8 = 0
    BY <1>2, WordsAre
  <2>2. foot % 8 = 0
    BY <1>2, <2>1
  <2> QED BY <1>3, <2>2, WordsAre
<1> HIDE DEF foot
<1>5. /\ h1 \in Heaps /\ SameRest(h, h1) /\ h1.head = h.head
      /\ \A x \in Words : h1.mem[x] = IF x = foot THEN w ELSE IF x = b THEN v ELSE h.mem[x]
  <2>1. Written2(h, h1, b, v, foot, w)
    BY <1>1, <1>2, <1>4, Put2Writes
  <2> QED BY <2>1 DEF Written2
<1>6. Laid(h1, S, z, wild, A, F, {b})
  <2>1. {} \cup {b, b} = {b}
    OBVIOUS
  <2>2. Laid(h1, S, z, wild, A, F, {} \cup {b, b})
    <3> HIDE DEF F
    <3> QED BY <1>1, <1>2, <1>3, <1>4, Put2Laid
  <2> QED BY <2>1, <2>2
<1> HIDE DEF h1
<1>7. Linked(h1, n, f, wild)
  <2>1. ASSUME NEW a \in Words, a = foot \/ a = b PROVE OffLinks(a, n, f)
    <3> SUFFICES ASSUME NEW j \in Lists, NEW l \in Nat, l < n[j]
                 PROVE  a # f[j][l] + 8 /\ a # f[j][l] + 16
      BY DEF OffLinks
    <3> PICK x : x = f[j][l]
      OBVIOUS
    <3>1. x \in F /\ x \in S
      BY <1>1 DEF Listed
    <3>2. /\ x \in Nat /\ z[x] \in Nat /\ z[x] >= 32
          /\ x # b => x + z[x] <= b \/ b + z[b] <= x
      BY <1>1, <1>2, <3>1, TilesApart
    <3>3. a \in Nat /\ b <= a /\ a < b + z[b] /\ a # b + 8 /\ a # b + 16
      BY <1>2, <1>3, <2>1
    <3>4. a # x + 8 /\ a # x + 16
      BY <1>2, <3>2, <3>3
    <3> QED BY <3>4
  <2>2. \A a \in Words : OffLinks(a, n, f) \/ h1.mem[a] = h.mem[a]
    BY <1>5, <2>1
  <2>3. h1.brk >= h.brk
    BY <1>2, <1>5 DEF SameRest
  <2> QED BY <1>1, <1>5, <2>2, <2>3, LinkedFrame
<1>8. Listed(n, f, z, F, {b})
  BY DEF Listed
<1>9. ~Stopped(h1)
  BY <1>1, <1>5 DEF SameRest, Stopped
<1>10. \/ r = Fault(h1) /\ wild
       \/ TakenOut(h1, r, S, z, wild, A, F, {b}, b)
  <2> HIDE DEF F
  <2>1. \/ relink(h1, i, k) = Fault(h1) /\ wild
        \/ relink(h1, i, k) = Damage(h1, "node") /\ k > 1
        \/ TakenOut(h1, relink(h1, i, k), S, z, wild, A, F, {b}, f[i][k])
    BY <1>6, <1>7, <1>8, RelinkLaid
  <2> QED BY <2>1
<1> HIDE DEF r
<1>11. CASE r = Fault(h1) /\ wild
  <2>1. Died(r, wild)
    BY <1>5, <1>9, <1>11, DiedIs
  <2> QED BY <2>1 DEF r, h1, foot
<1>12. CASE TakenOut(h1, r, S, z, wild, A, F, {b}, b)
  <2>1. Laid(r, S, z, wild, A, F \ {b}, {b}) /\ SameRest(h1, r) /\ OnlyLinks(h1, r, F) /\ next(r, b) = NULL
    BY <1>12 DEF TakenOut
  <2>2. SameRest(h, r)
    BY <1>5, <2>1 DEF SameRest
  <2>3. ASSUME NEW a \in Words, a = foot \/ a = b, NEW x \in F PROVE a # x + 8 /\ a # x + 16
    <3>1. /\ x \in Nat /\ z[x] \in Nat /\ z[x] >= 32
          /\ x # b => x + z[x] <= b \/ b + z[b] <= x
      BY <1>1, <1>2, TilesApart
    <3>2. a \in Nat /\ b <= a /\ a < b + z[b] /\ a # b + 8 /\ a # b + 16
      BY <1>2, <1>3, <2>3
    <3> QED BY <1>2, <3>1, <3>2
  <2>4. r.mem[b] = v /\ r.mem[foot] = w
    BY <1>2, <1>3, <1>4, <1>5, <2>1, <2>3 DEF OnlyLinks
  <2>5. Kept(h, r, z, A)
    <3>1. Kept(h1, r, z, A)
      <4>1. F \in SUBSET S /\ A \in SUBSET S /\ h1.brk = h.brk
        BY <1>1, <1>5 DEF SameRest
      <4> HIDE DEF F
      <4> QED BY <1>1, <1>5, <2>1, <4>1, LinksKeep
    <3>2. Kept(h, h1, z, A)
      <4>1. A \in SUBSET S /\ b \notin A
        BY <1>1
      <4>2. \A a \in Words : h1.mem[a] = h.mem[a] \/ (b <= a /\ a < b + z[b])
        BY <1>3, <1>5
      <4> QED BY <1>1, <4>1, <4>2, WritesKeep
    <3> QED BY <3>1, <3>2 DEF Kept
  <2> QED BY <2>1, <2>2, <2>4, <2>5 DEF r, h1, foot, TakenFor
<1> QED BY <1>10, <1>11, <1>12

\* What is left of a block whose first s bytes are taken becomes a free block.
LEMMA RestLaid ==
    ASSUME NEW r, NEW S, NEW z, NEW wild, NEW A, NEW F, NEW b \in S, Laid(r, S, z, wild, A, F, {b}),
           ~Stopped(r), b \notin A, b \notin F,
           NEW s \in Size16, s >= 32, z[b] - s >= 32,
           block_size(r.mem[b]) = s, allocated(r.mem[b]) = 1,
           block_size(r.mem[b + s - 8]) = s, allocated(r.mem[b + s - 8]) = 1,
           next(r, b) \in {NULL, JUNK},
           NEW t \in Word, block_size(t) = z[b] - s, allocated(t) = 0
    PROVE  LET e == b + z[b] - 8
               g == AddFree(Put2(r, e, t, e, t), b + s, z[b] - s)
               T == S \cup {b + s}
               y == SplitSizes(S, z, b, s)
           IN /\ Laid(g, T, y, wild, A \cup {b}, F \cup {b + s}, {})
              /\ SameRest(r, g) /\ Kept(r, g, y, A \cup {b})
              /\ Tiles(T, y, r.brk) /\ b + s \notin S
<1> DEFINE e == b + z[b] - 8
           c == b + s
           h1 == Put2(r, e, t, e, t)
           T == S \cup {c}
           y == SplitSizes(S, z, b, s)
           B == A \cup {b}
           g == AddFree(h1, c, z[b] - s)
<1>1. r \in Heaps /\ Tiles(S, z, r.brk) /\ A \subseteq S /\ F \subseteq S /\ A \cap F = {}
  BY DEF Laid
<1>2. /\ b \in Nat /\ z[b] \in Nat /\ z[b] >= 32 /\ b \in Words /\ e \in Words
      /\ b + z[b] <= r.brk /\ r.brk <= ArenaEnd /\ r.brk \in Nat
      /\ e # b + 8 /\ e # b + 16 /\ e # b
  BY <1>1, BlockWords
<1>3. s \in Nat /\ c \in Nat /\ b < c
  BY <1>2 DEF Size16
<1>4. Tiles(T, y, r.brk) /\ c \notin S
  BY <1>1, <1>2, SplitTiles
<1>5. /\ \A x \in S : x # b => y[x] = z[x]
      /\ y[b] = s /\ y[c] = z[b] - s /\ b \in T /\ c \in T /\ c # b
  <2>1. \A x \in S : x # c
    BY <1>4
  <2>2. c # b
    BY <1>2, <1>3
  <2> HIDE DEF c
  <2> QED BY <2>1, <2>2 DEF SplitSizes, c
<1>6. Written2(r, h1, e, t, e, t)
  BY <1>1, <1>2, Put2Writes
<1>7. /\ h1 \in Heaps /\ SameRest(r, h1) /\ h1.head = r.head /\ h1.brk = r.brk
      /\ \A x \in Words : h1.mem[x] = IF x = e THEN t ELSE r.mem[x]
  BY <1>6 DEF Written2, SameRest
<1>8. Laid(h1, S, z, wild, A, F, {b})
  <2>1. {b} \cup {b, b} = {b}
    OBVIOUS
  <2>2. b <= e /\ e < b + z[b]
    BY <1>2
  <2> HIDE DEF e
  <2>3. Laid(h1, S, z, wild, A, F, {b} \cup {b, b})
    BY <1>2, <2>2, Put2Laid
  <2> QED BY <2>1, <2>3
<1> HIDE DEF h1
<1>9. Laid(h1, T, y, wild, A, F, {b})
  <2>1. A \subseteq T /\ F \subseteq T /\ \A x \in A \cup F : x \notin {b} => y[x] = z[x]
    BY <1>1, <1>5
  <2>2. Tiles(T, y, h1.brk) /\ h1.brk >= h1.brk
    BY <1>2, <1>4, <1>7
  <2> HIDE DEF T, y, e, c
  <2> QED BY <1>7, <1>8, <2>1, <2>2, LaidRetile
<1>10. c + y[c] - 8 = e /\ b + y[b] - 8 = b + s - 8 /\ b + s - 8 < c /\ c <= e /\ e < c + y[c]
  BY <1>2, <1>3, <1>5
<1>11. b + s - 8 \in Words /\ b + 8 \in Words /\ b + s - 8 # e /\ b + 8 # e /\ b # e
  <2>1. b + y[b] - 8 \in Words /\ b + 8 \in Words
    BY <1>1, <1>4, <1>5, BlockWords
  <2>2. b + s - 8 # e
    BY <1>2, <1>3
  <2> QED BY <1>2, <1>10, <2>1, <2>2
<1>12. Tagged(h1, {b}, y, 1) /\ next(h1, b) \in {NULL, JUNK}
  <2>1. h1.mem[b] = r.mem[b] /\ h1.mem[b + s - 8] = r.mem[b + s - 8] /\ h1.mem[b + 8] = r.mem[b + 8]
    BY <1>2, <1>7, <1>11
  <2>2. next(h1, b) = next(r, b)
    BY <2>1 DEF next
  <2>3. h1.mem[b + y[b] - 8] = r.mem[b + s - 8]
    BY <1>10, <2>1
  <2> QED BY <1>5, <2>1, <2>2, <2>3 DEF Tagged
<1>13. Laid(h1, T, y, wild, B, F, {})
  <2>1. F \cap {b} \subseteq {} /\ B \subseteq T /\ B \cap F = {}
    BY <1>1, <1>5
  <2>2. Tagged(h1, B \ {}, y, 1) /\ \A x \in B : next(h1, x) \in {NULL, JUNK}
    BY <1>1, <1>9, <1>12 DEF Laid, Tagged
  <2> HIDE DEF T, y, B
  <2> QED BY <1>9, <2>1, <2>2, LaidTags
<1>14. ~Stopped(h1)
  BY <1>7 DEF Stopped, SameRest
<1>15. c \notin B /\ c \notin F
  BY <1>1, <1>4, <1>5
<1>16. block_size(h1.mem[c + y[c] - 8]) = y[c] /\ allocated(h1.mem[c + y[c] - 8]) = 0
  BY <1>2, <1>5, <1>7, <1>10
<1>17. /\ Laid(g, T, y, wild, B, F \cup {c}, {} \ {c})
       /\ SameRest(h1, g) /\ Kept(h1, g, y, B)
  <2>1. g = AddFree(h1, c, y[c])
    BY <1>5
  <2> HIDE DEF T, y, B, c
  <2> QED BY <1>5, <1>13, <1>14, <1>15, <1>16, <2>1, AddFreeLaid
<1>18. Kept(r, h1, y, B)
  <2>1. B \in SUBSET T
    BY <1>1, <1>5
  <2>2. \A a \in Words : h1.mem[a] = r.mem[a] \/ (c <= a /\ a < c + y[c])
    BY <1>7, <1>10
  <2> HIDE DEF T, y, B, c
  <2> QED BY <1>1, <1>4, <1>5, <1>15, <2>1, <2>2, WritesKeep
<1>19. Kept(r, g, y, B) /\ SameRest(r, g) /\ Laid(g, T, y, wild, B, F \cup {c}, {})
  <2>1. {} \ {c} = {}
    OBVIOUS
  <2> QED BY <1>7, <1>17, <1>18, <2>1 DEF Kept, SameRest
<1> QED BY <1>4, <1>19 DEF h1

\* The tags of an allocated block.
TagsOf(g, b, s, p, size) == g.mem[b] = Tag(1, p, s, 0) /\ g.mem[b + s - 8] = Tag(1, p, s, size)

\* g is sound, and b is a new block for size bytes beside those of h.
Handed(h, g, z, wild, A, b, size) ==
    /\ b \notin A
    /\ \E T, y : /\ Sound(g, T, y, wild, A \cup {b}) /\ A \cup {b} \subseteq T
                 /\ \A x \in A : y[x] = z[x]
                 /\ Kept(h, g, z, A)
                 /\ size + 16 <= y[b] /\ TagsOf(g, b, y[b], IF y[b] = size + 16 THEN 0 ELSE 1, size)

\* The place of node k of list i, which is b.
PlaceOf(place, f, i, k, b) == place.list = i /\ place.pos = k /\ place.node = b /\ b = f[i][k]

\* Carving from the first or the second node of a list.
LEMMA CarveLaid ==
    ASSUME NEW h, NEW S, NEW z, NEW wild, NEW A, Sound(h, S, z, wild, A),
           NEW n, NEW f, Linked(h, n, f, wild), Listed(n, f, z, S \ A, {}),
           NEW i \in Lists, NEW k \in Nat, k < n[i], k <= 1,
           NEW b, NEW size \in Nat, size >= 1, BlockFor(size) <= z[b],
           NEW place, PlaceOf(place, f, i, k, b)
    PROVE  LET g == Carve(h, size, place)
           IN /\ Died(g, wild) \/ Handed(h, g, z, wild, A, b, size)
              /\ Traverse(h, i, k) = b /\ b \in S \ A
<1> DEFINE F == S \ A
           splinter == z[b] - BlockFor(size) < 32
           s == IF splinter THEN z[b] ELSE BlockFor(size)
           pad == IF s # size + 16 THEN 1 ELSE 0
           v == Tag(1, pad, s, 0)
           w == Tag(1, pad, s, size)
           taken == relink(Put2(h, b, v, b + s - 8, w), i, k)
           e == b + z[b] - 8
           t == Tag(0, padded(taken.mem[e]), z[b] - s, requested_size(taken.mem[e]))
           g == Carve(h, size, place)
<1>0. b = f[i][k] /\ place.list = i /\ place.pos = k /\ place.node = b
  BY DEF PlaceOf
<1>1. /\ Laid(h, S, z, wild, A, F, {}) /\ ~Stopped(h) /\ h \in Heaps /\ Tiles(S, z, h.brk)
      /\ A \subseteq S /\ F \subseteq S /\ A \cap F = {}
      /\ b \in F /\ b \in S
  BY <1>0 DEF Laid, Sound, Listed
<1>2. /\ b \in Nat /\ z[b] \in Nat /\ z[b] >= 32 /\ z[b] \in Size16 /\ b \in Words /\ e \in Words
  BY <1>1, BlockWords
<1>3. Traverse(h, i, k) = b
  <2>1. k = 0 \/ k = 1
    OBVIOUS
  <2>2. CASE k = 0
    BY <1>0, <2>2 DEF Linked, Traverse
  <2>3. CASE k = 1
    <3>1. 0 \in Nat /\ 0 + 1 < n[i] /\ n[i] \in Nat /\ n[i] # 0
      BY <2>3 DEF Linked
    <3>2. h.head[i] = f[i][0] /\ next(h, f[i][0]) = f[i][0 + 1]
      BY <3>1 DEF Linked
    <3> QED BY <1>0, <2>3, <3>2 DEF Traverse
  <2> QED BY <2>1, <2>2, <2>3
<1>4. SizeAt(h, b) = z[b] /\ padded(h.mem[b]) = 0
  BY <1>1 DEF Laid, Tagged, SizeAt
<1>5. BlockFor(size) \in Size16 /\ BlockFor(size) \in Nat /\ BlockFor(size) >= 32 /\ BlockFor(size) >= size + 16
  BY BlockForIs
<1>6. s \in Size16 /\ s \in Nat /\ s >= 32 /\ s <= z[b] /\ size + 16 <= s
  BY <1>2, <1>5
<1>7. pad \in {0, 1} /\ v \in Word /\ w \in Word
  <2>1. pad \in {0, 1}
    OBVIOUS
  <2> HIDE DEF pad, s
  <2> QED BY <1>6, <2>1, WordIs
<1>8. \/ Died(taken, wild)
      \/ /\ Laid(taken, S, z, wild, A, F \ {b}, {b})
         /\ SameRest(h, taken) /\ Kept(h, taken, z, A)
         /\ taken.mem[b] = v /\ taken.mem[b + s - 8] = w /\ next(taken, b) = NULL
  <2>1. Died(taken, wild) \/ TakenFor(h, taken, S, z, wild, A, b, s, v, w)
    <3> HIDE DEF s, v, w
    <3> QED BY <1>0, <1>6, <1>7, TakeLaid
  <2> HIDE DEF s, v, w, taken
  <2> QED BY <2>1 DEF TakenFor
<1>9. g = IF splinter \/ Stopped(taken) THEN taken
          ELSE AddFree([taken EXCEPT !.mem[e] = Tag(0, padded(@), z[b] - s, requested_size(@))], b + s, z[b] - s)
  <2>1. e # b /\ h.mem \in Mems /\ b + s - 8 \in Words /\ b + s - 8 # b
    <3>1. b + s - 8 \in Nat /\ b + s - 8 # b /\ b + s - 8 <= ArenaEnd
      <4>1. b + z[b] <= h.brk /\ h.brk <= ArenaEnd /\ h.brk \in Nat /\ ArenaEnd \in Nat
        BY <1>1, BlockWords
      <4> HIDE DEF s
      <4> QED BY <1>2, <1>6, <4>1
    <3>2. (b + s - 8) % 8 = 0
      <4>1. b % 8 = 0 /\ s % 16 = 0
        BY <1>2, <1>6, WordsAre DEF Size16
      <4> HIDE DEF s
      <4> QED BY <1>2, <1>6, <4>1
    <3>3. b + s - 8 \in Words
      <4> HIDE DEF s
      <4> QED BY <3>1, <3>2, WordsAre
    <3>4. e # b
      BY <1>2
    <3> QED BY <1>1, <3>1, <3>3, <3>4, HeapFields
  <2>2. [h EXCEPT !.mem[b] = v, !.mem[b + s - 8] = w] = Put2(h, b, v, b + s - 8, w)
    <3> HIDE DEF v, w, s
    <3> QED BY <1>1, <1>2, <2>1 DEF Put2, SetHeap, Heaps, Put, Mems, Heads
  <2> HIDE DEF v, w, taken, pad
  <2>3. g = LET tk == relink([h EXCEPT !.mem[b] = v, !.mem[b + s - 8] = w], i, k)
            IN IF splinter \/ Stopped(tk) THEN tk
               ELSE AddFree([tk EXCEPT !.mem[e] = Tag(0, padded(@), z[b] - s, requested_size(@))], b + s, z[b] - s)
    BY <1>0, <1>3, <1>4 DEF Carve, v, w, pad
  <2> QED BY <2>2, <2>3 DEF taken
<1> HIDE DEF g, v, w, taken
<1>10. CASE Died(taken, wild)
  <2>1. g = taken
    BY <1>9, <1>10 DEF Died
  <2> QED BY <1>1, <1>3, <1>10, <2>1 DEF g
<1>11. CASE /\ Laid(taken, S, z, wild, A, F \ {b}, {b})
            /\ SameRest(h, taken) /\ Kept(h, taken, z, A)
            /\ taken.mem[b] = v /\ taken.mem[b + s - 8] = w /\ next(taken, b) = NULL
  <2>1. ~Stopped(taken) /\ taken \in Heaps
    BY <1>1, <1>11 DEF SameRest, Stopped, Laid
  <2>2. /\ block_size(v) = s /\ allocated(v) = 1 /\ block_size(w) = s /\ allocated(w) = 1
    <3> HIDE DEF s, pad
    <3> QED BY ReadTag DEF v, w
  <2>3. b \notin A
    BY <1>1
  <2>4. CASE splinter
    <3>1. g = taken /\ s = z[b]
      BY <1>9, <2>4
    <3>2. Tagged(taken, {b}, z, 1)
      BY <1>11, <2>2, <3>1 DEF Tagged
    <3>3. Laid(taken, S, z, wild, A \cup {b}, F \ {b}, {})
      <4>1. (F \ {b}) \cap {b} \subseteq {} /\ A \cup {b} \subseteq S /\ (A \cup {b}) \cap (F \ {b}) = {}
        BY <1>1
      <4>2. Tagged(taken, (A \cup {b}) \ {}, z, 1)
        BY <1>1, <1>11, <3>2 DEF Laid, Tagged
      <4>3. \A x \in A \cup {b} : next(taken, x) \in {NULL, JUNK}
        BY <1>1, <1>11 DEF Laid
      <4> HIDE DEF F
      <4> QED BY <1>11, <4>1, <4>2, <4>3, LaidTags
    <3>4. F \ {b} = S \ (A \cup {b})
      OBVIOUS
    <3>5. Sound(taken, S, z, wild, A \cup {b})
      BY <2>1, <3>3, <3>4 DEF Sound
    <3>6. TagsOf(taken, b, z[b], IF z[b] = size + 16 THEN 0 ELSE 1, size)
      BY <1>11, <3>1 DEF TagsOf, v, w
    <3>7. Handed(h, taken, z, wild, A, b, size)
      <4>1. A \cup {b} \subseteq S /\ \A x \in A : z[x] = z[x]
        BY <1>1
      <4>2. size + 16 <= z[b]
        BY <1>6, <3>1
      <4> QED BY <1>11, <2>3, <3>5, <3>6, <4>1, <4>2 DEF Handed
    <3> QED BY <1>1, <1>3, <3>1, <3>7 DEF g
  <2>5. CASE ~splinter
    <3>1. s = BlockFor(size) /\ z[b] - s >= 32 /\ z[b] - s \in Nat /\ z[b] - s \in Size16
      <4>1. s = BlockFor(size) /\ z[b] - s >= 32
        BY <1>2, <1>5, <2>5
      <4> HIDE DEF s
      <4> QED BY <1>2, <1>6, <4>1 DEF Size16
    <3>2. t \in Word /\ block_size(t) = z[b] - s /\ allocated(t) = 0
      <4>1. taken.mem[e] \in Word
        BY <1>2, <2>1, HeapFields DEF Mems
      <4>2. padded(taken.mem[e]) \in {0, 1} /\ requested_size(taken.mem[e]) \in Nat
        BY <4>1, ReadWord
      <4> HIDE DEF s
      <4> QED BY <3>1, <4>2, WordIs, ReadTag
    <3> DEFINE T == S \cup {b + s}
               y == SplitSizes(S, z, b, s)
    <3>3. [taken EXCEPT !.mem[e] = Tag(0, padded(@), z[b] - s, requested_size(@))] = Put2(taken, e, t, e, t)
      <4>1. [taken EXCEPT !.mem[e] = t] = Put2(taken, e, t, e, t)
        <5> HIDE DEF t, e
        <5> QED BY <1>2, <2>1 DEF Put2, SetHeap, Heaps, Put, Mems, Heads
      <4> HIDE DEF s, e
      <4> QED BY <4>1
    <3>4. g = AddFree(Put2(taken, e, t, e, t), b + s, z[b] - s)
      <4> HIDE DEF s, t
      <4> QED BY <1>9, <2>1, <2>5, <3>3
    <3>5. /\ Laid(g, T, y, wild, A \cup {b}, (F \ {b}) \cup {b + s}, {})
          /\ SameRest(taken, g) /\ Kept(taken, g, y, A \cup {b})
          /\ Tiles(T, y, taken.brk) /\ b + s \notin S
      <4>1. b \notin F \ {b} /\ next(taken, b) \in {NULL, JUNK}
        BY <1>11
      <4>2. block_size(taken.mem[b + s - 8]) = s /\ allocated(taken.mem[b + s - 8]) = 1
            /\ block_size(taken.mem[b]) = s /\ allocated(taken.mem[b]) = 1
        BY <1>11, <2>2
      <4>3. Laid(taken, S, z, wild, A, F \ {b}, {b})
        BY <1>11
      <4> HIDE DEF s, t, F, g
      <4>4. LET q == AddFree(Put2(taken, b + z[b] - 8, t, b + z[b] - 8, t), b + s, z[b] - s)
            IN /\ Laid(q, T, y, wild, A \cup {b}, (F \ {b}) \cup {b + s}, {})
               /\ SameRest(taken, q) /\ Kept(taken, q, y, A \cup {b})
               /\ Tiles(T, y, taken.brk) /\ b + s \notin S
        BY <1>1, <1>6, <2>1, <2>3, <3>1, <3>2, <4>1, <4>2, <4>3, RestLaid
      <4> QED BY <3>4, <4>4
    <3>6. y[b] = s /\ \A x \in A : y[x] = z[x]
      <4>1. \A x \in S : x # b + s
        BY <3>5
      <4>2. \A x \in S : x \in T
        OBVIOUS
      <4> HIDE DEF s
      <4> QED BY <1>1, <4>1, <4>2 DEF SplitSizes
    <3>7. (F \ {b}) \cup {b + s} = T \ (A \cup {b})
      <4>1. b + s # b /\ b + s \notin A
        BY <1>1, <3>5
      <4> HIDE DEF s
      <4> QED BY <4>1
    <3> HIDE DEF T, y
    <3>8. Sound(g, T, y, wild, A \cup {b})
      BY <2>1, <3>5, <3>7 DEF Sound, SameRest, Stopped
    <3>9. Kept(h, g, z, A)
      BY <1>11, <3>5, <3>6 DEF Kept
    <3>10. g.mem[b] = v /\ g.mem[b + s - 8] = w
      <4>1. b \in T /\ b + y[b] - 8 \in Words /\ b <= b /\ b < b + y[b] /\ b <= b + y[b] - 8 /\ b + y[b] - 8 < b + y[b]
        <5>1. b \in T
          BY <1>1 DEF T
        <5>2. taken.brk \in Nat /\ b + y[b] - 8 \in Words
          BY <2>1, <3>5, <5>1, BlockWords
        <5> HIDE DEF s
        <5> QED BY <1>2, <1>6, <3>6, <5>1, <5>2
      <4>2. g.mem[b] = taken.mem[b] /\ g.mem[b + y[b] - 8] = taken.mem[b + y[b] - 8]
        BY <1>2, <3>5, <4>1 DEF Kept
      <4> QED BY <1>11, <3>6, <4>2
    <3>11. TagsOf(g, b, y[b], IF y[b] = size + 16 THEN 0 ELSE 1, size)
      BY <3>6, <3>10 DEF TagsOf, v, w
    <3>12. Handed(h, g, z, wild, A, b, size)
      <4>1. A \cup {b} \subseteq T
        BY <1>1 DEF T
      <4>2. size + 16 <= y[b]
        BY <1>6, <3>6
      <4> QED BY <2>3, <3>6, <3>8, <3>9, <3>11, <4>1, <4>2 DEF Handed
    <3> QED BY <1>1, <1>3, <3>12 DEF g
  <2> QED BY <2>4, <2>5
<1> QED BY <1>8, <1>10, <1>11

\* allocate hands out a block that was free, of the size asked for.
LEMMA AllocateSound ==
    ASSUME NEW h, NEW S, NEW z, NEW wild, NEW A, Sound(h, S, z, wild, A),
           NEW size \in Nat, size >= 1, BlockFor(size) <= MaxPages * PAGE_SZ,
           find_fit(h, BlockFor(size)) # NotFound
    PROVE  LET m == Allocate(h, size)
           IN /\ Died(m.heap, wild) \/ Handed(h, m.heap, z, wild, A, m.ret, size)
              /\ m.ret \in Words
<1> DEFINE B == BlockFor(size)
           index == get_list_index(B)
           wanted == {b \in Words : SizeAt(h, b) >= B}
           F == S \ A
           m == Allocate(h, size)
<1>1. /\ Laid(h, S, z, wild, A, F, {}) /\ ~Stopped(h) /\ h \in Heaps /\ Tiles(S, z, h.brk)
      /\ S \subseteq Words
  BY DEF Laid, Sound, Tiles
<1>2. B \in Nat /\ B >= 32 /\ index \in Lists
  <2>1. B \in Nat /\ B >= 32
    BY BlockForIs
  <2> HIDE DEF B
  <2> QED BY <2>1, ListIndexIs DEF B
<1> PICK n, f : Linked(h, n, f, wild) /\ Listed(n, f, z, F, {})
  BY <1>1 DEF Laid
<1> PICK r : r = find_fit(h, B)
  OBVIOUS
<1>3. r = FirstPlace(h, index, wanted)
  BY DEF find_fit
<1>4. \/ /\ r = NotFound
         /\ \A i \in index .. 3, k \in Nat : k < n[i] => f[i][k] \notin wanted
      \/ r.list \in Lists /\ r.node = JUNK /\ wild
      \/ /\ r.list \in Lists /\ r.pos \in Nat /\ r.pos < n[r.list]
         /\ r.node = f[r.list][r.pos] /\ r.node \in wanted
  <2> HIDE DEF index, wanted
  <2> QED BY <1>1, <1>2, <1>3, FirstPlaceIs
<1>5. m = IF r.node = JUNK THEN [heap |-> Fault(h), ret |-> NULL]
          ELSE IF r.pos > 1 THEN [heap |-> Damage(h, "node"), ret |-> NULL]
          ELSE [heap |-> Carve(h, size, r), ret |-> Traverse(h, r.list, r.pos)]
  BY <1>1 DEF Allocate, AllocateAt
<1>6. NULL \in Words
  BY <1>1, HeapFields
<1> HIDE DEF m
<1>7. CASE r.node = JUNK /\ wild
  <2>1. m.heap = Fault(h) /\ m.ret = NULL
    BY <1>5, <1>7
  <2>2. Died(Fault(h), wild)
    BY <1>1, <1>7, DiedIs
  <2> QED BY <1>6, <2>1, <2>2 DEF m
<1>8. CASE /\ r.list \in Lists /\ r.pos \in Nat /\ r.pos < n[r.list]
           /\ r.node = f[r.list][r.pos] /\ r.node \in wanted
  <2>1. r.node # JUNK
    BY <1>1, <1>8, NodesOfLinked
  <2>2. CASE r.pos > 1
    <3>1. m.heap = Damage(h, "node") /\ m.ret = NULL
      BY <1>5, <2>1, <2>2
    <3>2. Died(Damage(h, "node"), wild)
      BY <1>1, DiedIs
    <3> QED BY <1>6, <3>1, <3>2 DEF m
  <2>3. CASE ~(r.pos > 1)
    <3>1. m.heap = Carve(h, size, r) /\ m.ret = Traverse(h, r.list, r.pos)
      BY <1>5, <2>1, <2>3
    <3>2. r.pos <= 1
      BY <1>8, <2>3
    <3> PICK b : b = r.node
      OBVIOUS
    <3>3. b \in F /\ SizeAt(h, b) = z[b]
      BY <1>1, <1>8 DEF Listed, Laid, Tagged, SizeAt
    <3>4. B <= z[b]
      <4>1. SizeAt(h, b) >= B
        BY <1>8
      <4>2. z[b] \in Nat
        BY <1>1, <3>3, BlockWords
      <4> HIDE DEF B
      <4> QED BY <1>2, <3>3, <4>1, <4>2
    <3>5. /\ Died(Carve(h, size, r), wild) \/ Handed(h, Carve(h, size, r), z, wild, A, b, size)
          /\ Traverse(h, r.list, r.pos) = b /\ b \in S \ A
      <4> PICK i \in Lists, k \in Nat : r.list = i /\ r.pos = k
        BY <1>8
      <4>1. k < n[i] /\ k <= 1 /\ PlaceOf(r, f, i, k, b)
        BY <1>8, <3>2 DEF PlaceOf
      <4> HIDE DEF wanted, B
      <4>2. LET g == Carve(h, size, r)
            IN /\ Died(g, wild) \/ Handed(h, g, z, wild, A, b, size)
               /\ Traverse(h, i, k) = b /\ b \in S \ A
        BY <3>4, <4>1, CarveLaid DEF B
      <4> QED BY <4>2
    <3> QED BY <1>1, <3>1, <3>5 DEF m
  <2> QED BY <2>2, <2>3
<1> QED BY <1>4, <1>7, <1>8

\* A block handed out of the heap that had room for it is handed out of the first one.
LEMMA HandedAfter ==
    ASSUME NEW h, NEW g, NEW k, NEW z, NEW wild, NEW A, NEW T, NEW y, NEW b, NEW size, A \subseteq T,
           \A x \in A : y[x] = z[x], Kept(h, g, z, A), Handed(g, k, y, wild, A, b, size)
    PROVE  Handed(h, k, z, wild, A, b, size)
<1> PICK V, u : /\ Sound(k, V, u, wild, A \cup {b}) /\ A \cup {b} \subseteq V
                /\ \A x \in A : u[x] = y[x]
                /\ Kept(g, k, y, A)
                /\ size + 16 <= u[b] /\ TagsOf(k, b, u[b], IF u[b] = size + 16 THEN 0 ELSE 1, size)
  BY DEF Handed
<1>1. Kept(h, k, z, A)
  BY DEF Kept
<1>2. \A x \in A : u[x] = z[x]
  OBVIOUS
<1>3. b \notin A
  BY DEF Handed
<1> QED BY <1>1, <1>2, <1>3 DEF Handed

\* A call that fails leaves the heap as it is, but for errno.
SetErrno(h, e) == [h EXCEPT !.errno = e]

\* Setting errno leaves the heap sound.
LEMMA ErrnoSound ==
    ASSUME NEW h, NEW S, NEW z, NEW wild, NEW A, Sound(h, S, z, wild, A), NEW e \in Errors
    PROVE  /\ Sound(SetErrno(h, e), S, z, wild, A) /\ SetErrno(h, e).errno = e
           /\ SetErrno(h, e).mem = h.mem /\ SetErrno(h, e).head = h.head /\ SetErrno(h, e).brk = h.brk
           /\ SetErrno(h, e).faulted = h.faulted /\ SetErrno(h, e).damaged = h.damaged
<1> DEFINE g == SetErrno(h, e)
<1>1. Laid(h, S, z, wild, A, S \ A, {}) /\ h \in Heaps /\ Tiles(S, z, h.brk) /\ A \subseteq S
  BY DEF Sound, Laid
<1>2. /\ g \in Heaps /\ g.mem = h.mem /\ g.head = h.head /\ g.brk = h.brk /\ g.errno = e
      /\ g.faulted = h.faulted /\ g.damaged = h.damaged
  BY <1>1 DEF SetErrno, Heaps
<1> HIDE DEF g
<1>3. g.brk >= h.brk /\ Tiles(S, z, g.brk) /\ S \ A \subseteq S
  BY <1>1, <1>2, HeapFields
<1>4. Laid(g, S, z, wild, A, S \ A, {})
  <2> PICK F : F = S \ A
    OBVIOUS
  <2>1. \A x \in A \cup F : x \notin {} => z[x] = z[x]
    OBVIOUS
  <2>2. Laid(g, S, z, wild, A, F, {})
    BY <1>1, <1>2, <1>3, <2>1, LaidRetile
  <2> QED BY <2>2
<1>5. ~Stopped(g)
  BY <1>2 DEF Sound, Stopped
<1> QED BY <1>2, <1>4, <1>5 DEF Sound, g

\* What sf_malloc returns.
LEMMA MallocSound ==
    ASSUME NEW h, NEW S, NEW z, NEW wild, NEW A, Sound(h, S, z, wild, A), NEW size \in Nat
    PROVE  LET m == sf_malloc(h, size)
           IN /\ \/ /\ m.ret = NULL
                    /\ \E e \in {"EINVAL", "ENOMEM"} :
                          /\ m.heap = SetErrno(h, e)
                          /\ size > 0 /\ size <= MaxPages * PAGE_SZ => e = "ENOMEM"
                 \/ Died(m.heap, wild)
                 \/ Handed(h, m.heap, z, wild, A, m.ret, size)
              /\ m.ret \in Words
<1> DEFINE m == sf_malloc(h, size)
           M == MaxPages * PAGE_SZ
<1>1. h \in Heaps /\ NULL \in Words
  BY HeapFields DEF Sound, Laid
<1>2. M \in Nat /\ BlockFor(size) \in Nat
  BY ArenaIs, BlockForIs
<1>3. CASE size = 0 \/ size > M
  <2>1. m = [heap |-> SetErrno(h, "EINVAL"), ret |-> NULL]
    <3>1. ~(size > 0 /\ size <= M)
      <4> HIDE DEF M
      <4> QED BY <1>2, <1>3
    <3> QED BY <1>3, <3>1 DEF sf_malloc, SetErrno
  <2>2. m.ret = NULL /\ m.heap = SetErrno(h, "EINVAL") /\ ~(size > 0 /\ size <= M)
    <3>1. ~(size > 0 /\ size <= M)
      <4> HIDE DEF M
      <4> QED BY <1>2, <1>3
    <3>2. m.ret = NULL /\ m.heap = SetErrno(h, "EINVAL")
      BY <2>1
    <3> QED BY <3>1, <3>2
  <2> HIDE DEF m
  <2> QED BY <1>1, <2>2 DEF m
<1>4. CASE size > 0 /\ size <= M /\ BlockFor(size) > M
  <2>1. m = [heap |-> SetErrno(h, "ENOMEM"), ret |-> NULL]
    <3>1. ~(size = 0 \/ size > M)
      <4> HIDE DEF M
      <4> QED BY <1>2, <1>4
    <3> QED BY <1>4, <3>1 DEF sf_malloc, SetErrno
  <2>2. m.ret = NULL /\ m.heap = SetErrno(h, "ENOMEM")
    BY <2>1
  <2> HIDE DEF m
  <2> QED BY <1>1, <2>2 DEF m
<1>5. CASE size >= 1 /\ size <= M /\ BlockFor(size) <= M
  <2> DEFINE g == WithRoom(h, BlockFor(size))
  <2>1. m = Allocate(g, size)
    <3>1. ~(size = 0 \/ size > M) /\ ~(size > 0 /\ size <= M /\ BlockFor(size) > M)
      <4> HIDE DEF M
      <4> QED BY <1>2, <1>5
    <3> QED BY <3>1 DEF sf_malloc
  <2>2. Died(g, wild) \/ (After(h, g, z, wild, A) /\ find_fit(g, BlockFor(size)) # NotFound)
    BY WithRoomSound
  <2> HIDE DEF g, m
  <2>3. CASE Died(g, wild)
    <3>1. m = [heap |-> g, ret |-> NULL]
      BY <2>1, <2>3 DEF Died, Allocate, AllocateAt
    <3>2. m.heap = g /\ m.ret = NULL
      BY <3>1
    <3> QED BY <1>1, <2>3, <3>2 DEF m
  <2>4. CASE After(h, g, z, wild, A) /\ find_fit(g, BlockFor(size)) # NotFound
    <3> PICK T, y : /\ Sound(g, T, y, wild, A) /\ A \subseteq T
                    /\ \A x \in A : y[x] = z[x]
                    /\ Kept(h, g, z, A)
      BY <2>4 DEF After
    <3>1. /\ Died(Allocate(g, size).heap, wild) \/ Handed(g, Allocate(g, size).heap, y, wild, A, Allocate(g, size).ret, size)
          /\ Allocate(g, size).ret \in Words
      BY <1>5, <2>4, AllocateSound
    <3>2. Handed(g, m.heap, y, wild, A, m.ret, size) => Handed(h, m.heap, z, wild, A, m.ret, size)
      BY HandedAfter
    <3> QED BY <2>1, <3>1, <3>2 DEF m
  <2> QED BY <2>2, <2>3, <2>4
<1>6. \/ size = 0 \/ size > M
      \/ size > 0 /\ size <= M /\ BlockFor(size) > M
      \/ size >= 1 /\ size <= M /\ BlockFor(size) <= M
  <2> HIDE DEF M
  <2> QED BY <1>2
<1> QED BY <1>3, <1>4, <1>5, <1>6

-----------------------------------------------------------------------------
(* sf_free *)

\* A layout stays one where wild links are allowed.
LEMMA LaidWild ==
    ASSUME NEW h, NEW S, NEW z, NEW wild, NEW A, NEW F, NEW U, Laid(h, S, z, wild, A, F, U)
    PROVE  Laid(h, S, z, TRUE, A, F, U)
<1> PICK n, f : Linked(h, n, f, wild) /\ Listed(n, f, z, F, U)
  BY DEF Laid
<1>1. Linked(h, n, f, TRUE)
  BY DEF Linked
<1> QED BY <1>1 DEF Laid

\* A free block behind a block is a block of the heap.
LEMMA FreeNextIsBlock ==
    ASSUME NEW h, NEW S, NEW z, NEW wild, NEW A, Sound(h, S, z, wild, A), NEW b \in S,
           FreeBlockAt(h, b + z[b])
    PROVE  b + z[b] \in S \ A
<1>1. /\ Laid(h, S, z, wild, A, S \ A, {}) /\ h \in Heaps /\ Tiles(S, z, h.brk)
  BY DEF Laid, Sound
<1>2. /\ h.brk \in Nat /\ h.brk <= ArenaEnd /\ ArenaEnd \in Nat /\ h.brk \in Words
  <2>1. h.brk \in Nat /\ h.brk % 16 = 8 /\ h.brk <= ArenaEnd /\ ArenaEnd \in Nat
    BY <1>1, HeapFields, BreaksAre
  <2> QED BY <2>1, WordsAre
<1>3. b + z[b] # h.brk
  <2> SUFFICES ASSUME b + z[b] = h.brk PROVE FALSE
    OBVIOUS
  <2>1. block_size(h.mem[h.brk]) > 0 /\ allocated(h.mem[h.brk]) = 0
    BY DEF FreeBlockAt, SizeAt
  <2>2. CASE h.brk = ArenaEnd
    BY <1>1, <2>1, <2>2, ReadTag DEF Laid, Edges
  <2>3. CASE h.brk # ArenaEnd
    <3>1. h.mem[h.brk] = Zero
      BY <1>1, <1>2, <2>3 DEF Laid, Edges
    <3> QED BY <2>1, <3>1, ReadOther
  <2> QED BY <2>2, <2>3
<1>4. b + z[b] \in S
  BY <1>1, <1>3 DEF Tiles
<1>5. b + z[b] \notin A
  BY <1>1 DEF Laid, Tagged, FreeBlockAt
<1> QED BY <1>4, <1>5

\* A block freed: with a free block behind it, or alone, and then what its client left
\* may be read as a link.
LEMMA ReleaseSound ==
    ASSUME NEW h, NEW S, NEW z, NEW wild, NEW A, Sound(h, S, z, wild, A), NEW b \in A
    PROVE  LET g == Release(h, b)
           IN Died(g, wild) \/ After(h, g, z, TRUE, A \ {b})
<1> DEFINE F == S \ A
           B == A \ {b}
           s == z[b]
           g == Release(h, b)
<1>1. /\ Laid(h, S, z, wild, A, F, {}) /\ ~Stopped(h) /\ h \in Heaps /\ Tiles(S, z, h.brk)
      /\ A \subseteq S /\ F \subseteq S /\ A \cap F = {} /\ b \in S /\ b \notin F /\ b \notin B
  BY DEF Laid, Sound
<1>2. SizeAt(h, b) = s /\ next(h, b) \in {NULL, JUNK}
  BY <1>1 DEF Laid, Tagged, SizeAt
<1>3. CASE FreeBlockAt(h, b + s)
  <2> DEFINE c == b + s
             T == S \ {c}
             y == MergeSizes(S, z, b, c)
  <2>1. g = Merge(h, b, c)
    BY <1>2, <1>3 DEF Release
  <2>2. c \in F
    BY <1>1, <1>3, FreeNextIsBlock
  <2>3. Laid(h, S, z, wild, B, F, {b})
    <3>1. F \cap {} \subseteq {b} /\ B \subseteq S /\ B \cap F = {}
      BY <1>1
    <3>2. Tagged(h, B \ {b}, z, 1) /\ \A x \in B : next(h, x) \in {NULL, JUNK}
      BY <1>1 DEF Laid, Tagged
    <3> HIDE DEF F, B
    <3> QED BY <1>1, <3>1, <3>2, LaidTags
  <2>4. c \notin {b}
    BY <1>1, <2>2
  <2>5. \/ Died(g, wild)
        \/ /\ Laid(g, T, y, wild, B, (F \ {c}) \cup {b}, {b} \ {b})
           /\ SameRest(h, g) /\ Kept(h, g, z, B)
    <3> HIDE DEF F, B, g
    <3> PICK d : d = c
      OBVIOUS
    <3>1. LET k == Merge(h, b, d)
          IN \/ Died(k, wild)
             \/ /\ Laid(k, S \ {d}, MergeSizes(S, z, b, d), wild, B, (F \ {d}) \cup {b}, {b} \ {b})
                /\ SameRest(h, k) /\ Kept(h, k, z, B)
      BY <1>1, <2>2, <2>3, <2>4, MergeLaid
    <3> QED BY <2>1, <3>1
  <2>6. CASE /\ Laid(g, T, y, wild, B, (F \ {c}) \cup {b}, {b} \ {b})
             /\ SameRest(h, g) /\ Kept(h, g, z, B)
    <3>1. (F \ {c}) \cup {b} = T \ B /\ {b} \ {b} = {}
      BY <1>1, <2>2
    <3>2. Laid(g, T, y, TRUE, B, T \ B, {})
      <4> PICK G, V : G = (F \ {c}) \cup {b} /\ V = {b} \ {b}
        OBVIOUS
      <4>1. G = T \ B /\ V = {}
        BY <3>1
      <4> HIDE DEF F, B, T, y, g, c
      <4>2. Laid(g, T, y, wild, B, G, V)
        BY <2>6
      <4>3. Laid(g, T, y, TRUE, B, G, V)
        BY <4>2, LaidWild
      <4> QED BY <4>1, <4>3, Zenon
    <3>3. Sound(g, T, y, TRUE, B)
      BY <1>1, <2>6, <3>2 DEF Sound, SameRest, Stopped
    <3>4. B \subseteq T /\ \A x \in B : y[x] = z[x]
      <4>1. \A x \in B : x \in T /\ x # b
        BY <1>1, <2>2
      <4> HIDE DEF c, B
      <4>2. \A x \in B : y[x] = z[x]
        BY <4>1 DEF MergeSizes
      <4> QED BY <4>1, <4>2
    <3>5. After(h, g, z, TRUE, B)
      <4> HIDE DEF g, B, T, y
      <4> QED BY <2>6, <3>3, <3>4 DEF After
    <3> QED BY <3>5
  <2> QED BY <2>5, <2>6
<1>4. CASE ~FreeBlockAt(h, b + s)
  <2> DEFINE foot == b + s - 8
             t == Tag(0, 0, s, 0)
             h1 == Put2(h, b, t, foot, t)
  <2>1. /\ b \in Nat /\ s \in Nat /\ s >= 32 /\ b \in Words /\ foot \in Words /\ b + 8 \in Words
        /\ foot # b /\ foot # b + 8 /\ foot # b + 16 /\ b # b + 8 /\ b # b + 16 /\ s \in Size16
    BY <1>1, BlockWords
  <2>2. g = append(h1, get_list_index(s), b)
    <3>1. FooterOf(h, b) = foot
      BY <1>2 DEF FooterOf
    <3>2. [h EXCEPT !.mem[b] = t, !.mem[foot] = t] = h1
      <4> HIDE DEF t, foot
      <4> QED BY <1>1, <2>1 DEF Put2, SetHeap, Heaps, Put, Mems, Heads
    <3> HIDE DEF t, foot, h1
    <3>3. Release(h, b) = append([h EXCEPT !.mem[b] = Tag(0, 0, s, 0), !.mem[foot] = Tag(0, 0, s, 0)], get_list_index(s), b)
      <4> HIDE DEF s
      <4> QED BY <1>2, <1>4, <3>1 DEF Release
    <3> QED BY <3>2, <3>3 DEF t
  <2>3. t \in Word /\ block_size(t) = s /\ allocated(t) = 0 /\ padded(t) = 0
    BY <2>1, WordIs, ReadTag
  <2> HIDE DEF t
  <2>4. b <= foot /\ foot < b + z[b] /\ b <= b /\ b < b + z[b]
    BY <2>1
  <2> HIDE DEF g
  <2>5. Written2(h, h1, b, t, foot, t)
    <3> HIDE DEF foot
    <3> QED BY <1>1, <2>1, <2>3, Put2Writes
  <2>6. Laid(h1, S, z, wild, A, F, {b})
    <3>1. {} \cup {b, b} = {b}
      OBVIOUS
    <3> HIDE DEF foot, F, h1
    <3>2. Laid(Put2(h, b, t, foot, t), S, z, wild, A, F, {} \cup {b, b})
      BY <1>1, <2>1, <2>3, <2>4, Put2Laid
    <3> QED BY <3>1, <3>2 DEF h1
  <2> HIDE DEF h1
  <2>7. /\ h1 \in Heaps /\ SameRest(h, h1) /\ h1.brk = h.brk
        /\ \A x \in Words : h1.mem[x] = IF x = foot \/ x = b THEN t ELSE h.mem[x]
    BY <2>5 DEF Written2, SameRest
  <2>8. Laid(h1, S, z, TRUE, B, F, {})
    <3>1. Laid(h1, S, z, TRUE, A, F, {b})
      BY <2>6, LaidWild
    <3>2. F \cap {b} \subseteq {} /\ B \subseteq S /\ B \cap F = {}
      BY <1>1
    <3>3. Tagged(h1, B \ {}, z, 1) /\ \A x \in B : next(h1, x) \in {NULL, JUNK}
      BY <2>6 DEF Laid, Tagged
    <3> HIDE DEF F, B
    <3> QED BY <3>1, <3>2, <3>3, LaidTags
  <2>9. Tagged(h1, {b}, z, 0) /\ padded(h1.mem[b]) = 0 /\ next(h1, b) \in {NULL, JUNK}
    <3>1. h1.mem[b] = t /\ h1.mem[foot] = t /\ h1.mem[b + 8] = h.mem[b + 8]
      BY <2>1, <2>7
    <3>2. next(h1, b) = next(h, b)
      BY <3>1 DEF next
    <3> QED BY <1>2, <2>3, <3>1, <3>2 DEF Tagged
  <2>10. /\ Laid(g, S, z, TRUE, B, F \cup {b}, {})
         /\ SameRest(h1, g) /\ OnlyLinks(h1, g, F \cup {b})
    <3> HIDE DEF F, B
    <3> QED BY <1>1, <2>2, <2>8, <2>9, AppendLaid
  <2>11. Sound(g, S, z, TRUE, B)
    <3>1. F \cup {b} = S \ B
      BY <1>1
    <3>2. ~Stopped(g)
      BY <1>1, <2>7, <2>10 DEF SameRest, Stopped
    <3> QED BY <2>10, <3>1, <3>2 DEF Sound
  <2>12. Kept(h, g, z, B)
    <3>1. Kept(h1, g, z, B)
      <4>1. B \in SUBSET S /\ F \cup {b} \in SUBSET S /\ B \cap (F \cup {b}) = {}
        BY <1>1
      <4> HIDE DEF B, F
      <4> QED BY <1>1, <2>7, <2>10, <4>1, LinksKeep
    <3>2. Kept(h, h1, z, B)
      <4>1. B \in SUBSET S /\ b \notin B
        BY <1>1
      <4>2. \A a \in Words : h1.mem[a] = h.mem[a] \/ (b <= a /\ a < b + z[b])
        BY <2>4, <2>7
      <4> HIDE DEF B
      <4> QED BY <1>1, <4>1, <4>2, WritesKeep
    <3> QED BY <3>1, <3>2 DEF Kept
  <2>13. After(h, g, z, TRUE, B)
    <3>1. B \subseteq S /\ \A x \in B : z[x] = z[x]
      BY <1>1
    <3> HIDE DEF B
    <3> QED BY <2>11, <2>12, <3>1 DEF After
  <2> QED BY <2>13 DEF g
<1> QED BY <1>3, <1>4

-----------------------------------------------------------------------------
(* sf_realloc, and what clients write *)

\* Writing between the header and the footer of an allocated block.
LEMMA PayloadSound ==
    ASSUME NEW h, NEW S, NEW z, NEW wild, NEW A, Sound(h, S, z, wild, A), NEW b \in A,
           NEW g \in Heaps, SameRest(h, g), g.head = h.head,
           \A a \in Words : g.mem[a] = h.mem[a] \/ (b + 8 <= a /\ a < b + z[b] - 8),
           AsPointer(g.mem[b + 8]) \in {NULL, JUNK}
    PROVE  Sound(g, S, z, wild, A) /\ Kept(h, g, z, A \ {b})
<1> DEFINE F == S \ A
<1>1. /\ Laid(h, S, z, wild, A, F, {}) /\ ~Stopped(h) /\ h \in Heaps /\ Tiles(S, z, h.brk)
      /\ A \subseteq S /\ b \in S /\ b \notin F
  BY DEF Laid, Sound
<1>2. b \in Nat /\ z[b] \in Nat /\ z[b] >= 32
  BY <1>1, BlockWords
<1>3. \A a \in Words :
         \/ g.mem[a] = h.mem[a]
         \/ /\ b <= a /\ a < b + z[b] /\ a # b /\ a # b + z[b] - 8
            /\ a = b + 8 => AsPointer(g.mem[a]) \in {NULL, JUNK}
  <2> SUFFICES ASSUME NEW a \in Words, b + 8 <= a, a < b + z[b] - 8
               PROVE  /\ b <= a /\ a < b + z[b] /\ a # b /\ a # b + z[b] - 8
                      /\ a = b + 8 => AsPointer(g.mem[a]) \in {NULL, JUNK}
    OBVIOUS
  <2>1. a \in Nat
    BY WordsAre
  <2>2. b <= a /\ a < b + z[b] /\ a # b /\ a # b + z[b] - 8
    BY <1>2, <2>1
  <2> QED BY <2>2
<1>4. \A a \in Words :
         \/ g.mem[a] = h.mem[a]
         \/ \E x \in S : /\ x <= a /\ a < x + z[x]
                         /\ x \in {} \/ (a # x /\ a # x + z[x] - 8)
                         /\ x \in F => a # x + 8 /\ a # x + 16
                         /\ x \in A /\ a = x + 8 => AsPointer(g.mem[a]) \in {NULL, JUNK}
  BY <1>1, <1>3
<1> HIDE DEF F
<1>5. Laid(g, S, z, wild, A, F, {})
  <2>1. g.brk = h.brk /\ {} \subseteq {}
    BY DEF SameRest
  <2> QED BY <1>1, <1>4, <2>1, LaidFrame
<1>6. Sound(g, S, z, wild, A)
  BY <1>1, <1>5 DEF Sound, SameRest, Stopped, F
<1>7. Kept(h, g, z, A \ {b})
  <2>1. A \ {b} \in SUBSET S /\ b \notin A \ {b}
    BY <1>1
  <2>2. \A a \in Words : g.mem[a] = h.mem[a] \/ (b <= a /\ a < b + z[b])
    BY <1>3
  <2> QED BY <1>1, <2>1, <2>2, WritesKeep
<1> QED BY <1>6, <1>7

\* Writing the header and the footer of an allocated block that keeps its size.
Retagged(h, b, s, v, w) == Put2(h, b, v, b + s - 8, w)

\* A block's padding and requested size may change: the heap stays sound.
LEMMA RetaggedSound ==
    ASSUME NEW h, NEW S, NEW z, NEW wild, NEW A, Sound(h, S, z, wild, A), NEW b \in A,
           NEW v \in Word, NEW w \in Word,
           block_size(v) = z[b], allocated(v) = 1, block_size(w) = z[b], allocated(w) = 1
    PROVE  LET g == Retagged(h, b, z[b], v, w)
           IN /\ Sound(g, S, z, wild, A) /\ Kept(h, g, z, A \ {b}) /\ SameRest(h, g)
              /\ g.mem[b] = v /\ g.mem[b + z[b] - 8] = w
              /\ \A a \in Words : b < a /\ a < b + z[b] - 8 => g.mem[a] = h.mem[a]
<1> DEFINE F == S \ A
           foot == b + z[b] - 8
           g == Retagged(h, b, z[b], v, w)
<1>1. /\ Laid(h, S, z, wild, A, F, {}) /\ ~Stopped(h) /\ h \in Heaps /\ Tiles(S, z, h.brk)
      /\ A \subseteq S /\ b \in S /\ b \notin F /\ A \cap F = {}
  BY DEF Laid, Sound
<1>2. /\ b \in Nat /\ z[b] \in Nat /\ z[b] >= 32 /\ b \in Words /\ foot \in Words /\ b + 8 \in Words
      /\ foot # b /\ foot # b + 8 /\ foot # b + 16 /\ b # b + 8 /\ b # b + 16
  <2>1. /\ b \in Nat /\ z[b] \in Nat /\ z[b] >= 32 /\ b \in Words /\ foot \in Words /\ b + 8 \in Words
    BY <1>1, BlockWords
  <2> QED BY <2>1
<1>3. b <= foot /\ foot < b + z[b] /\ b <= b /\ b < b + z[b]
  BY <1>2
<1>4. Written2(h, g, b, v, foot, w)
  BY <1>1, <1>2, Put2Writes DEF Retagged
<1>5. Laid(g, S, z, wild, A, F, {b})
  <2>1. {} \cup {b, b} = {b}
    OBVIOUS
  <2> HIDE DEF foot, F
  <2>2. Laid(Put2(h, b, v, foot, w), S, z, wild, A, F, {} \cup {b, b})
    BY <1>1, <1>2, <1>3, Put2Laid
  <2> QED BY <2>1, <2>2 DEF Retagged, foot
<1> HIDE DEF g
<1>6. /\ g \in Heaps /\ SameRest(h, g)
      /\ \A x \in Words : g.mem[x] = IF x = foot THEN w ELSE IF x = b THEN v ELSE h.mem[x]
  BY <1>4 DEF Written2
<1>7. g.mem[b] = v /\ g.mem[foot] = w
  BY <1>2, <1>6
<1>8. Laid(g, S, z, wild, A, F, {})
  <2>1. F \cap {b} \subseteq {} /\ A \subseteq S /\ A \cap F = {}
    BY <1>1
  <2>2. Tagged(g, A \ {}, z, 1) /\ \A x \in A : next(g, x) \in {NULL, JUNK}
    BY <1>5, <1>7 DEF Laid, Tagged
  <2> HIDE DEF F
  <2> QED BY <1>5, <2>1, <2>2, LaidTags
<1>9. Sound(g, S, z, wild, A)
  BY <1>1, <1>6, <1>8 DEF Sound, SameRest, Stopped
<1>10. Kept(h, g, z, A \ {b})
  <2>1. A \ {b} \in SUBSET S /\ b \notin A \ {b}
    BY <1>1
  <2>2. \A a \in Words : g.mem[a] = h.mem[a] \/ (b <= a /\ a < b + z[b])
    BY <1>3, <1>6
  <2> QED BY <1>1, <2>1, <2>2, WritesKeep
<1>11. \A a \in Words : b < a /\ a < foot => g.mem[a] = h.mem[a]
  <2>1. \A a \in Words : a \in Nat
    BY WordsAre
  <2>2. foot \in Nat
    BY <1>2
  <2> HIDE DEF foot
  <2> QED BY <1>2, <1>6, <2>1, <2>2
<1> QED BY <1>6, <1>7, <1>9, <1>10, <1>11 DEF g

\* The copy of sf_realloc: the payload of c becomes that of b, as far as b has it.
LEMMA CopySound ==
    ASSUME NEW h, NEW S, NEW z, NEW wild, NEW A, Sound(h, S, z, wild, A), NEW b \in A, NEW c \in A,
           NEW size \in Nat, size + 16 <= z[c]
    PROVE  LET g == CopyTo(h, b, c, size)
           IN /\ Sound(g, S, z, wild, A) /\ Kept(h, g, z, A \ {c}) /\ SameRest(h, g)
              /\ \A a \in Words : c + 8 <= a /\ a < c + 8 + size /\ a - c + b \in Words
                                  => g.mem[a] = h.mem[a - c + b]
<1> DEFINE m == [a \in Words |-> IF a \notin (c + 8) .. (c + 7 + size) THEN h.mem[a]
                                 ELSE IF a - c + b \in Words THEN h.mem[a - c + b] ELSE Zero]
           g == CopyTo(h, b, c, size)
<1>1. /\ Laid(h, S, z, wild, A, S \ A, {}) /\ h \in Heaps /\ Tiles(S, z, h.brk)
      /\ A \subseteq S /\ b \in S /\ c \in S
  BY DEF Laid, Sound
<1>2. /\ b \in Nat /\ c \in Nat /\ z[c] \in Nat /\ z[c] >= 32 /\ b + 8 \in Words /\ c + 8 \in Words
  BY <1>1, BlockWords
<1>3. h.mem \in Mems /\ h.head \in Heads /\ \A a \in Words : h.mem[a] \in Word
  BY <1>1, HeapFields DEF Mems
<1>4. m \in Mems
  BY <1>3, WordIs DEF Mems
<1>5. g = SetHeap(h, m, h.head)
  BY <1>1 DEF CopyTo, SetHeap, Heaps
<1>6. /\ \A a \in Words : a \notin (c + 8) .. (c + 7 + size) => m[a] = h.mem[a]
      /\ \A a \in Words : a \in (c + 8) .. (c + 7 + size) /\ a - c + b \in Words => m[a] = h.mem[a - c + b]
  OBVIOUS
<1> HIDE DEF m, g
<1>7. g \in Heaps /\ SameRest(h, g) /\ g.head = h.head /\ g.mem = m
  BY <1>1, <1>3, <1>4, <1>5, SetHeapIs
<1>8. \A a \in Words : a \in Nat
  BY WordsAre
<1>9. \A a \in Words : m[a] = h.mem[a] \/ (c + 8 <= a /\ a < c + z[c] - 8)
  <2> SUFFICES ASSUME NEW a \in Words, a \in (c + 8) .. (c + 7 + size)
               PROVE  c + 8 <= a /\ a < c + z[c] - 8
    BY <1>6
  <2> QED BY <1>2, <1>8
<1>10. AsPointer(g.mem[c + 8]) \in {NULL, JUNK}
  <2>1. AsPointer(h.mem[c + 8]) \in {NULL, JUNK} /\ AsPointer(h.mem[b + 8]) \in {NULL, JUNK}
    BY <1>1 DEF Laid, next
  <2>2. (c + 8) - c + b = b + 8
    BY <1>2
  <2>3. m[c + 8] = h.mem[c + 8] \/ m[c + 8] = h.mem[b + 8]
    BY <1>2, <1>6, <2>2
  <2> QED BY <1>7, <2>1, <2>3
<1>11. Sound(g, S, z, wild, A) /\ Kept(h, g, z, A \ {c})
  BY <1>7, <1>9, <1>10, PayloadSound
<1>12. \A a \in Words : c + 8 <= a /\ a < c + 8 + size /\ a - c + b \in Words => g.mem[a] = h.mem[a - c + b]
  <2> SUFFICES ASSUME NEW a \in Words, c + 8 <= a, a < c + 8 + size, a - c + b \in Words
               PROVE  g.mem[a] = h.mem[a - c + b]
    OBVIOUS
  <2>1. a \in (c + 8) .. (c + 7 + size)
    BY <1>2, <1>8
  <2> QED BY <1>6, <1>7, <2>1
<1> QED BY <1>7, <1>11, <1>12 DEF g

\* Block b of h is block c of g: its payload is there as far as c goes.
Replaced(h, g, z, B, b, c, size, T, y, D) ==
    /\ Sound(g, T, y, TRUE, D) /\ D \subseteq T
    /\ \A x \in B : y[x] = z[x]
    /\ Kept(h, g, z, B)
    /\ size + 16 <= y[c]
    /\ \A a \in Words : c + 8 <= a /\ a < c + 8 + size /\ a - c + b < b + z[b]
                        => g.mem[a] = h.mem[a - c + b]
MovedTo(h, g, z, A, b, c, size) ==
    c \notin A /\ \E T, y : Replaced(h, g, z, A \ {b}, b, c, size, T, y, (A \ {b}) \cup {c})

\* Moving a block that sf_malloc has a place for.
LEMMA MoveToSound ==
    ASSUME NEW h, NEW S, NEW z, NEW wild, NEW A, Sound(h, S, z, wild, A), NEW b \in A,
           NEW k, NEW c, NEW size \in Nat, Handed(h, k, z, wild, A, c, size)
    PROVE  LET m == MoveTo([heap |-> k, ret |-> c], b, size)
           IN /\ Died(m.heap, wild) \/ MovedTo(h, m.heap, z, A, b, m.ret, size)
              /\ m.ret = c /\ c # NULL
<1> DEFINE B == A \cup {c}
           m == MoveTo([heap |-> k, ret |-> c], b, size)
<1> PICK T, y : /\ Sound(k, T, y, wild, B) /\ B \subseteq T
                /\ \A x \in A : y[x] = z[x]
                /\ Kept(h, k, z, A)
                /\ size + 16 <= y[c] /\ TagsOf(k, c, y[c], IF y[c] = size + 16 THEN 0 ELSE 1, size)
  BY DEF Handed
<1>1. c \notin A /\ b # c
  BY DEF Handed
<1>2. /\ k \in Heaps /\ Tiles(T, y, k.brk) /\ ~Stopped(k) /\ b \in T /\ c \in T /\ b \in B /\ c \in B
      /\ h \in Heaps /\ Tiles(S, z, h.brk) /\ b \in S
  BY DEF Sound, Laid
<1>3. /\ c \in Nat /\ c >= 8 /\ y[c] \in Nat /\ y[c] >= 32 /\ c \in Words /\ y[c] \in Size16
      /\ c + y[c] - 8 \in Words /\ c + y[c] - 8 # c
  <2>1. /\ c \in Nat /\ c >= 8 /\ y[c] \in Nat /\ y[c] >= 32 /\ c \in Words
        /\ c + y[c] - 8 \in Words
    BY <1>2, BlockWords
  <2>2. y[c] \in Size16
    BY <1>2 DEF Tiles
  <2> QED BY <2>1, <2>2
<1>4. /\ b \in Nat /\ z[b] \in Nat /\ z[b] >= 32 /\ b \in Words /\ b + z[b] <= ArenaEnd /\ ArenaEnd \in Nat
      /\ y[b] = z[b]
  <2>1. /\ b \in Nat /\ z[b] \in Nat /\ z[b] >= 32 /\ b \in Words
        /\ b + z[b] <= h.brk /\ h.brk <= ArenaEnd /\ ArenaEnd \in Nat /\ h.brk \in Nat
    BY <1>2, BlockWords
  <2> QED BY <2>1
<1> DEFINE foot == c + y[c] - 8
           q == IF Padding(size) = 0 THEN 0 ELSE 1
           v == Tag(1, q, y[c], 0)
           k1 == Retagged(k, c, y[c], v, k.mem[foot])
           k2 == CopyTo(k1, b, c, size)
           g == Release(k2, b)
<1>5. Flagged(k, c, size) = k1
  <2>1. \E p : k.mem[c] = Tag(1, p, y[c], 0)
    BY DEF TagsOf
  <2>2. [k.mem[c] EXCEPT ![3] = q] = v
    <3> HIDE DEF q
    <3> QED BY <2>1, WriteField
  <2>3. [k EXCEPT !.mem[c] = v] = k1
    <3> HIDE DEF v
    <3> QED BY <1>2, <1>3 DEF Retagged, Put2, SetHeap, Heaps, Put, Mems, Heads
  <2> HIDE DEF v, k1
  <2> QED BY <2>2, <2>3 DEF Flagged
<1>6. /\ v \in Word /\ block_size(v) = y[c] /\ allocated(v) = 1
      /\ k.mem[foot] \in Word /\ block_size(k.mem[foot]) = y[c] /\ allocated(k.mem[foot]) = 1
  <2>1. q \in {0, 1}
    OBVIOUS
  <2>2. k.mem[foot] \in Word
    BY <1>2, <1>3, HeapFields DEF Mems
  <2>3. block_size(k.mem[foot]) = y[c] /\ allocated(k.mem[foot]) = 1
    BY ReadTag DEF TagsOf
  <2> HIDE DEF q, foot
  <2> QED BY <1>3, <2>1, <2>2, <2>3, WordIs, ReadTag
<1> HIDE DEF v
<1>7. Sound(k1, T, y, wild, B) /\ Kept(k, k1, y, B \ {c})
  <2> PICK w : w = k.mem[foot]
    OBVIOUS
  <2> PICK D : D = B
    OBVIOUS
  <2>1. w \in Word /\ block_size(w) = y[c] /\ allocated(w) = 1
    BY <1>6
  <2> HIDE DEF foot, B
  <2>2. c \in D /\ Sound(k, T, y, wild, D)
    BY <1>2
  <2>3. Sound(Retagged(k, c, y[c], v, w), T, y, wild, D) /\ Kept(k, Retagged(k, c, y[c], v, w), y, D \ {c})
    <3> PICK k3 : k3 = Retagged(k, c, y[c], v, w)
      OBVIOUS
    <3>1. Sound(k3, T, y, wild, D) /\ Kept(k, k3, y, D \ {c}) /\ SameRest(k, k3)
      BY <1>6, <2>1, <2>2, RetaggedSound
    <3> QED BY <3>1
  <2> QED BY <2>3
<1> HIDE DEF k1
<1>8. /\ Sound(k2, T, y, wild, B) /\ Kept(k1, k2, y, B \ {c})
      /\ \A a \in Words : c + 8 <= a /\ a < c + 8 + size /\ a - c + b \in Words => k2.mem[a] = k1.mem[a - c + b]
  <2> HIDE DEF B
  <2> QED BY <1>2, <1>7, CopySound
<1> HIDE DEF k2
<1>9. Died(g, wild) \/ After(k2, g, y, TRUE, B \ {b})
  <2> HIDE DEF B
  <2> QED BY <1>2, <1>8, ReleaseSound
<1>10. m = [heap |-> g, ret |-> c] /\ c # NULL
  <2>1. c # NULL
    BY <1>3 DEF NULL
  <2> QED BY <1>2, <1>5, <2>1 DEF MoveTo, k2
<1> HIDE DEF g, m
<1>11. m.heap = g /\ m.ret = c
  BY <1>10
<1>12. CASE After(k2, g, y, TRUE, B \ {b})
  <2>1. B \ {b} = (A \ {b}) \cup {c}
    BY <1>1
  <2> PICK V, u : /\ Sound(g, V, u, TRUE, B \ {b}) /\ B \ {b} \subseteq V
                  /\ \A x \in B \ {b} : u[x] = y[x]
                  /\ Kept(k2, g, y, B \ {b})
    BY <1>12 DEF After
  <2>2. \A x \in A \ {b} : x \in B \ {b} /\ x \in B \ {c} /\ y[x] = z[x] /\ u[x] = z[x]
    BY <1>1
  <2>3. c \in B \ {b} /\ u[c] = y[c]
    BY <1>1
  <2>4. Kept(h, g, z, A \ {b})
    <3> SUFFICES ASSUME NEW x \in A \ {b}, NEW a \in Words, x <= a, a < x + z[x] PROVE g.mem[a] = h.mem[a]
      BY DEF Kept
    <3>1. a < x + y[x]
      BY <2>2
    <3>2. k.mem[a] = h.mem[a]
      BY DEF Kept
    <3>3. k1.mem[a] = k.mem[a] /\ k2.mem[a] = k1.mem[a]
      BY <1>7, <1>8, <2>2, <3>1 DEF Kept
    <3>4. g.mem[a] = k2.mem[a]
      BY <2>2, <3>1 DEF Kept
    <3> QED BY <3>2, <3>3, <3>4
  <2>5. \A a \in Words : c + 8 <= a /\ a < c + 8 + size /\ a - c + b < b + z[b] => g.mem[a] = h.mem[a - c + b]
    <3> SUFFICES ASSUME NEW a \in Words, c + 8 <= a, a < c + 8 + size, a - c + b < b + z[b]
                 PROVE  g.mem[a] = h.mem[a - c + b]
      OBVIOUS
    <3> PICK d : d = a - c + b
      OBVIOUS
    <3>1. /\ a \in Nat /\ a % 8 = 0 /\ b % 8 = 0 /\ c % 8 = 0
      BY <1>3, <1>4, WordsAre
    <3>2. d \in Nat /\ d % 8 = 0 /\ d <= ArenaEnd /\ b <= d /\ d < b + z[b]
      BY <1>3, <1>4, <3>1
    <3>3. d \in Words
      BY <3>2, WordsAre
    <3>4. k2.mem[a] = k1.mem[d]
      BY <1>8, <3>3
    <3>5. k1.mem[d] = k.mem[d]
      <4>1. b \in B \ {c} /\ d < b + y[b]
        BY <1>1, <1>4, <3>2
      <4> QED BY <1>7, <3>2, <3>3, <4>1 DEF Kept
    <3>6. k.mem[d] = h.mem[d]
      BY <3>2, <3>3 DEF Kept
    <3>7. g.mem[a] = k2.mem[a]
      <4>1. c <= a /\ a < c + y[c]
        BY <1>3, <3>1
      <4> QED BY <2>3, <4>1 DEF Kept
    <3> QED BY <3>4, <3>5, <3>6, <3>7
  <2>6. MovedTo(h, g, z, A, b, c, size)
    <3>1. size + 16 <= u[c]
      BY <2>3
    <3> PICK D : D = (A \ {b}) \cup {c}
      OBVIOUS
    <3>2. Sound(g, V, u, TRUE, D) /\ D \subseteq V
      <4> PICK E : E = B \ {b}
        OBVIOUS
      <4>1. Sound(g, V, u, TRUE, E) /\ E = D /\ E \subseteq V
        BY <2>1
      <4> QED BY <4>1, Zenon
    <3> HIDE DEF B
    <3> PICK C : C = A \ {b}
      OBVIOUS
    <3>3. Kept(h, g, z, C)
      BY <2>4
    <3>4. Replaced(h, g, z, C, b, c, size, V, u, D)
      BY <2>2, <2>5, <3>1, <3>2, <3>3 DEF Replaced
    <3>5. \E T1, y1 : Replaced(h, g, z, C, b, c, size, T1, y1, D)
      BY <3>4
    <3>6. c \notin A /\ D = C \cup {c} /\ C = A \ {b}
      BY <1>1
    <3> QED BY <3>5, <3>6, Zenon DEF MovedTo
  <2> QED BY <1>10, <1>11, <2>6 DEF m
<1> QED BY <1>9, <1>10, <1>11, <1>12 DEF m

\* sf_realloc to a larger block: there is memory for it, or the call dies.
LEMMA MoveSound ==
    ASSUME NEW h, NEW S, NEW z, NEW wild, NEW A, Sound(h, S, z, wild, A), NEW b \in A,
           NEW size \in Nat, size > 0, size <= MaxPages * PAGE_SZ
    PROVE  LET m == Move(h, b, size)
           IN /\ Died(m.heap, wild) \/ (MovedTo(h, m.heap, z, A, b, m.ret, size) /\ m.ret # NULL)
              /\ m.ret \in Words
<1> DEFINE k == sf_malloc(h, size)
           m == Move(h, b, size)
<1>1. /\ \/ /\ k.ret = NULL
            /\ \E e \in {"EINVAL", "ENOMEM"} : k.heap = SetErrno(h, e) /\ e = "ENOMEM"
         \/ Died(k.heap, wild)
         \/ Handed(h, k.heap, z, wild, A, k.ret, size)
      /\ k.ret \in Words
  BY MallocSound
<1>2. m = MoveTo(k, b, size)
  BY DEF Move
<1> HIDE DEF k, m
<1>3. NULL \in Words
  BY WordsAre, ArenaIs DEF NULL
<1>4. CASE k.ret = NULL /\ k.heap = SetErrno(h, "ENOMEM")
  <2>1. k.heap \in Heaps /\ k.heap.errno = "ENOMEM" /\ ~Stopped(k.heap)
    <3>1. "ENOMEM" \in Errors
      BY DEF Errors
    <3>2. Sound(k.heap, S, z, wild, A) /\ k.heap.errno = "ENOMEM"
      BY <1>4, <3>1, ErrnoSound
    <3> QED BY <3>2 DEF Sound, Laid
  <2>2. m = [heap |-> Fault(k.heap), ret |-> NULL]
    BY <1>2, <1>4, <2>1 DEF MoveTo
  <2>3. Died(Fault(k.heap), wild)
    BY <2>1 DEF Died, Fault, Heaps, Stopped
  <2>4. m.heap = Fault(k.heap) /\ m.ret = NULL
    BY <2>2
  <2> QED BY <1>3, <2>3, <2>4 DEF m
<1>5. CASE Died(k.heap, wild)
  <2>1. m = k
    BY <1>2, <1>5 DEF MoveTo, Died
  <2> QED BY <1>1, <1>5, <2>1 DEF m
<1>6. CASE Handed(h, k.heap, z, wild, A, k.ret, size)
  <2> PICK g, c : g = k.heap /\ c = k.ret
    OBVIOUS
  <2>1. LET q == MoveTo([heap |-> g, ret |-> c], b, size)
        IN /\ Died(q.heap, wild) \/ MovedTo(h, q.heap, z, A, b, q.ret, size)
           /\ q.ret = c /\ c # NULL
    BY <1>6, MoveToSound
  <2>2. ~Stopped(k.heap)
    BY <1>6 DEF Handed, Sound
  <2>3. m = MoveTo([heap |-> g, ret |-> c], b, size)
    BY <1>2, <2>1, <2>2 DEF MoveTo
  <2> QED BY <1>1, <2>1, <2>3 DEF m
<1> QED BY <1>1, <1>4, <1>5, <1>6

\* The heap after a cut that frees the block behind: the words inside the blocks A stay,
\* of b's the first size bytes, but for those that have become links.
Spoilt(h, g, z, A, b, size) ==
    /\ g \in Heaps /\ g.damaged = "cut" /\ ~g.faulted
    /\ \A x \in A, a \in Words :
         /\ x + 8 <= a /\ a < x + z[x] - 8 /\ (x = b => a < b + 8 + size)
         /\ \A i \in Lists : a # g.head[i] + 8
         => g.mem[a] = h.mem[a]

\* Block b keeps its place and what is in it, up to size bytes; or the call dies, or
\* frees the block behind.
InPlace(h, g, z, wild, A, b, size) ==
    \/ Died(g, wild)
    \/ Spoilt(h, g, z, A, b, size)
    \/ \E T, y : Replaced(h, g, z, A \ {b}, b, b, size, T, y, A)

\* What is cut off block b is merged with the free block behind it.
LEMMA CutSound ==
    ASSUME NEW h, NEW S, NEW z, NEW wild, NEW A, Sound(h, S, z, wild, A), NEW b \in A,
           NEW size \in Nat, NEW s \in Size16, s >= 32, size + 16 <= s, z[b] - s >= 32, NEW p \in {0, 1},
           FreeBlockAt(h, b + z[b])
    PROVE  LET g == Merge(Put2(h, b, Tag(1, p, s, 0), b + s - 8, Tag(1, p, s, size)), b + s, b + z[b])
           IN InPlace(h, g, z, wild, A, b, size)
<1> DEFINE F == S \ A
           c == b + s
           d == b + z[b]
           e == b + s - 8
           v == Tag(1, p, s, 0)
           w == Tag(1, p, s, size)
           h1 == Put2(h, b, v, e, w)
           T == S \cup {c}
           y == SplitSizes(S, z, b, s)
           R == T \ {d}
           u == MergeSizes(T, y, c, d)
           g == Merge(h1, c, d)
<1> SUFFICES InPlace(h, g, z, wild, A, b, size)
  OBVIOUS
<1>1. /\ Laid(h, S, z, wild, A, F, {}) /\ ~Stopped(h) /\ h \in Heaps /\ Tiles(S, z, h.brk)
      /\ A \subseteq S /\ F \subseteq S /\ b \in S /\ b \notin F /\ A \cap F = {} /\ A \cup F = S
  BY DEF Laid, Sound
<1>2. /\ b \in Nat /\ z[b] \in Nat /\ z[b] >= 32 /\ b \in Words
      /\ h.brk <= ArenaEnd /\ h.brk \in Nat
  BY <1>1, BlockWords
<1>3. Tiles(T, y, h.brk) /\ c \notin S
  BY <1>1, <1>2, SplitTiles
<1>4. s \in Nat
  BY DEF Size16
<1>5. /\ \A x \in S : x # b => y[x] = z[x]
      /\ y[b] = s /\ y[c] = z[b] - s /\ b \in T /\ c \in T /\ c # b
  <2>1. \A x \in S : x # c
    BY <1>3
  <2>2. c # b
    BY <1>2, <1>4
  <2> HIDE DEF c
  <2> QED BY <1>1, <2>1, <2>2 DEF SplitSizes, c
<1>6. d \in F /\ d \in S /\ d # c /\ d # b
  <2>1. d \in F
    BY <1>1, FreeNextIsBlock
  <2> QED BY <1>1, <1>3, <2>1
<1>7. /\ e \in Words /\ e # b /\ e # b + 8 /\ e # b + 16 /\ b # b + 8 /\ b # b + 16
      /\ b <= e /\ e < b + z[b] /\ b <= b /\ b < b + z[b] /\ b + y[b] - 8 = e /\ d = c + y[c]
  <2>1. b + y[b] - 8 \in Words
    BY <1>1, <1>3, <1>5, BlockWords
  <2>2. b + y[b] - 8 = e
    BY <1>5
  <2> QED BY <1>2, <1>4, <1>5, <2>1, <2>2
<1>8. v \in Word /\ w \in Word
  BY WordIs
<1>9. /\ block_size(v) = s /\ allocated(v) = 1 /\ block_size(w) = s /\ allocated(w) = 1
  BY ReadTag
<1> HIDE DEF v, w, e
<1>10. Written2(h, h1, b, v, e, w)
  BY <1>1, <1>2, <1>7, <1>8, Put2Writes
<1>11. Laid(h1, S, z, wild, A, F, {b})
  <2>1. {} \cup {b, b} = {b}
    OBVIOUS
  <2> HIDE DEF F
  <2>2. Laid(h1, S, z, wild, A, F, {} \cup {b, b})
    BY <1>1, <1>2, <1>7, <1>8, Put2Laid
  <2> QED BY <2>1, <2>2
<1> HIDE DEF h1
<1>12. /\ h1 \in Heaps /\ SameRest(h, h1) /\ h1.head = h.head /\ h1.brk = h.brk
       /\ \A x \in Words : h1.mem[x] = IF x = e THEN w ELSE IF x = b THEN v ELSE h.mem[x]
  BY <1>10 DEF Written2, SameRest
<1>13. Laid(h1, T, y, wild, A, F, {b})
  <2>1. A \subseteq T /\ F \subseteq T /\ \A x \in A \cup F : x \notin {b} => y[x] = z[x]
    BY <1>1, <1>5
  <2>2. Tiles(T, y, h1.brk) /\ h1.brk >= h1.brk
    BY <1>2, <1>3, <1>12
  <2> HIDE DEF T, y, c, F
  <2> QED BY <1>11, <1>12, <2>1, <2>2, LaidRetile
<1>14. Tagged(h1, {b}, y, 1)
  <2>1. h1.mem[b] = v /\ h1.mem[e] = w
    BY <1>2, <1>7, <1>12
  <2>2. h1.mem[b + y[b] - 8] = w
    BY <1>7, <2>1
  <2> QED BY <1>5, <1>9, <2>1, <2>2 DEF Tagged
<1>15. Laid(h1, T, y, wild, A, F, {c})
  <2>1. F \cap {b} \subseteq {c} /\ A \subseteq T /\ A \cap F = {}
    BY <1>1
  <2>2. Tagged(h1, A \ {c}, y, 1) /\ \A x \in A : next(h1, x) \in {NULL, JUNK}
    BY <1>1, <1>13, <1>14 DEF Laid, Tagged
  <2> HIDE DEF T, y, c, F
  <2> QED BY <1>13, <2>1, <2>2, LaidTags
<1>16. ~Stopped(h1)
  BY <1>1, <1>12 DEF Stopped, SameRest
<1>17. c \notin A /\ c \notin F /\ c \in {c} /\ d \notin {c}
  BY <1>1, <1>3, <1>6
<1>18. \/ Died(g, wild)
       \/ /\ Laid(g, R, u, wild, A, (F \ {d}) \cup {c}, {c} \ {c})
          /\ SameRest(h1, g) /\ Kept(h1, g, y, A)
  <2> PICK x, t : x = d /\ t = c
    OBVIOUS
  <2> HIDE DEF T, y, F
  <2>1. LET k == Merge(h1, t, x)
        IN \/ Died(k, wild)
           \/ /\ Laid(k, T \ {x}, MergeSizes(T, y, t, x), wild, A, (F \ {x}) \cup {t}, {t} \ {t})
              /\ SameRest(h1, k) /\ Kept(h1, k, y, A)
    <3> HIDE DEF c, d
    <3> QED BY <1>5, <1>6, <1>7, <1>15, <1>16, <1>17, MergeLaid
  <2> QED BY <2>1
<1>19. CASE /\ Laid(g, R, u, wild, A, (F \ {d}) \cup {c}, {c} \ {c})
            /\ SameRest(h1, g) /\ Kept(h1, g, y, A)
  <2>1. (F \ {d}) \cup {c} = R \ A /\ {c} \ {c} = {}
    BY <1>1, <1>6, <1>17
  <2>2. Laid(g, R, u, TRUE, A, R \ A, {})
    <3> PICK G, V : G = (F \ {d}) \cup {c} /\ V = {c} \ {c}
      OBVIOUS
    <3>1. G = R \ A /\ V = {}
      BY <2>1
    <3> HIDE DEF F, R, u, g, c, d
    <3>2. Laid(g, R, u, wild, A, G, V)
      BY <1>19
    <3>3. Laid(g, R, u, TRUE, A, G, V)
      BY <3>2, LaidWild
    <3> QED BY <3>1, <3>3, Zenon
  <2>3. Sound(g, R, u, TRUE, A)
    BY <1>16, <1>19, <2>2 DEF Sound, SameRest, Stopped
  <2>4. /\ A \subseteq R /\ \A x \in A : u[x] = y[x]
    <3>1. \A x \in A : x \in R /\ x # c /\ x \in T \ {d}
      BY <1>1, <1>6, <1>17
    <3> HIDE DEF c, d, T
    <3>2. \A x \in A : u[x] = y[x]
      BY <3>1 DEF MergeSizes
    <3> QED BY <3>1, <3>2
  <2>5. u[b] = s /\ \A x \in A \ {b} : u[x] = z[x] /\ y[x] = z[x]
    BY <1>1, <1>5, <2>4
  <2> HIDE DEF g, R, u, T, y, F
  <2>6. Kept(h, g, z, A \ {b})
    <3>1. Kept(h, h1, z, A \ {b})
      <4>1. A \ {b} \in SUBSET S /\ b \notin A \ {b}
        BY <1>1
      <4>2. \A a \in Words : h1.mem[a] = h.mem[a] \/ (b <= a /\ a < b + z[b])
        BY <1>7, <1>12
      <4> QED BY <1>1, <4>1, <4>2, WritesKeep
    <3> QED BY <1>19, <2>5, <3>1 DEF Kept
  <2>7. ASSUME NEW a \in Words, b + 8 <= a, a < b + 8 + size
        PROVE  g.mem[a] = h.mem[a - b + b]
    <3>1. a \in Nat /\ a - b + b = a
      BY <1>2, WordsAre
    <3>2. a # b /\ a # e /\ b <= a /\ a < b + s
      BY <1>2, <1>4, <2>7, <3>1 DEF e
    <3>3. h1.mem[a] = h.mem[a]
      BY <1>12, <3>2
    <3>4. g.mem[a] = h1.mem[a]
      BY <1>5, <1>19, <3>2 DEF Kept
    <3> QED BY <3>1, <3>3, <3>4
  <2>8. Replaced(h, g, z, A \ {b}, b, b, size, R, u, A)
    <3> PICK B : B = A \ {b}
      OBVIOUS
    <3>1. Kept(h, g, z, B) /\ \A x \in B : u[x] = z[x]
      BY <2>5, <2>6
    <3>2. size + 16 <= u[b]
      BY <2>5
    <3>3. Replaced(h, g, z, B, b, b, size, R, u, A)
      BY <2>3, <2>4, <2>7, <3>1, <3>2 DEF Replaced
    <3> QED BY <3>3
  <2>9. \E T1, y1 : Replaced(h, g, z, A \ {b}, b, b, size, T1, y1, A)
    BY <2>8
  <2> QED BY <2>9, Zenon DEF InPlace
<1>20. CASE Died(g, wild)
  BY <1>20, Zenon DEF InPlace
<1> HIDE DEF g, R, u, T, y, F, c, d
<1> QED BY <1>18, <1>19, <1>20

\* A block that keeps its size has a new requested size.
LEMMA RetagInPlace ==
    ASSUME NEW h, NEW S, NEW z, NEW wild, NEW A, Sound(h, S, z, wild, A), NEW b \in A,
           NEW v \in Word, NEW w \in Word, NEW size \in Nat, size + 16 <= z[b],
           block_size(v) = z[b], allocated(v) = 1, block_size(w) = z[b], allocated(w) = 1
    PROVE  InPlace(h, Retagged(h, b, z[b], v, w), z, wild, A, b, size)
<1> PICK g : g = Retagged(h, b, z[b], v, w)
  OBVIOUS
<1>1. h \in Heaps /\ Tiles(S, z, h.brk) /\ b \in S /\ A \subseteq S
  BY DEF Sound, Laid
<1>2. /\ Sound(g, S, z, wild, A) /\ Kept(h, g, z, A \ {b}) /\ SameRest(h, g)
      /\ \A a \in Words : b < a /\ a < b + z[b] - 8 => g.mem[a] = h.mem[a]
  <2>1. LET k == Retagged(h, b, z[b], v, w)
        IN /\ Sound(k, S, z, wild, A) /\ Kept(h, k, z, A \ {b}) /\ SameRest(h, k)
           /\ k.mem[b] = v /\ k.mem[b + z[b] - 8] = w
           /\ \A a \in Words : b < a /\ a < b + z[b] - 8 => k.mem[a] = h.mem[a]
    BY RetaggedSound
  <2> QED BY <2>1
<1>3. Sound(g, S, z, TRUE, A)
  <2> PICK F : F = S \ A
    OBVIOUS
  <2>1. Laid(g, S, z, TRUE, A, F, {})
    BY <1>2, LaidWild DEF Sound
  <2> QED BY <1>2, <2>1 DEF Sound
<1>4. ASSUME NEW a \in Words, b + 8 <= a, a < b + 8 + size PROVE g.mem[a] = h.mem[a - b + b]
  <2>1. b \in Nat /\ z[b] \in Nat /\ a \in Nat
    BY <1>1, BlockWords, WordsAre
  <2>2. a - b + b = a /\ b < a /\ a < b + z[b] - 8
    BY <1>4, <2>1
  <2> QED BY <1>2, <2>2
<1>5. Replaced(h, g, z, A \ {b}, b, b, size, S, z, A)
  <2> PICK B : B = A \ {b}
    OBVIOUS
  <2>1. Kept(h, g, z, B)
    BY <1>2
  <2>2. Replaced(h, g, z, B, b, b, size, S, z, A)
    BY <1>1, <1>3, <1>4, <2>1 DEF Replaced
  <2> QED BY <2>2
<1>6. \E T, y : Replaced(h, g, z, A \ {b}, b, b, size, T, y, A)
  BY <1>5
<1>7. InPlace(h, g, z, wild, A, b, size)
  BY <1>6, Zenon DEF InPlace
<1> QED BY <1>7

\* What append writes, whatever it is given for a block.
LEMMA AppendWrites ==
    ASSUME NEW h \in Heaps, NEW i \in Lists, NEW b \in Words
    PROVE  LET g == append(h, i, b)
           IN /\ g \in Heaps /\ SameRest(h, g) /\ g.head[i] = b
              /\ \A a \in Words : \/ a = b + 8
                                  \/ h.head[i] # NULL /\ a = h.head[i] + 16
                                  \/ g.mem[a] = h.mem[a]
<1> DEFINE g == append(h, i, b)
           r == h.head[i]
<1>1. h.mem \in [Words -> Word] /\ h.head \in [Lists -> Words] /\ r \in Words
  BY HeapFields DEF Mems, Heads
<1>2. CASE r = NULL
  <2>1. g = [h EXCEPT !.head[i] = b]
    BY <1>2 DEF append
  <2> QED BY <1>1, <1>2, <2>1 DEF Heaps, SameRest, Mems, Heads
<1>3. CASE r # NULL
  <2>1. g = [h EXCEPT !.mem = [[h.mem EXCEPT ![r + 16] = Link(b)] EXCEPT ![b + 8] = Link(r)],
                      !.head = [h.head EXCEPT ![i] = b]]
    BY <1>3 DEF append, Heaps, Mems, Heads
  <2>2. Link(r) \in Word /\ Link(b) \in Word
    BY <1>1, WordIs
  <2>3. [[h.mem EXCEPT ![r + 16] = Link(b)] EXCEPT ![b + 8] = Link(r)] \in [Words -> Word]
    BY <1>1, <2>2
  <2>4. [h.head EXCEPT ![i] = b] \in [Lists -> Words]
    BY <1>1
  <2>5. g \in Heaps /\ SameRest(h, g) /\ g.head = [h.head EXCEPT ![i] = b]
        /\ g.mem = [[h.mem EXCEPT ![r + 16] = Link(b)] EXCEPT ![b + 8] = Link(r)]
    BY <2>1, <2>3, <2>4 DEF Heaps, SameRest, Mems, Heads
  <2> HIDE DEF g, r
  <2>6. \A a \in Words : a = b + 8 \/ a = r + 16 \/ g.mem[a] = h.mem[a]
    BY <1>1, <2>5
  <2>7. g.head[i] = b
    BY <1>1, <2>5
  <2>8. \A a \in Words : a = b + 8 \/ (r # NULL /\ a = r + 16) \/ g.mem[a] = h.mem[a]
    BY <1>3, <2>6
  <2> QED BY <2>5, <2>7, <2>8 DEF g, r
<1> QED BY <1>2, <1>3

\* The head of a list is a free block.
LEMMA HeadIsFree ==
    ASSUME NEW h, NEW S, NEW z, NEW wild, NEW A, Sound(h, S, z, wild, A), NEW i \in Lists, h.head[i] # NULL
    PROVE  h.head[i] \in S \ A
<1> PICK n, f : Linked(h, n, f, wild) /\ Listed(n, f, z, S \ A, {})
  BY DEF Sound, Laid
<1>1. n[i] # 0 /\ n[i] \in Nat /\ h.head[i] = f[i][0]
  BY DEF Linked
<1>2. 0 < n[i] /\ 0 \in Nat
  BY <1>1
<1> QED BY <1>1, <1>2 DEF Listed

\* A cut that frees the block behind changes no word inside a block, but for a link.
LEMMA BehindSpoils ==
    ASSUME NEW h, NEW S, NEW z, NEW wild, NEW A, Sound(h, S, z, wild, A), NEW b \in A,
           NEW s \in Size16, s >= 32, NEW size \in Nat, size + 16 <= s, z[b] - s >= 32, NEW p \in {0, 1}
    PROVE  LET k == Put2(h, b, Tag(1, p, s, 0), b + s - 8, Tag(1, p, s, size))
           IN Spoilt(h, FreeBehind(k, b + s - 8, s, b + z[b]), z, A, b, size)
<1> DEFINE foot == b + s - 8
           c == b + z[b]
           k == Put2(h, b, Tag(1, p, s, 0), foot, Tag(1, p, s, size))
           v == Tag(0, 0, block_size(k.mem[c]), requested_size(k.mem[c]))
           w == Tag(0, 0, s, 0)
           k2 == Put2(k, c, v, foot, w)
           i == get_list_index(s)
           k3 == append(k2, i, c)
           g == FreeBehind(k, foot, s, c)
<1>1. /\ h \in Heaps /\ Tiles(S, z, h.brk) /\ b \in S /\ A \subseteq S /\ h.damaged = "no" /\ ~h.faulted
  BY DEF Sound, Laid, Stopped
<1>2. /\ b \in Nat /\ b >= 8 /\ z[b] \in Nat /\ z[b] % 16 = 0 /\ b % 8 = 0 /\ c <= h.brk /\ h.brk \in Nat /\ h.brk <= ArenaEnd
      /\ ArenaEnd \in Nat /\ s \in Nat /\ s % 16 = 0
  <2>1. h.brk \in Nat /\ h.brk <= ArenaEnd /\ ArenaEnd \in Nat
    BY <1>1, HeapFields
  <2> QED BY <1>1, <2>1, TilesApart DEF Size16
<1>3. /\ c \in Nat /\ foot \in Nat /\ c % 8 = 0 /\ foot % 8 = 0 /\ c <= ArenaEnd /\ foot <= ArenaEnd
      /\ b < foot /\ foot < c /\ b + 8 + size <= foot
  BY <1>2
<1>4. b \in Words /\ c \in Words /\ foot \in Words
  BY <1>2, <1>3, WordsAre
<1>5. i \in Lists
  <2>1. s <= MaxPages * PAGE_SZ
    <3>1. ArenaEnd = 8 + MaxPages * PAGE_SZ /\ MaxPages * PAGE_SZ \in Nat
      BY ArenaIs, PagesAssumption DEF ArenaEnd, heap_start
    <3> QED BY <1>2, <3>1
  <2> QED BY <1>2, <2>1, ListIndexIs
<1> HIDE DEF foot, c, i
<1>6. Tag(1, p, s, 0) \in Word /\ Tag(1, p, s, size) \in Word /\ w \in Word
  BY WordIs
<1>7. /\ k \in Heaps /\ SameRest(h, k) /\ k.head = h.head
      /\ \A a \in Words : a # b /\ a # foot => k.mem[a] = h.mem[a]
  <2> HIDE DEF w
  <2> QED BY <1>1, <1>4, <1>6, Put2Is
<1> HIDE DEF k, w
<1>8. v \in Word
  <2>1. k.mem[c] \in Word
    BY <1>4, <1>7, HeapFields DEF Mems
  <2>2. block_size(k.mem[c]) \in Size16 /\ requested_size(k.mem[c]) \in Nat
    BY <2>1, ReadWord
  <2> QED BY <2>2, WordIs
<1> HIDE DEF v
<1>9. /\ k2 \in Heaps /\ SameRest(k, k2) /\ k2.head = k.head
      /\ \A a \in Words : a # c /\ a # foot => k2.mem[a] = k.mem[a]
  BY <1>4, <1>6, <1>7, <1>8, Put2Is
<1>10. k2 = [k EXCEPT !.mem[c] = v, !.mem[foot] = w]
  BY <1>7 DEF Put2, SetHeap, Heaps, Put
<1>11. g = Damage(k3, "cut")
  <2>1. [k EXCEPT !.mem[c] = v, !.mem[foot] = w]
          = [k EXCEPT !.mem[c] = Tag(0, 0, block_size(@), requested_size(@)), !.mem[foot] = Tag(0, 0, s, 0)]
    BY <1>7 DEF v, w, Heaps
  <2>2. k2 = [k EXCEPT !.mem[c] = Tag(0, 0, block_size(@), requested_size(@)), !.mem[foot] = Tag(0, 0, s, 0)]
    BY <1>10, <2>1
  <2> HIDE DEF k2
  <2> QED BY <2>2 DEF FreeBehind, i
<1> HIDE DEF k2
<1>12. /\ k3 \in Heaps /\ SameRest(k2, k3) /\ k3.head[i] = c
       /\ \A a \in Words : a = c + 8 \/ (k2.head[i] # NULL /\ a = k2.head[i] + 16) \/ k3.mem[a] = k2.mem[a]
  BY <1>4, <1>5, <1>9, AppendWrites
<1> HIDE DEF k3, g
<1>13. /\ g \in Heaps /\ g.damaged = "cut" /\ ~g.faulted /\ g.mem = k3.mem /\ g.head = k3.head
  <2>1. ~k3.faulted
    BY <1>1, <1>7, <1>9, <1>12 DEF SameRest
  <2> QED BY <1>11, <1>12, <2>1 DEF Damage, Heaps, Damages
<1>14. ASSUME NEW x \in A, NEW a \in Words, x + 8 <= a, a < x + z[x] - 8, x = b => a < b + 8 + size,
              \A j \in Lists : a # g.head[j] + 8
       PROVE  g.mem[a] = h.mem[a]
  <2>1. /\ x \in S /\ x \in Nat /\ z[x] \in Nat /\ a \in Nat /\ x + z[x] <= h.brk
        /\ x # b => b + z[b] <= x \/ x + z[x] <= b
    <3>1. x \in S /\ a \in Nat
      BY <1>1, WordsAre
    <3> QED BY <1>1, <1>2, <3>1, TilesApart
  <2>2. a # b /\ a # foot
    BY <1>2, <1>3, <1>14, <2>1 DEF c
  <2>3. a # c
    <3>1. CASE c = h.brk
      BY <1>2, <1>14, <2>1, <3>1
    <3>2. CASE c \in S
      <4>1. c # x => x + z[x] <= c \/ c + z[c] <= x
        BY <1>1, <1>2, <2>1, <3>2, TilesApart
      <4>2. z[c] \in Nat /\ z[c] >= 32
        BY <1>1, <1>2, <3>2, TilesApart
      <4> QED BY <1>3, <1>14, <2>1, <4>1, <4>2
    <3> QED BY <1>1, <3>1, <3>2 DEF Tiles, c
  <2>4. a # c + 8
    BY <1>5, <1>12, <1>13, <1>14
  <2>5. h.head[i] # NULL => a # h.head[i] + 16
    <3> SUFFICES ASSUME h.head[i] # NULL PROVE a # h.head[i] + 16
      OBVIOUS
    <3> PICK y : y = h.head[i]
      OBVIOUS
    <3>1. y \in S /\ y \notin A
      BY <1>5, HeadIsFree
    <3>2. y \in Nat /\ z[y] \in Nat /\ z[y] >= 32 /\ (y # x => y + z[y] <= x \/ x + z[x] <= y)
      BY <1>1, <1>2, <2>1, <3>1, TilesApart
    <3> QED BY <1>14, <2>1, <3>1, <3>2
  <2>6. k3.mem[a] = k2.mem[a]
    BY <1>7, <1>9, <1>12, <2>4, <2>5
  <2> QED BY <1>7, <1>9, <1>13, <2>2, <2>3, <2>6
<1>15. Spoilt(h, g, z, A, b, size)
  BY <1>13, <1>14 DEF Spoilt
<1> QED BY <1>15 DEF g, k, foot, c

\* sf_realloc to a smaller block.
LEMMA ShrinkSound ==
    ASSUME NEW h, NEW S, NEW z, NEW wild, NEW A, Sound(h, S, z, wild, A), NEW b \in A,
           NEW size \in Nat, size > 0, BlockFor(size) < z[b]
    PROVE  InPlace(h, Shrink(h, b, size), z, wild, A, b, size)
<1> DEFINE old == z[b]
           s == BlockFor(size)
           p == IF Padding(size) # 0 THEN 1 ELSE padded(h.mem[b])
           foot == b + old - 8
           v == h.mem[b]
           w == [h.mem[foot] EXCEPT ![5] = size]
           g == Shrink(h, b, size)
<1>1. /\ h \in Heaps /\ Tiles(S, z, h.brk) /\ b \in S /\ A \subseteq S /\ ~Stopped(h)
  BY DEF Sound, Laid
<1>2. /\ b \in Nat /\ old \in Nat /\ old >= 32 /\ b \in Words /\ foot \in Words /\ foot # b /\ h.mem \in Mems
      /\ h.mem[b] \in Word /\ h.mem[foot] \in Word
  <2>1. /\ b \in Nat /\ old \in Nat /\ old >= 32 /\ b \in Words /\ foot \in Words
    BY <1>1, BlockWords
  <2>2. h.mem \in Mems
    BY <1>1, HeapFields
  <2>3. foot # b
    BY <2>1
  <2> HIDE DEF foot
  <2> QED BY <2>1, <2>2, <2>3 DEF Mems
<1>3. /\ block_size(v) = old /\ allocated(v) = 1 /\ block_size(h.mem[foot]) = old /\ allocated(h.mem[foot]) = 1
  BY DEF Sound, Laid, Tagged
<1>4. /\ s \in Size16 /\ s \in Nat /\ s >= 32 /\ size + 16 <= s
  BY BlockForIs
<1>5. SizeAt(h, b) = old /\ FooterOf(h, b) = foot
  BY <1>3 DEF SizeAt, FooterOf
<1>6. CASE old - s < 32
  <2>1. w = Tag(1, padded(h.mem[foot]), old, size) /\ padded(h.mem[foot]) \in {0, 1} /\ old \in Size16
    <3>1. h.mem[foot] = Tag(1, padded(h.mem[foot]), old, requested_size(h.mem[foot])) /\ padded(h.mem[foot]) \in {0, 1}
      <4> PICK x \in Word : x = h.mem[foot]
        BY <1>2
      <4>1. block_size(x) > 0 /\ allocated(x) = 1 /\ block_size(x) = old
        <5>1. old > 0
          BY <1>2
        <5> QED BY <1>3, <5>1
      <4>2. x = Tag(1, padded(x), old, requested_size(x)) /\ padded(x) \in {0, 1}
        BY <4>1, ReadWord
      <4> QED BY <4>2
    <3>2. old \in Size16
      BY <1>1 DEF Tiles
    <3> HIDE DEF foot, old
    <3> QED BY <3>1, <3>2, WriteField
  <2>2. w \in Word /\ block_size(w) = old /\ allocated(w) = 1
    <3> HIDE DEF w
    <3> QED BY <2>1, WordIs, ReadTag
  <2>3. g = Retagged(h, b, old, v, w)
    <3>1. g = [h EXCEPT !.mem[foot] = [@ EXCEPT ![5] = size]]
      <4>1. ~(SizeAt(h, b) - BlockFor(size) >= 32 /\ FreeBlockAt(h, b + SizeAt(h, b)))
        BY <1>2, <1>4, <1>5, <1>6
      <4>2. SizeAt(h, b) - BlockFor(size) < 32
        BY <1>5, <1>6
      <4>3. Shrink(h, b, size) = [h EXCEPT !.mem[FooterOf(h, b)] = [@ EXCEPT ![5] = size]]
        BY <4>1, <4>2, Zenon DEF Shrink
      <4> QED BY <1>5, <4>3
    <3>2. [h EXCEPT !.mem[foot] = [@ EXCEPT ![5] = size]] = [h EXCEPT !.mem[foot] = w]
      BY <1>1, <1>2 DEF Heaps, Mems
    <3>3. [h EXCEPT !.mem[foot] = w] = Retagged(h, b, old, v, w)
      <4>1. Put(h.mem, b, v) = h.mem
        BY <1>2 DEF Put, Mems
      <4> HIDE DEF w, v
      <4> QED BY <1>1, <4>1 DEF Retagged, Put2, SetHeap, Heaps, Put
    <3> QED BY <3>1, <3>2, <3>3
  <2>4. size + 16 <= old
    BY <1>2, <1>4
  <2> HIDE DEF w, g
  <2>5. InPlace(h, Retagged(h, b, z[b], v, w), z, wild, A, b, size)
    BY <1>2, <1>3, <2>2, <2>4, RetagInPlace
  <2> QED BY <2>3, <2>5 DEF g
<1>7. CASE old - s >= 32 /\ FreeBlockAt(h, b + old)
  <2>1. p \in {0, 1}
    BY <1>2, ReadWord
  <2>2. g = Merge(Put2(h, b, Tag(1, p, s, 0), b + s - 8, Tag(1, p, s, size)), b + s, b + old)
    <3>1. ~(old - s < 32)
      BY <1>2, <1>4, <1>7
    <3>2. [h EXCEPT !.mem[b] = Tag(1, p, s, 0), !.mem[b + s - 8] = Tag(1, p, s, size)]
            = Put2(h, b, Tag(1, p, s, 0), b + s - 8, Tag(1, p, s, size))
      <4> HIDE DEF p, s
      <4> QED BY <1>1 DEF Put2, SetHeap, Heaps, Put
    <3>3. g = Merge([h EXCEPT !.mem[b] = Tag(1, p, s, 0), !.mem[b + s - 8] = Tag(1, p, s, size)], b + s, b + old)
      <4> PICK k : k = [h EXCEPT !.mem[b] = Tag(1, p, s, 0), !.mem[b + s - 8] = Tag(1, p, s, size)]
        OBVIOUS
      <4>1. LET gg == Shrink(h, b, size)
            IN gg = CASE old - s < 32 -> [h EXCEPT !.mem[FooterOf(h, b)] = [@ EXCEPT ![5] = size]]
                      [] old - s >= 32 /\ FreeBlockAt(h, b + old) -> Merge(k, b + s, b + old)
                      [] OTHER -> FreeBehind(k, b + s - 8, s, b + old)
        BY <1>5 DEF Shrink
      <4> HIDE DEF s, old, p
      <4> QED BY <1>7, <3>1, <4>1
    <3> HIDE DEF p, s, g
    <3> QED BY <3>2, <3>3
  <2> HIDE DEF g, p, s
  <2>3. InPlace(h, Merge(Put2(h, b, Tag(1, p, s, 0), b + s - 8, Tag(1, p, s, size)), b + s, b + z[b]), z, wild, A, b, size)
    BY <1>4, <1>7, <2>1, CutSound
  <2> QED BY <2>2, <2>3 DEF g
<1>8. CASE old - s >= 32 /\ ~FreeBlockAt(h, b + old)
  <2>1. p \in {0, 1}
    BY <1>2, ReadWord
  <2>2. g = FreeBehind(Put2(h, b, Tag(1, p, s, 0), b + s - 8, Tag(1, p, s, size)), b + s - 8, s, b + old)
    <3>1. ~(old - s < 32) /\ ~(old - s >= 32 /\ FreeBlockAt(h, b + old))
      BY <1>2, <1>4, <1>8
    <3> PICK k : k = [h EXCEPT !.mem[b] = Tag(1, p, s, 0), !.mem[b + s - 8] = Tag(1, p, s, size)]
      OBVIOUS
    <3>2. k = Put2(h, b, Tag(1, p, s, 0), b + s - 8, Tag(1, p, s, size))
      <4> HIDE DEF p, s
      <4> QED BY <1>1 DEF Put2, SetHeap, Heaps, Put
    <3>3. g = FreeBehind(k, b + s - 8, s, b + old)
      <4>1. LET gg == Shrink(h, b, size)
            IN gg = CASE old - s < 32 -> [h EXCEPT !.mem[FooterOf(h, b)] = [@ EXCEPT ![5] = size]]
                      [] old - s >= 32 /\ FreeBlockAt(h, b + old) -> Merge(k, b + s, b + old)
                      [] OTHER -> FreeBehind(k, b + s - 8, s, b + old)
        BY <1>5 DEF Shrink
      <4> HIDE DEF s, old, p
      <4> QED BY <3>1, <4>1
    <3> HIDE DEF p, s, g
    <3> QED BY <3>2, <3>3
  <2> HIDE DEF g, p, s
  <2>3. Spoilt(h, FreeBehind(Put2(h, b, Tag(1, p, s, 0), b + s - 8, Tag(1, p, s, size)), b + s - 8, s, b + z[b]),
               z, A, b, size)
    BY <1>4, <1>8, <2>1, BehindSpoils
  <2>4. Spoilt(h, g, z, A, b, size)
    BY <2>2, <2>3
  <2> QED BY <2>4, Zenon DEF InPlace, g
<1>9. old - s < 32 \/ old - s >= 32
  BY <1>2, <1>4
<1> QED BY <1>6, <1>7, <1>8, <1>9

\* The tags of a block that sf_free and sf_realloc accept: both flags say whether the
\* request leaves padding.
PlainTags(g, b, s) ==
    LET foot == g.mem[b + s - 8]
    IN /\ padded(g.mem[b]) = padded(foot)
       /\ padded(foot) = IF requested_size(foot) + 16 = s THEN 0 ELSE 1

\* sf_realloc to a size that takes the same block.
LEMMA KeepSound ==
    ASSUME NEW h, NEW S, NEW z, NEW wild, NEW A, Sound(h, S, z, wild, A), NEW b \in A,
           NEW size \in Nat, BlockFor(size) = z[b]
    PROVE  LET g == Keep(h, b, size)
           IN /\ Sound(g, S, z, wild, A) /\ Kept(h, g, z, A \ {b})
              /\ \A a \in Words : b < a /\ a < b + z[b] - 8 => g.mem[a] = h.mem[a]
              /\ g = h \/ PlainTags(g, b, z[b])
              /\ size + 16 <= z[b]
<1> DEFINE old == z[b]
           foot == b + old - 8
           pad == IF Padding(size) = 0 THEN 0 ELSE 1
           g == Keep(h, b, size)
<1>1. /\ h \in Heaps /\ Tiles(S, z, h.brk) /\ b \in S /\ A \subseteq S /\ ~Stopped(h)
  BY DEF Sound, Laid
<1>2. /\ b \in Nat /\ old \in Nat /\ old >= 32 /\ b \in Words /\ foot \in Words /\ foot # b
      /\ h.mem \in Mems /\ old \in Size16
  <2>1. /\ b \in Nat /\ old \in Nat /\ old >= 32 /\ b \in Words /\ foot \in Words
    BY <1>1, BlockWords
  <2>2. h.mem \in Mems
    BY <1>1, HeapFields
  <2>3. foot # b
    BY <2>1
  <2>4. old \in Size16
    BY <1>1 DEF Tiles
  <2> QED BY <2>1, <2>2, <2>3, <2>4
<1>3. /\ block_size(h.mem[b]) = old /\ allocated(h.mem[b]) = 1
      /\ block_size(h.mem[foot]) = old /\ allocated(h.mem[foot]) = 1
  BY DEF Sound, Laid, Tagged
<1>4. SizeAt(h, b) = old /\ FooterOf(h, b) = foot
  BY <1>3 DEF SizeAt, FooterOf
<1>5. size + 16 <= old /\ (size + 16 = old <=> Padding(size) = 0)
  <2> PICK k : k = Padding(size)
    OBVIOUS
  <2>1. k \in 0 .. 15 /\ old = size + 16 + k
    BY BlockForIs
  <2> QED BY <2>1
<1>6. CASE requested_size(h.mem[foot]) = size
  <2>1. g = h
    BY <1>4, <1>6 DEF Keep
  <2>2. Kept(h, h, z, A \ {b})
    BY DEF Kept
  <2> QED BY <1>5, <2>1, <2>2
<1>7. CASE requested_size(h.mem[foot]) # size
  <2> PICK x, q : x = h.mem[b] /\ q = h.mem[foot]
    OBVIOUS
  <2>1. x \in Word /\ q \in Word
    <3> HIDE DEF foot
    <3> QED BY <1>2 DEF Mems
  <2>2. /\ x = Tag(1, padded(x), old, requested_size(x)) /\ requested_size(x) \in Nat
        /\ q = Tag(1, padded(q), old, requested_size(q))
    <3>1. /\ block_size(x) > 0 /\ allocated(x) = 1 /\ block_size(x) = old
          /\ block_size(q) > 0 /\ allocated(q) = 1 /\ block_size(q) = old
      BY <1>2, <1>3
    <3> QED BY <2>1, <3>1, ReadWord
  <2> DEFINE v == [x EXCEPT ![3] = pad]
             w == [[q EXCEPT ![3] = pad] EXCEPT ![5] = size]
  <2>3. v = Tag(1, pad, old, requested_size(x)) /\ w = Tag(1, pad, old, size)
    <3> HIDE DEF pad, old
    <3>1. v = Tag(1, pad, old, requested_size(x)) /\ [q EXCEPT ![3] = pad] = Tag(1, pad, old, requested_size(q))
      BY <2>2, WriteField
    <3>2. [Tag(1, pad, old, requested_size(q)) EXCEPT ![5] = size] = Tag(1, pad, old, size)
      BY WriteField
    <3> QED BY <3>1, <3>2
  <2>4. g = Retagged(h, b, old, v, w)
    <3>1. g = [h EXCEPT !.mem[b] = [@ EXCEPT ![3] = pad],
                        !.mem[foot] = [[@ EXCEPT ![3] = pad] EXCEPT ![5] = size]]
      <4>1. requested_size(h.mem[FooterOf(h, b)]) # size
        BY <1>4, <1>7
      <4> HIDE DEF foot
      <4> QED BY <1>4, <4>1 DEF Keep
    <3> HIDE DEF pad, g, old
    <3>2. [h EXCEPT !.mem[b] = [@ EXCEPT ![3] = pad],
                    !.mem[foot] = [[@ EXCEPT ![3] = pad] EXCEPT ![5] = size]]
            = [h EXCEPT !.mem[b] = v, !.mem[foot] = w]
      <4> HIDE DEF foot
      <4> QED BY <1>1, <1>2 DEF Heaps, Mems
    <3>3. [h EXCEPT !.mem[b] = v, !.mem[foot] = w] = Retagged(h, b, old, v, w)
      <4> HIDE DEF v, w
      <4> QED BY <1>1 DEF Retagged, Put2, SetHeap, Heaps, Put
    <3> QED BY <3>1, <3>2, <3>3
  <2>5. pad \in {0, 1}
    OBVIOUS
  <2>6. /\ v \in Word /\ block_size(v) = old /\ allocated(v) = 1 /\ padded(v) = pad
        /\ w \in Word /\ block_size(w) = old /\ allocated(w) = 1 /\ padded(w) = pad /\ requested_size(w) = size
    <3> HIDE DEF v, w, pad, old
    <3> QED BY <1>2, <2>2, <2>3, <2>5, WordIs, ReadTag
  <2> HIDE DEF v, w
  <2>7. LET k == Retagged(h, b, old, v, w)
        IN /\ Sound(k, S, z, wild, A) /\ Kept(h, k, z, A \ {b}) /\ SameRest(h, k)
           /\ k.mem[b] = v /\ k.mem[b + z[b] - 8] = w
           /\ \A a \in Words : b < a /\ a < b + z[b] - 8 => k.mem[a] = h.mem[a]
    <3> PICK v1, w1 : v1 = v /\ w1 = w
      OBVIOUS
    <3>1. v1 \in Word /\ w1 \in Word /\ block_size(v1) = z[b] /\ allocated(v1) = 1 /\ block_size(w1) = z[b] /\ allocated(w1) = 1
      BY <2>6
    <3>2. LET k == Retagged(h, b, z[b], v1, w1)
          IN /\ Sound(k, S, z, wild, A) /\ Kept(h, k, z, A \ {b}) /\ SameRest(h, k)
             /\ k.mem[b] = v1 /\ k.mem[b + z[b] - 8] = w1
             /\ \A a \in Words : b < a /\ a < b + z[b] - 8 => k.mem[a] = h.mem[a]
      <4> HIDE DEF old
      <4> QED BY ONLY Sound(h, S, z, wild, A), b \in A, <3>1, RetaggedSound
    <3> QED BY <3>2
  <2> HIDE DEF g
  <2>8. g.mem[b] = v /\ g.mem[b + z[b] - 8] = w
    BY <2>4, <2>7
  <2>9. PlainTags(g, b, z[b])
    BY <1>5, <2>6, <2>8 DEF PlainTags
  <2> QED BY <1>5, <2>4, <2>7, <2>9 DEF g
<1> QED BY <1>6, <1>7

\* What a client's write leaves in the heap.
Filled(h, b, size) ==
    [h EXCEPT !.mem = [a \in Words |-> IF a \in (b + 8) .. (b + 7 + size) THEN Data(b) ELSE @[a]]]

\* The client's bytes are its block's: the heap stays sound.
LEMMA WriteSound ==
    ASSUME NEW h, NEW S, NEW z, NEW wild, NEW A, Sound(h, S, z, wild, A), NEW b \in A,
           NEW size \in Nat, size + 16 <= z[b]
    PROVE  LET g == Filled(h, b, size)
           IN /\ Sound(g, S, z, wild, A) /\ Kept(h, g, z, A \ {b}) /\ SameRest(h, g)
              /\ \A a \in Words : b + 8 <= a /\ a < b + 8 + size => g.mem[a] = Data(b)
              /\ g.mem[b] = h.mem[b] /\ g.mem[b + z[b] - 8] = h.mem[b + z[b] - 8]
<1> DEFINE m == [a \in Words |-> IF a \in (b + 8) .. (b + 7 + size) THEN Data(b) ELSE h.mem[a]]
           g == [h EXCEPT !.mem = m]
<1> SUFFICES /\ Sound(g, S, z, wild, A) /\ Kept(h, g, z, A \ {b}) /\ SameRest(h, g)
             /\ \A a \in Words : b + 8 <= a /\ a < b + 8 + size => g.mem[a] = Data(b)
             /\ g.mem[b] = h.mem[b] /\ g.mem[b + z[b] - 8] = h.mem[b + z[b] - 8]
  BY DEF Filled
<1>1. /\ Laid(h, S, z, wild, A, S \ A, {}) /\ h \in Heaps /\ Tiles(S, z, h.brk)
      /\ A \subseteq S /\ b \in S
  BY DEF Laid, Sound
<1>2. /\ b \in Nat /\ z[b] \in Nat /\ z[b] >= 32 /\ b + 8 \in Words /\ b \in Words /\ b + z[b] - 8 \in Words
  BY <1>1, BlockWords
<1>3. h.mem \in Mems /\ h.head \in Heads /\ \A a \in Words : h.mem[a] \in Word
  BY <1>1, HeapFields DEF Mems
<1>4. m \in Mems
  BY <1>2, <1>3, WordIs DEF Mems
<1>5. g = SetHeap(h, m, h.head)
  BY <1>1 DEF SetHeap, Heaps
<1>6. /\ \A a \in Words : a \notin (b + 8) .. (b + 7 + size) => m[a] = h.mem[a]
      /\ \A a \in Words : a \in (b + 8) .. (b + 7 + size) => m[a] = Data(b)
  OBVIOUS
<1> HIDE DEF m, g
<1>7. g \in Heaps /\ SameRest(h, g) /\ g.head = h.head /\ g.mem = m
  BY <1>1, <1>3, <1>4, <1>5, SetHeapIs
<1>8. \A a \in Words : a \in Nat
  BY WordsAre
<1>9. \A a \in Words : m[a] = h.mem[a] \/ (b + 8 <= a /\ a < b + z[b] - 8)
  <2> SUFFICES ASSUME NEW a \in Words, a \in (b + 8) .. (b + 7 + size)
               PROVE  b + 8 <= a /\ a < b + z[b] - 8
    BY <1>6
  <2> QED BY <1>2, <1>8
<1>10. AsPointer(g.mem[b + 8]) \in {NULL, JUNK}
  <2>1. AsPointer(h.mem[b + 8]) \in {NULL, JUNK}
    BY <1>1 DEF Laid, next
  <2>2. m[b + 8] = h.mem[b + 8] \/ m[b + 8] = Data(b)
    BY <1>2, <1>6
  <2> QED BY <1>7, <2>1, <2>2, ReadOther
<1>11. Sound(g, S, z, wild, A) /\ Kept(h, g, z, A \ {b})
  BY <1>7, <1>9, <1>10, PayloadSound
<1>12. \A a \in Words : b + 8 <= a /\ a < b + 8 + size => g.mem[a] = Data(b)
  <2> SUFFICES ASSUME NEW a \in Words, b + 8 <= a, a < b + 8 + size PROVE g.mem[a] = Data(b)
    OBVIOUS
  <2>1. a \in (b + 8) .. (b + 7 + size)
    BY <1>2, <1>8
  <2> QED BY <1>6, <1>7, <2>1
<1>13. g.mem[b] = h.mem[b] /\ g.mem[b + z[b] - 8] = h.mem[b + z[b] - 8]
  <2> PICK e : e = b + z[b] - 8
    OBVIOUS
  <2>1. ~(b + 8 <= b) /\ ~(e < b + z[b] - 8)
    BY <1>2
  <2> QED BY <1>2, <1>7, <1>9, <2>1
<1> QED BY <1>7, <1>11, <1>12, <1>13

-----------------------------------------------------------------------------
(* What the properties read from a sound heap *)

\* Links are wild only if a walk along the lists meets one.
LEMMA SoundLinks ==
    ASSUME NEW h, NEW S, NEW z, NEW wild, NEW A, Sound(h, S, z, wild, A)
    PROVE  Sound(h, S, z, WildLink(h), A) /\ Sound(h, S, z, TRUE, A)
<1> PICK F : F = S \ A
  OBVIOUS
<1>1. Laid(h, S, z, wild, A, F, {}) /\ ~Stopped(h) /\ h \in Heaps
  BY DEF Sound, Laid
<1> PICK n, f : Linked(h, n, f, wild) /\ Listed(n, f, z, F, {})
  BY <1>1 DEF Laid
<1>2. ASSUME NEW i \in Lists, n[i] > 0, next(h, f[i][n[i] - 1]) = JUNK
      PROVE  WildLink(h)
  <2>1. n[i] <= MaxBlocks /\ n[i] \in Nat
    <3>1. n[i] \in Nat
      BY DEF Linked
    <3>2. n[i] <= MaxBlocks
      BY <1>1, NodesBound
    <3> QED BY <3>1, <3>2
  <2>2. MaxBlocks \in Nat
    BY ArenaIs DEF MaxBlocks
  <2>3. n[i] \in 0 .. MaxBlocks
    BY <2>1, <2>2
  <2>4. Nodes(h, i)[n[i]] = EndOf(h, n, f, i)
    BY <1>1, <2>1, <2>3, NodesAre
  <2>5. Nodes(h, i)[n[i]] = JUNK
    BY <1>2, <2>1, <2>4 DEF EndOf
  <2> QED BY <2>3, <2>5 DEF WildLink
<1> PICK w : w = WildLink(h)
  OBVIOUS
<1>3. Linked(h, n, f, w)
  BY <1>2 DEF Linked
<1>4. Laid(h, S, z, w, A, F, {})
  BY <1>1, <1>3 DEF Laid
<1>5. Laid(h, S, z, TRUE, A, F, {})
  BY <1>1, LaidWild
<1> QED BY <1>1, <1>4, <1>5 DEF Sound

\* The headers a walk meets are the blocks.
LEMMA StartsAre ==
    ASSUME NEW h, NEW S, NEW z, NEW wild, NEW A, Sound(h, S, z, wild, A)
    PROVE  Starts(h) = S
<1> DEFINE Body(g) == [n \in 0 .. MaxBlocks |->
                          IF n = 0 THEN heap_start
                          ELSE LET b == g[n - 1]
                               IN IF b >= h.brk THEN h.brk ELSE b + SizeAt(h, b)]
           at == CHOOSE g : g = Body(g)
           B == S \cup {h.brk}
           step == [b \in B |-> IF b >= h.brk THEN h.brk ELSE b + SizeAt(h, b)]
           M == MaxPages * PAGE_SZ
<1>1. h \in Heaps /\ Tiles(S, z, h.brk) /\ A \subseteq S
  BY DEF Sound, Laid
<1>2. h.brk \in Nat /\ h.brk <= 8 + M /\ M \in Nat /\ MaxBlocks = M \div 32 /\ MaxBlocks \in Nat
  BY <1>1, HeapFields, ArenaIs DEF MaxBlocks
<1> HIDE DEF M
<1>3. ASSUME NEW b \in S
      PROVE  /\ b \in Nat /\ z[b] \in Nat /\ z[b] >= 32 /\ b + z[b] <= h.brk /\ b >= 8
             /\ ~(b >= h.brk) /\ SizeAt(h, b) = z[b] /\ b + z[b] \in B
  <2>1. /\ b \in Nat /\ z[b] \in Nat /\ z[b] >= 32 /\ b + z[b] <= h.brk /\ b >= 8
    BY <1>1, BlockWords
  <2>2. b \in A \/ b \in S \ A
    OBVIOUS
  <2>3. SizeAt(h, b) = z[b]
    BY <2>2 DEF Sound, Laid, Tagged, SizeAt
  <2>4. b + z[b] \in B
    BY <1>1 DEF Tiles
  <2> QED BY <1>2, <2>1, <2>3, <2>4
<1>4. heap_start \in B
  BY <1>1 DEF Tiles
<1>5. step \in [B -> B]
  BY <1>2, <1>3
<1>6. at = Body(at)
  <2>1. PICK g \in [0 .. MaxBlocks -> B] : Iterates(g, MaxBlocks, heap_start, step)
    <3> HIDE DEF step, B
    <3> QED BY <1>2, <1>4, <1>5, IterationExists
  <2>2. \A n \in 0 .. MaxBlocks : g[n] = IF n = 0 THEN heap_start
                                         ELSE IF g[n - 1] >= h.brk THEN h.brk ELSE g[n - 1] + SizeAt(h, g[n - 1])
    <3> SUFFICES ASSUME NEW n \in 0 .. MaxBlocks, n # 0
                 PROVE  g[n] = IF g[n - 1] >= h.brk THEN h.brk ELSE g[n - 1] + SizeAt(h, g[n - 1])
      BY <2>1 DEF Iterates
    <3>1. n \in 1 .. MaxBlocks /\ n - 1 \in 0 .. MaxBlocks
      BY <1>2
    <3>2. g[n] = step[g[n - 1]] /\ g[n - 1] \in B
      BY <2>1, <3>1 DEF Iterates
    <3> HIDE DEF B
    <3> QED BY <3>2
  <2>3. g = Body(g)
    <3> HIDE DEF B
    <3> QED BY <2>2
  <2> HIDE DEF Body
  <2> QED BY <2>3
<1>7. Starts(h) = {at[n] : n \in 0 .. MaxBlocks} \ {h.brk}
  BY DEF Starts
<1>8. /\ at[0] = heap_start
      /\ \A n \in 1 .. MaxBlocks : at[n] = IF at[n - 1] >= h.brk THEN h.brk ELSE at[n - 1] + SizeAt(h, at[n - 1])
  <2> HIDE DEF at
  <2>1. at[0] = heap_start
    BY <1>2, <1>6
  <2>2. \A n \in 1 .. MaxBlocks : n \in 0 .. MaxBlocks /\ n # 0
    OBVIOUS
  <2> QED BY <1>6, <2>1, <2>2
<1> HIDE DEF at
<1>9. \A n \in 0 .. MaxBlocks : at[n] \in B
  <2> DEFINE N == {n \in 0 .. MaxBlocks : at[n] \in B}
  <2>1. 0 \in N
    BY <1>2, <1>4, <1>8
  <2>2. ASSUME NEW n \in 0 .. MaxBlocks, n \in N, n < MaxBlocks
        PROVE  n + 1 \in N
    <3>1. n + 1 \in 1 .. MaxBlocks /\ n + 1 - 1 = n /\ n + 1 \in 0 .. MaxBlocks
      BY <1>2, <2>2
    <3>2. at[n + 1] = IF at[n] >= h.brk THEN h.brk ELSE at[n] + SizeAt(h, at[n])
      BY <1>8, <3>1
    <3>3. at[n] = h.brk \/ at[n] \in S
      BY <2>2
    <3>4. at[n + 1] \in B
      BY <1>2, <1>3, <3>2, <3>3
    <3> QED BY <3>1, <3>4
  <2>3. \A n \in 0 .. MaxBlocks : n \in N
    <3> HIDE DEF N
    <3> QED BY <1>2, <2>1, <2>2, InductTo
  <2> QED BY <2>3
<1>10. ASSUME NEW b \in S, \A n \in 0 .. MaxBlocks : at[n] # b
       PROVE  FALSE
  <2> DEFINE N == {n \in 0 .. MaxBlocks : at[n] \in S /\ at[n] < b /\ at[n] >= 8 + 32 * n}
  <2>1. 0 \in N
    <3>1. h.brk # heap_start
      BY <1>2, <1>3 DEF heap_start
    <3>2. heap_start \in S /\ heap_start <= b
      BY <1>1, <3>1 DEF Tiles
    <3>3. 0 \in 0 .. MaxBlocks
      BY <1>2
    <3>4. heap_start # b
      BY <1>8, <1>10, <3>3
    <3> QED BY <1>3, <1>8, <3>2, <3>3, <3>4 DEF heap_start
  <2>2. ASSUME NEW n \in 0 .. MaxBlocks, n \in N, n < MaxBlocks
        PROVE  n + 1 \in N
    <3>1. n + 1 \in 1 .. MaxBlocks /\ n + 1 - 1 = n /\ n + 1 \in 0 .. MaxBlocks
      BY <1>2, <2>2
    <3> PICK c : c = at[n]
      OBVIOUS
    <3>2. c \in S /\ c < b /\ c >= 8 + 32 * n
      BY <2>2
    <3>3. at[n + 1] = c + z[c]
      BY <1>3, <1>8, <3>1, <3>2
    <3>4. c + z[c] <= b
      BY <1>1, <3>2 DEF Tiles
    <3>5. at[n + 1] # b /\ c + z[c] \in B
      BY <1>3, <1>10, <3>1, <3>2
    <3>6. c + z[c] \in S /\ c + z[c] < b /\ c + z[c] >= 8 + 32 * (n + 1)
      <4>1. c \in Nat /\ z[c] \in Nat /\ z[c] >= 32 /\ b \in Nat /\ b + z[b] <= h.brk /\ z[b] >= 32 /\ z[b] \in Nat
        BY <1>3, <3>2
      <4>2. c + z[c] # h.brk
        BY <1>2, <3>4, <4>1
      <4>3. c + z[c] < b
        BY <3>3, <3>4, <3>5, <4>1
      <4>4. c + z[c] >= 8 + 32 * (n + 1)
        BY <1>2, <3>2, <4>1
      <4> QED BY <3>5, <4>2, <4>3, <4>4
    <3> QED BY <3>1, <3>3, <3>6
  <2>3. \A n \in 0 .. MaxBlocks : n \in N
    <3> HIDE DEF N
    <3> QED BY <1>2, <2>1, <2>2, InductTo
  <2>4. MaxBlocks \in N
    BY <1>2, <2>3
  <2> PICK c : c = at[MaxBlocks]
    OBVIOUS
  <2>5. c \in S /\ c >= 8 + 32 * MaxBlocks
    BY <2>4
  <2>6. c \in Nat /\ c + 32 <= 8 + M
    BY <1>2, <1>3, <2>5
  <2> QED BY <1>2, <2>5, <2>6
<1>11. \A b \in S : b # h.brk
  <2> SUFFICES ASSUME NEW b \in S, b = h.brk PROVE FALSE
    OBVIOUS
  <2>1. b \in Nat /\ ~(b >= h.brk)
    BY <1>3
  <2> QED BY <1>2, <2>1
<1> QED BY <1>7, <1>9, <1>10, <1>11

\* The places of list i that hold blocks, and those blocks.
Places(h, i) == {n \in 0 .. MaxBlocks : Nodes(h, i)[n] > NULL}
PlacedBlocks(h, i) == {Nodes(h, i)[n] : n \in Places(h, i)}

\* A list of the heap as the properties read it: its nodes are n different free blocks,
\* each in the list of its size and with its predecessor.
LEMMA ListIsExact ==
    ASSUME NEW h, NEW S, NEW z, NEW wild, NEW A, Sound(h, S, z, wild, A), NEW i \in Lists
    PROVE  /\ Cardinality(PlacedBlocks(h, i)) = Cardinality(Places(h, i))
           /\ PlacedBlocks(h, i) \subseteq S \ A
           /\ \A b \in PlacedBlocks(h, i) : get_list_index(SizeAt(h, b)) = i
           /\ \A n \in Places(h, i) \ {0} : prev(h, Nodes(h, i)[n]) = Nodes(h, i)[n - 1]
<1> DEFINE Real == Places(h, i)
           InList == PlacedBlocks(h, i)
           F == S \ A
<1>1. Laid(h, S, z, wild, A, F, {}) /\ h \in Heaps
  BY DEF Sound, Laid
<1> PICK n, f : Linked(h, n, f, wild) /\ Listed(n, f, z, F, {})
  BY <1>1 DEF Laid
<1>2. n[i] \in Nat /\ n[i] <= MaxBlocks /\ MaxBlocks \in Nat
  <2>1. MaxBlocks \in Nat
    BY ArenaIs DEF MaxBlocks
  <2>2. n[i] \in Nat
    BY DEF Linked
  <2> QED BY <1>1, <2>1, <2>2, NodesBound
<1>3. \A k \in 0 .. MaxBlocks : /\ k < n[i] => Nodes(h, i)[k] = f[i][k]
                                /\ ~(k < n[i]) => Nodes(h, i)[k] \in {NULL, JUNK}
  BY <1>1, NodesAre
<1>4. \A k \in Nat : k < n[i] => f[i][k] \in Nat /\ f[i][k] # NULL /\ f[i][k] \in F
  BY <1>1, NodesOfLinked DEF Listed
<1>5. Real = 0 .. (n[i] - 1)
  <2>1. ASSUME NEW k \in 0 .. MaxBlocks
        PROVE  Nodes(h, i)[k] > NULL <=> k < n[i]
    <3>1. CASE k < n[i]
      <4> PICK x \in Nat : x = f[i][k] /\ x # NULL
        BY <1>4, <3>1
      <4> QED BY <1>3, <3>1 DEF NULL
    <3>2. CASE ~(k < n[i])
      BY <1>3, <3>2 DEF NULL, JUNK
    <3> QED BY <3>1, <3>2
  <2> QED BY <1>2, <2>1 DEF Places
<1>6. \A k \in Real : k \in Nat /\ k < n[i] /\ k \in 0 .. MaxBlocks /\ Nodes(h, i)[k] = f[i][k]
  BY <1>2, <1>3, <1>5
<1>7. InList \subseteq F
  BY <1>4, <1>6 DEF PlacedBlocks
<1>8. ASSUME NEW b \in InList PROVE get_list_index(SizeAt(h, b)) = i
  <2> PICK k \in Real : b = f[i][k]
    BY <1>6 DEF PlacedBlocks
  <2>1. get_list_index(z[b]) = i
    BY <1>6 DEF Listed
  <2>2. SizeAt(h, b) = z[b]
    BY <1>1, <1>7 DEF Laid, Tagged, SizeAt
  <2> QED BY <2>1, <2>2
<1>9. ASSUME NEW k \in Real \ {0} PROVE prev(h, Nodes(h, i)[k]) = Nodes(h, i)[k - 1]
  <2>1. k - 1 \in Real /\ k - 1 \in Nat /\ k - 1 + 1 = k
    BY <1>2, <1>5
  <2>2. prev(h, f[i][k]) = f[i][k - 1]
    BY <1>6, <2>1 DEF Linked
  <2> QED BY <1>6, <2>1, <2>2
<1>10. Cardinality(InList) = Cardinality(Real)
  <2> DEFINE g == [k \in Real |-> Nodes(h, i)[k]]
  <2>1. IsFiniteSet(Real)
    <3>1. n[i] - 1 \in Int /\ 0 \in Int
      BY <1>2
    <3>2. IsFiniteSet(0 .. (n[i] - 1))
      BY <3>1, FS_Interval
    <3> QED BY <1>5, <3>2
  <2>2. \A k, l \in Real : g[k] = g[l] => k = l
    <3> SUFFICES ASSUME NEW k \in Real, NEW l \in Real, f[i][k] = f[i][l] PROVE k = l
      BY <1>6
    <3>1. k \in Nat /\ l \in Nat /\ k < n[i] /\ l < n[i]
      BY <1>6
    <3> QED BY <1>1, <3>1, NodesOfLinked
  <2>3. g \in [Real -> InList] /\ \A y \in InList : \E k \in Real : g[k] = y
    BY DEF PlacedBlocks
  <2> HIDE DEF g, InList
  <2>4. g \in Bijection(Real, InList)
    BY <2>2, <2>3, Fun_IsBij
  <2>5. ExistsBijection(Real, InList)
    BY <2>4, Fun_ExistsBij
  <2> QED BY <2>1, <2>5, FS_Bijection
<1> QED BY <1>7, <1>8, <1>9, <1>10

\* The free blocks the lists hold are the heap's.
LEMMA FreeBlocksAre ==
    ASSUME NEW h, NEW S, NEW z, NEW wild, NEW A, Sound(h, S, z, wild, A)
    PROVE  FreeBlocks(h) = S \ A
<1> DEFINE F == S \ A
<1>1. Laid(h, S, z, wild, A, F, {}) /\ h \in Heaps
  BY DEF Sound, Laid
<1>2. ASSUME NEW b \in FreeBlocks(h) PROVE b \in F
  <2> PICK i \in Lists, n \in 0 .. MaxBlocks : b = Nodes(h, i)[n] /\ b > NULL
    BY DEF FreeBlocks
  <2>1. b \in PlacedBlocks(h, i)
    BY DEF Places, PlacedBlocks
  <2>2. PlacedBlocks(h, i) \subseteq S \ A
    BY ListIsExact
  <2> QED BY <2>1, <2>2
<1>3. ASSUME NEW b \in F PROVE b \in FreeBlocks(h)
  <2> PICK n, f : Linked(h, n, f, wild) /\ Listed(n, f, z, F, {})
    BY <1>1 DEF Laid
  <2> PICK i \in Lists, k \in Nat : k < n[i] /\ f[i][k] = b
    BY DEF Listed
  <2>1. n[i] \in Nat /\ n[i] <= MaxBlocks /\ MaxBlocks \in Nat
    <3>1. MaxBlocks \in Nat
      BY ArenaIs DEF MaxBlocks
    <3>2. n[i] \in Nat
      BY DEF Linked
    <3> QED BY <1>1, <3>1, <3>2, NodesBound
  <2>2. k \in 0 .. MaxBlocks
    BY <2>1
  <2>3. Nodes(h, i)[k] = b
    BY <1>1, <2>2, NodesAre
  <2>4. b > NULL
    <3>1. b \in Nat /\ b # NULL
      BY <1>1, NodesOfLinked
    <3> QED BY <3>1 DEF NULL
  <2> QED BY <2>2, <2>3, <2>4 DEF FreeBlocks
<1> QED BY <1>2, <1>3

-----------------------------------------------------------------------------
(* The invariant *)

Records == [size : Nat, data : Words, len : Nat]

\* The block at b, of s bytes, is what its client knows of it; plain if sf_realloc has
\* neither shrunk nor moved it.
BlockHeld(h, s, b, r, plain) ==
    /\ r \in Records /\ r.len <= r.size /\ r.size + 16 <= s
    /\ \A a \in Words : b + 8 <= a /\ a < b + 8 + r.len => h.mem[a] = Data(r.data)
    /\ plain => PlainTags(h, b, s)

Held(h, S, z, l, rs) ==
    /\ Sound(h, S, z, TRUE, DOMAIN l)
    /\ \A b \in DOMAIN l : BlockHeld(h, z[b], b, l[b], b \notin rs)

\* As long as the heap is not damaged, it is sound and its allocated blocks are the
\* clients'; a cut that damages it spares what they wrote.
HeapInv ==
    /\ heap \in Heaps
    /\ status \in {"running", "aborted", "faulted"} /\ (heap.faulted => status = "faulted")
    /\ DOMAIN live \subseteq Words /\ resized \subseteq DOMAIN live
    /\ calls \in 0 .. MaxCalls
    /\ Whole => \E S, z : Held(heap, S, z, live, resized)
    /\ heap.damaged = "cut" => ContentsKept

\* A block whose words were left alone is what its client knows of it.
LEMMA HeldKept ==
    ASSUME NEW h, NEW g, NEW S, NEW z, NEW B, NEW x \in B, h \in Heaps, Tiles(S, z, h.brk), x \in S,
           Kept(h, g, z, B), NEW r, NEW plain, BlockHeld(h, z[x], x, r, plain)
    PROVE  BlockHeld(g, z[x], x, r, plain)
<1>1. /\ x \in Nat /\ z[x] \in Nat /\ z[x] >= 32 /\ x \in Words /\ x + z[x] - 8 \in Words
  BY BlockWords
<1>2. g.mem[x] = h.mem[x] /\ g.mem[x + z[x] - 8] = h.mem[x + z[x] - 8]
  <2>1. x <= x /\ x < x + z[x] /\ x <= x + z[x] - 8 /\ x + z[x] - 8 < x + z[x]
    BY <1>1
  <2> QED BY <1>1, <2>1 DEF Kept
<1>3. r \in Records /\ r.len <= r.size /\ r.size + 16 <= z[x] /\ r.len \in Nat /\ r.size \in Nat
  BY DEF BlockHeld, Records
<1>4. ASSUME NEW a \in Words, x + 8 <= a, a < x + 8 + r.len PROVE g.mem[a] = Data(r.data)
  <2>1. a \in Nat
    BY WordsAre
  <2>2. x <= a /\ a < x + z[x]
    BY <1>1, <1>3, <1>4, <2>1
  <2>3. g.mem[a] = h.mem[a]
    BY <2>2 DEF Kept
  <2> QED BY <1>4, <2>3 DEF BlockHeld
<1>5. plain => PlainTags(g, x, z[x])
  BY <1>2 DEF BlockHeld, PlainTags
<1> QED BY <1>3, <1>4, <1>5 DEF BlockHeld

\* sf_free and sf_realloc abort on a free block, and accept a plain one.
LEMMA RefusedIs ==
    ASSUME NEW h, NEW S, NEW z, NEW wild, NEW A, Sound(h, S, z, wild, A)
    PROVE  /\ \A b \in S \ A : Refused(h, b)
           /\ Refused(h, NULL)
           /\ \A b \in A : SizeAt(h, b) = z[b] /\ (PlainTags(h, b, z[b]) => ~Refused(h, b))
<1>1. h \in Heaps /\ Tiles(S, z, h.brk) /\ A \subseteq S
  BY DEF Sound, Laid
<1>2. \A b \in S \ A : Refused(h, b)
  <2>1. \A b \in S \ A : allocated(h.mem[b]) = 0
    BY DEF Sound, Laid, Tagged
  <2> QED BY <2>1 DEF Refused
<1>3. Refused(h, NULL)
  BY DEF Refused
<1>4. ASSUME NEW b \in A PROVE SizeAt(h, b) = z[b]
  BY DEF Sound, Laid, Tagged, SizeAt
<1>5. ASSUME NEW b \in A, PlainTags(h, b, z[b]) PROVE ~Refused(h, b)
  <2> PICK x, y : x = h.mem[b] /\ y = h.mem[b + z[b] - 8]
    OBVIOUS
  <2>1. /\ block_size(x) = z[b] /\ allocated(x) = 1 /\ block_size(y) = z[b] /\ allocated(y) = 1
    BY DEF Sound, Laid, Tagged
  <2>2. FooterOf(h, b) = b + z[b] - 8
    BY <1>4 DEF FooterOf
  <2>3. /\ b \in Nat /\ b >= 8 /\ z[b] \in Nat /\ b + z[b] <= h.brk /\ h.brk \in Nat
    BY <1>1, BlockWords
  <2>4. padded(x) = padded(y) /\ padded(y) = IF requested_size(y) + 16 = z[b] THEN 0 ELSE 1
    BY <1>5 DEF PlainTags
  <2>5. ~(b = NULL) /\ ~(b < heap_start) /\ ~(b + block_size(x) > h.brk)
    BY <2>1, <2>3 DEF NULL, heap_start
  <2>6. ~(requested_size(y) + 16 # z[b] /\ padded(y) = 0) /\ ~(requested_size(y) + 16 = z[b] /\ padded(y) = 1)
    BY <2>4
  <2> QED BY <2>1, <2>2, <2>4, <2>5, <2>6 DEF Refused
<1> QED BY <1>2, <1>3, <1>4, <1>5

\* What the properties have of the invariant.
LEMMA WholeIsSound ==
    ASSUME HeapInv, Whole
    PROVE  \E S, z : Held(heap, S, z, live, resized)
BY DEF HeapInv

\* The invariant gives the types.
LEMMA TypeFromInv == HeapInv => TypeOK
<1> SUFFICES ASSUME HeapInv PROVE TypeOK
  OBVIOUS
<1>1. /\ heap.mem \in Mems /\ heap.head \in Heads /\ heap.brk \in Breaks /\ heap.errno \in Errors
      /\ heap.faulted \in BOOLEAN /\ heap.damaged \in Damages
  BY HeapFields DEF HeapInv
<1>2. ASSUME NEW w \in Word
      PROVE  /\ w[1] \in {"zero", "ptr", "data", "tag"}
             /\ w[1] = "tag" => w[2] \in {0, 1} /\ w[3] \in {0, 1} /\ w[4] % 16 = 0
  <2>1. CASE w \in TagWords
    <3> PICK a \in {0, 1}, p \in {0, 1}, s \in Size16, r \in Nat : w = Tag(a, p, s, r)
      BY <2>1 DEF TagWords
    <3>1. w[1] = "tag" /\ w[2] = a /\ w[3] = p /\ w[4] = s
      BY DEF Tag
    <3>2. s % 16 = 0
      BY DEF Size16
    <3> QED BY <3>1, <3>2
  <2>2. CASE w \notin TagWords
    BY <2>2, ReadOther DEF Word
  <2> QED BY <2>1, <2>2
<1>3. \A a \in Words : heap.mem[a] \in Word
  BY <1>1 DEF Mems
<1> QED BY <1>1, <1>2, <1>3 DEF TypeOK, HeapInv, Heads, Breaks, Errors, Damages

\* It gives the tiling.
LEMMA TilesFromInv == HeapInv => HeapTiles
<1> SUFFICES ASSUME HeapInv, Whole, NEW b \in Starts(heap)
             PROVE  LET head == heap.mem[b]
                        foot == heap.mem[FooterOf(heap, b)]
                    IN /\ block_size(head) >= 32
                       /\ b + block_size(head) <= heap.brk
                       /\ block_size(foot) = block_size(head)
                       /\ allocated(foot) = allocated(head)
  BY DEF HeapTiles
<1> PICK S, z : Held(heap, S, z, live, resized)
  BY WholeIsSound
<1>1. Sound(heap, S, z, TRUE, DOMAIN live)
  BY DEF Held
<1>2. b \in S
  BY <1>1, StartsAre
<1>3. heap \in Heaps /\ Tiles(S, z, heap.brk)
  BY <1>1 DEF Sound, Laid
<1>4. z[b] >= 32 /\ b + z[b] <= heap.brk
  BY <1>2, <1>3 DEF Tiles
<1>5. /\ block_size(heap.mem[b]) = z[b] /\ block_size(heap.mem[b + z[b] - 8]) = z[b]
      /\ allocated(heap.mem[b]) = allocated(heap.mem[b + z[b] - 8])
  <2>1. b \in DOMAIN live \/ b \in S \ DOMAIN live
    BY <1>2
  <2> QED BY <1>1, <2>1 DEF Sound, Laid, Tagged
<1> QED BY <1>4, <1>5 DEF FooterOf, SizeAt

\* It gives the lists.
LEMMA ListsFromInv == HeapInv => FreeListsExact
<1> SUFFICES ASSUME HeapInv, Whole PROVE FreeListsExact
  BY DEF FreeListsExact
<1> PICK S, z : Held(heap, S, z, live, resized)
  BY WholeIsSound
<1>1. Sound(heap, S, z, TRUE, DOMAIN live)
  BY DEF Held
<1>2. FreeBlocks(heap) = {b \in Starts(heap) : allocated(heap.mem[b]) = 0}
  <2>1. FreeBlocks(heap) = S \ DOMAIN live /\ Starts(heap) = S
    BY <1>1, FreeBlocksAre, StartsAre
  <2>2. /\ \A b \in DOMAIN live : allocated(heap.mem[b]) = 1
        /\ \A b \in S \ DOMAIN live : allocated(heap.mem[b]) = 0
    BY <1>1 DEF Sound, Laid, Tagged
  <2> QED BY <2>1, <2>2
<1>3. ASSUME NEW i \in Lists
      PROVE  /\ Cardinality(PlacedBlocks(heap, i)) = Cardinality(Places(heap, i))
             /\ \A b \in PlacedBlocks(heap, i) : get_list_index(SizeAt(heap, b)) = i
             /\ \A n \in Places(heap, i) \ {0} : prev(heap, Nodes(heap, i)[n]) = Nodes(heap, i)[n - 1]
  <2> PICK h, w, A : h = heap /\ w = TRUE /\ A = DOMAIN live
    OBVIOUS
  <2>1. Sound(h, S, z, w, A)
    BY <1>1
  <2>2. /\ Cardinality(PlacedBlocks(h, i)) = Cardinality(Places(h, i))
        /\ PlacedBlocks(h, i) \subseteq S \ A
        /\ \A b \in PlacedBlocks(h, i) : get_list_index(SizeAt(h, b)) = i
        /\ \A n \in Places(h, i) \ {0} : prev(h, Nodes(h, i)[n]) = Nodes(h, i)[n - 1]
    BY ONLY <2>1, i \in Lists, ListIsExact
  <2> QED BY <2>2
<1> QED BY <1>2, <1>3 DEF FreeListsExact, Places, PlacedBlocks

\* It gives the allocated blocks.
LEMMA BlocksFromInv == HeapInv => LiveBlocksHeld
<1> SUFFICES ASSUME HeapInv, Whole PROVE LiveBlocksHeld
  BY DEF LiveBlocksHeld
<1> PICK S, z : Held(heap, S, z, live, resized)
  BY WholeIsSound
<1>1. Sound(heap, S, z, TRUE, DOMAIN live)
  BY DEF Held
<1>2. DOMAIN live = {b \in Starts(heap) : allocated(heap.mem[b]) = 1}
  <2>1. Starts(heap) = S /\ DOMAIN live \subseteq S
    BY <1>1, StartsAre DEF Sound, Laid
  <2>2. /\ \A b \in DOMAIN live : allocated(heap.mem[b]) = 1
        /\ \A b \in S \ DOMAIN live : allocated(heap.mem[b]) = 0
    BY <1>1 DEF Sound, Laid, Tagged
  <2> QED BY <2>1, <2>2
<1>3. \A b \in DOMAIN live : live[b].size + 16 <= SizeAt(heap, b)
  <2> PICK h, w, A : h = heap /\ w = TRUE /\ A = DOMAIN live
    OBVIOUS
  <2>1. Sound(h, S, z, w, A)
    BY <1>1
  <2>2. \A b \in A : SizeAt(h, b) = z[b]
    BY ONLY <2>1, RefusedIs
  <2> QED BY <2>2 DEF Held, BlockHeld
<1> QED BY <1>2, <1>3 DEF LiveBlocksHeld

\* It gives their contents.
LEMMA ContentsFromInv == HeapInv => ContentsKept
<1> SUFFICES ASSUME HeapInv PROVE ContentsKept
  OBVIOUS
<1>1. CASE Whole
  <2> PICK S, z : Held(heap, S, z, live, resized)
    BY <1>1, WholeIsSound
  <2> QED BY DEF ContentsKept, Held, BlockHeld
<1>2. CASE heap.damaged = "cut"
  BY <1>2 DEF HeapInv
<1>3. CASE status = "faulted" \/ heap.damaged = "node"
  BY <1>3 DEF ContentsKept
<1>4. heap.damaged \in Damages
  BY HeapFields DEF HeapInv
<1> QED BY <1>1, <1>2, <1>3, <1>4 DEF Whole, Damages

\* It gives what is refused.
LEMMA RefusalsFromInv == HeapInv => RefusalsAreRight
<1> SUFFICES ASSUME HeapInv, Whole PROVE RefusalsAreRight
  BY DEF RefusalsAreRight
<1> PICK S, z : Held(heap, S, z, live, resized)
  BY WholeIsSound
<1>1. Sound(heap, S, z, TRUE, DOMAIN live)
  BY DEF Held
<1>2. \A b \in FreeBlocks(heap) : Refused(heap, b)
  <2> PICK h, w, A : h = heap /\ w = TRUE /\ A = DOMAIN live
    OBVIOUS
  <2>1. Sound(h, S, z, w, A)
    BY <1>1
  <2>2. FreeBlocks(h) = S \ A
    BY ONLY <2>1, FreeBlocksAre
  <2>3. \A b \in S \ A : Refused(h, b)
    BY ONLY <2>1, RefusedIs
  <2> QED BY <2>2, <2>3
<1>3. ASSUME NEW b \in DOMAIN live
      PROVE  LET foot == heap.mem[FooterOf(heap, b)]
                 flag == IF requested_size(foot) + 16 = SizeAt(heap, b) THEN 0 ELSE 1
             IN Refused(heap, b) => b \in resized /\ (padded(heap.mem[b]) # flag \/ padded(foot) # flag)
  <2>1. b \notin resized => PlainTags(heap, b, z[b])
    BY <1>3 DEF Held, BlockHeld
  <2>2. SizeAt(heap, b) = z[b] /\ (PlainTags(heap, b, z[b]) => ~Refused(heap, b))
    BY <1>1, <1>3, RefusedIs
  <2>3. FooterOf(heap, b) = b + z[b] - 8
    BY <2>2 DEF FooterOf
  <2>4. Refused(heap, b) => b \in resized /\ ~PlainTags(heap, b, z[b])
    BY <2>1, <2>2
  <2>5. ~PlainTags(heap, b, z[b])
          => LET foot == heap.mem[FooterOf(heap, b)]
                 flag == IF requested_size(foot) + 16 = SizeAt(heap, b) THEN 0 ELSE 1
             IN padded(heap.mem[b]) # flag \/ padded(foot) # flag
    BY <2>2, <2>3 DEF PlainTags
  <2> QED BY <2>4, <2>5
<1> QED BY <1>2, <1>3 DEF RefusalsAreRight

\* The empty heap is sound.
LEMMA InitInv == Init => HeapInv
<1> SUFFICES ASSUME Init PROVE HeapInv
  OBVIOUS
<1>1. /\ ArenaEnd \in Nat /\ ArenaEnd >= 40 /\ ArenaEnd \in Words /\ NULL \in Words /\ heap_start = 8
  <2>1. ArenaEnd \in Nat /\ ArenaEnd % 16 = 8 /\ ArenaEnd >= 40 /\ heap_start = 8
    BY ArenaIs
  <2>2. ArenaEnd % 8 = 0 /\ 0 \in Nat /\ 0 % 8 = 0 /\ 0 <= ArenaEnd
    BY <2>1
  <2> QED BY <2>1, <2>2, WordsAre DEF NULL
<1>2. heap_start \in Breaks
  <2>1. 0 \in 0 .. MaxPages /\ heap_start = heap_start + 0 * PAGE_SZ
    BY PagesAssumption DEF heap_start
  <2> QED BY <2>1 DEF Breaks
<1>3. Tag(1, 0, 16, 0) \in Word /\ Zero \in Word
  <2>1. 16 \in Size16 /\ 0 \in Nat
    BY DEF Size16
  <2> QED BY <2>1, WordIs
<1>4. /\ heap.head = [i \in Lists |-> NULL] /\ heap.brk = heap_start /\ heap.errno = "0"
      /\ heap.faulted = FALSE /\ heap.damaged = "no"
      /\ heap.mem = [a \in Words |-> IF a = ArenaEnd THEN Tag(1, 0, 16, 0) ELSE Zero]
  BY DEF Init
<1>5. heap \in Heaps
  <2>1. heap.mem \in Mems
    BY <1>3, <1>4 DEF Mems
  <2>2. heap.head \in Heads
    BY <1>1, <1>4 DEF Heads
  <2>3. heap = [mem |-> heap.mem, head |-> heap.head, brk |-> heap.brk, errno |-> heap.errno,
                faulted |-> heap.faulted, damaged |-> heap.damaged]
    BY DEF Init
  <2>4. heap.brk \in Breaks /\ heap.errno \in Errors /\ heap.faulted \in BOOLEAN /\ heap.damaged \in Damages
    BY <1>2, <1>4 DEF Errors, Damages
  <2> QED BY <2>1, <2>2, <2>3, <2>4 DEF Heaps
<1>6. DOMAIN live = {} /\ resized = {} /\ status = "running" /\ calls \in 0 .. MaxCalls
  BY ClientAssumption DEF Init
<1> PICK z : z = [x \in {} |-> 32]
  OBVIOUS
<1>7. Tiles({}, z, heap.brk)
  BY <1>4 DEF Tiles
<1>8. Edges(heap)
  BY <1>1, <1>4, WordsAre DEF Edges
<1>9. \E n, f : Linked(heap, n, f, TRUE) /\ Listed(n, f, z, {}, {})
  <2> PICK n, f : n = [i \in Lists |-> 0] /\ f = [i \in Lists |-> [k \in Nat |-> 0]]
    OBVIOUS
  <2>1. n \in [Lists -> Nat] /\ \A i \in Lists : n[i] = 0
    OBVIOUS
  <2>2. \A i \in Lists, k \in Nat : ~(k < n[i]) /\ ~(k + 1 < n[i])
    BY <2>1
  <2>3. Linked(heap, n, f, TRUE)
    BY <1>4, <2>1, <2>2 DEF Linked
  <2>4. Listed(n, f, z, {}, {})
    BY <2>2 DEF Listed
  <2> QED BY <2>3, <2>4
<1>10. Laid(heap, {}, z, TRUE, {}, {}, {})
  BY <1>5, <1>7, <1>8, <1>9 DEF Laid, Tagged
<1>11. Held(heap, {}, z, live, resized)
  <2>1. ~Stopped(heap)
    BY <1>4 DEF Stopped
  <2>2. {} \ {} = {}
    OBVIOUS
  <2>3. Sound(heap, {}, z, TRUE, {})
    BY <1>10, <2>1, <2>2 DEF Sound
  <2> QED BY <1>6, <2>3 DEF Held
<1>12. \E S, y : Held(heap, S, y, live, resized)
  BY <1>11
<1>13. (heap.faulted => status = "faulted") /\ heap.damaged # "cut"
  BY <1>4
<1> QED BY <1>5, <1>6, <1>12, <1>13 DEF HeapInv

\* The blocks whose bytes and sizes a call leaves alone.
LEMMA HeldOthers ==
    ASSUME NEW h, NEW S, NEW z, NEW l, NEW rs, Held(h, S, z, l, rs), NEW g, NEW y,
           NEW B \in SUBSET DOMAIN l, Kept(h, g, z, B), \A x \in B : y[x] = z[x]
    PROVE  \A x \in B : BlockHeld(g, y[x], x, l[x], x \notin rs)
<1> SUFFICES ASSUME NEW x \in B PROVE BlockHeld(g, y[x], x, l[x], x \notin rs)
  OBVIOUS
<1>1. h \in Heaps /\ Tiles(S, z, h.brk) /\ x \in S
  BY DEF Held, Sound, Laid
<1>2. BlockHeld(h, z[x], x, l[x], x \notin rs)
  BY DEF Held
<1>3. BlockHeld(g, z[x], x, l[x], x \notin rs)
  BY <1>1, <1>2, HeldKept
<1> QED BY <1>3

\* What the clients wrote is still there, but for the words that have become links.
Spared(h, l) ==
    /\ h.damaged = "cut" /\ ~h.faulted
    /\ \A b \in DOMAIN l, a \in Words :
         /\ b + 8 <= a /\ a < b + 8 + l[b].len
         /\ \A i \in Lists : a # h.head[i] + 8
         => h.mem[a] = Data(l[b].data)

\* A reply: the heap is sound, or it died, or it is cut.
LEMMA ReplyInv ==
    ASSUME HeapInv, status = "running", NEW h \in Heaps, Reply(h), DOMAIN live' \subseteq Words,
           resized' \subseteq DOMAIN live', calls' \in 0 .. MaxCalls,
           \/ Died(h, WildLink(heap))
           \/ Spared(h, live')
           \/ \E S, z : Held(h, S, z, live', resized')
    PROVE  /\ HeapInv'
           /\ status' = "faulted" => heap'.errno = "ENOMEM" \/ WildLink(heap)
<1>1. heap' = h /\ status' = IF h.faulted THEN "faulted" ELSE "running"
  BY DEF Reply
<1>2. Whole' => ~Stopped(h)
  BY <1>1 DEF Whole, Stopped
<1>3. (\E S, z : Held(h, S, z, live', resized')) => ~Stopped(h)
  BY DEF Held, Sound
<1>4. Whole' => \E S, z : Held(h, S, z, live', resized')
  BY <1>2 DEF Died, Spared, Stopped
<1>5. status' = "faulted" => h.errno = "ENOMEM" \/ WildLink(heap)
  BY <1>1, <1>3 DEF Died, Spared, Stopped
<1>6. heap'.damaged = "cut" => ContentsKept'
  <2>1. h.damaged = "cut" => Spared(h, live')
    BY <1>3 DEF Died, Stopped
  <2>2. Spared(h, live') => ContentsKept'
    <3> SUFFICES ASSUME Spared(h, live'), NEW b \in DOMAIN live', NEW a \in Words \ CutLinks',
                        b + 8 <= a, a < b + 8 + live'[b].len
                 PROVE  h.mem[a] = Data(live'[b].data)
      BY <1>1 DEF ContentsKept
    <3>1. CutLinks' = {h.head[i] + 8 : i \in Lists}
      BY <1>1 DEF Spared, CutLinks
    <3>2. \A i \in Lists : a # h.head[i] + 8
      BY <3>1
    <3> QED BY <3>2 DEF Spared
  <2> QED BY <1>1, <2>1, <2>2
<1> QED BY <1>1, <1>4, <1>5, <1>6 DEF HeapInv

\* What a call finds.
LEMMA CallFinds ==
    ASSUME HeapInv, Call
    PROVE  /\ status = "running" /\ heap.damaged = "no" /\ Whole /\ calls' \in 0 .. MaxCalls
           /\ \E S, z : Held(heap, S, z, live, resized)
<1>1. status = "running" /\ heap.damaged = "no" /\ calls < MaxCalls /\ calls' = calls + 1
  BY DEF Call
<1>2. calls' \in 0 .. MaxCalls
  BY <1>1, ClientAssumption DEF HeapInv
<1>3. Whole
  BY <1>1 DEF Whole
<1> QED BY <1>1, <1>2, <1>3 DEF HeapInv

\* A call that only sets errno.
LEMMA ErrnoInv ==
    ASSUME HeapInv, Call, NEW e \in Errors, Reply(SetErrno(heap, e)), UNCHANGED <<live, resized>>
    PROVE  /\ HeapInv'
           /\ status' = "faulted" => heap'.errno = "ENOMEM" \/ WildLink(heap)
<1> PICK S, z : Held(heap, S, z, live, resized)
  BY CallFinds
<1> PICK h, w, A : h = heap /\ w = TRUE /\ A = DOMAIN live
  OBVIOUS
<1>1. Sound(h, S, z, w, A)
  BY DEF Held
<1> PICK g : g = SetErrno(h, e)
  OBVIOUS
<1>2. Sound(g, S, z, w, A) /\ g.mem = h.mem
  BY ONLY <1>1, g = SetErrno(h, e), e \in Errors, ErrnoSound
<1>3. Held(g, S, z, live, resized)
  <2>1. \A b \in DOMAIN live : BlockHeld(g, z[b], b, live[b], b \notin resized)
    BY <1>2 DEF Held, BlockHeld, PlainTags
  <2> QED BY <1>2, <2>1 DEF Held
<1>4. g \in Heaps
  BY <1>2 DEF Sound, Laid
<1>5. DOMAIN live' \subseteq Words /\ resized' \subseteq DOMAIN live' /\ calls' \in 0 .. MaxCalls /\ status = "running"
  BY CallFinds DEF HeapInv
<1>6. \E T, y : Held(g, T, y, live', resized')
  BY <1>3
<1>7. Reply(g)
  OBVIOUS
<1> QED BY <1>4, <1>5, <1>6, <1>7, ReplyInv

\* An abort leaves everything as it was.
LEMMA AbortInv ==
    ASSUME HeapInv, Call, Abort
    PROVE  HeapInv' /\ status' # "faulted"
<1>1. status' = "aborted" /\ heap' = heap /\ live' = live /\ resized' = resized
  BY DEF Abort
<1>2. ~heap.faulted /\ heap'.damaged # "cut"
  BY <1>1 DEF HeapInv, Call
<1> QED BY <1>1, <1>2, CallFinds DEF HeapInv

\* What the clients know once c is a block of theirs, in place of b.
InPlaceOf(l, b, c, r) == [x \in (DOMAIN l \ {b}) \cup {c} |-> IF x = c THEN r ELSE l[x]]

\* A block handed out is the client's, and plain.
LEMMA HandedHeld ==
    ASSUME NEW h, NEW S, NEW z, NEW l, NEW rs, Held(h, S, z, l, rs), rs \subseteq DOMAIN l,
           NEW g, NEW wild, NEW b, NEW size \in Nat, Handed(h, g, z, wild, DOMAIN l, b, size)
    PROVE  \E T, y : Held(g, T, y, InPlaceOf(l, b, b, Fresh(size)), rs)
<1> PICK A : A = DOMAIN l
  OBVIOUS
<1> DEFINE k == [x \in A \cup {b} |-> IF x = b THEN Fresh(size) ELSE l[x]]
<1> PICK T, y : /\ Sound(g, T, y, wild, A \cup {b}) /\ A \cup {b} \subseteq T
                /\ \A x \in A : y[x] = z[x]
                /\ Kept(h, g, z, A)
                /\ size + 16 <= y[b] /\ TagsOf(g, b, y[b], IF y[b] = size + 16 THEN 0 ELSE 1, size)
  BY DEF Handed
<1>1. b \notin A /\ b \notin rs
  BY DEF Handed
<1>2. \A x \in A : BlockHeld(g, y[x], x, l[x], x \notin rs)
  BY HeldOthers
<1>3. BlockHeld(g, y[b], b, Fresh(size), b \notin rs)
  <2>1. b \in Nat
    <3>1. b \in Words
      BY DEF Sound, Laid, Tiles
    <3> QED BY <3>1, WordsAre
  <2>2. Fresh(size) \in Records /\ Fresh(size).len = 0 /\ Fresh(size).size = size
    <3>1. NULL \in Words
      BY WordsAre, ArenaIs DEF NULL
    <3> QED BY <3>1 DEF Fresh, Records
  <2>3. \A a \in Words : ~(b + 8 <= a /\ a < b + 8 + 0)
    BY <2>1, WordsAre
  <2>4. PlainTags(g, b, y[b])
    BY ReadTag DEF TagsOf, PlainTags
  <2> QED BY <2>2, <2>3, <2>4 DEF BlockHeld
<1>4. Sound(g, T, y, TRUE, A \cup {b})
  BY SoundLinks
<1>5. \A x \in A \cup {b} : BlockHeld(g, y[x], x, k[x], x \notin rs)
  <2> SUFFICES ASSUME NEW x \in A \cup {b} PROVE BlockHeld(g, y[x], x, k[x], x \notin rs)
    OBVIOUS
  <2>1. CASE x = b
    BY <1>3, <2>1
  <2>2. CASE x # b
    <3>1. x \in A /\ k[x] = l[x]
      BY <2>2
    <3> HIDE DEF k
    <3> QED BY <1>2, <3>1
  <2> QED BY <2>1, <2>2
<1>6. DOMAIN k = A \cup {b}
  OBVIOUS
<1> HIDE DEF k
<1>7. Held(g, T, y, k, rs)
  BY <1>4, <1>5, <1>6 DEF Held
<1>8. \E V, u : Held(g, V, u, k, rs)
  BY <1>7
<1>9. k = InPlaceOf(l, b, b, Fresh(size))
  <2>1. A \cup {b} = (DOMAIN l \ {b}) \cup {b}
    OBVIOUS
  <2> QED BY <2>1 DEF k, InPlaceOf
<1> QED BY <1>8, <1>9

\* sf_malloc keeps the invariant.
LEMMA MallocInv ==
    ASSUME HeapInv, NEW size \in Sizes, Malloc(size)
    PROVE  /\ HeapInv'
           /\ status' = "faulted" => heap'.errno = "ENOMEM" \/ WildLink(heap)
<1>0. Call /\ resized' = resized /\ size \in Nat
  BY ClientAssumption DEF Malloc
<1> PICK m : /\ m = sf_malloc(heap, size) /\ Reply(m.heap)
             /\ live' = IF m.ret = NULL THEN live ELSE Add(m.ret, Fresh(size))
  BY DEF Malloc
<1> PICK S, z : Held(heap, S, z, live, resized)
  BY <1>0, CallFinds
<1> PICK h, A, wild : h = heap /\ A = DOMAIN live /\ wild = WildLink(heap)
  OBVIOUS
<1>1. Sound(h, S, z, wild, A)
  BY SoundLinks DEF Held
<1>2. /\ \/ /\ m.ret = NULL
            /\ \E e \in {"EINVAL", "ENOMEM"} :
                  /\ m.heap = SetErrno(h, e)
                  /\ size > 0 /\ size <= MaxPages * PAGE_SZ => e = "ENOMEM"
         \/ Died(m.heap, wild)
         \/ Handed(h, m.heap, z, wild, A, m.ret, size)
      /\ m.ret \in Words
  BY ONLY <1>0, <1>1, m = sf_malloc(heap, size), h = heap, MallocSound
<1>3. CASE m.ret = NULL /\ \E e \in {"EINVAL", "ENOMEM"} : m.heap = SetErrno(h, e)
  <2> PICK e \in {"EINVAL", "ENOMEM"} : m.heap = SetErrno(h, e)
    BY <1>3
  <2>1. e \in Errors /\ Reply(SetErrno(heap, e)) /\ UNCHANGED <<live, resized>>
    BY <1>0, <1>3 DEF Errors
  <2> QED BY <1>0, <2>1, ErrnoInv
<1>4. ASSUME m.heap \in Heaps,
             Died(m.heap, wild) \/ \E T, y : Held(m.heap, T, y, live', resized')
      PROVE  /\ HeapInv'
             /\ status' = "faulted" => heap'.errno = "ENOMEM" \/ WildLink(heap)
  <2>1. DOMAIN live' = DOMAIN live \/ DOMAIN live' = DOMAIN live \cup {m.ret}
    BY DEF Add
  <2>2. DOMAIN live' \subseteq Words /\ resized' \subseteq DOMAIN live'
    BY <1>0, <1>2, <2>1 DEF HeapInv
  <2>3. calls' \in 0 .. MaxCalls /\ status = "running"
    BY <1>0, CallFinds
  <2> PICK q : q = m.heap
    OBVIOUS
  <2>4. q \in Heaps /\ Reply(q) /\ (Died(q, WildLink(heap)) \/ \E T, y : Held(q, T, y, live', resized'))
    BY <1>4
  <2>5. /\ HeapInv'
        /\ status' = "faulted" => heap'.errno = "ENOMEM" \/ WildLink(heap)
    BY ONLY HeapInv, <2>2, <2>3, <2>4, ReplyInv
  <2> QED BY <2>5
<1>5. CASE Died(m.heap, wild)
  BY <1>4, <1>5 DEF Died
<1>6. CASE Handed(h, m.heap, z, wild, A, m.ret, size)
  <2> PICK g, b : g = m.heap /\ b = m.ret
    OBVIOUS
  <2>1. Handed(h, g, z, wild, DOMAIN live, b, size)
    BY <1>6
  <2>2. g \in Heaps /\ b # NULL
    <3> PICK T, y : Sound(g, T, y, wild, A \cup {b}) /\ A \cup {b} \subseteq T
      BY <1>6 DEF Handed
    <3>1. g \in Heaps /\ Tiles(T, y, g.brk) /\ b \in T
      BY DEF Sound, Laid
    <3>2. b \in Nat /\ b >= 8
      BY <3>1, BlockWords
    <3> QED BY <3>1, <3>2 DEF NULL
  <2>3. live' = InPlaceOf(live, b, b, Fresh(size))
    <3>1. DOMAIN live \cup {b} = (DOMAIN live \ {b}) \cup {b}
      OBVIOUS
    <3> QED BY <2>2, <3>1 DEF Add, InPlaceOf
  <2>4. resized \subseteq DOMAIN live /\ Held(h, S, z, live, resized)
    BY DEF HeapInv
  <2>5. \E T, y : Held(g, T, y, InPlaceOf(live, b, b, Fresh(size)), resized)
    BY ONLY <1>0, <2>1, <2>4, HandedHeld
  <2>6. \E T, y : Held(g, T, y, live', resized')
    BY <1>0, <2>3, <2>5
  <2> QED BY <1>4, <2>2, <2>6
<1> QED BY <1>2, <1>3, <1>5, <1>6

\* A call that ends in a sound heap, or dies.
LEMMA CallReplies ==
    ASSUME HeapInv, Call, NEW g, Reply(g), DOMAIN live' \subseteq Words, resized' \subseteq DOMAIN live',
           \/ Died(g, WildLink(heap))
           \/ g \in Heaps /\ Spared(g, live')
           \/ \E T, y : Held(g, T, y, live', resized')
    PROVE  /\ HeapInv'
           /\ status' = "faulted" => heap'.errno = "ENOMEM" \/ WildLink(heap)
<1>1. calls' \in 0 .. MaxCalls /\ status = "running"
  BY CallFinds
<1>2. g \in Heaps
  BY DEF Died, Held, Sound, Laid
<1> QED BY <1>1, <1>2, ReplyInv

Without(l, b) == [x \in DOMAIN l \ {b} |-> l[x]]

\* The blocks left when one is freed.
LEMMA FreedHeld ==
    ASSUME NEW h, NEW S, NEW z, NEW l, NEW rs, Held(h, S, z, l, rs), NEW g, NEW b \in DOMAIN l,
           After(h, g, z, TRUE, DOMAIN l \ {b})
    PROVE  \E T, y : Held(g, T, y, Without(l, b), rs \ {b})
<1> DEFINE k == [x \in DOMAIN l \ {b} |-> l[x]]
<1> PICK B : B = DOMAIN l \ {b}
  OBVIOUS
<1> PICK T, y : Sound(g, T, y, TRUE, B) /\ (\A x \in B : y[x] = z[x]) /\ Kept(h, g, z, B)
  BY DEF After
<1>1. \A x \in B : BlockHeld(g, y[x], x, l[x], x \notin rs)
  <2>1. B \in SUBSET DOMAIN l
    OBVIOUS
  <2> QED BY <2>1, HeldOthers
<1>2. DOMAIN k = B /\ \A x \in B : k[x] = l[x] /\ (x \notin rs <=> x \notin rs \ {b})
  OBVIOUS
<1> HIDE DEF k
<1>3. \A x \in B : BlockHeld(g, y[x], x, k[x], x \notin rs \ {b})
  <2> SUFFICES ASSUME NEW x \in B PROVE BlockHeld(g, y[x], x, k[x], x \notin rs \ {b})
    OBVIOUS
  <2>1. BlockHeld(g, y[x], x, l[x], x \notin rs)
    BY <1>1
  <2> QED BY <1>2, <2>1 DEF BlockHeld
<1>4. Held(g, T, y, k, rs \ {b})
  BY <1>2, <1>3 DEF Held
<1>5. \E V, u : Held(g, V, u, k, rs \ {b})
  BY <1>4
<1> QED BY <1>5 DEF k, Without

\* sf_free keeps the invariant.
LEMMA FreeInv ==
    ASSUME HeapInv, NEW b \in Pointers, Free(b)
    PROVE  /\ HeapInv'
           /\ status' = "faulted" => heap'.errno = "ENOMEM" \/ WildLink(heap)
<1>0. Call
  BY DEF Free
<1>1. CASE Refused(heap, b)
  <2>1. Abort
    BY <1>1 DEF Free
  <2> QED BY <1>0, <2>1, AbortInv
<1>2. CASE ~Refused(heap, b)
  <2> PICK g : g = Release(heap, b)
    OBVIOUS
  <2>1. Reply(g) /\ live' = Drop(b) /\ resized' = resized \ {b}
    BY <1>2 DEF Free
  <2> PICK S, z : Held(heap, S, z, live, resized)
    BY <1>0, CallFinds
  <2> PICK h, A, wild, l, rs : h = heap /\ A = DOMAIN live /\ wild = WildLink(heap) /\ l = live /\ rs = resized
    OBVIOUS
  <2>2. Held(h, S, z, l, rs) /\ A = DOMAIN l
    OBVIOUS
  <2>3. Sound(h, S, z, wild, A)
    <3>1. Sound(h, S, z, WildLink(h), A)
      BY ONLY <2>2, SoundLinks DEF Held
    <3> QED BY <3>1
  <2>4. b \in A
    <3>1. FreeBlocks(h) = S \ A /\ (\A x \in S \ A : Refused(h, x)) /\ Refused(h, NULL)
      BY ONLY <2>3, FreeBlocksAre, RefusedIs
    <3>2. b \in A \/ b \in FreeBlocks(h) \/ b = NULL
      BY DEF Pointers, Call
    <3> QED BY <1>2, <3>1, <3>2
  <2>5. Died(g, wild) \/ After(h, g, z, TRUE, A \ {b})
    <3>1. g = Release(h, b)
      OBVIOUS
    <3> QED BY ONLY <2>3, <2>4, <3>1, ReleaseSound
  <2>6. ASSUME After(h, g, z, TRUE, A \ {b}) PROVE \E T, y : Held(g, T, y, live', resized')
    <3>1. \E T, y : Held(g, T, y, Without(l, b), rs \ {b})
      BY ONLY <2>2, <2>4, <2>6, FreedHeld
    <3>2. live' = Without(l, b) /\ resized' = rs \ {b}
      BY <2>1 DEF Drop, Without
    <3> QED BY <3>1, <3>2
  <2>7. DOMAIN live' \subseteq Words /\ resized' \subseteq DOMAIN live'
    BY <2>1 DEF HeapInv, Drop
  <2>8. Died(g, WildLink(heap)) \/ \E T, y : Held(g, T, y, live', resized')
    BY <2>5, <2>6
  <2> QED BY ONLY HeapInv, <1>0, <2>1, <2>7, <2>8, CallReplies
<1> QED BY <1>1, <1>2

\* A block's record once sf_realloc has given it its new size.
Shorter(r, size) == [r EXCEPT !.size = size, !.len = Least(@, size)]

\* A block's record stays a record when its size changes.
LEMMA ShorterIs ==
    ASSUME NEW r \in Records, NEW size \in Nat, r.len <= r.size
    PROVE  LET q == Shorter(r, size)
           IN q \in Records /\ q.len <= q.size /\ q.size = size /\ q.len <= r.len /\ q.data = r.data
<1>1. r.len \in Nat /\ r.size \in Nat /\ r.data \in Words
  BY DEF Records
<1>2. Least(r.len, size) \in Nat /\ Least(r.len, size) <= size /\ Least(r.len, size) <= r.len
  BY <1>1 DEF Least
<1>3. Shorter(r, size) \in Records
  BY <1>2 DEF Shorter, Records
<1>4. Shorter(r, size).size = size /\ Shorter(r, size).len = Least(r.len, size) /\ Shorter(r, size).data = r.data
  BY DEF Shorter, Records
<1> QED BY <1>2, <1>3, <1>4

\* A block that is now c, with its first bytes.
LEMMA ReplacedHeld ==
    ASSUME NEW h, NEW S, NEW z, NEW l, NEW rs, Held(h, S, z, l, rs), NEW b \in DOMAIN l, NEW g, NEW T, NEW y,
           NEW c, NEW D, D = (DOMAIN l \ {b}) \cup {c}, c \notin DOMAIN l \ {b}, NEW size \in Nat,
           Replaced(h, g, z, DOMAIN l \ {b}, b, c, size, T, y, D),
           NEW rt, c \in rt, rs \ {b} \subseteq rt
    PROVE  Held(g, T, y, InPlaceOf(l, b, c, Shorter(l[b], size)), rt)
<1> PICK B : B = DOMAIN l \ {b}
  OBVIOUS
<1> PICK r, q : r = l[b] /\ q = Shorter(l[b], size)
  OBVIOUS
<1>1. /\ Sound(g, T, y, TRUE, D) /\ D \subseteq T
      /\ \A x \in B : y[x] = z[x]
      /\ Kept(h, g, z, B)
      /\ size + 16 <= y[c]
      /\ \A a \in Words : c + 8 <= a /\ a < c + 8 + size /\ a - c + b < b + z[b]
                          => g.mem[a] = h.mem[a - c + b]
  BY DEF Replaced
<1>2. \A x \in B : BlockHeld(g, y[x], x, l[x], x \notin rs)
  <2>1. B \in SUBSET DOMAIN l
    OBVIOUS
  <2> QED BY <1>1, <2>1, HeldOthers
<1>3. BlockHeld(h, z[b], b, r, b \notin rs)
  BY DEF Held
<1>4. /\ r \in Records /\ r.len <= r.size /\ r.size + 16 <= z[b] /\ r.len \in Nat /\ r.size \in Nat
      /\ \A a \in Words : b + 8 <= a /\ a < b + 8 + r.len => h.mem[a] = Data(r.data)
  BY <1>3 DEF BlockHeld, Records
<1>5. q \in Records /\ q.len <= q.size /\ q.size = size /\ q.len <= r.len /\ q.data = r.data /\ q.len \in Nat
  <2>1. q \in Records /\ q.len <= q.size /\ q.size = size /\ q.len <= r.len /\ q.data = r.data
    BY <1>4, ShorterIs
  <2> QED BY <2>1 DEF Records
<1>6. h \in Heaps /\ Tiles(S, z, h.brk) /\ b \in S /\ g \in Heaps /\ Tiles(T, y, g.brk) /\ c \in T
  BY <1>1 DEF Held, Sound, Laid
<1>7. /\ b \in Nat /\ b \in Words /\ z[b] \in Nat /\ b + z[b] <= h.brk /\ h.brk \in Nat /\ h.brk <= ArenaEnd
  <2>1. b \in Nat /\ b \in Words /\ z[b] \in Nat /\ b + z[b] <= h.brk
    BY <1>6, BlockWords
  <2>2. h.brk \in Breaks
    BY <1>6, HeapFields
  <2> QED BY <2>1, <2>2, BreaksAre
<1>8. c \in Nat /\ c \in Words
  BY <1>6, BlockWords
<1>9. ASSUME NEW a \in Words, c + 8 <= a, a < c + 8 + q.len PROVE g.mem[a] = Data(q.data)
  <2> PICK e : e = a - c + b
    OBVIOUS
  <2>1. a \in Nat /\ a % 8 = 0 /\ b % 8 = 0 /\ c % 8 = 0
    BY <1>7, <1>8, WordsAre
  <2>2. e \in Nat /\ e % 8 = 0 /\ b + 8 <= e /\ e < b + 8 + r.len
    BY <1>4, <1>5, <1>7, <1>8, <1>9, <2>1
  <2>3. e < b + z[b] /\ a < c + 8 + size
    BY <1>4, <1>5, <1>7, <1>8, <1>9, <2>1, <2>2
  <2>4. e \in Words
    BY <1>7, <2>2, <2>3, WordsAre, ArenaIs
  <2>5. h.mem[e] = Data(r.data)
    BY <1>4, <2>2, <2>4
  <2>6. g.mem[a] = h.mem[e]
    BY <1>1, <1>9, <2>3
  <2> QED BY <1>5, <2>5, <2>6
<1>10. BlockHeld(g, y[c], c, q, c \notin rt)
  BY <1>1, <1>5, <1>9 DEF BlockHeld
<1> PICK k : k = InPlaceOf(l, b, c, q)
  OBVIOUS
<1>11. DOMAIN k = D /\ k[c] = q /\ \A x \in B : k[x] = l[x]
  BY DEF InPlaceOf
<1>12. ASSUME NEW x \in D PROVE BlockHeld(g, y[x], x, k[x], x \notin rt)
  <2>1. CASE x = c
    BY <1>10, <1>11, <2>1
  <2>2. CASE x \in B
    <3>1. x \notin rt => x \notin rs
      BY <2>2
    <3>2. BlockHeld(g, y[x], x, l[x], x \notin rs)
      BY <1>2, <2>2
    <3>3. BlockHeld(g, y[x], x, l[x], x \notin rt)
      BY <3>1, <3>2 DEF BlockHeld
    <3> QED BY <1>11, <2>2, <3>3
  <2> QED BY <2>1, <2>2
<1>13. Held(g, T, y, k, rt)
  BY <1>1, <1>11, <1>12 DEF Held
<1> QED BY <1>13

\* A block that stays, with its tags made plain or left as they are.
LEMMA RetaggedHeld ==
    ASSUME NEW h, NEW S, NEW z, NEW l, NEW rs, Held(h, S, z, l, rs), NEW b \in DOMAIN l, NEW g, NEW size \in Nat,
           Sound(g, S, z, TRUE, DOMAIN l), Kept(h, g, z, DOMAIN l \ {b}), size + 16 <= z[b],
           \A a \in Words : b < a /\ a < b + z[b] - 8 => g.mem[a] = h.mem[a],
           g = h \/ PlainTags(g, b, z[b])
    PROVE  Held(g, S, z, InPlaceOf(l, b, b, Shorter(l[b], size)), rs)
<1> PICK B : B = DOMAIN l \ {b}
  OBVIOUS
<1> PICK r, q : r = l[b] /\ q = Shorter(l[b], size)
  OBVIOUS
<1>2. \A x \in B : BlockHeld(g, z[x], x, l[x], x \notin rs)
  <2>1. B \in SUBSET DOMAIN l /\ \A x \in B : z[x] = z[x]
    OBVIOUS
  <2> QED BY <2>1, HeldOthers
<1>3. BlockHeld(h, z[b], b, r, b \notin rs)
  BY DEF Held
<1>4. /\ r \in Records /\ r.len <= r.size /\ r.size + 16 <= z[b] /\ r.len \in Nat /\ r.size \in Nat
      /\ \A a \in Words : b + 8 <= a /\ a < b + 8 + r.len => h.mem[a] = Data(r.data)
      /\ b \notin rs => PlainTags(h, b, z[b])
  BY <1>3 DEF BlockHeld, Records
<1>5. q \in Records /\ q.len <= q.size /\ q.size = size /\ q.len <= r.len /\ q.data = r.data /\ q.len \in Nat
  <2>1. q \in Records /\ q.len <= q.size /\ q.size = size /\ q.len <= r.len /\ q.data = r.data
    BY <1>4, ShorterIs
  <2> QED BY <2>1 DEF Records
<1>6. h \in Heaps /\ Tiles(S, z, h.brk) /\ b \in S
  BY DEF Held, Sound, Laid
<1>7. b \in Nat /\ z[b] \in Nat
  BY <1>6, BlockWords
<1>8. ASSUME NEW a \in Words, b + 8 <= a, a < b + 8 + q.len PROVE g.mem[a] = Data(q.data)
  <2>1. a \in Nat
    BY WordsAre
  <2>2. b < a /\ a < b + z[b] - 8 /\ a < b + 8 + r.len
    BY <1>4, <1>5, <1>7, <1>8, <2>1
  <2> QED BY <1>4, <1>5, <1>8, <2>2
<1>9. BlockHeld(g, z[b], b, q, b \notin rs)
  <2>1. b \notin rs => PlainTags(g, b, z[b])
    BY <1>4
  <2> QED BY <1>5, <1>8, <2>1 DEF BlockHeld
<1> PICK k : k = InPlaceOf(l, b, b, q)
  OBVIOUS
<1>10. DOMAIN k = DOMAIN l /\ k[b] = q /\ \A x \in B : k[x] = l[x]
  BY DEF InPlaceOf
<1>11. ASSUME NEW x \in DOMAIN l PROVE BlockHeld(g, z[x], x, k[x], x \notin rs)
  <2>1. CASE x = b
    BY <1>9, <1>10, <2>1
  <2>2. CASE x \in B
    BY <1>2, <1>10, <2>2
  <2> QED BY <2>1, <2>2
<1>12. Held(g, S, z, k, rs)
  BY <1>10, <1>11 DEF Held
<1> QED BY <1>12

\* sf_realloc where it moves the block.
LEMMA MovedInv ==
    ASSUME HeapInv, Call, NEW b \in DOMAIN live, NEW size \in Nat, size > 0, size <= MaxPages * PAGE_SZ,
           NEW m, m = Move(heap, b, size), Moved(m, b, size)
    PROVE  /\ HeapInv'
           /\ status' = "faulted" => heap'.errno = "ENOMEM" \/ WildLink(heap)
<1> PICK S, z : Held(heap, S, z, live, resized)
  BY CallFinds
<1> PICK h, A, wild, l, rs : h = heap /\ A = DOMAIN live /\ wild = WildLink(heap) /\ l = live /\ rs = resized
  OBVIOUS
<1> PICK g, c : g = m.heap /\ c = m.ret
  OBVIOUS
<1>1. Held(h, S, z, l, rs) /\ A = DOMAIN l /\ b \in A
  OBVIOUS
<1>2. Sound(h, S, z, wild, A)
  <2>1. Sound(h, S, z, WildLink(h), A)
    BY ONLY <1>1, SoundLinks DEF Held
  <2> QED BY <2>1
<1>3. /\ Died(g, wild) \/ (MovedTo(h, g, z, A, b, c, size) /\ c # NULL)
      /\ c \in Words
  <2>1. /\ Died(m.heap, wild) \/ (MovedTo(h, m.heap, z, A, b, m.ret, size) /\ m.ret # NULL)
        /\ m.ret \in Words
    <3>1. m = Move(h, b, size)
      OBVIOUS
    <3> QED BY ONLY <1>1, <1>2, <3>1, size \in Nat, size > 0, size <= MaxPages * PAGE_SZ, MoveSound
  <2> QED BY <2>1
<1>4. Reply(g)
  BY DEF Moved
<1>5. /\ c = NULL => UNCHANGED <<live, resized>>
      /\ c # NULL => live' = InPlaceOf(l, b, c, Shorter(l[b], size)) /\ resized' = (rs \ {b}) \cup {c}
  BY DEF Moved, InPlaceOf, Resized, Shorter
<1>6. DOMAIN live' \subseteq Words /\ resized' \subseteq DOMAIN live'
  <2>1. DOMAIN live \subseteq Words /\ resized \subseteq DOMAIN live
    BY DEF HeapInv
  <2>2. CASE c = NULL
    BY <1>5, <2>1, <2>2
  <2>3. CASE c # NULL
    <3>1. DOMAIN live' = (A \ {b}) \cup {c}
      BY <1>5, <2>3 DEF InPlaceOf
    <3> QED BY <1>3, <1>5, <2>1, <2>3, <3>1
  <2> QED BY <2>2, <2>3
<1>7. ASSUME MovedTo(h, g, z, A, b, c, size), c # NULL
      PROVE  \E T, y : Held(g, T, y, live', resized')
  <2> PICK D, rt : D = (DOMAIN l \ {b}) \cup {c} /\ rt = (rs \ {b}) \cup {c}
    OBVIOUS
  <2> PICK T, y : Replaced(h, g, z, A \ {b}, b, c, size, T, y, D)
    BY <1>7 DEF MovedTo
  <2>1. c \notin DOMAIN l \ {b} /\ c \in rt /\ rs \ {b} \subseteq rt /\ D = (DOMAIN l \ {b}) \cup {c} /\ b \in DOMAIN l
    BY <1>1, <1>7 DEF MovedTo
  <2>2. Replaced(h, g, z, DOMAIN l \ {b}, b, c, size, T, y, D)
    OBVIOUS
  <2>3. Held(g, T, y, InPlaceOf(l, b, c, Shorter(l[b], size)), rt)
    BY ONLY <1>1, <2>1, <2>2, size \in Nat, ReplacedHeld
  <2>4. Held(g, T, y, live', resized')
    BY <1>5, <1>7, <2>3
  <2> QED BY <2>4
<1>8. Died(g, WildLink(heap)) \/ \E T, y : Held(g, T, y, live', resized')
  BY <1>3, <1>7
<1> QED BY ONLY HeapInv, Call, <1>4, <1>6, <1>8, CallReplies

\* sf_realloc where it cuts the block.
LEMMA CutInv ==
    ASSUME HeapInv, Call, NEW b \in DOMAIN live, NEW size \in Nat, size > 0, BlockFor(size) < SizeAt(heap, b),
           Reply(Shrink(heap, b, size)), live' = Add(b, Resized(b, size)), resized' = resized \cup {b}
    PROVE  /\ HeapInv'
           /\ status' = "faulted" => heap'.errno = "ENOMEM" \/ WildLink(heap)
<1> PICK S, z : Held(heap, S, z, live, resized)
  BY CallFinds
<1> PICK h, A, wild, l, rs : h = heap /\ A = DOMAIN live /\ wild = WildLink(heap) /\ l = live /\ rs = resized
  OBVIOUS
<1> PICK g, rt : g = Shrink(heap, b, size) /\ rt = resized \cup {b}
  OBVIOUS
<1>1. Held(h, S, z, l, rs) /\ A = DOMAIN l /\ b \in A
  OBVIOUS
<1>2. Sound(h, S, z, wild, A)
  <2>1. Sound(h, S, z, WildLink(h), A)
    BY ONLY <1>1, SoundLinks DEF Held
  <2> QED BY <2>1
<1>3. InPlace(h, g, z, wild, A, b, size)
  <2>1. SizeAt(h, b) = z[b]
    BY ONLY <1>1, <1>2, RefusedIs
  <2>2. BlockFor(size) < z[b] /\ g = Shrink(h, b, size)
    BY <2>1
  <2> QED BY ONLY <1>1, <1>2, <2>2, size \in Nat, size > 0, ShrinkSound
<1>4. live' = InPlaceOf(l, b, b, Shorter(l[b], size)) /\ resized' = rt
  <2>1. DOMAIN l \cup {b} = (DOMAIN l \ {b}) \cup {b}
    OBVIOUS
  <2> QED BY <2>1 DEF InPlaceOf, Add, Resized, Shorter
<1>5. DOMAIN live' \subseteq Words /\ resized' \subseteq DOMAIN live'
  <2>1. DOMAIN live' = DOMAIN live
    BY <1>4 DEF InPlaceOf
  <2> QED BY <2>1 DEF HeapInv
<1>6. ASSUME \E T, y : Replaced(h, g, z, A \ {b}, b, b, size, T, y, A)
      PROVE  \E T, y : Held(g, T, y, live', resized')
  <2> PICK T, y : Replaced(h, g, z, DOMAIN l \ {b}, b, b, size, T, y, A)
    BY <1>6
  <2> PICK c, D : c = b /\ D = A
    OBVIOUS
  <2>1. c \notin DOMAIN l \ {b} /\ c \in rt /\ rs \ {b} \subseteq rt /\ D = (DOMAIN l \ {b}) \cup {c} /\ b \in DOMAIN l
    BY <1>1
  <2>2. Replaced(h, g, z, DOMAIN l \ {b}, b, c, size, T, y, D)
    OBVIOUS
  <2>3. Held(h, S, z, l, rs)
    OBVIOUS
  <2>4. Held(g, T, y, InPlaceOf(l, b, c, Shorter(l[b], size)), rt)
    BY ONLY <2>1, <2>2, <2>3, size \in Nat, ReplacedHeld
  <2>5. Held(g, T, y, live', resized')
    BY <1>4, <2>4
  <2> QED BY <2>5
<1>7. ASSUME Spoilt(h, g, z, A, b, size)
      PROVE  g \in Heaps /\ Spared(g, live')
  <2>1. DOMAIN live' = A
    BY <1>1, <1>4 DEF InPlaceOf
  <2>2. ASSUME NEW x \in A, NEW a \in Words, x + 8 <= a, a < x + 8 + live'[x].len,
               \A i \in Lists : a # g.head[i] + 8
        PROVE  g.mem[a] = Data(live'[x].data)
    <3> PICK r : r = l[x]
      OBVIOUS
    <3>1. /\ r \in Records /\ r.len <= r.size /\ r.size + 16 <= z[x]
          /\ \A c \in Words : x + 8 <= c /\ c < x + 8 + r.len => h.mem[c] = Data(r.data)
      BY <1>1 DEF Held, BlockHeld
    <3>2. /\ r.len \in Nat /\ r.size \in Nat /\ x \in Nat /\ z[x] \in Nat /\ a \in Nat
      <4>1. h \in Heaps /\ Tiles(S, z, h.brk) /\ x \in S
        BY <1>2 DEF Sound, Laid
      <4> QED BY <3>1, <4>1, BlockWords, WordsAre DEF Records
    <3>3. x # b => live'[x] = r
      BY <1>1, <1>4 DEF InPlaceOf
    <3>4. x = b => live'[x] = Shorter(r, size)
      BY <1>1, <1>4 DEF InPlaceOf
    <3>5. Shorter(r, size).data = r.data /\ Shorter(r, size).len <= size /\ Shorter(r, size).len <= r.len
          /\ Shorter(r, size).len \in Nat
      BY <3>1, <3>2 DEF Shorter, Least, Records
    <3>6. /\ live'[x].data = r.data /\ live'[x].len \in Nat /\ live'[x].len <= r.len
          /\ x = b => live'[x].len <= size
      BY <3>2, <3>3, <3>4, <3>5
    <3> PICK m : m = live'[x].len
      OBVIOUS
    <3>7. a < x + 8 + r.len /\ a < x + z[x] - 8 /\ (x = b => a < b + 8 + size)
      BY ONLY <2>2, <3>1, <3>2, <3>6, m = live'[x].len, size \in Nat
    <3>8. g.mem[a] = h.mem[a]
      BY <1>7, <2>2, <3>7 DEF Spoilt
    <3> QED BY <2>2, <3>1, <3>6, <3>7, <3>8
  <2> QED BY <1>7, <2>1, <2>2 DEF Spoilt, Spared
<1>9. \/ Died(g, WildLink(heap))
      \/ g \in Heaps /\ Spared(g, live')
      \/ \E T, y : Held(g, T, y, live', resized')
  BY <1>3, <1>6, <1>7 DEF InPlace
<1>8. Reply(g)
  OBVIOUS
<1> QED BY ONLY HeapInv, Call, <1>5, <1>8, <1>9, CallReplies

\* sf_realloc where the block keeps its size.
LEMMA KeptInv ==
    ASSUME HeapInv, Call, NEW b \in DOMAIN live, NEW size \in Nat, BlockFor(size) = SizeAt(heap, b),
           Reply(Keep(heap, b, size)), live' = Add(b, Resized(b, size)), resized' = resized
    PROVE  /\ HeapInv'
           /\ status' = "faulted" => heap'.errno = "ENOMEM" \/ WildLink(heap)
<1> PICK S, z : Held(heap, S, z, live, resized)
  BY CallFinds
<1> PICK h, A, true, l, rs : h = heap /\ A = DOMAIN live /\ true = TRUE /\ l = live /\ rs = resized
  OBVIOUS
<1> PICK g : g = Keep(heap, b, size)
  OBVIOUS
<1>1. Held(h, S, z, l, rs) /\ A = DOMAIN l /\ b \in A
  OBVIOUS
<1>2. Sound(h, S, z, true, A)
  BY <1>1 DEF Held
<1>3. /\ Sound(g, S, z, true, A) /\ Kept(h, g, z, A \ {b})
      /\ \A a \in Words : b < a /\ a < b + z[b] - 8 => g.mem[a] = h.mem[a]
      /\ g = h \/ PlainTags(g, b, z[b])
      /\ size + 16 <= z[b]
  <2>1. SizeAt(h, b) = z[b]
    BY ONLY <1>1, <1>2, RefusedIs
  <2>2. BlockFor(size) = z[b] /\ g = Keep(h, b, size)
    BY <2>1
  <2>3. b \in A /\ size \in Nat
    OBVIOUS
  <2>4. /\ Sound(Keep(h, b, size), S, z, true, A) /\ Kept(h, Keep(h, b, size), z, A \ {b})
        /\ \A a \in Words : b < a /\ a < b + z[b] - 8 => Keep(h, b, size).mem[a] = h.mem[a]
        /\ Keep(h, b, size) = h \/ PlainTags(Keep(h, b, size), b, z[b])
        /\ size + 16 <= z[b]
    BY ONLY <1>2, <2>2, <2>3, KeepSound
  <2> QED BY ONLY <2>2, <2>4
<1>4. live' = InPlaceOf(l, b, b, Shorter(l[b], size)) /\ resized' = rs
  <2>1. DOMAIN l \cup {b} = (DOMAIN l \ {b}) \cup {b}
    OBVIOUS
  <2> QED BY <2>1 DEF InPlaceOf, Add, Resized, Shorter
<1>5. DOMAIN live' \subseteq Words /\ resized' \subseteq DOMAIN live'
  <2>1. DOMAIN live' = DOMAIN live
    BY <1>4 DEF InPlaceOf
  <2> QED BY <1>4, <2>1 DEF HeapInv
<1>6. Held(g, S, z, InPlaceOf(l, b, b, Shorter(l[b], size)), rs)
  <2>1. /\ Sound(g, S, z, TRUE, DOMAIN l) /\ Kept(h, g, z, DOMAIN l \ {b}) /\ b \in DOMAIN l
    BY <1>1, <1>3
  <2> QED BY ONLY <1>1, <1>3, <2>1, size \in Nat, RetaggedHeld
<1>7. Held(g, S, z, live', resized')
  BY <1>4, <1>6
<1>8. Reply(g)
  OBVIOUS
<1>9. Died(g, WildLink(heap)) \/ \E T, y : Held(g, T, y, live', resized')
  BY <1>7
<1> QED BY ONLY HeapInv, Call, <1>5, <1>8, <1>9, CallReplies

\* sf_realloc keeps the invariant.
LEMMA ReallocInv ==
    ASSUME HeapInv, NEW b \in Pointers, NEW size \in Sizes, Realloc(b, size)
    PROVE  /\ HeapInv'
           /\ status' = "faulted" => heap'.errno = "ENOMEM" \/ WildLink(heap)
<1>1. Call /\ size \in Nat /\ size > 0
  BY ClientAssumption DEF Realloc
<1>2. CASE size > MaxPages * PAGE_SZ
  <2>0. ~(size <= MaxPages * PAGE_SZ)
    BY <1>1, <1>2, PagesAssumption
  <2>1. Reply(SetErrno(heap, "EINVAL")) /\ UNCHANGED <<live, resized>>
    BY <1>2, <2>0 DEF Realloc, SetErrno
  <2>2. "EINVAL" \in Errors
    BY DEF Errors
  <2> QED BY <1>1, <2>1, <2>2, ErrnoInv
<1>3. CASE ~(size > MaxPages * PAGE_SZ)
  <2>1. size <= MaxPages * PAGE_SZ
    BY <1>1, <1>3, PagesAssumption
  <2>2. CASE Refused(heap, b)
    <3>1. Abort
      BY <1>3, <2>1, <2>2 DEF Realloc
    <3> QED BY <1>1, <3>1, AbortInv
  <2>3. CASE ~Refused(heap, b)
    <3> PICK S, z : Held(heap, S, z, live, resized)
      BY <1>1, CallFinds
    <3> PICK h, A, true : h = heap /\ A = DOMAIN live /\ true = TRUE
      OBVIOUS
    <3>1. Sound(h, S, z, true, A)
      BY DEF Held
    <3>2. b \in DOMAIN live
      <4>1. FreeBlocks(h) = S \ A /\ (\A x \in S \ A : Refused(h, x)) /\ Refused(h, NULL)
        BY ONLY <3>1, FreeBlocksAre, RefusedIs
      <4>2. b \in A \/ b \in FreeBlocks(h) \/ b = NULL
        BY <1>1 DEF Pointers, Call
      <4> QED BY <2>3, <4>1, <4>2
    <3>3. SizeAt(heap, b) \in Nat /\ BlockFor(size) \in Nat
      <4>1. SizeAt(h, b) = z[b]
        BY ONLY <3>1, <3>2, h = heap, A = DOMAIN live, RefusedIs
      <4>2. h \in Heaps /\ Tiles(S, z, h.brk) /\ b \in S
        BY <3>1, <3>2 DEF Sound, Laid
      <4> QED BY <1>1, <4>1, <4>2, BlockWords, BlockForIs
    <3>4. CASE BlockFor(size) > SizeAt(heap, b)
      <4>1. Moved(Move(heap, b, size), b, size)
        BY <1>3, <2>1, <2>3, <3>3, <3>4 DEF Realloc
      <4> PICK m : m = Move(heap, b, size)
        OBVIOUS
      <4>2. Moved(m, b, size)
        BY <4>1
      <4> QED BY <1>1, <2>1, <3>2, <4>2, MovedInv
    <3>5. CASE BlockFor(size) < SizeAt(heap, b)
      <4>1. /\ Reply(Shrink(heap, b, size)) /\ live' = Add(b, Resized(b, size))
            /\ resized' = resized \cup {b}
        BY <1>3, <2>1, <2>3, <3>3, <3>5 DEF Realloc
      <4> QED BY <1>1, <3>2, <3>5, <4>1, CutInv
    <3>6. CASE BlockFor(size) = SizeAt(heap, b)
      <4>1. /\ Reply(Keep(heap, b, size)) /\ live' = Add(b, Resized(b, size)) /\ resized' = resized
        BY <1>3, <2>1, <2>3, <3>3, <3>6 DEF Realloc
      <4> QED BY <1>1, <3>2, <3>6, <4>1, KeptInv
    <3> QED BY <3>3, <3>4, <3>5, <3>6
  <2> QED BY <2>2, <2>3
<1> QED BY <1>2, <1>3

\* What a client knows of its block once it has filled it.
Full(r, b) == [r EXCEPT !.data = b, !.len = r.size]

\* The clients' blocks stay theirs when one of them is filled.
LEMMA FilledHeld ==
    ASSUME NEW h, NEW S, NEW z, NEW l, NEW rs, Held(h, S, z, l, rs), NEW b \in DOMAIN l, NEW g,
           g = Filled(h, b, l[b].size)
    PROVE  Held(g, S, z, InPlaceOf(l, b, b, Full(l[b], b)), rs) /\ SameRest(h, g)
<1> PICK A, B, true : A = DOMAIN l /\ B = DOMAIN l \ {b} /\ true = TRUE
  OBVIOUS
<1> PICK r, q, size : r = l[b] /\ q = Full(l[b], b) /\ size = l[b].size
  OBVIOUS
<1>1. BlockHeld(h, z[b], b, r, b \notin rs)
  BY DEF Held
<1>2. r \in Records /\ r.len <= r.size /\ r.size + 16 <= z[b] /\ r.size \in Nat /\ (b \notin rs => PlainTags(h, b, z[b]))
  BY <1>1 DEF BlockHeld, Records
<1>3. Sound(h, S, z, true, A) /\ b \in A /\ size \in Nat /\ size + 16 <= z[b]
  BY <1>2 DEF Held
<1>4. /\ Sound(g, S, z, true, A) /\ Kept(h, g, z, A \ {b}) /\ SameRest(h, g)
      /\ \A a \in Words : b + 8 <= a /\ a < b + 8 + size => g.mem[a] = Data(b)
      /\ g.mem[b] = h.mem[b] /\ g.mem[b + z[b] - 8] = h.mem[b + z[b] - 8]
  <2>1. g = Filled(h, b, size)
    OBVIOUS
  <2> QED BY ONLY <1>3, <2>1, WriteSound
<1>5. b \in Words
  BY <1>3 DEF Sound, Laid, Tiles
<1>6. q \in Records /\ q.len = size /\ q.size = size /\ q.data = b
  BY <1>2, <1>5 DEF Full, Records
<1>7. BlockHeld(g, z[b], b, q, b \notin rs)
  <2>1. b \notin rs => PlainTags(g, b, z[b])
    BY <1>2, <1>4 DEF PlainTags
  <2>2. \A a \in Words : b + 8 <= a /\ a < b + 8 + q.len => g.mem[a] = Data(q.data)
    BY <1>4, <1>6
  <2>3. q.len <= q.size /\ q.size + 16 <= z[b]
    BY <1>3, <1>6
  <2> QED BY <1>6, <2>1, <2>2, <2>3 DEF BlockHeld
<1>8. \A x \in B : BlockHeld(g, z[x], x, l[x], x \notin rs)
  <2>1. B \in SUBSET DOMAIN l /\ (\A x \in B : z[x] = z[x]) /\ Kept(h, g, z, B)
    BY <1>4
  <2> QED BY <2>1, HeldOthers
<1> PICK k : k = InPlaceOf(l, b, b, q)
  OBVIOUS
<1>9. DOMAIN k = DOMAIN l /\ k[b] = q /\ \A x \in B : k[x] = l[x]
  BY DEF InPlaceOf
<1>10. ASSUME NEW x \in DOMAIN l PROVE BlockHeld(g, z[x], x, k[x], x \notin rs)
  <2>1. CASE x = b
    BY <1>7, <1>9, <2>1
  <2>2. CASE x \in B
    BY <1>8, <1>9, <2>2
  <2> QED BY <2>1, <2>2
<1>11. Held(g, S, z, k, rs)
  BY <1>4, <1>9, <1>10 DEF Held
<1> QED BY <1>4, <1>11

\* A client's write keeps the invariant.
LEMMA WriteInv ==
    ASSUME HeapInv, NEW b \in DOMAIN live, Write(b)
    PROVE  HeapInv' /\ status' = status
<1>1. /\ status = "running" /\ heap.damaged = "no"
      /\ heap' = Filled(heap, b, live[b].size)
      /\ live' = Add(b, [live[b] EXCEPT !.data = b, !.len = live[b].size])
      /\ UNCHANGED <<status, resized, calls>>
  BY DEF Write, Filled
<1>2. Whole
  BY <1>1 DEF Whole
<1> PICK S, z : Held(heap, S, z, live, resized)
  BY <1>2, WholeIsSound
<1> PICK h, l, rs, g : h = heap /\ l = live /\ rs = resized /\ g = Filled(heap, b, live[b].size)
  OBVIOUS
<1>3. Held(g, S, z, InPlaceOf(l, b, b, Full(l[b], b)), rs) /\ SameRest(h, g)
  <2>1. Held(h, S, z, l, rs) /\ b \in DOMAIN l /\ g = Filled(h, b, l[b].size)
    OBVIOUS
  <2> QED BY ONLY <2>1, FilledHeld
<1>4. live' = InPlaceOf(l, b, b, Full(l[b], b)) /\ resized' = rs /\ heap' = g
  <2>1. DOMAIN l \cup {b} = (DOMAIN l \ {b}) \cup {b}
    OBVIOUS
  <2> QED BY <1>1, <2>1 DEF InPlaceOf, Add, Full
<1>5. DOMAIN live' \subseteq Words /\ resized' \subseteq DOMAIN live' /\ calls' \in 0 .. MaxCalls
  <2>1. DOMAIN live' = DOMAIN live
    BY <1>4 DEF InPlaceOf
  <2> QED BY <1>1, <2>1 DEF HeapInv
<1>6. \E T, y : Held(heap', T, y, live', resized')
  BY <1>3, <1>4
<1>7. heap' \in Heaps
  BY <1>3, <1>4 DEF Held, Sound, Laid
<1>8. status' = "running" /\ ~heap'.faulted /\ heap'.damaged # "cut"
  BY <1>1, <1>3, <1>4 DEF SameRest, HeapInv
<1> QED BY <1>1, <1>5, <1>6, <1>7, <1>8 DEF HeapInv

\* The invariant is inductive, and a step that ends in a fault is explained.
LEMMA StepInv ==
    ASSUME HeapInv, [Next]_vars
    PROVE  /\ HeapInv'
           /\ status = "running" /\ status' = "faulted" => heap'.errno = "ENOMEM" \/ WildLink(heap)
<1> DEFINE Explained == status' = "faulted" => heap'.errno = "ENOMEM" \/ WildLink(heap)
<1>1. ASSUME NEW size \in Sizes, Malloc(size) PROVE HeapInv' /\ Explained
  BY <1>1, MallocInv
<1>2. ASSUME NEW b \in Pointers, Free(b) PROVE HeapInv' /\ Explained
  BY <1>2, FreeInv
<1>3. ASSUME NEW b \in Pointers, ReallocZero(b) PROVE HeapInv' /\ Explained
  <2>1. Free(b)
    BY <1>3 DEF ReallocZero
  <2> QED BY <2>1, FreeInv
<1>4. ASSUME NEW b \in Pointers, NEW size \in Sizes, Realloc(b, size) PROVE HeapInv' /\ Explained
  BY <1>4, ReallocInv
<1>5. ASSUME NEW b \in DOMAIN live, Write(b) PROVE HeapInv' /\ status' = status
  BY <1>5, WriteInv
<1>6. ASSUME UNCHANGED vars PROVE HeapInv' /\ status' = status
  <2>1. heap' = heap /\ status' = status /\ live' = live /\ resized' = resized /\ calls' = calls
    BY <1>6 DEF vars
  <2>2. ContentsKept' <=> ContentsKept
    <3>1. CutLinks' = CutLinks
      BY <2>1 DEF CutLinks
    <3> QED BY <2>1, <3>1 DEF ContentsKept
  <2>3. Whole' <=> Whole
    BY <2>1 DEF Whole
  <2> QED BY <2>1, <2>2, <2>3 DEF HeapInv
<1>7. ASSUME Done PROVE HeapInv' /\ status' = status
  BY <1>6, <1>7 DEF Done
<1> QED BY <1>1, <1>2, <1>3, <1>4, <1>5, <1>6, <1>7 DEF Next

-----------------------------------------------------------------------------
(* The theorems *)

\* The heap invariant holds of every state sfmm.c can reach.
THEOREM HeapStaysSound == Spec => []HeapInv
<1>1. Init => HeapInv
  BY InitInv
<1>2. HeapInv /\ [Next]_vars => HeapInv'
  BY StepInv
<1> QED BY <1>1, <1>2, PTL DEF Spec

\* The words, the list heads, the break and errno keep their types: block sizes are
\* multiples of 16 and the break is at the end of a page.
THEOREM HeapTypeCorrect == Spec => []TypeOK
BY HeapStaysSound, TypeFromInv, PTL

\* Splitting, coalescing and extending leave the blocks tiling the heap, header and
\* footer of each in agreement.
THEOREM HeapStaysTiled == Spec => []HeapTiles
BY HeapStaysSound, TilesFromInv, PTL

\* The segregated lists hold exactly the free blocks, each once, in the list of its
\* size, with their predecessors right.
THEOREM FreeListsStayExact == Spec => []FreeListsExact
BY HeapStaysSound, ListsFromInv, PTL

\* The allocated blocks are exactly those the clients hold, each as large as asked.
THEOREM LiveBlocksStayHeld == Spec => []LiveBlocksHeld
BY HeapStaysSound, BlocksFromInv, PTL

\* sf_malloc, sf_free and sf_realloc keep what the clients wrote, a block cut in front of
\* one that is not free included, where one word of the block behind may become a link.
THEOREM ContentsStayKept == Spec => []ContentsKept
BY HeapStaysSound, ContentsFromInv, PTL

\* sf_free refuses every free block, and a block its client holds only when sf_realloc has
\* shrunk or moved it and left padding flags that do not fit its size.
THEOREM RefusalsStayRight == Spec => []RefusalsAreRight
BY HeapStaysSound, RefusalsFromInv, PTL

\* A call faults only for want of memory or on a client's bytes taken for a link.
THEOREM FaultsAreExplained == Spec => FaultsExplained
<1>1. Spec => []HeapInv /\ [][Next]_vars
  BY HeapStaysSound, PTL DEF Spec
<1>2. HeapInv /\ [Next]_vars
      => [status = "running" /\ status' = "faulted" => heap'.errno = "ENOMEM" \/ WildLink(heap)]_vars
  BY StepInv
<1> QED BY <1>1, <1>2, PTL DEF FaultsExplained
==============================================================================
