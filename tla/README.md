# Verification of C-w0ng

TLA+ models of the programs in this repository, checked with TLC and proved about
with TLAPS. The repository holds six C programs of one course; each directory
`hwN` is a program of its own. Five of them are modelled: the threaded key-value
server of `hw5` (hash map, request queue, server), the allocator of `hw3`, the
shell of `hw4`, the UTF converter of `hw2` and the ciphers of `hw1`.

## 1. Inventory

| Component | State it keeps | Operations | What is hard about it |
|---|---|---|---|
| hash map (`hw5/src/hashmap.c`, `utils.c`) | array of slots (key, value, tombstone), `size`, `num_readers`, two mutexes, `invalid` | `create_map`, `put`, `get`, `delete`, `clear_map`, `invalidate_map` | called by all worker threads; checks before the lock, reads after the unlock, a readers-writers scheme out of two mutexes, wrap-around, tombstones, full table, ownership of buffers |
| request queue (`hw5/src/queue.c`) | linked nodes, `front`, `rear`, semaphore, mutex, `invalid` | `create_queue`, `enqueue`, `dequeue`, `invalidate_queue` | producers and consumers; link and post are two steps; nodes are freed by hand |
| CREAM server (`hw5/src/cream.c`) | the map, the queue, `connfd`, each worker's locals, the descriptor table | accept loop, request loop (`PUT`, `GET`, `EVICT`, `CLEAR`, anything else) | threads share `&connfd`; clients hang up; any failing call exits the process |
| csapp library (`hw5/src/csapp.c`) | none of interest | wrappers of system calls | third party; `unix_error` exits |
| extra credit map (`hw5/src/extracredit.c`) | none | stubs | nothing there |
| allocator (`hw3/src/sfmm.c`) | heap of at most four pages, headers and footers, four free lists | `sf_malloc`, `sf_free`, `sf_realloc`, `append`, `relink`, `find_fit`, `coalesce` | long sequences of calls: splitting, coalescing, list links, splinters, a heap that cannot grow |
| shell (`hw4/src`) | current and old directory, `pid`, saved descriptors, children | command loop, built-ins, `executor`, redirections, pipes, two signal handlers | fork/exec/SIGCHLD order, `sigsuspend`, descriptors that must be restored |
| UTF converter (`hw2/src`) | the program state of the arguments; glyph buffers | `parse_args`, `check_bom`, seven conversions between UTF-8, UTF-16LE and UTF-16BE | surrogate boundaries, byte order, truncated input, stale buffers |
| ciphers (`hw1/src`) | the Polybius table, the Morse key, a bit field of arguments | `validargs`, `encrypt`, `decrypt`, `encrypt2`, `decrypt2` | boundary values, blocks of three dots and dashes across letters |
| hello (`hw0/src`) | none | prints | nothing to model |

How they interact: only the parts of `hw5` do. `run` creates the queue, the map
and the workers, then accepts connections and calls `enqueue` with the address of
its local `connfd`. A worker calls `dequeue`, loads the descriptor through that
address, reads the request from the connection, calls the map, writes the answer
and closes the descriptor. The map calls back `destroy_function`, which frees the
key and value buffers the worker allocated. `hw5` is also where threads, sockets
and locks meet, so it came first.

What makes each component correct:

- *map*: the lock protocol (mutual exclusion, no lock left behind, every call
  returns), the table (size, probe chains), the buffers (never freed under a live
  slot, never owned twice) and the results of the calls.
- *queue*: first in first out, every item served once, the semaphore accounts for
  the list, the list stays well linked.
- *server*: every connection served by one worker, answered as a key-value store
  would, and closed.
- *allocator*: blocks tile the heap, free lists hold exactly the free blocks, clients
  keep their blocks and their bytes, valid pointers are accepted and others refused.
- *shell*: every foreground command is waited for and reaped, one shell reads at a
  time, commands run with the files named, descriptors 0 and 1 are restored.
- *converter*: the output is the encoding of the input, as far as it was read.
- *ciphers*: decrypting undoes encrypting; keys and tables are permutations.

The hazards of each are listed, line by line, in `PROJECT.json`.

## 2. Plan

The order was: `ProbeTable`, `HashMap`, `RWLock`; `RequestQueue`, `Fifo`; `Cream`, which
composes the two; then the single programs `Sfmm`, `Shell`, `Utf`, `Ciphers`; then the proofs, in the
same order, until every invariant and action property of the passing runs was the subject of a theorem. All of it is
done; liveness stays with TLC (section 5).

## 3. Modules

| Module | Models | Role |
|---|---|---|
| `ProbeTable` | the slots of `map_node_t`, `get_index`, the three scans | operators only |
| `HashMap` | `hashmap.c` | component |
| `RWLock` | nothing: a readers-writers lock | abstract specification |
| `RequestQueue` | `queue.c` | component |
| `Fifo` | nothing: a queue and the hands of its consumers | abstract specification |
| `Cream` | `cream.c`, what `csapp.c` does on errors, the clients | composes the two |
| `Sfmm` | `sfmm.c`, with `sf_sbrk` and the clients | component |
| `Shell` | `main.c`, `builtin.c`, `redirection.c`, `piping.c`, `parser.c` of `hw4` | component |
| `Utf` | `args.c`, `utf.c`, `utf8.c`, `utf16le.c`, `utf16be.c`, `wrappers.c`, `main.c` of `hw2` | component |
| `Ciphers` | `hw1.c`, `polybius.c`, `fractionated.c`, `const.c`, `main.c` of `hw1` | component |
| `HashMapProofs`, `QueueProofs`, `CreamProofs`, `SfmmProofs`, `ShellProofs`, `UtfProofs`, `CiphersProofs` | | theorems |
| `DataInduction` | | lemmas: induction over numbers, for recursive functions |
| `MCHashMap`, `MCRequestQueue`, `MCCream`, `MCSfmm`, `MCShell`, `MCUtf`, `MCCiphers` | | instances for TLC |

### HashMap

State: `nodes`, `size`, `num_readers`, `invalid`, `write_lock` and `fields_lock` are
the fields of `hashmap_t` (a mutex is the thread that holds it, or `Free`, or
`ByReaders` once a reader has locked the writers out for all of them); `pc`, `call`,
`loc` and `ret` are what a thread keeps on its stack. `freed` collects the buffers
given to `free`, `crashed` says the process died of a memory fault.

A call is cut where another thread can get in:

| Code | Actions |
|---|---|
| checks before the lock | `PutCall`, `GetCall`, `DeleteCall`, `ClearCall`, `InvalidateCall` |
| `pthread_mutex_lock(&write_lock)` by a writer | `WriteLock` |
| critical sections | `PutHome`, `PutEvict`, `PutProbe`, `PutFallThrough`, `DeleteBody`, `ClearBody`, `FreeBody` |
| unlock, and what follows it | `WriteUnlock`, `DeleteReturn` |
| `get` | `GetCount`, `GetWriteLock`, `GetOpen`, `GetScan`, `GetLeave`, `GetReadBase`, `GetReadLen` |
| a use of the array after `invalidate_map` freed it | `Fault` |

A critical section is one step: nobody else reads or writes the slots under the lock,
and the racing reads outside it (`DeleteReturn`, `GetReadBase`, `GetReadLen`, the checks) have steps of
their own. The two fields `get` returns are read in either order. A use of the freed
array either finds the old contents or ends the process: both are modelled.

Abstractions: a key is a model value with a hash, a buffer is a record of the call
that handed it over, its key and its length. So "which value is this" can be asked
of every slot and every result. A scan is written as the set of at most one slot it
stops at (`PutStop`, `GetStop`, `DeleteStop`). They keep the code's differences: `get` does not
stop at an empty slot (it compares the address of the field with NULL), `delete` never
finds anything in its second loop (it negates the address of the flag).

### RequestQueue

`mem` is the two words of every node, `allocated` says which nodes are in use. A critical
section that holds the mutex is one step; the test of `invalid`, `calloc`, `sem_post`,
`sem_wait` and the read of `holdFront->item` are steps of their own. `dequeue` frees the node
that has become the head and keeps the removed one. A read of a freed node finds the old
word or what the allocator may have written over it, a free of a pointer that is not
allocated ends the process, and `calloc` may hand a freed node out again while it is linked.
A thread has one role (`ThreadsAssumption`): in the server the main thread enqueues and the workers dequeue.

`Fifo` is the queue `queue.h` promises. The code keeps that promise only until `dequeue` has freed a node that is linked
(`dangling`), which the second removal from a backlog can come upon: `OrderUntilFreed` says the steps are those of `Fifo` until then,
whatever the backlog; `ImplementsFifo`, without that condition, is false (section 7). `NoWakeupLost` has no such condition:
while the queue is valid and the process lives, a waiting dequeue returns for every enqueue, though not always with its item.

### Cream

`Cream` instantiates `RequestQueue` (producer: the main thread; consumers: the workers) and
`HashMap` (threads: the workers; every put forces) over its own copies of their variables,
and adds: `phase`, `request`, `unread`, `got`, `gone` for the connections and their clients; `fds`, the
descriptor table with the lowest free descriptor given out first; `connfd` and `at` for `run`;
`st`, `fd`, `header` and `out` for the locals of `thread`. Each socket call is a step, each
step of a queue or map call is one of the component's own actions.

A read of a connection nobody else reads gets the request; a second reader takes the body
for a header and gets any request; a reader at the end of the stream keeps what was in
`request_header`, also any request, because the result of `Rio_readn` is not looked at. A write
to a client that has hung up is taken by the socket or ends the process. A read, write or
close of a descriptor nobody has open ends the process (`unix_error` calls `exit`).

Abstractions: a request is sent whole; what is written arrives in order; `MAX_KEY_SIZE` and
its kin are the real numbers, sizes of keys and values are representatives on either side.
An answer is its code and the size its header declares; a value read is the `PUT` it came from and the length it was read with.
A `CLEAR` may name a key, which is read and not looked at. `CallOf(c)` is the number of the one map call made for connection `c`,
so the owner of a cached value is a connection; `Stored[c]` is the cache the requests of the first `c`
connections leave, the reference `AnswersAreRight` compares with. It compares code, declared size, value and length, and leaves
open three places where the code does not do what a client expects (section 7): the size `GET` declares, the length of a value that
overwrote another (one of the lengths its key was put with), and a `PUT` whose key is too long, which is refused, then
carried out and acknowledged.

### Sfmm

State: `heap` is the arena as a function from the addresses of 8-byte words to tagged words
(a header or footer with its four bit fields, a link, a byte of the client, zero), the
four list heads, the break and `errno`; `live` is what the client knows of its blocks.
The library calls are functions from heaps to heaps, because `sf_realloc` calls the other two;
the actions are the client's calls.

| Code | Definitions |
|---|---|
| `append`, `relink`, the two traversals | `append`, `relink`, `Traverse`, `AddFree` |
| `find_fit`, `location_in_sfl` | the same names, over `FirstPlace` |
| `sf_malloc` | `sf_malloc`: `WithRoom` (the loop that adds pages, `MorePages`), then `Allocate`, `Carve` |
| `sf_free`, `coalesce(.., 0, ..)` | `Refused`, `Release`, `Merge` |
| `sf_realloc`, `coalesce` with `i` > 0 | `Move` (`MoveTo`, `CopyTo`), `Shrink`, `Keep` |
| a client | `Malloc`, `Free`, `Realloc`, `ReallocZero`, `Write` |

A word is reinterpreted as the code does: a link read from words that hold a client's bytes is
`JUNK`, and following it faults: the clients are taken not to store addresses of the heap. Two slips write into neighbouring
blocks (section 7). The call that does so is carried out, for the cut in front of a block that is not free by `FreeBehind`; `heap.damaged`
says which slip it was ("node" or "cut") and nothing is called after it. `TypeOK` and `FaultsExplained` are about every
heap, `ContentsKept` about every one but those the wrong node was taken from, the others about heaps that are `Whole`.

### Shell

State, for every process: `pc`, `parent`, its descriptor table `fds`, the redirections it has to
undo (`cmd`), its two directories, whether it has installed the handler (`armed`), whether a
SIGCHLD is pending and the mask `sigsuspend` was given. `early` and `starved` are history: a
child that ended before the `sigsuspend`, a descriptor refused.

| Code | Actions |
|---|---|
| `main`'s loop, `parser`, `checker` | `ReadLine`, `parser`, `EndOfInput` |
| `builtin.c` | `handle_builtin`, `Cd`, `Exit` |
| `redirection.c` | `handle_redirection`, `OneBracket`, `TwoBrackets`, `Right`, `Left`, `Both`, `Redirect`, `Restore` |
| `piping.c` | `handle_piping` |
| `executor`: fork, exec, `sigsuspend`, return | `executor`, `Exec`, `Suspend`, `Resume` |
| `sigchld_handler` and the kernel's SIGCHLD | `Deliver`, `End` |
| the programs, and ^C | `Ends`, `Interrupt` |

`sigsuspend`'s mask is an uninitialised variable: any element of `Masks`. A line is a sequence of
words and symbols, which `strtok_r` cuts as the code has it cut.
A blank can only open it (`LinesAssumption`). The tokenizer writes one entry past its array for every ordinary pipe
(`piping.c:19-33`, `builtin.c:161-172`): behind `Overruns` the shell goes on or dies. A SIGCHLD stands for an end: stops and
continues, for which the handler's flags (`builtin.c:204`) would raise one too, are left out with ^Z.
`RedirectionsInEffect` is about lines with each symbol at most once: `strtok_r`
takes the first piece behind the first symbol of its set, which in a line with a symbol twice need not be
the file either symbol names. A file named for output that cannot be opened is not looked at (`redirection.c:94`, `:110`), and
the property says what becomes of the program then: it runs with its output on the terminal.

### Utf

State: `program_state` field by field, the input file and what was read of it, the output file and
what was written, and the buffers, which keep their bytes from one glyph to the next and begin with
whatever the stack held (`Junk`). `ParseArg` is one turn of the loop around `getopt`; the constant `Options` says what `getopt` finds
in a word that begins with a dash: its letter and an argument attached to it (`-eUTF8`), clusters (`-xe`) and `--` included. `check_bom` and `OpenFiles`
follow, and one turn of a conversion is one action (`FromUtf8`, `FromUtf16`, `SwapUtf16`). The
arithmetic on surrogates, glyph sizes and bytes is that of `utf.c` and `utf8.c`, number by number, the bitwise or of
`utf.c:121` (which is no sum when the second unit of a pair is cut off) included. The
reference definition is `Utf8Form` and `Utf16Form`, from the Unicode standard's tables.
The files are made of scalar values (`IsScalar`: surrogates are no code points to encode).

### Ciphers

State: the command line, `mode` (the bit field), `key` and the table, standard input and output, and the
static variables of each loop. `validargs` is one action; a turn of `encrypt`, `decrypt`, `encrypt2`,
`decrypt2` is one action each, with the end of the input apart. `Again` is a user who runs the program on its own
output. The code runs past two arrays whatever its input. `fractionated_table` has no terminator, and `getFTSize` counts on to the
first null word behind it, at every letter written: `FTSizes` are the counts it may come to. With a key, `fillTable2` goes on
behind `fm_key` on every letter the key has: `Behind` are the bytes that may stand there up to a NUL. What is found there mostly changes nothing
(the letter of a triple comes first), and the models show where it does. A read beyond `morse_table`, or of what stands behind
`fractionated_table` for a triple without a letter, ends the run in "undefined", a null pointer in
"crashed", an endless search of `valid_key` or `fillTable2` in "hangs".
The codes of `morse_table` and `fractionated_table` are sequences of one-letter strings: dots, dashes and x.
`Options` is `getopt`'s loop and `WithKey` the loop that builds the table from the key, both as recursive
functions over their turns. Texts are printable characters, blanks and newlines (`TextsAssumption`): what the tables of `hw1` are for.

## 4. Runs

| Run | Question | Instance |
|---|---|---|
| `MapSafety` | types, lock protocol, size, probe chains, buffers | 2 threads, 3 keys, capacity 2, 4 calls, all operations but invalidation, forced and unforced |
| `MapReturns` | the abstract lock, no orphaned lock, every call returns | 3 threads, 2 keys with one home, capacity 2, 3 calls, forced, with invalidation |
| `QueueBacklog` | types, the semaphore, the list, the order until a linked node is freed, no lost wakeup | 2 producers, 2 consumers, 3 items, all outstanding at once, one `invalidate_queue` |
| `CreamSequential` | answers, acknowledged values, liveness | 2 workers, 3 connections one at a time, 11 kinds of request, keys of `MAX_KEY_SIZE` bytes and of one more |
| `CreamImpatient` | the cache under clients that hang up and connections that get lost | 2 workers, 2 connections at a time |
| `SfmmHeap` | tiling, free lists, clients' blocks and bytes, refusals, faults | 2 pages of 128 bytes, 5 calls, sizes 0, 16, 36, 48, 140 and 250 |
| `Shell` | descriptors, readers, children, signals, liveness | 3 processes, 7 descriptors, 23 lines, 3 of them typed, one ^C |
| `Utf` | the conversions, the arguments | 15 boundary code points alone and in pairs, 3 formats, cuts of 0 to 3 bytes, 24 argument lists, 2 values of the stack |
| `Ciphers` | round trips, tables, outcomes, termination | texts of up to 5 characters, 18 command lines, nothing or something behind two tables |
| `MapRacingGet`, `QueueOrder`, `CreamConcurrent` | where code and documentation part | see section 7 |

Bounds and why they are enough.

- *Map*: capacity 2 with three keys, two of one home, has every case of the table: home free, home
  taken, chain, wrap-around, tombstone in front of a key, full table with the same and with another
  key at home. Four calls are needed for the longest of them (two puts to fill, one delete, one
  put); two threads for each race between a writer and a reader, three for a reader that joins while
  a writer waits.
- *Queue*: three items queued at once. Two are enough to have `dequeue` free a node that is linked, the third is
  then lost behind it or handed out from memory in use again, so that the list ends before the semaphore does (`DequeueNothing`). Two
  producers are between link and post at once, two consumers between wait and removal.
- *Server*: three connections for a value that is put, overwritten with another length or cleared, and asked for, and two
  workers for each race on `connfd`; every worker does the same. Keys are as long as allowed, one byte longer, or
  missing (size 0); values have size 0, 1, 2 or (in `CreamImpatient`) one more than allowed.
- *Allocator*: the page is scaled to 128 bytes and the list limits with it, so that two pages hold blocks
  of every list; a request can be zero, exact, padded, larger than a page (140, which two pages have room for) and larger than
  the heap (250).
  Five calls are needed for a list of two nodes that is taken from at its second.
- *Shell*: a shell, a child whose exec failed and that child's child are three processes. Seven
  descriptors run out within three redirections. Each form of line the parser tells apart is there:
  both symbols in both orders, a missing and a read-only file, empty pieces, bars.
- *Converter*: the code points on both sides of every comparison in `utf.c` and `utf8.c`. A second code point shows
  what the buffers carry over, a cut of up to three bytes ends a glyph in each of its places.
- *Ciphers*: codes of every length modulo three, since the buffer of `encrypt2` holds at most two symbols
  from one letter to the next; five characters let two words, a newline and blanks around them meet. Behind the tables there is
  nothing, or one word for `getFTSize` to count and one letter, which some key has and some has not.

`CHECK_DEADLOCK FALSE` is in four configurations: in `MapSafety` unforced puts can leave the write
lock behind and the callers do stop for ever; in `Shell` the last shell exits, or waits for ever; in `Utf`
and `Ciphers` the program ends. All other runs check for deadlock; `Done` is the state in which every
call has returned, or the process has ended.

Fairness.

- `HashMap!FairSpec` asks that a thread inside a call takes its next step when it stays possible: that is
  what a scheduler gives a runnable thread. It asks nothing of a thread that is idle. It is weak
  fairness also for the mutexes; the number of calls is bounded, so a waiting thread cannot be
  overtaken for ever and nothing stronger is needed.
- `RequestQueue!FairSpec` (in `QueueBacklog`) adds that consumers call `dequeue` again, as `thread` does in its `while (1)`, and
  makes no producer enqueue;
  `Cream!FairSpec` has the main thread and the workers run and makes no client connect.
- `Shell`: processes are scheduled (`Step`) and the programs end (`Ends`); nobody has to type.
- `Ciphers`: the program runs; that its user decrypts (`Again`) is left open.
- `Utf`, `Sfmm`: none.

Every property has a mutant of the code under which the same run fails; the mutants
are the operators whose comment begins with "Faulty variant" and are listed in
`PROJECT.json`.

## 5. Proofs

The theorems hold for every value of the constants that satisfies the named `ASSUME`s of the modules (the
capacity is positive, the hash a natural number, the marker values are distinct, the set of threads is finite, and the
like).

**`HashMapProofs`**: every number of threads, capacity, hash function, set of keys and mix of calls.

- `TypesHold` and `TypeCorrect`: `TypeOK`. `TypeOK` is not inductive: `size <= capacity` needs
  `SizeCountsLive`, and `num_readers <= |Threads|` needs `LockProtocol`. `TypesHold` proves the types
  without the two bounds, from an invariant that also ties a call's arguments to the thread's
  label; `TypeCorrect` adds the bounds at the end.
- `Exclusion`: `LockProtocol`, which is inductive given the types: one lemma each for beginning a call,
  the writers' steps and the readers' steps.
- `RWRefinement`: `HashMap` implements `RWLock` under the mapping readers inside = threads between
  `GetOpen` and `GetLeave`, writer = the thread `write_lock` belongs to. Each step is matched by
  a step of the lock or a stutter; a writer starts only when `Inside` is empty, by `LockProtocol`.
- `SizeCorrect`: `SizeCountsLive`, from cardinality lemmas about filling a vacant slot and setting a
  tombstone.
- `ForcedPutUnlocks`: if every put forces, `NoOrphanLock` holds: when a forced put gets to its
  probe, the map is not full, so by `SizeCountsLive` there is a vacant slot and `PutStop` is not empty.
  Without the assumption the theorem is false (section 7).

What the table holds rests on `TableStep`: a step does one of five things to the table, fill a vacant
slot, evict the entry at home, overwrite a value, set one tombstone, or clear everything.

- `ChainsStayWhole`: `ProbeChains` is inductive given the types. No step empties a slot, so what a probe reaches it
  goes on reaching (`StaysReached`), and a put stores only where its probe got to.
- `BuffersStayOwned`: `OwnedBuffers` needs `FreshInv`: a put that has not stored yet has a call number that no
  buffer in the table or among the freed ones has, and no other such put.

**`DataInduction`**: what a recursively defined function yields, for arguments of any size. A predicate on numbers is given as the
set of the numbers that have it, so that no theorem needs an operator for a parameter: `LeastNumber` (a set of naturals that is
not empty has a least element, from well-foundedness), `Induct` and `InductTo`; and `IterationExists` and `UnrollingExists`,
by which a recursive function whose turns stay in a set exists and has the values its equation says. Each
module below that speaks about a list, a heap, a line, a file or a key uses them.

**`QueueProofs`**: any number of threads and items.

- `TypeCorrect`. Not inductive, because nodes are freed while they are linked: `MemoryInv` says that every link followed is
  NULL or leads to a node that has been filled, `CallInv` what each thread holds at its label, `CountInv` the counters and
  the items; they are inductive together.
- `SemaphoreCountsList` and `ListStaysSound`: both properties speak of the list as walked from `front`. `Shape(n)` says the
  walk has `n` nodes, all different, ends at `rear`, and stays in allocated memory; an enqueue appends to such a walk, a
  dequeue takes its first node (one node, or the list has several and the wrong one is freed, which sets `dangling`).
  `Counted` ties its length to the semaphore and to the threads between link and post and between wait and removal.
- `FifoUntilFreed`: `OrderUntilFreed`, with any number of items queued. From `Shape` follows what the abstract queue is before
  and after each step: an enqueue that links a node appends its item, a removal from a list of one or of several takes its first, and
  every other step, a free of the node that stays at the head included, leaves queue and hands alone up to that step. That the code
  implements `Fifo` without the condition is false (section 7: `queue.c:98`).

**`CreamProofs`**: any number of workers, connections, keys, slots and requests.

- `ValuesStayWithinLimits`: whatever arrives where a header is expected. The invariant carries the header's test from the
  worker's local to the put it leads to, and from the put's arguments to the slot it writes, through the map's own actions.
- `AnswersStayRight` and `CachedStayAcknowledged`, from the inductive invariant `OneByOne`. `Turn(c)` says that connection `c` is the
  one being served and where: waiting, accepted and on its way through the queue, or with one worker at one of its states
  (`AtHeader`, ..., `AtClose`) while every other worker waits in `dequeue`; that inside the map call the table is that before or that
  after the request; and that everyone before `c` was answered right. `Table(S)` relates the slots to a
  reference cache `S`: each key is live in its home or nowhere, with the value of the connection `S` names. The steps of the
  recursive `Stored` are proved first. TLC checked `OneByOne` on the instance of `CreamSequential` before the proof.
  The hypothesis `OneAtATime` says that one connection is open at a time, that clients wait for their answer, and that keys
  have homes of their own. Each part is needed, because of what section 7 lists: with two connections open
  workers share `connfd`; with a common home a key can be stored twice, and a get after wrap-around reads a wrong slot.
  Keys and values may have any size: what is stored for a `PUT` with a key too long is part of `Stored`, and the length of a value is one of
  the lengths its key was put with (`SizesOf`), the last one if it overwrote nothing.

**`SfmmProofs`**: any number and size of pages, any lists, any sizes asked for, any number of calls. The inductive invariant
is `HeapInv`: as long as no call has written into its neighbours, there are block addresses `S` with sizes `z` such that the blocks tile
the heap up to the break (`Tiles`), headers and footers say so (`Tagged`), each list is a path that ends in NULL or in
a client's bytes, with `prev` in agreement (`Linked`), its nodes are the free blocks, each once, in the list of its size (`Listed`), and the
allocated blocks are the clients', with their bytes (`Held`). The heap's recursive walks are proved to find exactly `S`; each library
operation (`AddFree`, `relink`, `Traverse`, `find_fit`, `Carve`, `MorePages`, `Merge`, the four endings of `sf_realloc`) has a lemma that
takes an `S` and `z` to those after it.

- `HeapTypeCorrect`, `HeapStaysTiled`, `FreeListsStayExact`, `LiveBlocksStayHeld`, `ContentsStayKept` and `RefusalsStayRight`: the invariants of
  the run. `ContentsStayKept` covers the call that cuts a block in front of one that is not free: what it does to the heap is followed to
  its end, and one word of one block may be lost. `RefusalsStayRight` says when `sf_free` refuses a block, never more than its padding
  flags give reason for, and that only a block resized can have such flags.
- `FaultsAreExplained`: the action property. A step that faults was out of pages or followed a link into a client's bytes.

**`ShellProofs`**: any number of processes, lines and interrupts. Every step is one of three kinds as far as processes are
concerned: nothing changes, a fork, or an end of some processes. Beside the types the
invariant has three parts: `Awaited` (a pending signal stands for a child that has ended), `Waits` (a shell that waits has its
handler, and a child to wait for unless it missed it) and `Chain` (until an interrupt, one process is active and
every other one waits for its only child).

- `HandlerFindsItsChild`, `OneShellReads`, `PromptHasReaped`, `HangsAreTheRace` from it.
- `ShellTypeCorrect`, `StdioStaysRestored` and `RedirectionsTakeEffect` are about descriptors. What is carried along, for each process, is what
  `Restore` would make of its table (`Undoable`, `Good`): the copies it saved still lead back to the terminal, whichever way round, unless
  it was refused a descriptor. `OneBracket`, `TwoBrackets`, `Right`, `Left` and `Both` are followed call by call, on lemmas about
  where `strtok` finds its first symbol in a line.

**`UtfProofs`**: all code points, files of any length, any arguments, any cut, any initial bytes of the buffers.

- `Utf8IsTheForm`, `Utf8RoundTrip`, case by case over the sizes; `Utf16LosesTheEdges`: the decoder reads back what the encoder
  wrote exactly for the code points outside the two ranges.
- `CrashNeedsNoFormat`, from the arguments alone; `ConverterTypeCorrect`, from `Types`, which knows in each phase which files are open, how far
  they are read and what the buffers hold.
- `ConversionStaysRight` and `OutputStaysBehindInput`, from `Converter`: the input is a file of code points or a prefix of one (`Known`), `check_bom`
  names its format and its mark (`Found`), and between two turns the input read is the encoding of the first `n` code
  points and the output theirs, or the output is the input unit by unit in the other order (`Midway`). The encoding of a file is a recursive
  function; its lengths and places are proved by `InductTo`.

**`CiphersProofs`**: any command lines, keys and texts. `Options` and `WithKey` are unrolled turn by turn.

- `TablesArePermutations`: the table `WithKey` makes from a key `valid_key` accepts holds each character of its alphabet once and no
  other, for both ciphers.
- `MessagesReadBack` and `OutcomesAreOwn`: `ReadsBack` and `OutcomeIsOwn`, from three invariants, whatever stands behind the tables.
  `HangInv` says a run that hangs has a key of one of the two kinds that make it (`OptionHangs`, `OptionsHang`). `SquareInv` speaks of the
  Polybius square: the program runs with the square it chose (`Machine`), and what it has written is the
  addresses of what it has read, with blanks and newlines in their places, or what it has decrypted is
  the start of the text (`Message`). `MorseInv` speaks of fractionated Morse. Neither property is inductive, since between two
  turns `encrypt2` holds up to two symbols that no letter stands for yet: `Line` says what `decrypt2` will
  have made of the letters written so far and what those symbols will add to it. It has three cases:
  before the first letter of a line (`Before`), behind a letter (`Within`) and behind a blank (`After`), where a
  space is kept if another letter follows on the line (`Kept`). `LineLetter`, `LineBlank`, `LineNewLine` and `LineEnd` take
  it over one character each; under them are lemmas on one code through both loops, wherever its
  marks begin in a letter of three (`LetterCoded`), for which `morse_table` need only be known to give
  each character a code of its own, of up to six marks.
- `AddressReadsBack`: row and column written as digits are read back to the same place, by the arithmetic of quotient and remainder.

Only model-checked:

- all liveness (fairness and `ENABLED` are beyond the prover): `EveryCallReturns`, `NoWakeupLost`,
  `EveryClientAnswered`, `ProgramsReturn`, `Ends`;
- `GetReturnsValueOfKey`, `ImplementsFifo` and `WorkerServesWhatItDequeued`, which are false (section 7). What several open connections do
  to the answers is in `CreamImpatient` and `CreamConcurrent` only.

## 6. Not modelled

- `hw0`, the extra credit stubs and the library `csapp.c` have no logic of this project; the test programs are scratch.
- `hw5`: the arithmetic of `jenkins_one_at_a_time_hash` (the models quantify over hash functions), failing
  `calloc`, `pthread_create` and `Open_listenfd`, the parsing of arguments, NULL arguments, and
  reordering by the compiler beyond the two reads of `get`. `get_index` is taken to be the remainder:
  the conversion to `int` loses nothing for capacities below 2^31.
- `hw3`: `sf_sbrk` and `sf_mem_init` are in an object file without source; they are modelled from their use. The
  snapshot functions are left out. A write into a neighbouring block is modelled, what later calls make of such a heap is not. Clients are taken not to store
  addresses of the heap in their blocks, so bytes taken for links lead nowhere.
- `hw4`: the color variable, the text commands and the prompt print, ^Z (its handler is not installed,
  so it stops the whole group as the system does), stopped and continued programs with the SIGCHLD they raise (the handler has no
  `SA_NOCLDSTOP`), an unset `HOME`, and a shell that reads from a file.
- `hw2`: messages, `-h`'s text, and failures of `open`, `read` and `write` other than a missing file. Code points in the
  input are scalar values; what ill-formed input becomes is not asked, except where the file is cut off.
- `hw1`: the help text, and the 257 places of `polybius_table` when a line of Morse is decrypted from a ciphertext longer
  than that.

## 7. Where code and documentation part

With a run each:

| Run | Property | Code | Says |
|---|---|---|---|
| `MapRacingGet` | `GetReturnsValueOfKey` | `get` reads the slot after unlocking; after wrap-around it also reads the wrong slot | `hashmap.h:77` |
| `QueueOrder` | `ImplementsFifo` | with two items queued, `dequeue` frees the node that stays at the head (`queue.c:98`) | `queue.h:47`, `:56` |
| `CreamConcurrent` | `WorkerServesWhatItDequeued` | every item is the address of the same variable | `cream.c:50` |

In the models, without a run of their own. The properties are stated so that they hold of the code as it is, and
name these cases as their exceptions.

`hw5`:

- `put` fills a tombstone without looking for the key behind it, so a key can be stored twice (`hashmap.c:50`,
  `hashmap.h:59`), and keeps the old length when it replaces a value (`hashmap.c:83`).
- The last `return false` of `put` leaves `write_lock` held (`hashmap.c:108`); only unforced puts get there.
- A put between the two critical sections of `invalidate_map` is stored and its array freed under it
  (`hashmap.c:248`, `hashmap.h:100`).
- `delete` misses keys beyond the wrap-around (`hashmap.c:214`), reads the slot after the unlock and returns the slot number
  for lengths (`hashmap.c:204`).
- `dequeue` waits on an empty queue where `queue.h:60` promises NULL; an item can be linked after `invalidate_queue` (`queue.c:62`).
- A `PUT` with a bad key size is refused and then, if the key is not empty, carried out and acknowledged (`cream.c:76-94`); `GET` declares the size of the response
  header for that of the value (`cream.c:123`); a write to a client that hung up ends the server although SIGPIPE
  is ignored (`cream.c:16`, `csapp.c:801`).

`hw3` (`sfmm.c`):

- Both traversals take the head's `next`, however far they are to go (113, 187): at the third node of a list they
  take the wrong block.
- A shrink by 32 bytes or more whose next block is not free marks that next block free and lists it (407-414, 537-545).
- A block freed into an empty list keeps its client's bytes as its links, which a later call follows.
- The padding flag follows the request in the header but not in the footer on three paths of `sf_realloc` (372-375, 386-388,
  394-396), after which `sf_free` aborts on a valid pointer (`RefusalsAreRight` excepts the blocks resized).
- `sf_sbrk`'s failure is not looked at (59), nor that of `sf_malloc` in `sf_realloc` (366): where `sfmm.h:126` and `:139` promise
  ENOMEM and NULL, the process faults. `sf_realloc` aborts where `sfmm.h:140` has it set EINVAL; `RefusalsAreRight` is about `sf_free`
  only.
- `sf_free` merges only with the block behind.

`hw4`:

- A child that ends before `sigsuspend` leaves its shell waiting (`builtin.c:217`), and the mask given is not initialised.
- A child whose `execvp` fails returns to the command loop (`builtin.c:211`): it is a shell of its own, and `exit` ends
  only it.
- With both symbols the saved descriptors are crossed (`redirection.c:204`), so 0 and 1 change places with every such
  line; the copies are never closed.
- The result of `open` is not looked at for an output file: a program whose file cannot be written writes to the terminal
  (`redirection.c:94`, `:110`).
- Pipes are parsed and not run, and the tokenizer writes past its array for them (`piping.c:19-33`); a line with a bar and a bracket ends the shell (`parser.c`); the copies of a line's pieces
  are read from entries nobody set if bars stand side by side (`piping.c:80`); a line of nothing but brackets dereferences NULL.
- ^D is ignored.

`hw2`:

- U+10000 to U+103FF and U+10FC00 to U+10FFFF come out wrong from UTF-16 to UTF-8, because the ends of the surrogate ranges
  are left out (`utf.c:104`, `:110`).
- Between the UTF-16 formats the test looks at the unit left from an earlier glyph (`utf16le.c:23`, `utf16be.c:24`). What is written
  is right all the same, unit by unit, if the stack's first bytes are no surrogate.
- A copy (same format) has no BOM, though `utf.h:177` says it will; `ConversionIsRight` leaves open whether it has. The output file is not truncated. Input that is cut off
  inside a glyph is completed from old bytes.
- Without `-e` a null function is called (`main.c:26`), and a UTF-16 file of only a BOM is refused.

`hw1`:

- A key with the character that follows the alphabet never ends `valid_key` (`hw1.c:76`); `-k` without argument reads NULL.
- `-r` and `-c` take 9 to 15, where `const.h:48` says 10 to 16.
- A character without a code ends the program with a failure, where `const.c:4` says it should be preserved; `OutcomeIsOwn` leaves open
  what becomes of it.
- `fractionated_table` ends without a null pointer, and `getFTSize` counts on behind it at every letter (`fractionated.c:156`, `:183-189`).
  `fillTable2` sets `k` to 27 on a letter of the key and goes on with `fm_key[27]` (`:34-37`): as long as no NUL comes, the same letter
  sets it back, and the loop never ends.
- `morse_table` has 90 entries and is indexed with four characters more (`{`, `|`, `}`, `~`); a text that ends in a blank can make
  `printCorres` look for `xxx` behind `fractionated_table`.
- A message of newlines decrypts with a `#` at its end.
