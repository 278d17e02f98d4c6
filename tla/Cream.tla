------------------------------- MODULE Cream -------------------------------
(***************************************************************************)
(* hw5/src/cream.c: the CREAM cache server.  The main thread accepts       *)
(* connections and enqueues the address of its local connfd; every worker  *)
(* dequeues that address, loads the descriptor from it, serves the one     *)
(* request of the connection and closes it.  The module composes           *)
(* RequestQueue and HashMap with the server and with its clients.          *)
(*                                                                         *)
(* A failing read, write or close ends the process: the wrappers of        *)
(* csapp.c call exit.  So does a bad pointer.  Both are "crashed".         *)
(***************************************************************************)
EXTENDS Naturals, Sequences, FiniteSets

CONSTANTS
    Acceptor,    \* the main thread
    Workers,     \* the worker threads
    Requests,    \* the requests clients make: [op, key, vsize]
    Keys,        \* the byte strings used as keys
    KeySize,     \* their lengths
    Capacity,    \* the capacity of the hash map
    Hash,        \* jenkins_one_at_a_time_hash on Keys
    MaxItems,    \* bound: connections made altogether
    Concurrent,  \* environment: connections open at the same time, at most
    Impatient,   \* environment: clients may hang up before they are answered
    NULL, Junk,             \* as in RequestQueue
    Free, ByReaders, InTable \* as in HashMap

MIN_KEY_SIZE == 1
MAX_KEY_SIZE == 2048
MIN_VALUE_SIZE == 1
MAX_VALUE_SIZE == 4096

Conns == 1 .. MaxItems    \* in the order the clients connect
Descriptors == 1 .. MaxItems

ASSUME RequestsAssumption ==
    /\ KeySize \in [Keys -> Nat \ {0}]
    /\ Requests \subseteq [op : {"PUT", "GET", "EVICT", "CLEAR", "other"},
                           key : Keys \union {NULL}, vsize : Nat]
    /\ Impatient \in BOOLEAN /\ Concurrent \in Nat /\ NULL \notin Keys \union Conns

ASSUME ServerAssumption ==
    /\ Acceptor \notin Workers
    /\ MaxItems \in Nat
    /\ Capacity \in Nat \ {0} /\ Hash \in [Keys -> Nat]

VARIABLES
    phase,    \* each connection: "none", "pending", "accepted", "closed"
    request,  \* what its client sent
    unread,   \* the part of it still in the socket: "all", "body", "none"
    got,      \* what its client was sent
    gone,     \* the connections whose client has hung up
    fds,      \* the descriptor table: the connection of each descriptor
    connfd,   \* run's local connfd
    at,       \* where the main thread is
    st,       \* where each worker is
    fd,       \* each worker's local connfd
    header,   \* each worker's request_header, with the key it reads after it
    out,      \* each worker's response_header
    crashed,  \* the process has ended
    mem, allocated, front, rear, items, q_invalid, q_pc, arg, node, result,
    enqueued, accepted, returned, destroyed, dangling,
    nodes, size, num_readers, map_invalid, write_lock, fields_lock, freed,
    calls, map_pc, call, loc, ret

Q == INSTANCE RequestQueue WITH
        Producers <- {Acceptor}, Consumers <- Workers, Closers <- {},
        Outstanding <- MaxItems, invalid <- q_invalid, pc <- q_pc

H == INSTANCE HashMap WITH
        Threads <- Workers, Lens <- {r.vsize : r \in Requests} \ {0},
        ForceArgs <- {TRUE}, Ops <- {"put", "get", "delete", "clear"},
        MaxCalls <- MaxItems, invalid <- map_invalid, pc <- map_pc

ASSUME NullAssumption == NULL \notin H!Buffers

clientvars == <<phase, request, unread, got, gone>>
mainvars == <<connfd, at>>
workervars == <<st, fd, header, out>>
servervars == <<clientvars, fds, mainvars, workervars>>
queuevars == <<mem, allocated, front, rear, items, q_invalid, q_pc, arg, node, result,
               enqueued, accepted, returned, destroyed, dangling>>
mapvars == <<nodes, size, num_readers, map_invalid, write_lock, fields_lock, freed,
             calls, map_pc, call, loc, ret>>
vars == <<servervars, crashed, queuevars, mapvars>>

NoRequest == [op |-> "other", key |-> NULL, vsize |-> 0]
Response(code, n) == [code |-> code, size |-> n, value |-> NULL]

\* main and the start of run: the queue, the map and the workers are there.
Init ==
    /\ Q!Init /\ H!Init
    /\ phase = [c \in Conns |-> "none"]
    /\ request = [c \in Conns |-> NoRequest]
    /\ unread = [c \in Conns |-> "none"]
    /\ got = [c \in Conns |-> <<>>]
    /\ gone = {}
    /\ fds = [f \in Descriptors |-> NULL]
    /\ connfd = NULL
    /\ at = "accept"
    /\ st = [w \in Workers |-> "dequeue"]
    /\ fd = [w \in Workers |-> NULL]
    /\ header = [w \in Workers |-> NoRequest]
    /\ out = [w \in Workers |-> Response("OK", 0)]

(***************************************************************************)
(* The clients.                                                            *)
(***************************************************************************)
Open == {c \in Conns : phase[c] \in {"pending", "accepted"}}

\* A client connects and sends its request, or hangs up later without sending.
Connect(c) ==
    /\ phase[c] = "none"
    /\ \A d \in 1 .. c - 1 : phase[d] # "none"
    /\ Cardinality(Open) < Concurrent
    /\ phase' = [phase EXCEPT ![c] = "pending"]
    /\ \E r \in Requests : request' = [request EXCEPT ![c] = r]
    /\ \E u \in IF Impatient THEN {"all", "none"} ELSE {"all"} : unread' = [unread EXCEPT ![c] = u]
    /\ UNCHANGED <<got, gone, fds, mainvars, workervars, crashed, queuevars, mapvars>>

HangUp(c) ==
    /\ Impatient
    /\ c \in Open \ gone
    /\ gone' = gone \union {c}
    /\ UNCHANGED <<phase, request, unread, got, fds, mainvars, workervars, crashed, queuevars, mapvars>>

(***************************************************************************)
(* The main thread.                                                        *)
(***************************************************************************)
\* accept takes the oldest pending connection and the lowest free descriptor,
\* and overwrites connfd.
Accept ==
    /\ ~crashed /\ at = "accept"
    /\ \E c \in Conns, f \in Descriptors :
         /\ phase[c] = "pending" /\ \A d \in 1 .. c - 1 : phase[d] # "pending"
         /\ fds[f] = NULL /\ \A g \in 1 .. f - 1 : fds[g] # NULL
         /\ phase' = [phase EXCEPT ![c] = "accepted"]
         /\ fds' = [fds EXCEPT ![f] = c]
         /\ connfd' = f
    /\ at' = "enqueue"
    /\ UNCHANGED <<request, unread, got, gone, workervars, crashed, queuevars, mapvars>>

\* The item enqueued is always the same, &connfd.
Enqueue ==
    /\ at = "enqueue"
    /\ \/ /\ Q!EnqueueCall(Acceptor) \/ Q!EnqueueAlloc(Acceptor) \/ Q!EnqueueLink(Acceptor)
          /\ UNCHANGED at
       \/ Q!EnqueuePost(Acceptor) /\ at' = "accept"
    /\ UNCHANGED <<clientvars, fds, connfd, workervars, mapvars>>

(***************************************************************************)
(* The workers.                                                            *)
(***************************************************************************)
At(w, label) == ~crashed /\ st[w] = label
Go(w, label) == st' = [st EXCEPT ![w] = label]

Dequeue(w) ==
    /\ At(w, "dequeue")
    /\ \/ (Q!DequeueCall(w) \/ Q!SemWait(w) \/ Q!DequeueRemove(w)) /\ UNCHANGED st
       \/ (Q!DequeueNothing(w) \/ Q!DequeueReturn(w)) /\ Go(w, "load")
    /\ UNCHANGED <<clientvars, fds, mainvars, fd, header, out, mapvars>>

\* The worker reads the main thread's local, which may hold a later connection's
\* descriptor by now.
LoadFd(w) ==
    /\ At(w, "load")
    /\ crashed' = (result[w] \in {NULL, Junk})
    /\ fd' = [fd EXCEPT ![w] = connfd]
    /\ Go(w, "header")
    /\ UNCHANGED <<clientvars, fds, mainvars, header, out, queuevars, mapvars>>

\* The connection a worker's descriptor names, if any.
Peer(w) == fds[fd[w]]

\* A read, write or close of a descriptor nobody has open: the wrappers exit.
BadDescriptor(w) ==
    /\ ~crashed /\ st[w] \in {"header", "badkey", "body", "answer", "value", "close"}
    /\ Peer(w) = NULL
    /\ crashed' = TRUE
    /\ UNCHANGED <<servervars, queuevars, mapvars>>

\* Faulty variant of BadValue: no upper limit.
BadValueNoMaximum(h) == ~(h.vsize >= MIN_VALUE_SIZE)

BadKey(h) == h.key = NULL \/ ~(KeySize[h.key] \in MIN_KEY_SIZE .. MAX_KEY_SIZE)
BadValue(h) == ~(h.vsize \in MIN_VALUE_SIZE .. MAX_VALUE_SIZE)

\* The requests whose header settles the answer, with no call of the map: for
\* PUT only the size of the value does.
Settled(h) ==
    \/ h.op = "PUT" /\ BadValue(h)
    \/ h.op \in {"GET", "EVICT"} /\ BadKey(h)
    \/ h.op = "other"

SettledAnswer(h) ==
    CASE h.op \in {"PUT", "GET"} -> Response("BAD_REQUEST", 0)
      [] h.op = "EVICT" -> Response("OK", 0)
      [] OTHER -> Response("UNSUPPORTED", 0)

HasBody(h) == h.op \in {"PUT", "GET", "EVICT"}

\* Faulty variant of AfterKey: CLEAR, which has no body, waits for one.
AfterKeyReadsBody(h) == IF Settled(h) THEN "answer" ELSE "body"

AfterKey(h) == IF Settled(h) THEN "answer" ELSE IF HasBody(h) THEN "body" ELSE "map"
AfterHeader(h) == IF h.op = "PUT" /\ BadKey(h) THEN "badkey" ELSE AfterKey(h)

\* Nobody looks at how much Rio_readn read.  A second reader of a connection takes
\* the body for a header, and at the end of the stream request_header keeps what
\* was on the stack: any request.
ReadHeader(w) ==
    /\ At(w, "header")
    /\ Peer(w) # NULL
    /\ \E h \in Requests :
         /\ \/ unread[Peer(w)] = "all" /\ h = request[Peer(w)]
            \/ unread[Peer(w)] = "body"
            \/ unread[Peer(w)] = "none" /\ Peer(w) \in gone
         /\ header' = [header EXCEPT ![w] = h]
         /\ out' = [out EXCEPT ![w] = IF Settled(h) THEN SettledAnswer(h) ELSE @]
         /\ Go(w, AfterHeader(h))
         /\ unread' = [unread EXCEPT ![Peer(w)] = IF @ = "all" /\ HasBody(h) THEN "body" ELSE "none"]
    /\ UNCHANGED <<phase, request, got, gone, fds, mainvars, fd, crashed, queuevars, mapvars>>

\* A write succeeds, or the client is gone: then it may be taken by the socket, or
\* fail, and the process exits although SIGPIPE is ignored.
Send(w, m) ==
    /\ Peer(w) # NULL
    /\ \/ /\ Peer(w) \notin gone
          /\ got' = [got EXCEPT ![Peer(w)] = Append(@, m)]
          /\ UNCHANGED crashed
       \/ /\ Peer(w) \in gone
          /\ crashed' \in BOOLEAN
          /\ UNCHANGED got
    /\ UNCHANGED <<phase, request, unread, gone, fds, mainvars, fd, header, out, queuevars, mapvars>>

\* PUT with a bad key size: refused, and then carried on with.
RefuseKey(w) ==
    /\ At(w, "badkey")
    /\ Send(w, Response("BAD_REQUEST", 0))
    /\ Go(w, AfterKey(header[w]))

\* The key, and for PUT the value.
ReadBody(w) ==
    /\ At(w, "body")
    /\ Peer(w) # NULL
    /\ unread[Peer(w)] # "none" \/ Peer(w) \in gone
    /\ unread' = [unread EXCEPT ![Peer(w)] = "none"]
    /\ Go(w, "map")
    /\ UNCHANGED <<phase, request, got, gone, fds, mainvars, fd, header, out, crashed, queuevars, mapvars>>

\* put, get, delete or clear_map is called with what was read.
CallMap(w) ==
    LET h == header[w] IN
    /\ At(w, "map")
    /\ \/ h.op = "PUT" /\ h.key # NULL /\ H!PutCall(w) /\ call'[w].len = h.vsize
       \/ h.op = "GET" /\ H!GetCall(w)
       \/ h.op = "EVICT" /\ H!DeleteCall(w)
       \/ h.op = "CLEAR" /\ H!ClearCall(w)
    /\ h.op = "CLEAR" \/ call'[w].key = h.key
    /\ Go(w, "call")
    /\ UNCHANGED <<clientvars, fds, mainvars, fd, header, out, queuevars>>

\* put refuses a key of length 0 at once.
PutEmptyKey(w) ==
    /\ At(w, "map")
    /\ header[w].op = "PUT" /\ header[w].key = NULL
    /\ out' = [out EXCEPT ![w] = Response("BAD_REQUEST", 0)]
    /\ Go(w, "answer")
    /\ UNCHANGED <<clientvars, fds, mainvars, fd, header, crashed, queuevars, mapvars>>

\* Faulty variant of Answer: the result of put is ignored the wrong way round.
AnswerInverted(h, r) ==
    CASE h.op = "PUT" -> IF r.ok THEN Response("BAD_REQUEST", 0) ELSE Response("OK", h.vsize)
      [] h.op = "GET" -> IF r.base # NULL THEN Response("OK", 8) ELSE Response("NOT_FOUND", 0)
      [] h.op = "EVICT" -> Response("OK", 0)
      [] h.op = "CLEAR" -> IF r.ok THEN Response("OK", 0) ELSE Response("BAD_REQUEST", 0)

\* The size GET declares is that of the response header, 8 bytes.
Answer(h, r) ==
    CASE h.op = "PUT" -> IF r.ok THEN Response("OK", h.vsize) ELSE Response("BAD_REQUEST", 0)
      [] h.op = "GET" -> IF r.base # NULL THEN Response("OK", 8) ELSE Response("NOT_FOUND", 0)
      [] h.op = "EVICT" -> Response("OK", 0)
      [] h.op = "CLEAR" -> IF r.ok THEN Response("OK", 0) ELSE Response("BAD_REQUEST", 0)

MapStep(w) ==
    /\ At(w, "call")
    /\ H!Continue(w)
    /\ UNCHANGED <<clientvars, fds, mainvars, workervars, queuevars>>

MapReturn(w) ==
    /\ At(w, "call")
    /\ map_pc[w] = "idle"
    /\ out' = [out EXCEPT ![w] = Answer(header[w], ret[w])]
    /\ Go(w, "answer")
    /\ UNCHANGED <<clientvars, fds, mainvars, fd, header, crashed, queuevars, mapvars>>

SendAnswer(w) ==
    /\ At(w, "answer")
    /\ Send(w, out[w])
    /\ Go(w, IF header[w].op = "GET" /\ out[w].code = "OK" THEN "value" ELSE "close")

SendValue(w) ==
    /\ At(w, "value")
    /\ Send(w, [code |-> "value", size |-> ret[w].len, value |-> ret[w].base])
    /\ Go(w, "close")

CloseFd(w) ==
    /\ At(w, "close")
    /\ Peer(w) # NULL
    /\ phase' = [phase EXCEPT ![Peer(w)] = "closed"]
    /\ fds' = [fds EXCEPT ![fd[w]] = NULL]
    /\ Go(w, "dequeue")
    /\ UNCHANGED <<request, unread, got, gone, mainvars, fd, header, out, crashed, queuevars, mapvars>>

(***************************************************************************)
(* The specification.                                                      *)
(***************************************************************************)
Main == Accept \/ Enqueue

Thread(w) ==
    \/ Dequeue(w) \/ LoadFd(w) \/ ReadHeader(w) \/ RefuseKey(w) \/ ReadBody(w)
    \/ CallMap(w) \/ PutEmptyKey(w) \/ MapStep(w) \/ MapReturn(w)
    \/ SendAnswer(w) \/ SendValue(w) \/ CloseFd(w) \/ BadDescriptor(w)

\* The process has ended, or every client was served and the workers wait.
Done ==
    /\ \/ crashed
       \/ /\ \A c \in Conns : phase[c] = "closed"
          /\ at = "accept" /\ \A w \in Workers : q_pc[w] = "wait"
    /\ UNCHANGED vars

Next ==
    \/ \E c \in Conns : Connect(c) \/ HangUp(c)
    \/ Main
    \/ \E w \in Workers : Thread(w)
    \/ Done

Spec == Init /\ [][Next]_vars

\* The main thread and the workers run; no client has to connect.
FairSpec == Spec /\ WF_vars(Main) /\ \A w \in Workers : WF_vars(Thread(w))

(***************************************************************************)
(* Properties.                                                             *)
(***************************************************************************)
\* The requests that reach the map, and the number HashMap gives the call of
\* connection c when connections are served one after the other.
CallsMap(r) == ~Settled(r) /\ ~(r.op = "PUT" /\ r.key = NULL)
CallOf(c) == Cardinality({d \in 1 .. c : CallsMap(request[d])})

\* The cache the clients see, after the requests of the first c connections: which
\* connection's value each key has.
Stored[c \in 0 .. MaxItems] ==
    IF c = 0 THEN [k \in Keys |-> NULL]
    ELSE LET before == Stored[c - 1]
             r == request[c]
         IN  CASE r.op = "PUT" /\ CallsMap(r) -> [before EXCEPT ![r.key] = c]
               [] r.op = "EVICT" /\ CallsMap(r) -> [before EXCEPT ![r.key] = NULL]
               [] r.op = "CLEAR" -> [k \in Keys |-> NULL]
               [] OTHER -> before

\* The size of the value that the PUT of connection p left.  put leaves the length
\* alone when it overwrites a value (hashmap.c:83), so an overwritten key may have the
\* length of any PUT since it was last absent; the length of a key that was absent is
\* that of p's own value.
SizesOf(p) ==
    LET k == request[p].key
        sizing == {d \in 1 .. p : /\ request[d].op = "PUT" /\ CallsMap(request[d])
                                  /\ request[d].key = k
                                  /\ \A e \in d .. p : Stored[e][k] # NULL}
    IN  {request[d].vsize : d \in sizing}

\* All that the client of c is sent: a header with the size it declares ...
Answered(c, code, n) == got[c] = <<Response(code, n)>>

\* ... or the header and the value of connection p's PUT.  The size this header declares
\* is not claimed to be right: it is that of the header itself, 8 (cream.c:123).
ValueSent(c, p) ==
    /\ Len(got[c]) = 2
    /\ got[c][1].code = "OK"
    /\ got[c][2].code = "value"
    /\ got[c][2].value.id = CallOf(p) /\ got[c][2].size \in SizesOf(p)

Refusals == {Response("BAD_REQUEST", 0), Response("UNSUPPORTED", 0)}
RefusedOnly(c) == got[c] # <<>> /\ \A i \in DOMAIN got[c] : got[c][i] \in Refusals

\* A PUT whose key is too long is refused and then served all the same (cream.c:76-94);
\* no more is claimed of its answers than the refusal they begin with.
AnswerIsRight(c) ==
    LET r == request[c]
        holder == Stored[c - 1][r.key]
    IN  CASE r.op = "PUT" /\ CallsMap(r) /\ ~BadKey(r) -> Answered(c, "OK", r.vsize)
          [] r.op = "PUT" /\ CallsMap(r) /\ BadKey(r) -> got[c][1] = Response("BAD_REQUEST", 0)
          [] r.op = "GET" /\ CallsMap(r) /\ holder = NULL -> Answered(c, "NOT_FOUND", 0)
          [] r.op = "GET" /\ CallsMap(r) /\ holder # NULL -> ValueSent(c, holder)
          [] r.op \in {"EVICT", "CLEAR"} -> Answered(c, "OK", 0)
          [] OTHER -> RefusedOnly(c)

\* A client that connects after the one before it was served is answered from the
\* cache those before it left: GET returns the value of the last PUT of its key
\* that no EVICT or CLEAR came after, with the length that value was put with unless it
\* overwrote another; whichever workers served them.  A request that cannot be served
\* is refused and never acknowledged, but for EVICT, which is acknowledged even for a
\* key of a size that is refused, and evicts nothing then.
AnswersAreRight == \A c \in Conns : phase[c] = "closed" => AnswerIsRight(c)

\* A value in the cache is the one a client put under that key and is told so: its PUT is
\* still being served, or the last answer was OK.  Only a client whose key is too long
\* was told BAD_REQUEST as well (cream.c:76-94); no other refused PUT leaves anything.
CachedWasAcknowledged ==
    \A i \in H!LiveSlots(nodes) :
        \E c \in Conns :
            /\ request[c].op = "PUT" /\ CallsMap(request[c])
            /\ nodes[i].vbase.id = CallOf(c) /\ nodes[i].kbase.key = request[c].key
            /\ phase[c] = "closed" =>
                 /\ got[c][Len(got[c])] = Response("OK", request[c].vsize)
                 /\ (\E m \in DOMAIN got[c] : got[c][m].code = "BAD_REQUEST") => BadKey(request[c])

\* Whatever arrives where a header is expected, no value beyond the limits of
\* cream.h gets into the cache.
ValuesWithinLimits ==
    \A i \in H!LiveSlots(nodes) : nodes[i].vlen \in MIN_VALUE_SIZE .. MAX_VALUE_SIZE

\* Every connection is accepted, served and closed.
EveryClientAnswered == \A c \in Conns : phase[c] = "pending" ~> phase[c] = "closed"

(***************************************************************************)
(* What cream.c and cream.h say and the code does not do.                  *)
(***************************************************************************)
\* cream.c:50,59: the accepted connection is added to the queue, and the worker
\* that dequeues it serves it.  The n-th item is the n-th connection's.
WorkerServesWhatItDequeued ==
    \A w \in Workers : st[w] = "header" => Peer(w) = result[w]
=============================================================================
