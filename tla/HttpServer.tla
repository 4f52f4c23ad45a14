----------------------------- MODULE HttpServer -----------------------------
(***************************************************************************)
(* The server half of the HTTP provider, crates/http/src/lib.rs: listeners, *)
(* connection slots and the request and writer indexes, under one mutex     *)
(* each, and the calls accept, respond, respond_open, respond_chunk,        *)
(* respond_finish and stop that the worker threads of the host run at once. *)
(*                                                                         *)
(* One action is one critical section, one load or store of a flag, or one  *)
(* blocking read or write.  A call that fails leaves its thread ready.      *)
(* Requests and writers are numbered: a request is opened at most once, so  *)
(* its writer carries its number.  Deadlines, cancellations and write       *)
(* errors may happen whenever the code tests for them.                     *)
(***************************************************************************)
EXTENDS Naturals, Sequences, FiniteSets

CONSTANTS
    Threads,        \* worker threads running http calls
    Acceptors,      \* the threads that call http:accept
    Listeners,      \* listener handles
    Conns,          \* TCP connections clients make
    MaxRequests,    \* bound: requests clients send
    MaxFrames       \* bound: frames written on one connection

ASSUME HttpAssumption ==
    /\ Acceptors \subseteq Threads
    /\ MaxRequests \in Nat
    /\ MaxFrames \in Nat

Requests == 1..MaxRequests

VARIABLES
    listeners,      \* state.listeners
    stopped,        \* listeners whose `stopped` flag is set
    connections,    \* state.connections
    requests,       \* state.requests: ids; origin gives their connection
    writers,        \* state.writers
    origin,         \* the connection each request was read from, in id order
    phase,          \* Phase of each connection: [kind, id]
    shut,           \* connections whose socket was shut down by the provider
    call,           \* what each thread is doing
    dialled,        \* the listener each connection was made to, or NoListener
    backlog,        \* connections made and not yet taken by TcpListener::accept
    unread,         \* whole requests of a connection not yet read
    broken,         \* connections whose unread input ends in a malformed request
    ended,          \* connections whose client has closed its side
    sent,           \* requests clients have sent
    wire            \* frames a client has received, in order

mapVars    == <<connections, requests, writers>>
listenVars == <<listeners, stopped>>
slotVars   == <<origin, phase, shut>>
clientVars == <<dialled, backlog, unread, broken, ended, sent>>
vars == <<listenVars, mapVars, slotVars, call, clientVars, wire>>

NoListener == "no listener"
ASSUME NoListenerAssumption == NoListener \notin Listeners

Idle         == [kind |-> "Idle", id |-> 0]
Pending(r)   == [kind |-> "Pending", id |-> r]
Streaming(w) == [kind |-> "Streaming", id |-> w]

\* What a slot's phase holds in the two indexes.
RequestOf(p) == IF p = Idle THEN {} ELSE {p.id}
WriterOf(p)  == IF p.kind = "Streaming" THEN {p.id} ELSE {}

\* Program points of a call; the thread holds the inner mutex of its
\* connection at the last two.
Points == {"ready", "loop", "scan", "poll", "mark", "index", "drop", "forget",
           "tcp", "read", "admit", "insert", "take", "answer", "openLook",
           "openHead", "openIndex", "chunkLook", "chunkLock", "finishLook",
           "finishLock", "stopFlag", "stopSweep", "stopClose", "stopCollect",
           "stopRequests", "stopWriters", "forgetRequest", "forgetWriter",
           "chunkWrite", "finishWrite"}
Writing == {"chunkWrite", "finishWrite"}

\* A call's locals: its listener, connection and request (or writer), the
\* connections still to be handled and those found closed, the requests and
\* writers collected from slots, and where the call goes on after its drops.
Ready == [at |-> "ready", lst |-> NoListener, conn |-> 0, id |-> 0,
          todo |-> {}, closed |-> {}, requestIds |-> {}, writerIds |-> {},
          then |-> "ready", keep |-> FALSE]

TypeOK ==
    /\ listeners \in SUBSET Listeners /\ stopped \in SUBSET Listeners
    /\ listeners \cap stopped = {}
    /\ connections \in SUBSET Conns /\ shut \in SUBSET Conns
    /\ requests \in SUBSET (1..Len(origin)) /\ writers \in SUBSET (1..Len(origin))
    /\ origin \in Seq(Conns) /\ Len(origin) <= sent /\ sent <= MaxRequests
    /\ phase \in [Conns -> {Idle} \cup {Pending(r) : r \in Requests}
                                  \cup {Streaming(w) : w \in Requests}]
    /\ \A t \in Threads :
        /\ call[t].at \in Points /\ call[t].then \in Points
        /\ call[t].lst \in Listeners \cup {NoListener}
        /\ call[t].todo \cup call[t].closed \subseteq Conns
        /\ call[t].requestIds \cup call[t].writerIds \subseteq Requests
        /\ call[t].keep \in BOOLEAN
    /\ dialled \in [Conns -> Listeners \cup {NoListener}]
    /\ backlog \cup broken \cup ended \in SUBSET Conns
    /\ unread \in [Conns -> Nat]
    /\ \A c \in Conns : Len(wire[c]) <= MaxFrames

Init ==
    /\ listeners = {} /\ stopped = {}
    /\ connections = {} /\ requests = {} /\ writers = {}
    /\ origin = <<>> /\ phase = [c \in Conns |-> Idle] /\ shut = {}
    /\ call = [t \in Threads |-> Ready]
    /\ dialled = [c \in Conns |-> NoListener]
    /\ backlog = {} /\ unread = [c \in Conns |-> 0]
    /\ broken = {} /\ ended = {} /\ sent = 0
    /\ wire = [c \in Conns |-> <<>>]

\* ConnectionSlot::inner is free.
InnerFree(c) == \A t \in Threads : ~(call[t].at \in Writing /\ call[t].conn = c)

At(t, point)   == call[t].at = point
Goto(t, point) == call' = [call EXCEPT ![t].at = point]
Return(t)      == call' = [call EXCEPT ![t] = Ready]
Enter(t, step) == At(t, "ready") /\ call' = [call EXCEPT ![t] = step]

Send(c, kind, r) == wire' = [wire EXCEPT ![c] = Append(@, [kind |-> kind, id |-> r])]

-----------------------------------------------------------------------------
(* listen and accept                                                       *)

\* listen: a bound listener gets a new handle.
Listen(t, l) ==
    /\ At(t, "ready") /\ l \notin listeners \cup stopped
    /\ \A u \in Threads : call[u].lst # l
    /\ listeners' = listeners \cup {l}
    /\ UNCHANGED <<stopped, mapVars, slotVars, call, clientVars, wire>>

\* accept looks its listener up ...
Accept(t, l) ==
    /\ t \in Acceptors /\ l \in listeners
    /\ Enter(t, [Ready EXCEPT !.at = "loop", !.lst = l])
    /\ UNCHANGED <<listenVars, mapVars, slotVars, clientVars, wire>>

\* ... and at the head of its loop tests cancellation and the stopped flag.
AcceptLoop(t) ==
    /\ At(t, "loop")
    /\ \/ Return(t)
       \/ call[t].lst \notin stopped /\ Goto(t, "scan")
    /\ UNCHANGED <<listenVars, mapVars, slotVars, clientVars, wire>>

\* poll_idle_connection collects the idle slots of its listener; a slot whose
\* mutex is taken is passed over.
ScanIdle(t) ==
    /\ At(t, "scan")
    /\ call' = [call EXCEPT ![t].at = "poll", ![t].closed = {},
         ![t].todo = {c \in connections :
            dialled[c] = call[t].lst /\ InnerFree(c) /\ phase[c] = Idle}]
    /\ UNCHANGED <<listenVars, mapVars, slotVars, clientVars, wire>>

\* The request at the head of c's input is read and numbered.
ReadRequest(c) ==
    /\ unread[c] > 0
    /\ unread' = [unread EXCEPT ![c] = @ - 1]
    /\ origin' = Append(origin, c)

\* c is passed over; `gone` says whether it is to be dropped after the loop.
PassOver(t, c, gone) ==
    call' = [call EXCEPT ![t].todo = @ \ {c},
                         ![t].closed = IF gone THEN @ \cup {c} ELSE @]

\* One slot of the loop, with its mutex held: it is no longer idle, or a whole
\* request is read (its Pending phase is set later, under a second lock), or
\* nothing has come, the client is gone, a deadline closes it, or the input
\* is malformed or the socket broken and accept fails.
PollIdle(t, c) ==
    /\ At(t, "poll") /\ c \in call[t].todo /\ InnerFree(c)
    /\ \/ /\ phase[c] # Idle
          /\ PassOver(t, c, FALSE)
          /\ UNCHANGED <<slotVars, unread>>
       \/ /\ phase[c] = Idle /\ ReadRequest(c)
          /\ call' = [call EXCEPT ![t].at = "mark", ![t].conn = c,
                                  ![t].id = Len(origin'), ![t].todo = {}]
          /\ UNCHANGED <<phase, shut>>
       \/ /\ phase[c] = Idle /\ unread[c] = 0 /\ c \notin broken
          /\ \/ c \notin ended \cup shut /\ PassOver(t, c, FALSE) /\ UNCHANGED shut
             \/ c \in ended \cup shut /\ PassOver(t, c, TRUE) /\ UNCHANGED shut
             \/ PassOver(t, c, TRUE) /\ shut' = shut \cup {c}
          /\ UNCHANGED <<origin, phase, unread>>
       \/ /\ phase[c] = Idle /\ unread[c] = 0 /\ c \in broken \cup ended
          /\ Return(t)
          /\ UNCHANGED <<slotVars, unread>>
    /\ UNCHANGED <<listenVars, mapVars, dialled, backlog, broken, ended, sent, wire>>

\* The loop is over: the connections found closed are dropped one by one,
\* then the listener's socket is asked.
PollDone(t) ==
    /\ At(t, "poll") /\ call[t].todo = {}
    /\ call' = [call EXCEPT ![t].at = "drop", ![t].todo = call[t].closed, ![t].then = "tcp"]
    /\ UNCHANGED <<listenVars, mapVars, slotVars, clientVars, wire>>

\* The slot is locked again and its phase set.
MarkNothing(t) ==
    /\ At(t, "mark") /\ InnerFree(call[t].conn)
    /\ Goto(t, "index")
    /\ UNCHANGED <<listenVars, mapVars, slotVars, clientVars, wire>>
MarkPending(t) ==
    LET c == call[t].conn IN
    /\ At(t, "mark") /\ InnerFree(c)
    /\ phase' = [phase EXCEPT ![c] = Pending(call[t].id)]
    /\ Goto(t, "index")
    /\ UNCHANGED <<listenVars, mapVars, origin, shut, clientVars, wire>>

\* requests.insert, and accept returns the request's carrier.
IndexRequest(t) ==
    /\ At(t, "index")
    /\ requests' = requests \cup {call[t].id}
    /\ Return(t)
    /\ UNCHANGED <<listenVars, connections, writers, slotVars, clientVars, wire>>

\* TcpListener::accept takes a connection, or there is none, or it fails.
TcpAccept(t) ==
    /\ At(t, "tcp")
    /\ \/ \E c \in backlog :
            /\ dialled[c] = call[t].lst
            /\ backlog' = backlog \ {c}
            /\ call' = [call EXCEPT ![t].at = "read", ![t].conn = c]
       \/ /\ \A c \in backlog : dialled[c] # call[t].lst
          /\ Goto(t, "loop") \/ Return(t)
          /\ UNCHANGED backlog
    /\ UNCHANGED <<listenVars, mapVars, slotVars, dialled, unread, broken, ended,
                   sent, wire>>

\* read_request on the connection just accepted, which no other thread sees:
\* a whole request, the header deadline, or an error (cancelled, stopped,
\* malformed, closed) that drops the socket.
AdmitRead(t) ==
    LET c == call[t].conn IN
    /\ At(t, "read")
    /\ \/ /\ ReadRequest(c)
          /\ call' = [call EXCEPT ![t].at = "admit", ![t].id = Len(origin')]
          /\ UNCHANGED shut
       \/ /\ unread[c] = 0
          /\ \/ Goto(t, "loop") \/ Return(t)
          /\ shut' = shut \cup {c}
          /\ UNCHANGED <<origin, unread>>
    /\ UNCHANGED <<listenVars, mapVars, phase, dialled, backlog, broken, ended,
                   sent, wire>>

\* admit_connection tests the flag once more ...
AdmitCheck(t) ==
    LET c == call[t].conn IN
    /\ At(t, "admit")
    /\ \/ /\ call[t].lst \in stopped
          /\ Return(t) /\ shut' = shut \cup {c}
       \/ /\ call[t].lst \notin stopped
          /\ Goto(t, "insert") /\ UNCHANGED shut
    /\ UNCHANGED <<listenVars, mapVars, origin, phase, clientVars, wire>>

\* ... and inserts the slot, already pending.
AdmitInsert(t) ==
    LET c == call[t].conn IN
    /\ At(t, "insert")
    /\ connections' = connections \cup {c}
    /\ phase' = [phase EXCEPT ![c] = Pending(call[t].id)]
    /\ Goto(t, "index")
    /\ UNCHANGED <<listenVars, requests, writers, origin, shut, clientVars, wire>>

-----------------------------------------------------------------------------
(* drop_connection, for each connection of call[t].todo                    *)

DropConnection(t) ==
    /\ At(t, "drop")
    /\ \/ \E c \in call[t].todo :
            /\ connections' = connections \ {c}
            /\ call' = [call EXCEPT ![t].todo = @ \ {c}, ![t].conn = c,
                          ![t].at = IF c \in connections THEN "forget" ELSE "drop"]
       \/ /\ call[t].todo = {}
          /\ IF call[t].then = "ready" THEN Return(t) ELSE Goto(t, call[t].then)
          /\ UNCHANGED connections
    /\ UNCHANGED <<listenVars, requests, writers, slotVars, clientVars, wire>>

\* forget_connection_indexes reads the phase under the slot's mutex, then
\* clears the two indexes under theirs.
ForgetRead(t) ==
    LET p == phase[call[t].conn] IN
    /\ At(t, "forget") /\ InnerFree(call[t].conn)
    /\ call' = [call EXCEPT ![t].at = "forgetRequest",
                            ![t].requestIds = RequestOf(p), ![t].writerIds = WriterOf(p)]
    /\ UNCHANGED <<listenVars, mapVars, slotVars, clientVars, wire>>

\* The ids collected are removed from one index.
RemoveRequests(t, from, to) ==
    /\ At(t, from)
    /\ requests' = requests \ call[t].requestIds
    /\ Goto(t, to)
    /\ UNCHANGED <<listenVars, connections, writers, slotVars, clientVars, wire>>

ForgetRequest(t) == RemoveRequests(t, "forgetRequest", "forgetWriter")

ForgetWriter(t) ==
    /\ At(t, "forgetWriter")
    /\ writers' = writers \ call[t].writerIds
    /\ Goto(t, "drop")
    /\ UNCHANGED <<listenVars, connections, requests, slotVars, clientVars, wire>>

-----------------------------------------------------------------------------
(* respond, respond_open, respond_chunk, respond_finish                    *)

\* take_request: whoever removes the id owns the response.
TakeAndKeep(t, r, point) ==
    /\ r \in requests
    /\ Enter(t, [Ready EXCEPT !.at = point, !.id = r, !.conn = origin[r]])
    /\ UNCHANGED <<listenVars, mapVars, slotVars, clientVars, wire>>
TakeRequest(t, r, point) ==
    /\ r \in requests
    /\ requests' = requests \ {r}
    /\ Enter(t, [Ready EXCEPT !.at = point, !.id = r, !.conn = origin[r]])
    /\ UNCHANGED <<listenVars, connections, writers, slotVars, clientVars, wire>>

Respond(t, r)     == TakeRequest(t, r, "take")
RespondOpen(t, r) == TakeRequest(t, r, "openLook")

\* take_connection.
TakeConnection(t) ==
    LET c == call[t].conn IN
    /\ At(t, "take")
    /\ connections' = connections \ {c}
    /\ IF c \in connections THEN Goto(t, "answer") ELSE Return(t)
    /\ UNCHANGED <<listenVars, requests, writers, slotVars, clientVars, wire>>

\* The whole response under the slot's mutex, then the socket is closed
\* whether or not the write went through; a slot that is not pending for this
\* request is dropped unanswered.
Answer(t) ==
    LET c == call[t].conn
        r == call[t].id IN
    /\ At(t, "answer") /\ InnerFree(c)
    /\ shut' = shut \cup {c}
    /\ IF phase[c] = Pending(r)
       THEN /\ phase' = [phase EXCEPT ![c] = Idle]
            /\ \/ c \notin shut /\ Len(wire[c]) < MaxFrames /\ Send(c, "full", r)
               \/ UNCHANGED wire
       ELSE UNCHANGED <<phase, wire>>
    /\ Return(t)
    /\ UNCHANGED <<listenVars, mapVars, origin, clientVars>>

\* connection(): the slot is looked up, without the request that was taken.
LookUp(t, from, to) ==
    /\ At(t, from)
    /\ IF call[t].conn \in connections THEN Goto(t, to) ELSE Return(t)
    /\ UNCHANGED <<listenVars, mapVars, slotVars, clientVars, wire>>

OpenLookUp(t)   == LookUp(t, "openLook", "openHead")
ChunkLookUp(t)  == LookUp(t, "chunkLook", "chunkLock")
FinishLookUp(t) == LookUp(t, "finishLook", "finishLock")

\* The response head under the slot's mutex; a request that is not pending is
\* put back, a failed write drops the connection.
OpenHead(t) ==
    LET c == call[t].conn
        r == call[t].id IN
    /\ At(t, "openHead") /\ InnerFree(c)
    /\ \/ /\ phase[c] # Pending(r)
          /\ requests' = requests \cup {r}
          /\ Return(t)
          /\ UNCHANGED <<phase, shut, wire>>
       \/ /\ phase[c] = Pending(r)
          /\ c \notin shut /\ Len(wire[c]) < MaxFrames
          /\ Send(c, "head", r)
          /\ phase' = [phase EXCEPT ![c] = Streaming(r)]
          /\ Goto(t, "openIndex")
          /\ UNCHANGED <<requests, shut>>
       \/ /\ phase[c] = Pending(r)
          /\ shut' = shut \cup {c}
          /\ call' = [call EXCEPT ![t].at = "drop", ![t].todo = {c}]
          /\ UNCHANGED <<requests, phase, wire>>
    /\ UNCHANGED <<listenVars, connections, writers, origin, clientVars>>

\* writers.insert.
OpenIndex(t) ==
    /\ At(t, "openIndex")
    /\ writers' = writers \cup {call[t].id}
    /\ Return(t)
    /\ UNCHANGED <<listenVars, connections, requests, slotVars, clientVars, wire>>

RespondChunk(t, w) ==
    /\ w \in writers
    /\ Enter(t, [Ready EXCEPT !.at = "chunkLook", !.id = w, !.conn = origin[w]])
    /\ UNCHANGED <<listenVars, mapVars, slotVars, clientVars, wire>>

\* take_writer: a finished, or unfinished, stream has no writer any more.
RespondFinish(t, w, keep) ==
    /\ w \in writers
    /\ writers' = writers \ {w}
    /\ Enter(t, [Ready EXCEPT !.at = "finishLook", !.id = w, !.conn = origin[w],
                              !.keep = keep])
    /\ UNCHANGED <<listenVars, connections, requests, slotVars, clientVars, wire>>

\* The slot's mutex is taken for the write, if the stream is this writer's.
LockUnchecked(t, from, to) ==
    /\ At(t, from) /\ InnerFree(call[t].conn)
    /\ Goto(t, to)
    /\ UNCHANGED <<listenVars, mapVars, slotVars, clientVars, wire>>
LockStream(t, from, to) ==
    /\ At(t, from) /\ InnerFree(call[t].conn)
    /\ IF phase[call[t].conn] = Streaming(call[t].id) THEN Goto(t, to) ELSE Return(t)
    /\ UNCHANGED <<listenVars, mapVars, slotVars, clientVars, wire>>

ChunkLock(t)  == LockStream(t, "chunkLock", "chunkWrite")
FinishLock(t) == LockStream(t, "finishLock", "finishWrite")

\* write_all_backpressure can write: the listener is still registered and the
\* socket open.  Otherwise, or on cancellation, timeout or a socket error, it
\* fails; part of the frame may have gone out.
CanWrite(c) == dialled[c] \in listeners /\ c \notin shut /\ Len(wire[c]) < MaxFrames
WriteFails(c, w) ==
    \/ UNCHANGED wire
    \/ c \notin shut /\ Len(wire[c]) < MaxFrames /\ Send(c, "torn", w)

ChunkDropsWriter(t) ==
    LET c == call[t].conn IN
    /\ At(t, "chunkWrite")
    /\ \/ CanWrite(c) /\ Send(c, "chunk", call[t].id) /\ UNCHANGED writers
       \/ WriteFails(c, call[t].id) /\ writers' = writers \ {call[t].id}
    /\ Return(t)
    /\ UNCHANGED <<listenVars, connections, requests, slotVars, clientVars>>
ChunkWrite(t) ==
    LET c == call[t].conn IN
    /\ At(t, "chunkWrite")
    /\ \/ CanWrite(c) /\ Send(c, "chunk", call[t].id)
       \/ WriteFails(c, call[t].id)
    /\ Return(t)
    /\ UNCHANGED <<listenVars, mapVars, slotVars, clientVars>>

\* The last chunk; then the connection is parked or closed and dropped.  A
\* failed write leaves it streaming.
FinishWrite(t) ==
    LET c == call[t].conn IN
    /\ At(t, "finishWrite")
    /\ \/ /\ CanWrite(c) /\ call[t].keep
          /\ Send(c, "last", call[t].id)
          /\ phase' = [phase EXCEPT ![c] = Idle]
          /\ Return(t)
          /\ UNCHANGED shut
       \/ /\ CanWrite(c) /\ ~call[t].keep
          /\ Send(c, "last", call[t].id)
          /\ shut' = shut \cup {c}
          /\ call' = [call EXCEPT ![t].at = "drop", ![t].todo = {c}]
          /\ UNCHANGED phase
       \/ /\ WriteFails(c, call[t].id)
          /\ Return(t)
          /\ UNCHANGED <<phase, shut>>
    /\ UNCHANGED <<listenVars, mapVars, origin, clientVars>>

-----------------------------------------------------------------------------
(* stop                                                                    *)

StopPeeks(t, l) ==
    /\ l \in listeners
    /\ Enter(t, [Ready EXCEPT !.at = "stopFlag", !.lst = l])
    /\ UNCHANGED <<listenVars, mapVars, slotVars, clientVars, wire>>
Stop(t, l) ==
    /\ l \in listeners
    /\ listeners' = listeners \ {l}
    /\ Enter(t, [Ready EXCEPT !.at = "stopFlag", !.lst = l])
    /\ UNCHANGED <<stopped, mapVars, slotVars, clientVars, wire>>

StopUnflagged(t) ==
    /\ At(t, "stopFlag")
    /\ Goto(t, "stopSweep")
    /\ UNCHANGED <<listenVars, mapVars, slotVars, clientVars, wire>>
StopFlag(t) ==
    /\ At(t, "stopFlag")
    /\ stopped' = stopped \cup {call[t].lst}
    /\ Goto(t, "stopSweep")
    /\ UNCHANGED <<listeners, mapVars, slotVars, clientVars, wire>>

\* The listener's connections are taken out of the map ...
StopSweep(t) ==
    LET mine == {c \in connections : dialled[c] = call[t].lst} IN
    /\ At(t, "stopSweep")
    /\ connections' = connections \ mine
    /\ call' = [call EXCEPT ![t].at = "stopClose", ![t].todo = mine]
    /\ UNCHANGED <<listenVars, requests, writers, slotVars, clientVars, wire>>

\* ... shut down one by one, without their mutex ...
StopClose(t) ==
    /\ At(t, "stopClose")
    /\ \/ \E c \in call[t].todo :
            /\ shut' = shut \cup {c}
            /\ call' = [call EXCEPT ![t].at = "stopCollect", ![t].conn = c,
                                    ![t].todo = @ \ {c}]
       \/ call[t].todo = {} /\ Goto(t, "stopRequests") /\ UNCHANGED shut
    /\ UNCHANGED <<listenVars, mapVars, origin, phase, clientVars, wire>>

\* ... their request, or writer, collected under it ...
StopCollect(t) ==
    LET p == phase[call[t].conn] IN
    /\ At(t, "stopCollect") /\ InnerFree(call[t].conn)
    /\ call' = [call EXCEPT ![t].at = "stopClose",
                            ![t].requestIds = @ \cup RequestOf(p),
                            ![t].writerIds = @ \cup WriterOf(p)]
    /\ UNCHANGED <<listenVars, mapVars, slotVars, clientVars, wire>>

\* ... and both indexes cleared of what was collected.
StopRequests(t) == RemoveRequests(t, "stopRequests", "stopWriters")

StopWriters(t) ==
    /\ At(t, "stopWriters")
    /\ writers' = writers \ call[t].writerIds
    /\ Return(t)
    /\ UNCHANGED <<listenVars, connections, requests, slotVars, clientVars, wire>>

-----------------------------------------------------------------------------
(* Clients                                                                 *)

ClientConnects(c, l) ==
    /\ dialled[c] = NoListener /\ l \in listeners
    /\ dialled' = [dialled EXCEPT ![c] = l]
    /\ backlog' = backlog \cup {c}
    /\ UNCHANGED <<listenVars, mapVars, slotVars, call, unread, broken, ended, sent, wire>>

ClientSends(c) ==
    /\ dialled[c] # NoListener /\ c \notin ended \cup broken
    /\ sent < MaxRequests
    /\ sent' = sent + 1
    /\ unread' = [unread EXCEPT ![c] = @ + 1]
    /\ UNCHANGED <<listenVars, mapVars, slotVars, call, dialled, backlog, broken, ended, wire>>

\* The client sends what poll_request refuses, or half a request and closes.
ClientSendsMalformed(c) ==
    /\ dialled[c] # NoListener /\ c \notin ended \cup broken
    /\ broken' = broken \cup {c}
    /\ UNCHANGED <<listenVars, mapVars, slotVars, call, dialled, backlog, unread, ended,
                   sent, wire>>

ClientCloses(c) ==
    /\ dialled[c] # NoListener /\ c \notin ended
    /\ ended' = ended \cup {c}
    /\ UNCHANGED <<listenVars, mapVars, slotVars, call, dialled, backlog, unread, broken,
                   sent, wire>>

-----------------------------------------------------------------------------
AcceptStep(t) ==
    \/ AcceptLoop(t) \/ ScanIdle(t) \/ (\E c \in Conns : PollIdle(t, c)) \/ PollDone(t)
    \/ MarkPending(t) \/ IndexRequest(t)
    \/ TcpAccept(t) \/ AdmitRead(t) \/ AdmitCheck(t) \/ AdmitInsert(t)

RespondStep(t) ==
    \/ TakeConnection(t) \/ Answer(t)
    \/ OpenLookUp(t) \/ OpenHead(t) \/ OpenIndex(t)
    \/ ChunkLookUp(t) \/ ChunkLock(t) \/ ChunkWrite(t)
    \/ FinishLookUp(t) \/ FinishLock(t) \/ FinishWrite(t)

StopStep(t) ==
    \/ StopFlag(t) \/ StopSweep(t) \/ StopClose(t) \/ StopCollect(t)
    \/ StopRequests(t) \/ StopWriters(t)

ThreadStep(t) ==
    \/ AcceptStep(t) \/ RespondStep(t) \/ StopStep(t)
    \/ DropConnection(t) \/ ForgetRead(t) \/ ForgetRequest(t) \/ ForgetWriter(t)

NewCall(t) ==
    \/ \E l \in Listeners : Listen(t, l) \/ Accept(t, l) \/ Stop(t, l)
    \/ \E r \in 1..Len(origin) :
        \/ Respond(t, r) \/ RespondOpen(t, r) \/ RespondChunk(t, r)
        \/ \E keep \in BOOLEAN : RespondFinish(t, r, keep)

Client ==
    \E c \in Conns :
        \/ \E l \in Listeners : ClientConnects(c, l)
        \/ ClientSends(c) \/ ClientSendsMalformed(c) \/ ClientCloses(c)

Next == (\E t \in Threads : NewCall(t) \/ ThreadStep(t)) \/ Client

Spec == Init /\ [][Next]_vars

\* A thread inside a call is scheduled; nobody is obliged to make a call.
FairSpec == Spec /\ \A t \in Threads : WF_vars(ThreadStep(t))

-----------------------------------------------------------------------------
(* Properties.                                                             *)

\* The frames of two responses never mix: a response starts first on its
\* connection or after the last chunk of an earlier request's, and every other
\* frame follows one of its own response.  A chunk or last chunk that was cut
\* in the middle is "torn".  It leaves the slot streaming, and its writer too
\* after a chunk, so that the next frames of this response, and of the next,
\* are written after it: this is the order of the server's writes, and for a
\* client it says nothing from the first torn frame on.
ResponsesDoNotMix ==
    \A c \in Conns : \A i \in 1..Len(wire[c]) :
        LET f == wire[c][i] IN
        IF f.kind \in {"full", "head"}
        THEN i = 1 \/ (wire[c][i - 1].kind = "last" /\ wire[c][i - 1].id < f.id)
        ELSE i > 1 /\ wire[c][i - 1].id = f.id
             /\ wire[c][i - 1].kind \in {"head", "chunk", "torn"}

\* What a client can rely on (manifest.json, http:respond_open: "Begin a chunked
\* HTTP response"): as far as no write was cut, it receives responses in the
\* order of its requests, each a full one or a head, chunks and the last chunk.
FramedUntilTorn ==
    \A c \in Conns : \A i \in 1..Len(wire[c]) :
        (\A j \in 1..i : wire[c][j].kind # "torn") =>
            IF wire[c][i].kind \in {"full", "head"}
            THEN i = 1 \/ (wire[c][i - 1].kind = "last" /\ wire[c][i - 1].id < wire[c][i].id)
            ELSE i > 1 /\ wire[c][i - 1] \in [kind : {"head", "chunk"}, id : {wire[c][i].id}]

\* Both hold whatever threads respond, as long as one thread accepts.
FramesInOrder == ResponsesDoNotMix /\ FramedUntilTorn

\* manifest.json, http:respond_finish: "Finish a chunked response and apply
\* keep-alive policy."  A response that is finished, so that its client goes on
\* to the next, has no torn frame.  The code does not keep this: a chunk that
\* times out or is cancelled part way leaves phase and writer as they were, and
\* respond_finish then succeeds.
FinishedResponsesWhole ==
    \A c \in Conns : \A i, j \in 1..Len(wire[c]) :
        wire[c][i].kind = "last" /\ wire[c][j].kind = "torn" =>
            wire[c][j].id # wire[c][i].id

\* manifest.json, http:respond: "Write one HTTP response for a pending
\* request."  A request in the index whose connection is registered is the
\* one that connection is pending for, so that the response can be written.
\* This needs a single acceptor per listener: two may read from one slot.
PendingIndexExact ==
    \A r \in requests : origin[r] \in connections => phase[origin[r]] = Pending(r)

\* The indexes outlive a connection only if its listener was stopped: every
\* other way out of the connection map has taken its request and its writer.
\* This too is a statement about a single acceptor.
IndexesFollowConnections ==
    \A r \in requests \cup writers :
        \/ origin[r] \in connections
        \/ dialled[origin[r]] \notin listeners
        \/ \E t \in Threads : /\ call[t].at \in {"forget", "forgetRequest", "forgetWriter"}
                             /\ call[t].conn = origin[r]

\* Registered connections in the middle of a stream that nobody can continue:
\* the writer is neither in the index nor in the hands of a call.
Stranded ==
    {c \in connections : phase[c].kind = "Streaming" /\ phase[c].id \notin writers
        /\ \A t \in Threads : ~(call[t].id = phase[c].id /\ call[t].at \in
                {"openIndex", "finishLook", "finishLock", "finishWrite", "drop"})}

\* Only a respond_finish whose last write fails strands a stream: it has taken
\* the writer and leaves the slot streaming.  No other failure, no drop and no
\* stop does.
OnlyFailedFinishStrands ==
    [][Stranded' \subseteq Stranded \cup {call[t].conn : t \in {u \in Threads :
            At(u, "finishWrite") /\ call'[u].at = "ready"}}]_vars

\* manifest.json, http:stop: "Stop an HTTP listener and close its
\* connections."  Once stop has returned, none of them is registered.
StopClosesConnections ==
    \A l \in stopped : (\A t \in Threads : call[t].lst # l) =>
        \A c \in connections : dialled[c] # l

\* Once stop has removed a listener, stop itself returns, although it waits
\* for connections in mid-write, and so does every accept on that listener
\* (http_test.rs, stop_unblocks_pending_accept).
StopEndsCalls == \A t \in Threads, l \in Listeners :
    (l \notin listeners /\ call[t].lst = l) ~> call[t].lst # l

\* The provider's maps agree (HttpState): the pending requests are those the
\* slots wait for, and what the indexes name is registered.
IndexesExact == TypeOK /\ PendingIndexExact /\ IndexesFollowConnections
=============================================================================
