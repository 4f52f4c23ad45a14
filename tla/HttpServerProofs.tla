-------------------------- MODULE HttpServerProofs --------------------------
(***************************************************************************)
(* Proofs about HttpServer for any number of responding threads, listeners, *)
(* connections, requests and frames, and one thread that accepts.  (With    *)
(* two, a connection can be read twice before it is marked pending, and the *)
(* properties do not hold.)                                                 *)
(*                                                                         *)
(* The invariant is local: it says of each thread, by the point its call is *)
(* at, what its locals k have to do with the shared maps, and of two        *)
(* threads that they do not own the same request, writer or slot mutex.     *)
(***************************************************************************)
EXTENDS HttpServer, FiniteSetTheorems, TLAPS

SingleAcceptor == \A t, u \in Acceptors : t = u

\* Where a thread owns a request it has read, a request that is pending, a
\* writer, or only knows a writer's number.
ReadPoints    == {"mark", "admit", "insert"}
RequestPoints == {"index", "take", "answer", "openLook", "openHead"}
WriterPoints  == {"openIndex", "finishLook", "finishLock", "finishWrite"}
ChunkPoints   == {"chunkLook", "chunkLock", "chunkWrite"}
AcceptPoints  == {"loop", "scan", "poll", "mark", "index", "tcp", "read", "admit", "insert"}
DropPoints    == {"drop", "forget", "forgetRequest", "forgetWriter"}
StopPoints    == {"stopFlag", "stopSweep", "stopClose", "stopCollect", "stopRequests",
                  "stopWriters"}

Call == [at : Points, lst : Listeners \cup {NoListener}, conn : Conns \cup {0},
         id : Requests \cup {0}, todo : SUBSET Conns, closed : SUBSET Conns,
         requestIds : SUBSET Requests, writerIds : SUBSET Requests,
         then : {"ready", "tcp"}, keep : BOOLEAN]
Frame == [kind : {"full", "head", "chunk", "torn", "last"}, id : Requests]
Phase == {Idle} \cup {Pending(r) : r \in Requests} \cup {Streaming(w) : w \in Requests}

\* The requests of clients that no thread has read yet, numbered per connection.
Unread == UNION {{c} \X (1..unread[c]) : c \in Conns}

\* TypeOK part by part, with the types of call, wire and sent spelled out and
\* the count that makes the number of every request read one of Requests.
MapsType ==
    /\ listeners \in SUBSET Listeners /\ stopped \in SUBSET Listeners
    /\ listeners \cap stopped = {}
    /\ connections \in SUBSET Conns /\ shut \in SUBSET Conns
    /\ requests \in SUBSET (1..Len(origin)) /\ writers \in SUBSET (1..Len(origin))
    /\ origin \in Seq(Conns) /\ phase \in [Conns -> Phase]
    /\ dialled \in [Conns -> Listeners \cup {NoListener}]
    /\ backlog \in SUBSET Conns /\ broken \in SUBSET Conns /\ ended \in SUBSET Conns
    /\ unread \in [Conns -> Nat]
WireType ==
    wire \in [Conns -> Seq(Frame)] /\ \A c \in Conns : Len(wire[c]) <= MaxFrames
RequestsCounted ==
    /\ sent \in 0..MaxRequests
    /\ IsFiniteSet(Unread) /\ Len(origin) + Cardinality(Unread) = sent
ServerType == MapsType /\ WireType /\ RequestsCounted /\ call \in [Threads -> Call]

\* Who may be where, and that a call knows the connection its request or writer
\* came from.
Accepting(k) == k.at \in AcceptPoints \/ (k.at \in DropPoints /\ k.then = "tcp")
Placed(t, k) ==
    /\ Accepting(k) => t \in Acceptors /\ k.lst \in Listeners
    /\ k.at \in (RequestPoints \cup WriterPoints) \ {"index"} => k.then = "ready"
    /\ k.at \in ReadPoints \cup RequestPoints \cup WriterPoints \cup ChunkPoints =>
         k.id \in 1..Len(origin) /\ k.conn = origin[k.id]
    /\ k.at \in {"read", "forget", "forgetRequest", "forgetWriter", "stopCollect"} =>
         k.conn \in Conns
    /\ k.at \in StopPoints => k.lst \in Listeners \ listeners

\* A request in a thread's hands is what its connection is pending for, and a
\* writer the stream its connection is in; neither is in its index.
OwnsToken(k) ==
    /\ k.at \in RequestPoints => phase[k.conn] = Pending(k.id) /\ k.id \notin requests
    /\ k.at \in WriterPoints => phase[k.conn] = Streaming(k.id) /\ k.id \notin writers
    /\ k.at = "chunkWrite" => phase[k.conn] = Streaming(k.id)

\* The connections a call has still to drop or is forgetting.
Dropping(k) == k.todo \cup (IF k.at = "drop" THEN {} ELSE {k.conn})

\* The connections the acceptor reads from, has found closed or is forgetting
\* are idle: only the acceptor makes an idle connection anything else.
SeesIdle(k) ==
    /\ k.at \in ReadPoints \cup {"read"} => phase[k.conn] = Idle
    /\ k.at = "poll" => \A c \in k.todo \cup k.closed : phase[c] = Idle
    /\ k.at \in DropPoints /\ k.then = "tcp" => \A c \in Dropping(k) : phase[c] = Idle

\* A respond_open or respond_finish that drops its connection has used up its
\* request or writer.
DropsOwn(k) ==
    k.at \in DropPoints /\ k.then = "ready" =>
        /\ k.id \in 1..Len(origin)
        /\ Dropping(k) \subseteq {origin[k.id]}
        /\ phase[origin[k.id]] # Idle
        /\ \A r \in requests \cup writers : origin[r] # origin[k.id]

\* Connections that no accept has taken yet.
Unaccepted == backlog \cup {c \in Conns : dialled[c] = NoListener}
Accepted(k) ==
    /\ k.at = "poll" => \A c \in k.todo \cup k.closed : c \notin Unaccepted
    /\ k.at \in ReadPoints \cup {"read"} => k.conn \notin Unaccepted

\* Registered, unless its listener was stopped.
InPlace(c) == c \in connections \/ dialled[c] \notin listeners
StaysInPlace(k) ==
    /\ k.at \in {"mark", "index", "openLook", "openHead", "openIndex"} => InPlace(k.conn)
    /\ k.at = "poll" => \A c \in k.todo : InPlace(c)

Local(t, k) ==
    Placed(t, k) /\ OwnsToken(k) /\ SeesIdle(k) /\ DropsOwn(k) /\ Accepted(k) /\ StaysInPlace(k)

\* Two calls own different requests, writers and mutexes, and nobody owns the
\* request or writer of a connection another call drops as its own.
Apart(k, m) ==
    /\ k.at \in RequestPoints /\ m.at \in RequestPoints => k.id # m.id
    /\ k.at \in WriterPoints /\ m.at \in WriterPoints => k.id # m.id
    /\ k.at \in Writing /\ m.at \in Writing => k.conn # m.conn
    /\ k.at \in DropPoints /\ k.then = "ready" /\ m.at \in RequestPoints \cup WriterPoints =>
         m.conn # origin[k.id]

\* What the indexes and the client side have to do with the slots.
IndexPhases ==
    /\ \A r \in requests : phase[origin[r]] = Pending(r) /\ InPlace(origin[r])
    /\ \A w \in writers : phase[origin[w]] = Streaming(w) /\ InPlace(origin[w])
UnacceptedIdle ==
    /\ \A c \in backlog : dialled[c] \in Listeners
    /\ \A c \in Unaccepted : phase[c] = Idle /\ c \notin connections

\* A listener someone connected to is never opened again.
DialledOnce ==
    \A c \in Conns : dialled[c] # NoListener =>
        \/ dialled[c] \in listeners \cup stopped
        \/ \E t \in Threads : call[t].at = "stopFlag" /\ call[t].lst = dialled[c]

HttpInv ==
    /\ ServerType /\ IndexPhases /\ UnacceptedIdle /\ DialledOnce
    /\ \A t \in Threads : Local(t, call[t])
    /\ \A t, u \in Threads : t # u => Apart(call[t], call[u])

\* The parts make up TypeOK; numbers of requests are in range.
LEMMA ServerTypeIsType ==
  ASSUME ServerType
  PROVE  /\ TypeOK
         /\ Len(origin) \in Nat /\ Len(origin) <= MaxRequests
         /\ \A i \in 1..Len(origin) : origin[i] \in Conns /\ i \in Requests
<1>1. /\ origin \in Seq(Conns) /\ Len(origin) \in Nat /\ Cardinality(Unread) \in Nat
      /\ \A i \in 1..Len(origin) : origin[i] \in Conns
  BY FS_CardinalityType DEF ServerType, MapsType, RequestsCounted
<1>2. Len(origin) <= sent /\ sent <= MaxRequests /\ MaxRequests \in Nat
  BY <1>1, HttpAssumption DEF ServerType, RequestsCounted
<1>3. \A i \in 1..Len(origin) : i \in Requests
  BY <1>1, <1>2, HttpAssumption DEF Requests, ServerType, RequestsCounted
<1>4. ASSUME NEW t \in Threads
      PROVE  /\ call[t].at \in Points /\ call[t].then \in Points
             /\ call[t].lst \in Listeners \cup {NoListener}
             /\ call[t].todo \cup call[t].closed \subseteq Conns
             /\ call[t].requestIds \cup call[t].writerIds \subseteq Requests
             /\ call[t].keep \in BOOLEAN
  <2>1. call[t] \in Call
    BY DEF ServerType
  <2> QED BY <2>1 DEF Call, Points
<1>5. TypeOK
  BY <1>2, <1>4 DEF ServerType, MapsType, WireType, TypeOK, Phase
<1>6. Len(origin) <= MaxRequests
  BY <1>1, <1>2, HttpAssumption DEF ServerType, RequestsCounted
<1> QED BY <1>1, <1>3, <1>5, <1>6

\* The phases of a slot are told apart by kind and number.
LEMMA PhasesDiffer ==
  ASSUME NEW r, NEW w
  PROVE  /\ Pending(r) # Idle /\ Streaming(w) # Idle /\ Pending(r) # Streaming(w)
         /\ Pending(r) = Pending(w) => r = w
         /\ Streaming(r) = Streaming(w) => r = w
         /\ Pending(r).id = r /\ Streaming(w).id = w
         /\ Pending(r).kind = "Pending" /\ Streaming(w).kind = "Streaming"
         /\ Idle.kind = "Idle"
BY DEF Pending, Streaming, Idle

\* The variables the invariant reads, apart from the calls.
shared == <<listeners, stopped, connections, requests, writers, origin, phase, dialled,
            backlog, unread, sent>>

\* A call whose locals change while the shared state stays keeps the invariant
\* when its new locals fit.
LEMMA LocalStep ==
  ASSUME HttpInv, NEW t \in Threads, NEW k \in Call, call' = [call EXCEPT ![t] = k],
         UNCHANGED <<shared, broken, ended>>, shut' \in SUBSET Conns, WireType',
         call[t].at = "stopFlag" => k.at = "stopFlag" /\ k.lst = call[t].lst,
         Local(t, k),
         \A u \in Threads : u # t => Apart(k, call[u]) /\ Apart(call[u], k)
  PROVE  HttpInv'
<1>0. /\ call \in [Threads -> Call] /\ call'[t] = k
      /\ \A u \in Threads : u # t => call'[u] = call[u]
  BY DEF HttpInv, ServerType
<1>1. ServerType'
  BY <1>0 DEF HttpInv, ServerType, MapsType, RequestsCounted, Unread, shared
<1>2. IndexPhases' /\ UnacceptedIdle'
  BY DEF HttpInv, IndexPhases, UnacceptedIdle, InPlace, Unaccepted, shared
<1>3. DialledOnce'
  BY <1>0 DEF HttpInv, DialledOnce, shared
<1>4. ASSUME NEW u, NEW m, Local(u, m) PROVE Local(u, m)'
  <2> USE <1>4 DEF Local, shared
  <2>1. Placed(u, m)'     BY DEF Placed
  <2>2. OwnsToken(m)'     BY DEF OwnsToken
  <2>3. SeesIdle(m)'      BY DEF SeesIdle
  <2>4. DropsOwn(m)'      BY DEF DropsOwn
  <2>5. Accepted(m)'      BY DEF Accepted, Unaccepted
  <2>6. StaysInPlace(m)'  BY DEF StaysInPlace, InPlace
  <2> QED BY <2>1, <2>2, <2>3, <2>4, <2>5, <2>6
<1>5. ASSUME NEW m, NEW n, Apart(m, n) PROVE Apart(m, n)'
  BY <1>5 DEF Apart, shared
<1>6. ASSUME NEW u \in Threads PROVE Local(u, call[u])'
  <2>1. PICK m : m = call'[u] /\ Local(u, m)
    BY <1>0 DEF HttpInv
  <2>2. Local(u, m)'
    BY <1>4, <2>1
  <2> QED BY <2>1, <2>2
<1>7. ASSUME NEW u \in Threads, NEW v \in Threads, u # v PROVE Apart(call[u], call[v])'
  <2>1. PICK m, n : m = call'[u] /\ n = call'[v] /\ Apart(m, n)
    BY <1>0, <1>7 DEF HttpInv
  <2>2. Apart(m, n)'
    BY <1>5, <2>1
  <2> QED BY <2>1, <2>2 DEF Apart
<1> QED BY <1>1, <1>2, <1>3, <1>6, <1>7 DEF HttpInv

\* The invariant from its parts, after a step of thread t.
LEMMA Assemble ==
  ASSUME NEW t \in Threads, NEW k \in Call, call \in [Threads -> Call],
         call' = [call EXCEPT ![t] = k],
         ServerType', IndexPhases', UnacceptedIdle', DialledOnce', Local(t, k)',
         \A u \in Threads, m \in Call : u # t /\ m = call[u] =>
            Local(u, m)' /\ Apart(k, m)' /\ Apart(m, k)',
         \A u, v \in Threads, m, n \in Call :
            u # v /\ u # t /\ v # t /\ m = call[u] /\ n = call[v] => Apart(m, n)'
  PROVE  HttpInv'
<1>0. /\ call'[t] = k /\ \A u \in Threads : u # t => call'[u] = call[u]
      /\ \A u \in Threads : call[u] \in Call
  OBVIOUS
<1>1. ASSUME NEW u \in Threads PROVE Local(u, call[u])'
  <2>1. PICK m \in Call : m = call'[u] /\ Local(u, m)'
    BY <1>0
  <2> QED BY <2>1
<1>2. ASSUME NEW u \in Threads, NEW v \in Threads, u # v PROVE Apart(call[u], call[v])'
  <2>1. PICK m \in Call, n \in Call : m = call'[u] /\ n = call'[v] /\ Apart(m, n)'
    BY <1>0, <1>2
  <2> QED BY <2>1 DEF Apart
<1> QED BY <1>1, <1>2 DEF HttpInv

\* A step that takes requests, writers or connections out of their maps keeps
\* the invariant when no one else counts on the connections that go, unless
\* their listener was stopped.
LEMMA ShrinkStep ==
  ASSUME HttpInv, NEW t \in Threads, NEW k \in Call, call' = [call EXCEPT ![t] = k],
         UNCHANGED <<listeners, stopped, origin, phase, clientVars, wire>>,
         shut' \in SUBSET Conns, requests' \subseteq requests, writers' \subseteq writers,
         connections' \subseteq connections,
         call[t].at # "stopFlag",
         \A c \in connections \ connections' : dialled[c] \in listeners =>
            /\ \A r \in requests' \cup writers' : origin[r] # c
            /\ \A u \in Threads : u # t =>
                /\ call[u].at \in {"mark", "index", "openLook", "openHead", "openIndex"} =>
                     call[u].conn # c
                /\ call[u].at = "poll" => c \notin call[u].todo,
         Local(t, k)',
         \A u \in Threads : u # t => Apart(k, call[u]) /\ Apart(call[u], k)
  PROVE  HttpInv'
<1> USE DEF clientVars
<1>0. call \in [Threads -> Call] /\ call'[t] = k /\ \A u \in Threads : u # t => call'[u] = call[u]
  BY DEF HttpInv, ServerType
<1>1. ServerType'
  BY <1>0 DEF HttpInv, ServerType, MapsType, WireType, RequestsCounted, Unread
<1>2. \A r \in requests' \cup writers' : InPlace(origin[r])'
  BY DEF HttpInv, IndexPhases, InPlace
<1>3. IndexPhases' /\ UnacceptedIdle'
  BY <1>2 DEF HttpInv, IndexPhases, UnacceptedIdle, Unaccepted
<1>4. DialledOnce'
  BY <1>0 DEF HttpInv, DialledOnce
<1>5. ASSUME NEW u \in Threads, NEW m \in Call, u # t, m = call[u]
      PROVE  Local(u, m)' /\ Apart(k, m)' /\ Apart(m, k)'
  <2>0. Local(u, m) /\ Apart(k, m) /\ Apart(m, k)
    BY <1>5 DEF HttpInv
  <2>1. Placed(u, m)'     BY <2>0 DEF Local, Placed
  <2>2. OwnsToken(m)'     BY <2>0 DEF Local, OwnsToken
  <2>3. SeesIdle(m)'      BY <2>0 DEF Local, SeesIdle
  <2>4. DropsOwn(m)'      BY <2>0 DEF Local, DropsOwn
  <2>5. Accepted(m)'      BY <2>0 DEF Local, Accepted, Unaccepted
  <2>6. StaysInPlace(m)'  BY <1>5, <2>0 DEF Local, StaysInPlace, InPlace
  <2>7. Apart(k, m)' /\ Apart(m, k)'
    BY <2>0 DEF Apart
  <2> QED BY <2>1, <2>2, <2>3, <2>4, <2>5, <2>6, <2>7 DEF Local
<1>6. ASSUME NEW u \in Threads, NEW v \in Threads, NEW m \in Call, NEW n \in Call,
             u # v, m = call[u], n = call[v]
      PROVE  Apart(m, n)'
  BY <1>6 DEF HttpInv, Apart
<1>7. \A u \in Threads, m \in Call : u # t /\ m = call[u] =>
         Local(u, m)' /\ Apart(k, m)' /\ Apart(m, k)'
  BY <1>5
<1>8. \A u, v \in Threads, m, n \in Call :
         u # v /\ u # t /\ v # t /\ m = call[u] /\ n = call[v] => Apart(m, n)'
  BY <1>6
<1> QED BY <1>0, <1>1, <1>3, <1>4, <1>7, <1>8, Assemble

\* A step of t that changes the phase of the slot of connection c, and may
\* register c, keeps the invariant when c belongs to t: nobody else owns its
\* request or writer, or drops it, and it was not idle or t is the acceptor.
LEMMA PhaseStep ==
  ASSUME HttpInv, NEW t \in Threads, NEW k \in Call, call' = [call EXCEPT ![t] = k],
         NEW c \in Conns, NEW p \in Phase, phase' = [phase EXCEPT ![c] = p],
         UNCHANGED <<listeners, stopped, requests, writers, origin, clientVars>>,
         connections \subseteq connections', connections' \subseteq connections \cup {c},
         shut' \in SUBSET Conns, WireType',
         call[t].at # "stopFlag", c \notin Unaccepted,
         \A r \in requests \cup writers : origin[r] # c,
         \A u \in Threads : u # t =>
            /\ call[u].at \in RequestPoints \cup WriterPoints \cup {"chunkWrite"} => call[u].conn # c
            /\ p = Idle \/ phase[c] # Idle \/ ~Accepting(call[u])
            /\ call[u].at \in DropPoints /\ call[u].then = "ready" => origin[call[u].id] # c,
         Local(t, k)',
         \A u \in Threads : u # t => Apart(k, call[u]) /\ Apart(call[u], k)
  PROVE  HttpInv'
<1> USE DEF clientVars
<1>0. /\ call \in [Threads -> Call] /\ call'[t] = k
      /\ \A u \in Threads : u # t => call'[u] = call[u]
      /\ phase'[c] = p /\ \A d \in Conns : d # c => phase'[d] = phase[d]
      /\ origin \in Seq(Conns)
      /\ requests \subseteq 1..Len(origin) /\ writers \subseteq 1..Len(origin)
      /\ backlog \subseteq Conns /\ dialled \in [Conns -> Listeners \cup {NoListener}]
  BY DEF HttpInv, ServerType, MapsType
<1>1. ServerType'
  <2>1. MapsType'
    BY <1>0 DEF HttpInv, ServerType, MapsType
  <2>2. RequestsCounted'
    BY DEF HttpInv, ServerType, RequestsCounted, Unread
  <2> QED BY <1>0, <2>1, <2>2 DEF ServerType
<1>2. \A r \in 1..Len(origin) : origin[r] \in Conns
  BY <1>0
<1>3. IndexPhases' /\ UnacceptedIdle'
  BY <1>0, <1>2 DEF HttpInv, IndexPhases, UnacceptedIdle, Unaccepted, InPlace
<1>4. DialledOnce'
  BY <1>0 DEF HttpInv, DialledOnce
<1>5. ASSUME NEW u \in Threads, NEW m \in Call, u # t, m = call[u]
      PROVE  Local(u, m)' /\ Apart(k, m)' /\ Apart(m, k)'
  <2>0. Local(u, m) /\ Apart(k, m) /\ Apart(m, k) /\ m.todo \subseteq Conns /\ m.closed \subseteq Conns
    BY <1>5 DEF HttpInv, Call
  <2>1. Placed(u, m)'     BY <2>0 DEF Local, Placed
  <2>2. OwnsToken(m)'
    BY <1>0, <1>2, <1>5, <2>0
    DEF Local, OwnsToken, Placed, RequestPoints, WriterPoints, ChunkPoints
  <2>3. SeesIdle(m)'
    <3>1. p = Idle \/ phase[c] # Idle \/ ~Accepting(m)
      BY <1>5
    <3>2. m.at \in ReadPoints \cup {"read"} => m.conn \in Conns
      BY <1>2, <2>0 DEF Local, Placed
    <3>3. m.at \in DropPoints => Dropping(m) \subseteq Conns
      BY <2>0 DEF Local, Placed, Dropping, DropPoints
    <3> QED
      BY <1>0, <2>0, <3>1, <3>2, <3>3 DEF Local, SeesIdle, Accepting, AcceptPoints, ReadPoints
  <2>4. DropsOwn(m)'      BY <1>0, <1>2, <1>5, <2>0 DEF Local, DropsOwn
  <2>5. Accepted(m)'      BY <2>0 DEF Local, Accepted, Unaccepted
  <2>6. StaysInPlace(m)'  BY <2>0 DEF Local, StaysInPlace, InPlace
  <2>7. Apart(k, m)' /\ Apart(m, k)'
    BY <2>0 DEF Apart
  <2> QED BY <2>1, <2>2, <2>3, <2>4, <2>5, <2>6, <2>7 DEF Local
<1>6. ASSUME NEW u \in Threads, NEW v \in Threads, NEW m \in Call, NEW n \in Call,
             u # v, m = call[u], n = call[v]
      PROVE  Apart(m, n)'
  BY <1>6 DEF HttpInv, Apart
<1>7. \A u \in Threads, m \in Call : u # t /\ m = call[u] =>
         Local(u, m)' /\ Apart(k, m)' /\ Apart(m, k)'
  BY <1>5
<1>8. \A u, v \in Threads, m, n \in Call :
         u # v /\ u # t /\ v # t /\ m = call[u] /\ n = call[v] => Apart(m, n)'
  BY <1>6
<1> QED BY <1>0, <1>1, <1>3, <1>4, <1>7, <1>8, Assemble

\* Reading a request moves it from its client's unread ones to the numbered ones.
LEMMA ReadCounts ==
  ASSUME ServerType, NEW c \in Conns, ReadRequest(c), UNCHANGED sent
  PROVE  /\ RequestsCounted'
         /\ origin' \in Seq(Conns) /\ Len(origin) \in Nat /\ Len(origin') = Len(origin) + 1
         /\ \A i \in 1..Len(origin) : origin'[i] = origin[i] /\ i \in 1..Len(origin')
         /\ origin'[Len(origin')] = c /\ Len(origin') \in 1..Len(origin')
         /\ Len(origin') \in Requests
         /\ unread' \in [Conns -> Nat]
<1>1. /\ origin \in Seq(Conns) /\ Len(origin) \in Nat /\ origin' = Append(origin, c)
      /\ unread \in [Conns -> Nat] /\ unread[c] \in Nat /\ unread[c] > 0
      /\ unread' = [unread EXCEPT ![c] = @ - 1]
  BY DEF ServerType, MapsType, ReadRequest
<1>2. /\ origin' \in Seq(Conns) /\ Len(origin') = Len(origin) + 1
      /\ \A i \in 1..Len(origin) : origin'[i] = origin[i] /\ i \in 1..Len(origin')
      /\ origin'[Len(origin')] = c /\ Len(origin') \in 1..Len(origin')
  BY <1>1
<1>3. unread' \in [Conns -> Nat] /\ unread'[c] = unread[c] - 1
      /\ \A d \in Conns : d # c => unread'[d] = unread[d]
  BY <1>1
<1>4. 1..unread'[c] = (1..unread[c]) \ {unread[c]} /\ unread[c] \in 1..unread[c]
  BY <1>1, <1>3
<1>5. Unread' = Unread \ {<<c, unread[c]>>} /\ <<c, unread[c]>> \in Unread
  BY <1>3, <1>4 DEF Unread
<1>6. /\ IsFiniteSet(Unread') /\ Cardinality(Unread') = Cardinality(Unread) - 1
      /\ Cardinality(Unread) \in Nat /\ Cardinality(Unread') \in Nat
  BY <1>5, FS_RemoveElement, FS_CardinalityType DEF ServerType, RequestsCounted
<1>7. RequestsCounted'
  BY <1>1, <1>2, <1>6 DEF ServerType, RequestsCounted
<1>8. Len(origin') \in Requests
  BY <1>1, <1>2, <1>6, HttpAssumption DEF ServerType, RequestsCounted, Requests
<1> QED BY <1>1, <1>2, <1>3, <1>7, <1>8

\* The acceptor's read of a request from an idle connection keeps the invariant:
\* the request's number is new, so nobody else speaks of it.
LEMMA ReadStep ==
  ASSUME HttpInv, NEW t \in Threads, NEW k \in Call, call' = [call EXCEPT ![t] = k],
         NEW c \in Conns, ReadRequest(c),
         UNCHANGED <<listeners, stopped, mapVars, phase, shut, dialled, backlog, broken, ended,
                     sent, wire>>,
         call[t].at # "stopFlag",
         k.at \in {"mark", "admit"}, k.conn = c, k.id = Len(origin'),
         t \in Acceptors, k.lst \in Listeners, phase[c] = Idle, c \notin Unaccepted,
         k.at = "mark" => InPlace(c)
  PROVE  HttpInv'
<1> USE DEF mapVars
<1>0. /\ call \in [Threads -> Call] /\ call'[t] = k
      /\ \A u \in Threads : u # t => call'[u] = call[u]
      /\ requests \subseteq 1..Len(origin) /\ writers \subseteq 1..Len(origin)
      /\ ServerType
  BY DEF HttpInv, ServerType, MapsType
<1>1. /\ RequestsCounted'
      /\ origin' \in Seq(Conns) /\ Len(origin) \in Nat /\ Len(origin') = Len(origin) + 1
      /\ \A i \in 1..Len(origin) : origin'[i] = origin[i] /\ i \in 1..Len(origin')
      /\ origin'[Len(origin')] = c /\ Len(origin') \in 1..Len(origin')
      /\ unread' \in [Conns -> Nat]
  BY <1>0, ReadCounts
<1>2. ServerType'
  <2>1. MapsType'
    BY <1>0, <1>1 DEF ServerType, MapsType
  <2>2. WireType'
    BY <1>0 DEF ServerType, WireType
  <2> QED BY <1>0, <1>1, <2>1, <2>2 DEF ServerType
<1>3. IndexPhases' /\ UnacceptedIdle'
  BY <1>0, <1>1 DEF HttpInv, IndexPhases, UnacceptedIdle, Unaccepted, InPlace
<1>4. DialledOnce'
  BY <1>0 DEF HttpInv, DialledOnce
<1>5. Local(t, k)'
  <2>1. /\ k.at \in ReadPoints /\ k.at \in AcceptPoints
        /\ k.at \notin RequestPoints \cup WriterPoints \cup ChunkPoints \cup StopPoints \cup DropPoints
        /\ k.at \notin {"read", "forget", "forgetRequest", "forgetWriter", "stopCollect",
                        "chunkWrite", "poll", "index", "openLook", "openHead", "openIndex"}
    BY DEF ReadPoints, AcceptPoints, RequestPoints, WriterPoints, ChunkPoints, StopPoints,
           DropPoints
  <2>2. Placed(t, k)'    BY <1>1, <2>1 DEF Placed, Accepting
  <2>3. OwnsToken(k)' /\ SeesIdle(k)' /\ DropsOwn(k)'
    BY <2>1 DEF OwnsToken, SeesIdle, DropsOwn
  <2>4. Accepted(k)' /\ StaysInPlace(k)'
    BY <2>1 DEF Accepted, StaysInPlace, Unaccepted, InPlace
  <2> QED BY <2>2, <2>3, <2>4 DEF Local
<1>6. ASSUME NEW u \in Threads, NEW m \in Call, u # t, m = call[u]
      PROVE  Local(u, m)' /\ Apart(k, m)' /\ Apart(m, k)'
  <2>0. Local(u, m)
    BY <1>6 DEF HttpInv
  <2>1. Placed(u, m)'     BY <1>1, <2>0 DEF Local, Placed
  <2>2. OwnsToken(m)'     BY <2>0 DEF Local, OwnsToken
  <2>3. SeesIdle(m)'      BY <2>0 DEF Local, SeesIdle
  <2>4. DropsOwn(m)'      BY <1>0, <1>1, <2>0 DEF Local, DropsOwn
  <2>5. Accepted(m)'      BY <2>0 DEF Local, Accepted, Unaccepted
  <2>6. StaysInPlace(m)'  BY <2>0 DEF Local, StaysInPlace, InPlace
  <2>7. Apart(k, m)' /\ Apart(m, k)'
    BY DEF Apart, RequestPoints, WriterPoints, Writing, DropPoints
  <2> QED BY <2>1, <2>2, <2>3, <2>4, <2>5, <2>6, <2>7 DEF Local
<1>7. ASSUME NEW u \in Threads, NEW v \in Threads, NEW m \in Call, NEW n \in Call,
             u # v, m = call[u], n = call[v]
      PROVE  Apart(m, n)'
  <2>1. Apart(m, n) /\ DropsOwn(m)
    BY <1>7 DEF HttpInv, Local
  <2> QED BY <1>1, <2>1 DEF Apart, DropsOwn
<1>8. \A u \in Threads, m \in Call : u # t /\ m = call[u] =>
         Local(u, m)' /\ Apart(k, m)' /\ Apart(m, k)'
  BY <1>6
<1>9. \A u, v \in Threads, m, n \in Call :
         u # v /\ u # t /\ v # t /\ m = call[u] /\ n = call[v] => Apart(m, n)'
  BY <1>7
<1> QED BY <1>0, <1>2, <1>3, <1>4, <1>5, <1>8, <1>9, Assemble

\* A call that returns, or goes where it owns nothing, keeps the invariant.
LEMMA QuietStep ==
  ASSUME HttpInv, NEW t \in Threads, NEW k \in Call, call' = [call EXCEPT ![t] = k],
         UNCHANGED <<shared, broken, ended>>, shut' \in SUBSET Conns, WireType',
         call[t].at # "stopFlag",
         k.at \in {"ready", "loop", "scan", "tcp"},
         k.at # "ready" => t \in Acceptors /\ k.lst \in Listeners
  PROVE  HttpInv'
<1>1. Local(t, k)
  BY DEF Local, Placed, Accepting, OwnsToken, SeesIdle, DropsOwn, Accepted, StaysInPlace,
         AcceptPoints, ReadPoints, RequestPoints, WriterPoints, ChunkPoints, StopPoints,
         DropPoints
<1>2. k.at \notin RequestPoints \cup WriterPoints \cup Writing \cup DropPoints
  BY DEF RequestPoints, WriterPoints, Writing, DropPoints
<1>3. \A m : Apart(k, m) /\ Apart(m, k)
  BY <1>2 DEF Apart
<1> QED BY <1>1, <1>3, LocalStep

\* A call that returns keeps the invariant.
LEMMA ReturnStep ==
  ASSUME HttpInv, NEW t \in Threads, Return(t),
         UNCHANGED <<shared, broken, ended>>, shut' \in SUBSET Conns, WireType',
         call[t].at # "stopFlag"
  PROVE  HttpInv'
<1>1. Ready \in Call /\ Ready.at = "ready"
  BY DEF Ready, Call, Points
<1>2. call' = [call EXCEPT ![t] = Ready]
  BY DEF Return
<1> QED BY <1>1, <1>2, QuietStep

\* Goto changes where a call is and nothing else.
LEMMA GotoCall ==
  ASSUME ServerType, NEW t \in Threads, NEW point \in Points, Goto(t, point)
  PROVE  \E k \in Call :
            /\ call' = [call EXCEPT ![t] = k]
            /\ k = [call[t] EXCEPT !.at = point] /\ k.at = point
            /\ k.lst = call[t].lst /\ k.conn = call[t].conn /\ k.id = call[t].id
            /\ k.todo = call[t].todo /\ k.closed = call[t].closed
            /\ k.requestIds = call[t].requestIds /\ k.writerIds = call[t].writerIds
            /\ k.then = call[t].then /\ k.keep = call[t].keep
<1>1. call \in [Threads -> Call] /\ call[t] \in Call
  BY DEF ServerType
<1>2. [call[t] EXCEPT !.at = point] \in Call
  BY <1>1 DEF Call
<1>3. call' = [call EXCEPT ![t] = [call[t] EXCEPT !.at = point]]
  BY <1>1 DEF Goto
<1> QED BY <1>1, <1>2, <1>3 DEF Call

\* Nobody else is inside accept.
LEMMA OnlyAcceptor ==
  ASSUME SingleAcceptor, HttpInv, NEW t \in Threads, Accepting(call[t]),
         NEW u \in Threads, u # t
  PROVE  ~Accepting(call[u])
BY DEF SingleAcceptor, HttpInv, Local, Placed

\* accept: the loop, the scan of idle connections and the listener's socket,
\* as far as no request is read.
LEMMA AcceptLooks ==
  ASSUME SingleAcceptor, HttpInv, NEW t \in Threads,
         AcceptLoop(t) \/ ScanIdle(t) \/ PollDone(t)
  PROVE  HttpInv'
<1> USE DEF At, listenVars, mapVars, slotVars, clientVars
<1>0. /\ ServerType /\ call[t] \in Call /\ Local(t, call[t]) /\ call \in [Threads -> Call]
      /\ connections \subseteq Conns /\ shut \in SUBSET Conns
  BY DEF HttpInv, ServerType, MapsType
<1>1. UNCHANGED <<shared, broken, ended, shut, wire>> /\ shut' \in SUBSET Conns /\ WireType'
  BY <1>0 DEF AcceptLoop, ScanIdle, PollDone, shared, ServerType, WireType
<1>2. t \in Acceptors /\ call[t].lst \in Listeners /\ call[t].at # "stopFlag"
  BY <1>0 DEF AcceptLoop, ScanIdle, PollDone, Local, Placed, Accepting, AcceptPoints
<1>3. CASE AcceptLoop(t)
  <2>1. CASE Return(t)
    BY <1>1, <1>2, <2>1, ReturnStep
  <2>2. CASE Goto(t, "scan")
    <3>1. "scan" \in Points
      BY DEF Points
    <3>2. PICK k \in Call : call' = [call EXCEPT ![t] = k] /\ k.at = "scan" /\ k.lst = call[t].lst
      BY <1>0, <2>2, <3>1, GotoCall
    <3> QED BY <1>1, <1>2, <3>2, QuietStep
  <2> QED BY <1>3, <2>1, <2>2 DEF AcceptLoop
<1>4. CASE ScanIdle(t)
  <2> DEFINE idle == {c \in connections :
                        dialled[c] = call[t].lst /\ InnerFree(c) /\ phase[c] = Idle}
  <2>1. idle \subseteq Conns
    BY <1>0
  <2>2. PICK k \in Call : /\ k = [call[t] EXCEPT !.at = "poll", !.closed = {}, !.todo = idle]
                          /\ call' = [call EXCEPT ![t] = k]
    <3>1. [call[t] EXCEPT !.at = "poll", !.closed = {}, !.todo = idle] \in Call
      BY <1>0, <2>1 DEF Call, Points
    <3>2. call' = [call EXCEPT ![t] = [call[t] EXCEPT !.at = "poll", !.closed = {}, !.todo = idle]]
      BY <1>0, <1>4 DEF ScanIdle
    <3> QED BY <3>1, <3>2
  <2>3. k.at = "poll" /\ k.closed = {} /\ k.todo = idle /\ k.lst = call[t].lst
    BY <1>0, <2>2 DEF Call
  <2>4. \A c \in idle : c \in connections /\ phase[c] = Idle
    OBVIOUS
  <2> HIDE DEF idle
  <2>5. Local(t, k)
    BY <1>2, <2>3, <2>4
    DEF HttpInv, UnacceptedIdle, Local, Placed, Accepting, OwnsToken, SeesIdle, DropsOwn,
        Accepted, StaysInPlace, InPlace, AcceptPoints, ReadPoints, RequestPoints,
        WriterPoints, ChunkPoints, StopPoints, DropPoints
  <2>6. \A m : Apart(k, m) /\ Apart(m, k)
    BY <2>3 DEF Apart, RequestPoints, WriterPoints, Writing, DropPoints
  <2> QED BY <1>1, <1>2, <2>2, <2>5, <2>6, LocalStep
<1>5. CASE PollDone(t)
  <2>1. PICK k \in Call : /\ k = [call[t] EXCEPT !.at = "drop", !.todo = call[t].closed, !.then = "tcp"]
                          /\ call' = [call EXCEPT ![t] = k]
    <3>1. [call[t] EXCEPT !.at = "drop", !.todo = call[t].closed, !.then = "tcp"] \in Call
      BY <1>0 DEF Call, Points
    <3>2. call' = [call EXCEPT ![t] = [call[t] EXCEPT !.at = "drop", !.todo = call[t].closed,
                                                       !.then = "tcp"]]
      BY <1>0, <1>5 DEF PollDone
    <3> QED BY <3>1, <3>2
  <2>2. k.at = "drop" /\ k.then = "tcp" /\ k.todo = call[t].closed /\ k.lst = call[t].lst
    BY <1>0, <2>1 DEF Call
  <2>3. \A c \in k.todo : phase[c] = Idle
    BY <1>0, <1>5, <2>2 DEF PollDone, Local, SeesIdle
  <2>4. Local(t, k)
    BY <1>2, <2>2, <2>3
    DEF Local, Placed, Accepting, OwnsToken, SeesIdle, DropsOwn, Dropping,
        Accepted, StaysInPlace, AcceptPoints, ReadPoints, RequestPoints,
        WriterPoints, ChunkPoints, StopPoints, DropPoints
  <2>5. \A m : Apart(k, m) /\ Apart(m, k)
    BY <2>2 DEF Apart, RequestPoints, WriterPoints, Writing
  <2> QED BY <1>1, <1>2, <2>1, <2>4, <2>5, LocalStep
<1> QED BY <1>3, <1>4, <1>5

\* Nobody owns the request or writer of an idle connection, or drops it as his.
LEMMA IdleIsFree ==
  ASSUME HttpInv, NEW c, phase[c] = Idle
  PROVE  /\ \A r \in requests \cup writers : origin[r] # c
         /\ \A u \in Threads :
              /\ call[u].at \in RequestPoints \cup WriterPoints \cup {"chunkWrite"} => call[u].conn # c
              /\ call[u].at \in DropPoints /\ call[u].then = "ready" => origin[call[u].id] # c
<1>1. \A r \in requests \cup writers : origin[r] # c
  BY PhasesDiffer DEF HttpInv, IndexPhases
<1>2. ASSUME NEW u \in Threads
      PROVE  /\ call[u].at \in RequestPoints \cup WriterPoints \cup {"chunkWrite"} => call[u].conn # c
             /\ call[u].at \in DropPoints /\ call[u].then = "ready" => origin[call[u].id] # c
  <2>1. OwnsToken(call[u]) /\ DropsOwn(call[u])
    BY DEF HttpInv, Local
  <2> QED BY <2>1, PhasesDiffer DEF OwnsToken, DropsOwn
<1> QED BY <1>1, <1>2

\* poll_idle_connection's turn at one slot.
LEMMA PollKeepsInv ==
  ASSUME SingleAcceptor, HttpInv, NEW t \in Threads, NEW c \in Conns, PollIdle(t, c)
  PROVE  HttpInv'
<1> USE DEF At, listenVars, mapVars, slotVars, clientVars
<1>0. /\ ServerType /\ call[t] \in Call /\ Local(t, call[t]) /\ call \in [Threads -> Call]
      /\ shut \in SUBSET Conns /\ Len(origin) \in Nat /\ origin \in Seq(Conns)
      /\ unread[c] \in Nat
  BY ServerTypeIsType DEF HttpInv, ServerType, MapsType
<1>1. /\ call[t].at = "poll" /\ c \in call[t].todo
      /\ UNCHANGED <<listeners, stopped, connections, requests, writers, dialled, backlog,
                     broken, ended, sent, wire>>
      /\ WireType'
  BY <1>0 DEF PollIdle, ServerType, WireType
<1>2. t \in Acceptors /\ call[t].lst \in Listeners /\ phase[c] = Idle /\ c \notin Unaccepted
      /\ InPlace(c)
  BY <1>0, <1>1 DEF Local, Placed, Accepting, AcceptPoints, SeesIdle, Accepted, StaysInPlace
<1>3. CASE /\ ReadRequest(c)
           /\ call' = [call EXCEPT ![t].at = "mark", ![t].conn = c,
                                   ![t].id = Len(origin'), ![t].todo = {}]
           /\ UNCHANGED <<phase, shut>>
  <2>1. Len(origin') \in Requests
    BY <1>0, <1>1, <1>3, ReadCounts
  <2>2. PICK k \in Call :
          /\ k = [call[t] EXCEPT !.at = "mark", !.conn = c, !.id = Len(origin'), !.todo = {}]
          /\ call' = [call EXCEPT ![t] = k]
    <3>1. [call[t] EXCEPT !.at = "mark", !.conn = c, !.id = Len(origin'), !.todo = {}] \in Call
      BY <1>0, <2>1 DEF Call, Points
    <3>2. call' = [call EXCEPT ![t] =
             [call[t] EXCEPT !.at = "mark", !.conn = c, !.id = Len(origin'), !.todo = {}]]
      BY <1>0, <1>3
    <3> QED BY <3>1, <3>2
  <2>3. k.at = "mark" /\ k.conn = c /\ k.id = Len(origin') /\ k.lst = call[t].lst
    BY <1>0, <2>2 DEF Call
  <2> QED BY <1>1, <1>2, <1>3, <2>2, <2>3, ReadStep
<1>4. ASSUME NEW gone \in BOOLEAN, PassOver(t, c, gone), UNCHANGED <<origin, phase, unread>>,
             shut' \in SUBSET Conns
      PROVE  HttpInv'
  <2> DEFINE found == IF gone THEN call[t].closed \cup {c} ELSE call[t].closed
  <2>1. PICK k \in Call : /\ k = [call[t] EXCEPT !.todo = call[t].todo \ {c}, !.closed = found]
                          /\ call' = [call EXCEPT ![t] = k]
    <3>1. [call[t] EXCEPT !.todo = call[t].todo \ {c}, !.closed = found] \in Call
      BY <1>0 DEF Call
    <3>2. call' = [call EXCEPT ![t] = [call[t] EXCEPT !.todo = call[t].todo \ {c}, !.closed = found]]
      BY <1>0, <1>4 DEF PassOver
    <3> QED BY <3>1, <3>2
  <2>2. /\ k.at = "poll" /\ k.lst = call[t].lst /\ k.todo = call[t].todo \ {c}
        /\ k.closed \subseteq call[t].closed \cup {c}
    BY <1>0, <1>1, <2>1 DEF Call
  <2> HIDE DEF found
  <2>3. k.todo \cup k.closed \subseteq call[t].todo \cup call[t].closed
    BY <1>1, <2>2
  <2>4. /\ \A d \in k.todo \cup k.closed : phase[d] = Idle /\ d \notin Unaccepted
        /\ \A d \in k.todo : InPlace(d)
    BY <1>0, <1>1, <2>2, <2>3 DEF Local, SeesIdle, Accepted, StaysInPlace
  <2>5. Local(t, k)
    BY <1>2, <2>2, <2>4
    DEF Local, Placed, Accepting, OwnsToken, SeesIdle, DropsOwn, Accepted, StaysInPlace,
        AcceptPoints, ReadPoints, RequestPoints, WriterPoints, ChunkPoints, StopPoints,
        DropPoints
  <2>6. k.at \notin RequestPoints \cup WriterPoints \cup Writing \cup DropPoints
    BY <2>2 DEF RequestPoints, WriterPoints, Writing, DropPoints
  <2>7. \A m : Apart(k, m) /\ Apart(m, k)
    BY <2>6 DEF Apart
  <2> QED BY <1>1, <1>4, <2>1, <2>5, <2>7, LocalStep DEF shared
<1>5. ASSUME Return(t), UNCHANGED <<origin, phase, shut, unread>> PROVE HttpInv'
  BY <1>0, <1>1, <1>5, ReturnStep DEF shared
<1>6. CASE phase[c] = Idle /\ unread[c] = 0 /\ c \notin broken
  BY <1>0, <1>2, <1>3, <1>4, <1>5, <1>6 DEF PollIdle, ReadRequest
<1> QED
  BY <1>0, <1>2, <1>3, <1>5, <1>6 DEF PollIdle

\* The connection read from becomes pending for the request, under its mutex
\* (mark) or when it is registered (insert).
LEMMA PendingKeepsInv ==
  ASSUME SingleAcceptor, HttpInv, NEW t \in Threads, MarkPending(t) \/ AdmitInsert(t)
  PROVE  HttpInv'
<1> USE DEF At, listenVars, mapVars, slotVars, clientVars
<1>0. /\ ServerType /\ call[t] \in Call /\ Local(t, call[t]) /\ call \in [Threads -> Call]
      /\ shut \in SUBSET Conns
      /\ \A i \in 1..Len(origin) : origin[i] \in Conns /\ i \in Requests
      /\ phase \in [Conns -> Phase]
  BY ServerTypeIsType DEF HttpInv, ServerType, MapsType
<1>1. /\ call[t].at \in {"mark", "insert"} /\ Goto(t, "index")
      /\ phase' = [phase EXCEPT ![call[t].conn] = Pending(call[t].id)]
      /\ connections' = IF call[t].at = "insert" THEN connections \cup {call[t].conn} ELSE connections
      /\ UNCHANGED <<listeners, stopped, requests, writers, origin, shut, clientVars, wire>>
  BY DEF MarkPending, AdmitInsert
<1>2. PICK c \in Conns, r \in Requests :
        /\ c = call[t].conn /\ r = call[t].id /\ r \in 1..Len(origin) /\ c = origin[r]
        /\ t \in Acceptors /\ call[t].lst \in Listeners
        /\ phase[c] = Idle /\ c \notin Unaccepted
        /\ call[t].at = "mark" => InPlace(c)
  BY <1>0, <1>1 DEF Local, Placed, Accepting, AcceptPoints, ReadPoints, SeesIdle, Accepted,
                    StaysInPlace
<1>3. PICK k \in Call : call' = [call EXCEPT ![t] = k] /\ k.at = "index"
                        /\ k.conn = c /\ k.id = r /\ k.lst = call[t].lst
  <2>1. "index" \in Points /\ Goto(t, "index") /\ call[t].conn = c /\ call[t].id = r
    BY <1>1, <1>2 DEF Points
  <2>2. PICK k \in Call : call' = [call EXCEPT ![t] = k] /\ k.at = "index"
                          /\ k.conn = call[t].conn /\ k.id = call[t].id /\ k.lst = call[t].lst
    BY <1>0, <2>1, GotoCall
  <2> QED BY <2>1, <2>2
<1>4. /\ \A q \in requests \cup writers : origin[q] # c
      /\ \A u \in Threads :
            /\ call[u].at \in RequestPoints \cup WriterPoints \cup {"chunkWrite"} => call[u].conn # c
            /\ call[u].at \in DropPoints /\ call[u].then = "ready" => origin[call[u].id] # c
  BY <1>2, IdleIsFree
<1>5. \A u \in Threads : u # t => ~Accepting(call[u])
  <2>1. Accepting(call[t])
    BY <1>1 DEF Accepting, AcceptPoints
  <2> QED BY <2>1, OnlyAcceptor
<1>6. /\ phase'[c] = Pending(r) /\ r \notin requests /\ Pending(r) \in Phase /\ InPlace(c)'
      /\ WireType' /\ shut' \in SUBSET Conns
  BY <1>0, <1>1, <1>2, <1>4 DEF Phase, InPlace, ServerType, WireType
<1>7. Local(t, k)'
  <2>1. /\ k.at \in AcceptPoints \cap RequestPoints
        /\ k.at \notin ReadPoints \cup WriterPoints \cup StopPoints \cup DropPoints
        /\ k.at \notin {"read", "forget", "forgetRequest", "forgetWriter", "stopCollect",
                        "chunkWrite", "poll"}
    BY <1>3 DEF AcceptPoints, RequestPoints, ReadPoints, WriterPoints, StopPoints, DropPoints
  <2>2. Placed(t, k)'
    BY <1>1, <1>2, <1>3, <2>1 DEF Placed, Accepting
  <2>3. OwnsToken(k)' /\ SeesIdle(k)' /\ DropsOwn(k)'
    BY <1>1, <1>3, <1>6, <2>1 DEF OwnsToken, SeesIdle, DropsOwn
  <2>4. Accepted(k)' /\ StaysInPlace(k)'
    BY <1>3, <1>6, <2>1 DEF Accepted, StaysInPlace
  <2> QED BY <2>2, <2>3, <2>4 DEF Local
<1>8. ASSUME NEW u \in Threads, u # t PROVE Apart(k, call[u]) /\ Apart(call[u], k)
  <2>1. call[u].at \in RequestPoints => call[u].id # r
    BY <1>2, <1>4 DEF HttpInv, Local, Placed
  <2> QED BY <1>3, <1>4, <2>1 DEF Apart, WriterPoints, Writing, DropPoints
<1> QED
  BY <1>1, <1>2, <1>3, <1>4, <1>5, <1>6, <1>7, <1>8, PhaseStep

\* A call that has returned owns nothing.
LEMMA ReadyFits ==
  ASSUME NEW t
  PROVE  /\ Ready \in Call /\ Local(t, Ready) /\ Local(t, Ready)'
         /\ \A m : Apart(Ready, m) /\ Apart(m, Ready) /\ Apart(Ready, m)' /\ Apart(m, Ready)'
<1>1. Ready \in Call /\ Ready.at = "ready"
  BY DEF Ready, Call, Points
<1>2. /\ Ready.at \notin AcceptPoints \cup ReadPoints \cup RequestPoints \cup WriterPoints
                           \cup ChunkPoints \cup DropPoints \cup StopPoints \cup Writing
      /\ Ready.at \notin {"read", "forget", "forgetRequest", "forgetWriter", "stopCollect",
                          "chunkWrite", "poll", "mark", "index", "openLook", "openHead",
                          "openIndex"}
  BY <1>1 DEF AcceptPoints, ReadPoints, RequestPoints, WriterPoints, ChunkPoints,
              DropPoints, StopPoints, Writing
<1> QED
  BY <1>1, <1>2 DEF Local, Placed, Accepting, OwnsToken, SeesIdle, DropsOwn, Accepted,
                    StaysInPlace, Apart

\* accept and respond_open give their request or writer to its index and return:
\* nobody else owns it, or drops its connection.
LEMMA IndexKeepsInv ==
  ASSUME HttpInv, NEW t \in Threads, IndexRequest(t) \/ OpenIndex(t)
  PROVE  HttpInv'
<1> USE DEF At, listenVars, mapVars, slotVars, clientVars
<1>0. /\ ServerType /\ call[t] \in Call /\ Local(t, call[t]) /\ call \in [Threads -> Call]
      /\ Ready \in Call /\ Ready.at = "ready"
  BY DEF HttpInv, ServerType, Ready, Call, Points
<1>1. /\ call[t].at \in {"index", "openIndex"}
      /\ call' = [call EXCEPT ![t] = Ready]
      /\ requests' = IF call[t].at = "index" THEN requests \cup {call[t].id} ELSE requests
      /\ writers' = IF call[t].at = "openIndex" THEN writers \cup {call[t].id} ELSE writers
      /\ UNCHANGED <<listeners, stopped, connections, origin, phase, shut, dialled, backlog,
                     unread, broken, ended, sent, wire>>
  BY DEF IndexRequest, OpenIndex, Return
<1>2. /\ call[t].id \in 1..Len(origin) /\ call[t].conn = origin[call[t].id]
      /\ InPlace(call[t].conn)
      /\ call[t].at = "index" => phase[call[t].conn] = Pending(call[t].id)
      /\ call[t].at = "openIndex" => phase[call[t].conn] = Streaming(call[t].id)
      /\ call[t].at = "index" => call[t].at \in RequestPoints
      /\ call[t].at = "openIndex" => call[t].at \in WriterPoints
  BY <1>0, <1>1 DEF Local, Placed, OwnsToken, StaysInPlace, RequestPoints, WriterPoints
<1>3. /\ call'[t] = Ready /\ \A u \in Threads : u # t => call'[u] = call[u]
      /\ call' \in [Threads -> Call]
  BY <1>0, <1>1
<1>4. ServerType'
  <2>1. MapsType'
    BY <1>0, <1>1, <1>2 DEF ServerType, MapsType
  <2>2. WireType' /\ RequestsCounted'
    BY <1>0, <1>1 DEF ServerType, WireType, RequestsCounted, Unread
  <2> QED BY <1>3, <2>1, <2>2 DEF ServerType
<1>5. IndexPhases'
  BY <1>1, <1>2 DEF HttpInv, IndexPhases, InPlace
<1>6. UnacceptedIdle' /\ DialledOnce'
  BY <1>1, <1>3 DEF HttpInv, UnacceptedIdle, Unaccepted, DialledOnce
<1>7. Local(t, Ready)' /\ \A m : Apart(Ready, m)' /\ Apart(m, Ready)'
  BY ReadyFits
<1>8. ASSUME NEW u \in Threads, NEW m \in Call, u # t, m = call[u] PROVE Local(u, m)'
  <2>0. Local(u, m) /\ Apart(call[t], m) /\ Apart(m, call[t])
    BY <1>8 DEF HttpInv
  <2>1. Placed(u, m)'     BY <1>1, <2>0 DEF Local, Placed
  <2>2. OwnsToken(m)'     BY <1>1, <1>2, <2>0 DEF Local, OwnsToken, Apart
  <2>3. SeesIdle(m)'      BY <1>1, <2>0 DEF Local, SeesIdle
  <2>4. DropsOwn(m)'
    <3>1. m.at \in DropPoints /\ m.then = "ready" => call[t].conn # origin[m.id]
      BY <1>1, <1>2, <2>0 DEF Apart
    <3> QED BY <1>1, <1>2, <2>0, <3>1 DEF Local, DropsOwn
  <2>5. Accepted(m)'      BY <1>1, <2>0 DEF Local, Accepted, Unaccepted
  <2>6. StaysInPlace(m)'  BY <1>1, <2>0 DEF Local, StaysInPlace, InPlace
  <2> QED BY <2>1, <2>2, <2>3, <2>4, <2>5, <2>6 DEF Local
<1>9. \A u, v \in Threads, m, n \in Call :
         u # v /\ u # t /\ v # t /\ m = call[u] /\ n = call[v] => Apart(m, n)'
  BY <1>1 DEF HttpInv, Apart
<1>10. \A u \in Threads, m \in Call : u # t /\ m = call[u] =>
         Local(u, m)' /\ Apart(Ready, m)' /\ Apart(m, Ready)'
  BY <1>7, <1>8
<1> QED BY <1>0, <1>1, <1>4, <1>5, <1>6, <1>7, <1>9, <1>10, Assemble

\* accept takes a connection from the socket's backlog: it is idle, and from now
\* on nobody's but the acceptor's.
LEMMA TcpKeepsInv ==
  ASSUME SingleAcceptor, HttpInv, NEW t \in Threads, TcpAccept(t)
  PROVE  HttpInv'
<1> USE DEF At, listenVars, mapVars, slotVars, clientVars
<1>0. /\ ServerType /\ call[t] \in Call /\ Local(t, call[t]) /\ call \in [Threads -> Call]
      /\ shut \in SUBSET Conns /\ backlog \subseteq Conns
  BY DEF HttpInv, ServerType, MapsType
<1>1. /\ call[t].at = "tcp"
      /\ UNCHANGED <<listeners, stopped, connections, requests, writers, origin, phase, shut,
                     dialled, unread, broken, ended, sent, wire>>
      /\ WireType' /\ shut' \in SUBSET Conns
  BY <1>0 DEF TcpAccept, ServerType, WireType
<1>2. t \in Acceptors /\ call[t].lst \in Listeners
  BY <1>0, <1>1 DEF Local, Placed, Accepting, AcceptPoints
<1>3. ASSUME UNCHANGED backlog, Goto(t, "loop") \/ Return(t) PROVE HttpInv'
  <2>0. UNCHANGED <<shared, broken, ended>>
    BY <1>1, <1>3 DEF shared
  <2>1. CASE Return(t)
    BY <1>1, <2>0, <2>1, ReturnStep
  <2>2. CASE Goto(t, "loop")
    <3>1. "loop" \in Points
      BY DEF Points
    <3>2. PICK k \in Call : call' = [call EXCEPT ![t] = k] /\ k.at = "loop" /\ k.lst = call[t].lst
      BY <1>0, <2>2, <3>1, GotoCall
    <3> QED BY <1>1, <1>2, <2>0, <3>2, QuietStep
  <2> QED BY <1>3, <2>1, <2>2
<1>4. ASSUME NEW c \in backlog, dialled[c] = call[t].lst, backlog' = backlog \ {c},
             call' = [call EXCEPT ![t].at = "read", ![t].conn = c]
      PROVE  HttpInv'
  <2>1. PICK k \in Call : /\ k = [call[t] EXCEPT !.at = "read", !.conn = c]
                          /\ call' = [call EXCEPT ![t] = k]
    <3>1. [call[t] EXCEPT !.at = "read", !.conn = c] \in Call
      BY <1>0, <1>4 DEF Call, Points
    <3>2. call' = [call EXCEPT ![t] = [call[t] EXCEPT !.at = "read", !.conn = c]]
      BY <1>0, <1>4
    <3> QED BY <3>1, <3>2
  <2>2. k.at = "read" /\ k.conn = c /\ k.lst = call[t].lst
    BY <1>0, <2>1 DEF Call
  <2>3. c \in Conns /\ c \in Unaccepted /\ phase[c] = Idle /\ dialled[c] # NoListener
    BY <1>0, <1>2, <1>4, NoListenerAssumption DEF HttpInv, UnacceptedIdle, Unaccepted
  <2>4. c \notin Unaccepted' /\ Unaccepted' \subseteq Unaccepted
    BY <1>1, <1>4, <2>3 DEF Unaccepted
  <2>5. /\ call'[t] = k /\ \A u \in Threads : u # t => call'[u] = call[u]
        /\ call' \in [Threads -> Call]
    BY <1>0, <2>1
  <2>6. ServerType'
    <3>1. MapsType'
      BY <1>0, <1>1, <1>4 DEF ServerType, MapsType
    <3>2. RequestsCounted'
      BY <1>0, <1>1 DEF ServerType, RequestsCounted, Unread
    <3> QED BY <1>1, <2>5, <3>1, <3>2 DEF ServerType
  <2>7. IndexPhases'
    BY <1>1 DEF HttpInv, IndexPhases, InPlace
  <2>8. UnacceptedIdle'
    BY <1>1, <1>4, <2>4 DEF HttpInv, UnacceptedIdle
  <2>9. DialledOnce'
    BY <1>1, <2>5 DEF HttpInv, DialledOnce
  <2>10. Local(t, k)' /\ \A m : Apart(k, m)' /\ Apart(m, k)'
    <3>1. /\ k.at \in AcceptPoints
          /\ k.at \notin ReadPoints \cup RequestPoints \cup WriterPoints
                               \cup ChunkPoints \cup DropPoints \cup StopPoints \cup Writing
          /\ k.at \notin {"forget", "forgetRequest", "forgetWriter", "stopCollect",
                          "chunkWrite", "poll", "mark", "index", "openLook", "openHead",
                          "openIndex"}
      BY <2>2 DEF AcceptPoints, ReadPoints, RequestPoints, WriterPoints, ChunkPoints,
                  DropPoints, StopPoints, Writing
    <3>2. phase'[k.conn] = Idle /\ k.conn \notin Unaccepted' /\ k.conn \in Conns
      BY <1>1, <2>2, <2>3, <2>4
    <3>3. Placed(t, k)'
      BY <1>2, <2>2, <3>1, <3>2 DEF Placed, Accepting
    <3>4. OwnsToken(k)' /\ SeesIdle(k)' /\ DropsOwn(k)'
      BY <3>1, <3>2 DEF OwnsToken, SeesIdle, DropsOwn
    <3>5. Accepted(k)' /\ StaysInPlace(k)'
      BY <3>1, <3>2 DEF Accepted, StaysInPlace
    <3>6. \A m : Apart(k, m)' /\ Apart(m, k)'
      BY <3>1 DEF Apart
    <3> QED BY <3>3, <3>4, <3>5, <3>6 DEF Local
  <2>11. ASSUME NEW u \in Threads, NEW m \in Call, u # t, m = call[u] PROVE Local(u, m)'
    <3>0. Local(u, m)
      BY <2>11 DEF HttpInv
    <3>1. Placed(u, m)'     BY <1>1, <3>0 DEF Local, Placed
    <3>2. OwnsToken(m)'     BY <1>1, <3>0 DEF Local, OwnsToken
    <3>3. SeesIdle(m)'      BY <1>1, <3>0 DEF Local, SeesIdle
    <3>4. DropsOwn(m)'      BY <1>1, <3>0 DEF Local, DropsOwn
    <3>5. Accepted(m)'      BY <2>4, <3>0 DEF Local, Accepted
    <3>6. StaysInPlace(m)'  BY <1>1, <3>0 DEF Local, StaysInPlace, InPlace
    <3> QED BY <3>1, <3>2, <3>3, <3>4, <3>5, <3>6 DEF Local
  <2>12. \A u, v \in Threads, m, n \in Call :
           u # v /\ u # t /\ v # t /\ m = call[u] /\ n = call[v] => Apart(m, n)'
    BY <1>1 DEF HttpInv, Apart
  <2>13. \A u \in Threads, m \in Call : u # t /\ m = call[u] =>
           Local(u, m)' /\ Apart(k, m)' /\ Apart(m, k)'
    BY <2>10, <2>11
  <2> QED BY <1>0, <2>1, <2>6, <2>7, <2>8, <2>9, <2>10, <2>12, <2>13, Assemble
<1> QED BY <1>3, <1>4 DEF TcpAccept

\* The first request of a connection just accepted, and its admission.
LEMMA AdmitKeepsInv ==
  ASSUME SingleAcceptor, HttpInv, NEW t \in Threads, AdmitRead(t) \/ AdmitCheck(t)
  PROVE  HttpInv'
<1> USE DEF At, listenVars, mapVars, slotVars, clientVars
<1>0. /\ ServerType /\ call[t] \in Call /\ Local(t, call[t]) /\ call \in [Threads -> Call]
      /\ shut \in SUBSET Conns
      /\ \A i \in 1..Len(origin) : origin[i] \in Conns
  BY ServerTypeIsType DEF HttpInv, ServerType, MapsType
<1>1. /\ call[t].at \in {"read", "admit"}
      /\ UNCHANGED <<listeners, stopped, connections, requests, writers, phase,
                     dialled, backlog, broken, ended, sent, wire>>
      /\ WireType'
  BY <1>0 DEF AdmitRead, AdmitCheck, ServerType, WireType
<1>2. PICK c \in Conns :
        /\ c = call[t].conn /\ t \in Acceptors /\ call[t].lst \in Listeners
        /\ phase[c] = Idle /\ c \notin Unaccepted
        /\ call[t].at = "admit" => call[t].id \in 1..Len(origin) /\ c = origin[call[t].id]
  BY <1>0, <1>1 DEF Local, Placed, Accepting, AcceptPoints, SeesIdle, Accepted, ReadPoints
<1>3. ASSUME UNCHANGED <<origin, unread>>, shut' = shut \cup {call[t].conn},
             Goto(t, "loop") \/ Return(t)
      PROVE  HttpInv'
  <2>0. UNCHANGED <<shared, broken, ended>> /\ shut' \in SUBSET Conns
    BY <1>0, <1>1, <1>2, <1>3 DEF shared
  <2>1. CASE Return(t)
    BY <1>1, <2>0, <2>1, ReturnStep
  <2>2. CASE Goto(t, "loop")
    <3>1. "loop" \in Points
      BY DEF Points
    <3>2. PICK k \in Call : call' = [call EXCEPT ![t] = k] /\ k.at = "loop" /\ k.lst = call[t].lst
      BY <1>0, <2>2, <3>1, GotoCall
    <3> QED BY <1>1, <1>2, <2>0, <3>2, QuietStep
  <2> QED BY <1>3, <2>1, <2>2
<1>4. ASSUME call[t].at = "read", ReadRequest(c), UNCHANGED shut,
             call' = [call EXCEPT ![t].at = "admit", ![t].id = Len(origin')]
      PROVE  HttpInv'
  <2>1. Len(origin') \in Requests
    BY <1>0, <1>1, <1>4, ReadCounts
  <2>2. PICK k \in Call : /\ k = [call[t] EXCEPT !.at = "admit", !.id = Len(origin')]
                          /\ call' = [call EXCEPT ![t] = k]
    <3>1. [call[t] EXCEPT !.at = "admit", !.id = Len(origin')] \in Call
      BY <1>0, <2>1 DEF Call, Points
    <3>2. call' = [call EXCEPT ![t] = [call[t] EXCEPT !.at = "admit", !.id = Len(origin')]]
      BY <1>0, <1>4
    <3> QED BY <3>1, <3>2
  <2>3. k.at = "admit" /\ k.conn = c /\ k.id = Len(origin') /\ k.lst = call[t].lst
    BY <1>0, <1>2, <2>2 DEF Call
  <2> QED BY <1>1, <1>2, <1>4, <2>2, <2>3, ReadStep
<1>5. ASSUME call[t].at = "admit", Goto(t, "insert"), UNCHANGED <<origin, unread, shut>>
      PROVE  HttpInv'
  <2>0. UNCHANGED <<shared, broken, ended>> /\ shut' \in SUBSET Conns
    BY <1>0, <1>1, <1>5 DEF shared
  <2>1. "insert" \in Points
    BY DEF Points
  <2>2. PICK k \in Call : /\ call' = [call EXCEPT ![t] = k] /\ k.at = "insert"
                          /\ k.lst = call[t].lst /\ k.conn = call[t].conn /\ k.id = call[t].id
    BY <1>0, <1>5, <2>1, GotoCall
  <2>3. /\ k.at \in AcceptPoints \cap ReadPoints
        /\ k.at \notin RequestPoints \cup WriterPoints
                             \cup ChunkPoints \cup DropPoints \cup StopPoints \cup Writing
        /\ k.at \notin {"read", "forget", "forgetRequest", "forgetWriter", "stopCollect",
                        "chunkWrite", "poll", "mark", "index", "openLook", "openHead",
                        "openIndex"}
    BY <2>2 DEF AcceptPoints, ReadPoints, RequestPoints, WriterPoints, ChunkPoints,
                DropPoints, StopPoints, Writing
  <2>4. Local(t, k)
    BY <1>2, <1>5, <2>2, <2>3 DEF Local, Placed, Accepting, OwnsToken, SeesIdle, DropsOwn,
                                  Accepted, StaysInPlace
  <2>5. \A m : Apart(k, m) /\ Apart(m, k)
    BY <2>3 DEF Apart
  <2> QED BY <1>1, <2>0, <2>2, <2>4, <2>5, LocalStep
<1>6. CASE AdmitRead(t)
  BY <1>2, <1>3, <1>4, <1>6 DEF AdmitRead
<1>7. CASE AdmitCheck(t)
  BY <1>3, <1>5, <1>7 DEF AdmitCheck
<1> QED BY <1>6, <1>7

\* The numbers a slot's phase holds are requests'.
LEMMA PhaseIds ==
  ASSUME NEW p \in Phase
  PROVE  RequestOf(p) \subseteq Requests /\ WriterOf(p) \subseteq Requests
BY PhasesDiffer DEF Phase, RequestOf, WriterOf

\* A step of drop_connection: what it takes out of the maps nobody else owns.
LEMMA DropStep ==
  ASSUME SingleAcceptor, HttpInv, NEW t \in Threads, NEW k \in Call,
         call' = [call EXCEPT ![t] = k],
         UNCHANGED <<listenVars, slotVars, clientVars, wire>>,
         requests' \subseteq requests, writers' \subseteq writers,
         connections' \subseteq connections,
         connections \ connections' \subseteq Dropping(call[t]),
         call[t].at \in DropPoints, k.at \in DropPoints,
         k.lst = call[t].lst, k.then = call[t].then, k.id = call[t].id,
         Dropping(k) \subseteq Dropping(call[t]), k.at # "drop" => k.conn \in Conns
  PROVE  HttpInv'
<1> USE DEF listenVars, slotVars, clientVars
<1>0. /\ ServerType /\ call[t] \in Call /\ Local(t, call[t]) /\ call \in [Threads -> Call]
      /\ shut \in SUBSET Conns /\ call[t].then \in {"ready", "tcp"}
  BY DEF HttpInv, ServerType, MapsType, Call
<1>1. ASSUME NEW c \in connections \ connections'
      PROVE  /\ \A r \in requests' \cup writers' : origin[r] # c
             /\ \A u \in Threads : u # t =>
                  /\ call[u].at \in {"mark", "index", "openLook", "openHead", "openIndex"} =>
                       call[u].conn # c
                  /\ call[u].at = "poll" => c \notin call[u].todo
  <2>1. c \in Dropping(call[t])
    OBVIOUS
  <2>2. CASE call[t].then = "tcp"
    <3>1. phase[c] = Idle
      BY <1>0, <2>1, <2>2 DEF Local, SeesIdle
    <3>2. Accepting(call[t])
      BY <2>2 DEF Accepting
    <3>3. \A u \in Threads : u # t => call[u].at \notin AcceptPoints
      BY <3>2, OnlyAcceptor DEF Accepting
    <3>4. /\ \A r \in requests \cup writers : origin[r] # c
          /\ \A u \in Threads : call[u].at \in RequestPoints \cup WriterPoints => call[u].conn # c
      BY <3>1, IdleIsFree
    <3> QED BY <3>3, <3>4 DEF AcceptPoints, RequestPoints, WriterPoints
  <2>3. CASE call[t].then = "ready"
    <3>1. /\ c = origin[call[t].id] /\ phase[c] # Idle
          /\ \A r \in requests \cup writers : origin[r] # c
      BY <1>0, <2>1, <2>3 DEF Local, DropsOwn
    <3>2. ASSUME NEW u \in Threads, u # t
          PROVE  /\ call[u].at \in {"mark", "index", "openLook", "openHead", "openIndex"} =>
                       call[u].conn # c
                 /\ call[u].at = "poll" => c \notin call[u].todo
      <4>1. Apart(call[t], call[u]) /\ SeesIdle(call[u])
        BY <3>2 DEF HttpInv, Local
      <4>2. call[u].at \in RequestPoints \cup WriterPoints => call[u].conn # c
        BY <2>3, <3>1, <4>1 DEF Apart
      <4> QED BY <3>1, <4>1, <4>2 DEF SeesIdle, ReadPoints, RequestPoints, WriterPoints
    <3> QED BY <3>1, <3>2
  <2> QED BY <1>0, <2>2, <2>3
<1>2. /\ k.at \notin AcceptPoints \cup ReadPoints \cup RequestPoints \cup WriterPoints
                         \cup ChunkPoints \cup StopPoints \cup Writing
      /\ k.at \notin {"read", "stopCollect", "chunkWrite", "poll", "mark", "index",
                      "openLook", "openHead", "openIndex"}
  BY DEF AcceptPoints, ReadPoints, RequestPoints, WriterPoints, ChunkPoints,
         DropPoints, StopPoints, Writing
<1>3. Local(t, k)'
  <2>1. Placed(t, k)'
    BY <1>0, <1>2 DEF Local, Placed, Accepting
  <2>2. OwnsToken(k)' /\ Accepted(k)' /\ StaysInPlace(k)'
    BY <1>2 DEF OwnsToken, Accepted, StaysInPlace
  <2>3. SeesIdle(k)'
    BY <1>0, <1>2 DEF Local, SeesIdle
  <2>4. DropsOwn(k)'
    BY <1>0 DEF Local, DropsOwn
  <2> QED BY <2>1, <2>2, <2>3, <2>4 DEF Local
<1>4. ASSUME NEW u \in Threads, u # t PROVE Apart(k, call[u]) /\ Apart(call[u], k)
  <2>1. Apart(call[t], call[u])
    BY <1>4 DEF HttpInv
  <2> QED BY <1>2, <2>1 DEF Apart
<1>5. shut' \in SUBSET Conns /\ call[t].at # "stopFlag"
  BY <1>0 DEF DropPoints
<1>6. \A c \in connections \ connections' : dialled[c] \in listeners =>
            /\ \A r \in requests' \cup writers' : origin[r] # c
            /\ \A u \in Threads : u # t =>
                /\ call[u].at \in {"mark", "index", "openLook", "openHead", "openIndex"} =>
                     call[u].conn # c
                /\ call[u].at = "poll" => c \notin call[u].todo
  BY <1>1
<1>7. \A u \in Threads : u # t => Apart(k, call[u]) /\ Apart(call[u], k)
  BY <1>4
<1> HIDE DEF listenVars, slotVars
<1> QED BY <1>3, <1>5, <1>6, <1>7, ShrinkStep DEF listenVars, slotVars

\* drop_connection and forget_connection_indexes.
LEMMA DropsKeepInv ==
  ASSUME SingleAcceptor, HttpInv, NEW t \in Threads,
         DropConnection(t) \/ ForgetRead(t) \/ ForgetRequest(t) \/ ForgetWriter(t)
  PROVE  HttpInv'
<1> USE DEF At, mapVars
<1>0. /\ ServerType /\ call[t] \in Call /\ Local(t, call[t]) /\ call \in [Threads -> Call]
      /\ shut \in SUBSET Conns /\ call[t].then \in {"ready", "tcp"}
      /\ call[t].todo \subseteq Conns /\ phase \in [Conns -> Phase]
  BY DEF HttpInv, ServerType, MapsType, Call
<1>1. /\ UNCHANGED <<listenVars, slotVars, clientVars, wire>>
      /\ call[t].at \in DropPoints
  BY DEF DropConnection, ForgetRead, ForgetRequest, RemoveRequests, ForgetWriter, DropPoints
<1>2. CASE DropConnection(t)
  <2>1. ASSUME NEW c \in call[t].todo, connections' = connections \ {c},
               call' = [call EXCEPT ![t].todo = @ \ {c}, ![t].conn = c,
                          ![t].at = IF c \in connections THEN "forget" ELSE "drop"]
        PROVE  HttpInv'
    <3> DEFINE point == IF c \in connections THEN "forget" ELSE "drop"
    <3>1. point \in {"forget", "drop"} /\ c \in Conns
      BY <1>0
    <3>2. call' = [call EXCEPT ![t] = [call[t] EXCEPT !.todo = call[t].todo \ {c}, !.conn = c,
                                                      !.at = point]]
      BY <1>0, <2>1
    <3> HIDE DEF point
    <3>3. [call[t] EXCEPT !.todo = call[t].todo \ {c}, !.conn = c, !.at = point] \in Call
      BY <1>0, <3>1 DEF Call, Points
    <3>4. PICK k \in Call :
            /\ k = [call[t] EXCEPT !.todo = call[t].todo \ {c}, !.conn = c, !.at = point]
            /\ call' = [call EXCEPT ![t] = k]
      BY <3>2, <3>3
    <3>5. /\ k.at = point /\ k.todo = call[t].todo \ {c} /\ k.conn = c /\ k.lst = call[t].lst
          /\ k.then = call[t].then /\ k.id = call[t].id
      BY <1>0, <3>4 DEF Call
    <3>6. Dropping(k) \subseteq Dropping(call[t]) /\ c \in Dropping(call[t])
          /\ k.at \in DropPoints
      BY <1>2, <2>1, <3>1, <3>5 DEF Dropping, DropConnection, DropPoints
    <3>7. requests' = requests /\ writers' = writers
      BY <1>2 DEF DropConnection
    <3> QED BY <1>1, <2>1, <3>1, <3>4, <3>5, <3>6, <3>7, DropStep
  <2>2. CASE /\ call[t].todo = {}
             /\ IF call[t].then = "ready" THEN Return(t) ELSE Goto(t, call[t].then)
             /\ UNCHANGED connections
    <3>0. /\ UNCHANGED <<shared, broken, ended>> /\ shut' \in SUBSET Conns /\ WireType'
          /\ call[t].at # "stopFlag"
      BY <1>0, <1>1, <1>2, <2>2
      DEF shared, DropConnection, listenVars, slotVars, clientVars, ServerType, WireType, DropPoints
    <3>1. CASE call[t].then = "ready"
      BY <2>2, <3>0, <3>1, ReturnStep
    <3>2. CASE call[t].then = "tcp"
      <4>1. "tcp" \in Points /\ Goto(t, "tcp")
        BY <2>2, <3>2 DEF Points
      <4>2. PICK k \in Call : call' = [call EXCEPT ![t] = k] /\ k.at = "tcp" /\ k.lst = call[t].lst
        BY <1>0, <4>1, GotoCall
      <4>3. t \in Acceptors /\ call[t].lst \in Listeners
        BY <1>0, <1>1, <3>2 DEF Local, Placed, Accepting
      <4> QED BY <3>0, <4>2, <4>3, QuietStep
    <3> QED BY <1>0, <3>1, <3>2
  <2> QED BY <1>2, <2>1, <2>2 DEF DropConnection
<1>3. CASE ForgetRead(t)
  <2> DEFINE p == phase[call[t].conn]
             rs == RequestOf(p)
             ws == WriterOf(p)
  <2>1. call[t].at = "forget" /\ call[t].conn \in Conns
    BY <1>0, <1>3 DEF ForgetRead, Local, Placed
  <2>2. rs \subseteq Requests /\ ws \subseteq Requests
    BY <1>0, <2>1, PhaseIds
  <2>3. call' = [call EXCEPT ![t] = [call[t] EXCEPT !.at = "forgetRequest", !.requestIds = rs,
                                                    !.writerIds = ws]]
    BY <1>0, <1>3 DEF ForgetRead
  <2> HIDE DEF rs, ws
  <2>4. [call[t] EXCEPT !.at = "forgetRequest", !.requestIds = rs, !.writerIds = ws] \in Call
    BY <1>0, <2>2 DEF Call, Points
  <2>5. PICK k \in Call :
          /\ k = [call[t] EXCEPT !.at = "forgetRequest", !.requestIds = rs, !.writerIds = ws]
          /\ call' = [call EXCEPT ![t] = k]
    BY <2>3, <2>4
  <2>6. /\ k.at = "forgetRequest" /\ k.todo = call[t].todo /\ k.conn = call[t].conn
        /\ k.lst = call[t].lst /\ k.then = call[t].then /\ k.id = call[t].id
    BY <1>0, <2>5 DEF Call
  <2>7. Dropping(k) \subseteq Dropping(call[t]) /\ k.at \in DropPoints
    BY <2>1, <2>6 DEF Dropping, DropPoints
  <2>8. UNCHANGED <<connections, requests, writers>>
    BY <1>3 DEF ForgetRead
  <2> QED BY <1>1, <2>1, <2>5, <2>6, <2>7, <2>8, DropStep
<1>4. ASSUME NEW point \in {"forgetWriter", "drop"}, Goto(t, point),
             call[t].at \in {"forgetRequest", "forgetWriter"},
             UNCHANGED connections, requests' \subseteq requests, writers' \subseteq writers
      PROVE  HttpInv'
  <2>1. point \in Points /\ call[t].conn \in Conns
    BY <1>0, <1>4 DEF Points, Local, Placed
  <2>2. PICK k \in Call :
          /\ call' = [call EXCEPT ![t] = k]
          /\ k.at = point /\ k.todo = call[t].todo /\ k.conn = call[t].conn
          /\ k.lst = call[t].lst /\ k.then = call[t].then /\ k.id = call[t].id
    BY <1>0, <1>4, <2>1, GotoCall
  <2>3. Dropping(k) \subseteq Dropping(call[t]) /\ k.at \in DropPoints
    BY <1>4, <2>2 DEF Dropping, DropPoints
  <2> QED BY <1>1, <1>4, <2>1, <2>2, <2>3, DropStep
<1>5. CASE ForgetRequest(t)
  BY <1>4, <1>5 DEF ForgetRequest, RemoveRequests
<1>6. CASE ForgetWriter(t)
  BY <1>4, <1>6 DEF ForgetWriter
<1> QED BY <1>2, <1>3, <1>5, <1>6

\* A step that opens, removes or flags a listener keeps the invariant when no
\* connection's listener comes back.
LEMMA ListenerStep ==
  ASSUME HttpInv, NEW t \in Threads, NEW k \in Call, call' = [call EXCEPT ![t] = k],
         UNCHANGED <<mapVars, slotVars, clientVars, wire>>,
         listeners' \in SUBSET Listeners, stopped' \in SUBSET Listeners,
         listeners' \cap stopped' = {},
         \A c \in Conns : dialled[c] \in listeners' => dialled[c] \in listeners,
         \A u \in Threads : call[u].at \in StopPoints => call[u].lst \notin listeners',
         DialledOnce', Local(t, k)',
         \A u \in Threads : u # t => Apart(k, call[u]) /\ Apart(call[u], k)
  PROVE  HttpInv'
<1> USE DEF mapVars, slotVars, clientVars
<1>0. /\ call \in [Threads -> Call] /\ call' \in [Threads -> Call]
      /\ requests \subseteq 1..Len(origin) /\ writers \subseteq 1..Len(origin)
      /\ \A i \in 1..Len(origin) : origin[i] \in Conns
  BY ServerTypeIsType DEF HttpInv, ServerType, MapsType
<1>1. ServerType'
  <2>1. MapsType'
    BY DEF HttpInv, ServerType, MapsType
  <2>2. WireType' /\ RequestsCounted'
    BY DEF HttpInv, ServerType, WireType, RequestsCounted, Unread
  <2> QED BY <1>0, <2>1, <2>2 DEF ServerType
<1>2. \A c \in Conns : InPlace(c) => InPlace(c)'
  BY DEF InPlace
<1>3. IndexPhases' /\ UnacceptedIdle'
  BY <1>0, <1>2 DEF HttpInv, IndexPhases, UnacceptedIdle, Unaccepted
<1>4. ASSUME NEW u \in Threads, NEW m \in Call, u # t, m = call[u]
      PROVE  Local(u, m)' /\ Apart(k, m)' /\ Apart(m, k)'
  <2>0. Local(u, m) /\ Apart(k, m) /\ Apart(m, k)
    BY <1>4 DEF HttpInv
  <2>1. Placed(u, m)'     BY <1>4, <2>0 DEF Local, Placed
  <2>2. OwnsToken(m)'     BY <2>0 DEF Local, OwnsToken
  <2>3. SeesIdle(m)'      BY <2>0 DEF Local, SeesIdle
  <2>4. DropsOwn(m)'      BY <2>0 DEF Local, DropsOwn
  <2>5. Accepted(m)'      BY <2>0 DEF Local, Accepted, Unaccepted
  <2>6. StaysInPlace(m)'
    <3>1. m.todo \subseteq Conns
      BY DEF Call
    <3>2. m.at \in {"mark", "index", "openLook", "openHead", "openIndex"} => m.conn \in Conns
      BY <1>0, <2>0 DEF Local, Placed, ReadPoints, RequestPoints, WriterPoints
    <3> QED BY <1>2, <2>0, <3>1, <3>2 DEF Local, StaysInPlace
  <2>7. Apart(k, m)' /\ Apart(m, k)'
    BY <2>0 DEF Apart
  <2> QED BY <2>1, <2>2, <2>3, <2>4, <2>5, <2>6, <2>7 DEF Local
<1>5. \A u, v \in Threads, m, n \in Call :
         u # v /\ u # t /\ v # t /\ m = call[u] /\ n = call[v] => Apart(m, n)'
  BY DEF HttpInv, Apart
<1>6. \A u \in Threads, m \in Call : u # t /\ m = call[u] =>
         Local(u, m)' /\ Apart(k, m)' /\ Apart(m, k)'
  BY <1>4
<1> QED BY <1>0, <1>1, <1>3, <1>5, <1>6, Assemble

\* A call of stop fits wherever it is once its listener is removed.
LEMMA StopFits ==
  ASSUME NEW t, NEW k \in Call, k.at \in StopPoints, k.lst \in Listeners \ listeners',
         k.at = "stopCollect" => k.conn \in Conns
  PROVE  Local(t, k)' /\ \A m : Apart(k, m) /\ Apart(m, k)
<1>1. /\ k.at \notin AcceptPoints \cup ReadPoints \cup RequestPoints \cup WriterPoints
                         \cup ChunkPoints \cup DropPoints \cup Writing
      /\ k.at \notin {"read", "forget", "forgetRequest", "forgetWriter", "chunkWrite", "poll",
                      "mark", "index", "openLook", "openHead", "openIndex"}
  BY DEF AcceptPoints, ReadPoints, RequestPoints, WriterPoints, ChunkPoints,
         DropPoints, StopPoints, Writing
<1> QED
  BY <1>1 DEF Local, Placed, Accepting, OwnsToken, SeesIdle, DropsOwn, Accepted,
              StaysInPlace, Apart

\* listen, and stop as far as its listener is removed and flagged.
LEMMA ListenersKeepInv ==
  ASSUME HttpInv, NEW t \in Threads,
         (\E l \in Listeners : Listen(t, l) \/ Stop(t, l)) \/ StopFlag(t)
  PROVE  HttpInv'
<1> USE DEF At, listenVars, mapVars, slotVars, clientVars
<1>0. /\ ServerType /\ call[t] \in Call /\ Local(t, call[t]) /\ call \in [Threads -> Call]
      /\ listeners \in SUBSET Listeners /\ stopped \in SUBSET Listeners
      /\ listeners \cap stopped = {} /\ dialled \in [Conns -> Listeners \cup {NoListener}]
      /\ \A u \in Threads : call[u].at \in StopPoints => call[u].lst \notin listeners
  BY DEF HttpInv, ServerType, MapsType, Local, Placed
<1>1. UNCHANGED <<mapVars, slotVars, clientVars, wire>>
  BY DEF Listen, Stop, StopFlag
<1>2. ASSUME NEW l \in Listeners, Listen(t, l) PROVE HttpInv'
  <2>1. /\ call' = [call EXCEPT ![t] = call[t]] /\ UNCHANGED <<call, stopped>>
        /\ listeners' = listeners \cup {l} /\ l \notin listeners \cup stopped
        /\ \A u \in Threads : call[u].lst # l
        /\ call[t].at = "ready"
    BY <1>0, <1>2 DEF Listen
  <2>2. \A c \in Conns : dialled[c] # l
    BY <2>1, NoListenerAssumption DEF HttpInv, DialledOnce
  <2>3. DialledOnce'
    BY <1>1, <2>1 DEF HttpInv, DialledOnce
  <2>4. /\ call[t].at \notin AcceptPoints \cup ReadPoints \cup RequestPoints \cup WriterPoints
                 \cup ChunkPoints \cup DropPoints \cup StopPoints \cup Writing
        /\ call[t].at \notin {"read", "forget", "forgetRequest", "forgetWriter", "stopCollect",
                        "chunkWrite", "poll", "mark", "index", "openLook", "openHead",
                        "openIndex"}
    BY <2>1 DEF AcceptPoints, ReadPoints, RequestPoints, WriterPoints, ChunkPoints,
                DropPoints, StopPoints, Writing
  <2>5. PICK k \in Call : k = call[t]
    BY <1>0
  <2>6. Local(t, k)' /\ \A m : Apart(k, m) /\ Apart(m, k)
    BY <2>4, <2>5 DEF Local, Placed, Accepting, OwnsToken, SeesIdle, DropsOwn, Accepted,
              StaysInPlace, Apart
  <2>7. \A u \in Threads : call[u].at \in StopPoints => call[u].lst \notin listeners'
    BY <1>0, <2>1
  <2>8. /\ \A c \in Conns : dialled[c] \in listeners' => dialled[c] \in listeners
        /\ listeners' \in SUBSET Listeners /\ stopped' \in SUBSET Listeners
        /\ listeners' \cap stopped' = {}
    BY <1>0, <2>1, <2>2
  <2>9. call' = [call EXCEPT ![t] = k]
    BY <2>1, <2>5
  <2> QED BY <1>1, <2>3, <2>6, <2>7, <2>8, <2>9, ListenerStep
<1>3. ASSUME NEW l \in Listeners, Stop(t, l) PROVE HttpInv'
  <2>1. [Ready EXCEPT !.at = "stopFlag", !.lst = l] \in Call
    BY DEF Call, Ready, Points
  <2>2. PICK k \in Call : k = [Ready EXCEPT !.at = "stopFlag", !.lst = l]
    BY <2>1
  <2>3. k.at = "stopFlag" /\ k.lst = l /\ k.at \in StopPoints
    BY <2>2 DEF Ready, StopPoints
  <2>4. /\ call' = [call EXCEPT ![t] = k] /\ call[t].at = "ready"
        /\ listeners' = listeners \ {l} /\ UNCHANGED stopped
    BY <1>3, <2>2 DEF Stop, Enter
  <2>5. call'[t] = k /\ \A u \in Threads : u # t => call'[u] = call[u]
    BY <1>0, <2>4
  <2>6. DialledOnce'
    BY <1>1, <2>3, <2>4, <2>5 DEF HttpInv, DialledOnce
  <2>7. Local(t, k)' /\ \A m : Apart(k, m) /\ Apart(m, k)
    BY <2>3, <2>4, StopFits
  <2>8. /\ \A u \in Threads : call[u].at \in StopPoints => call[u].lst \notin listeners'
        /\ \A c \in Conns : dialled[c] \in listeners' => dialled[c] \in listeners
        /\ listeners' \in SUBSET Listeners /\ stopped' \in SUBSET Listeners
        /\ listeners' \cap stopped' = {}
    BY <1>0, <2>4
  <2> QED BY <1>1, <2>4, <2>6, <2>7, <2>8, ListenerStep
<1>4. CASE StopFlag(t)
  <2>1. "stopSweep" \in Points /\ call[t].at = "stopFlag" /\ call[t].at \in StopPoints
    BY <1>4 DEF Points, StopFlag, StopPoints
  <2>2. PICK k \in Call : call' = [call EXCEPT ![t] = k] /\ k.at = "stopSweep" /\ k.lst = call[t].lst
    BY <1>0, <1>4, <2>1, GotoCall DEF StopFlag
  <2>3. /\ call[t].lst \in Listeners \ listeners /\ k.at \in StopPoints
        /\ UNCHANGED listeners /\ stopped' = stopped \cup {call[t].lst}
    BY <1>0, <1>4, <2>1, <2>2 DEF Local, Placed, StopPoints, StopFlag
  <2>4. call'[t] = k /\ \A u \in Threads : u # t => call'[u] = call[u]
    BY <1>0, <2>2
  <2>5. DialledOnce'
    BY <1>1, <2>3, <2>4 DEF HttpInv, DialledOnce
  <2>6. Local(t, k)' /\ \A m : Apart(k, m) /\ Apart(m, k)
    BY <2>2, <2>3, StopFits
  <2>7. /\ \A u \in Threads : call[u].at \in StopPoints => call[u].lst \notin listeners'
        /\ \A c \in Conns : dialled[c] \in listeners' => dialled[c] \in listeners
        /\ listeners' \in SUBSET Listeners /\ stopped' \in SUBSET Listeners
        /\ listeners' \cap stopped' = {}
    BY <1>0, <2>3
  <2> QED BY <1>1, <2>2, <2>5, <2>6, <2>7, ListenerStep
<1> QED BY <1>2, <1>3, <1>4

\* stop after the flag: what it takes out of the maps belongs to a listener that
\* is no longer registered.
LEMMA StopKeepsInv ==
  ASSUME HttpInv, NEW t \in Threads,
         StopSweep(t) \/ StopClose(t) \/ StopCollect(t) \/ StopRequests(t) \/ StopWriters(t)
  PROVE  HttpInv'
<1> USE DEF At, listenVars, mapVars, slotVars, clientVars
<1>0. /\ ServerType /\ call[t] \in Call /\ Local(t, call[t]) /\ call \in [Threads -> Call]
      /\ shut \in SUBSET Conns /\ connections \subseteq Conns /\ phase \in [Conns -> Phase]
      /\ call[t].todo \subseteq Conns
  BY DEF HttpInv, ServerType, MapsType, Call
<1>1. /\ call[t].at \in StopPoints \ {"stopFlag"} /\ call[t].lst \in Listeners \ listeners
      /\ UNCHANGED <<listeners, stopped, origin, phase, clientVars, wire>>
  BY <1>0 DEF StopSweep, StopClose, StopCollect, StopRequests, RemoveRequests, StopWriters,
              StopPoints, Local, Placed
<1>2. ASSUME NEW k \in Call, call' = [call EXCEPT ![t] = k],
             k = Ready \/ (k.at \in StopPoints /\ k.lst = call[t].lst),
             k.at = "stopCollect" => k.conn \in Conns,
             shut' \in SUBSET Conns,
             requests' \subseteq requests, writers' \subseteq writers,
             connections' \subseteq connections,
             \A c \in connections \ connections' : dialled[c] = call[t].lst
      PROVE  HttpInv'
  <2>1. Local(t, k)' /\ \A m : Apart(k, m) /\ Apart(m, k)
    <3>1. CASE k = Ready
      BY <3>1, ReadyFits
    <3>2. CASE k.at \in StopPoints /\ k.lst = call[t].lst
      BY <1>1, <1>2, <3>2, StopFits
    <3> QED BY <1>2, <3>1, <3>2
  <2>2. \A c \in connections \ connections' : dialled[c] \in listeners =>
            /\ \A r \in requests' \cup writers' : origin[r] # c
            /\ \A u \in Threads : u # t =>
                /\ call[u].at \in {"mark", "index", "openLook", "openHead", "openIndex"} =>
                     call[u].conn # c
                /\ call[u].at = "poll" => c \notin call[u].todo
    BY <1>1, <1>2
  <2>3. call[t].at # "stopFlag"
    BY <1>1
  <2> QED BY <1>1, <1>2, <2>1, <2>2, <2>3, ShrinkStep
<1>3. CASE StopSweep(t)
  <2> DEFINE mine == {c \in connections : dialled[c] = call[t].lst}
  <2>1. /\ connections' = connections \ mine /\ UNCHANGED <<requests, writers, shut>>
        /\ mine \subseteq Conns
    BY <1>0, <1>3 DEF StopSweep
  <2>2. \A c \in connections \ connections' : dialled[c] = call[t].lst
    BY <2>1
  <2>3. call' = [call EXCEPT ![t] = [call[t] EXCEPT !.at = "stopClose", !.todo = mine]]
    BY <1>0, <1>3 DEF StopSweep
  <2> HIDE DEF mine
  <2>4. [call[t] EXCEPT !.at = "stopClose", !.todo = mine] \in Call
    BY <1>0, <2>1 DEF Call, Points
  <2>5. PICK k \in Call : k = [call[t] EXCEPT !.at = "stopClose", !.todo = mine]
                          /\ call' = [call EXCEPT ![t] = k]
    BY <2>3, <2>4
  <2>6. k.at = "stopClose" /\ k.at \in StopPoints /\ k.lst = call[t].lst
    BY <1>0, <2>5 DEF Call, StopPoints
  <2> QED BY <1>0, <1>2, <2>1, <2>2, <2>5, <2>6
<1>4. CASE StopClose(t)
  <2>1. UNCHANGED <<connections, requests, writers>>
    BY <1>4 DEF StopClose
  <2>2. ASSUME NEW c \in call[t].todo, shut' = shut \cup {c},
               call' = [call EXCEPT ![t].at = "stopCollect", ![t].conn = c,
                                    ![t].todo = @ \ {c}]
        PROVE  HttpInv'
    <3>1. [call[t] EXCEPT !.at = "stopCollect", !.conn = c, !.todo = call[t].todo \ {c}] \in Call
      BY <1>0 DEF Call, Points
    <3>2. call' = [call EXCEPT ![t] =
             [call[t] EXCEPT !.at = "stopCollect", !.conn = c, !.todo = call[t].todo \ {c}]]
      BY <1>0, <2>2
    <3>3. PICK k \in Call :
            /\ k = [call[t] EXCEPT !.at = "stopCollect", !.conn = c, !.todo = call[t].todo \ {c}]
            /\ call' = [call EXCEPT ![t] = k]
      BY <3>1, <3>2
    <3>4. k.at = "stopCollect" /\ k.at \in StopPoints /\ k.lst = call[t].lst /\ k.conn = c
          /\ c \in Conns /\ shut' \in SUBSET Conns
      BY <1>0, <2>2, <3>3 DEF Call, StopPoints
    <3> QED BY <1>2, <2>1, <3>3, <3>4
  <2>3. CASE Goto(t, "stopRequests") /\ UNCHANGED shut
    <3>1. "stopRequests" \in Points
      BY DEF Points
    <3>2. PICK k \in Call : call' = [call EXCEPT ![t] = k] /\ k.at = "stopRequests"
                            /\ k.lst = call[t].lst
      BY <1>0, <2>3, <3>1, GotoCall
    <3>3. k.at \in StopPoints
      BY <3>2 DEF StopPoints
    <3> QED BY <1>0, <1>2, <2>1, <2>3, <3>2, <3>3
  <2> QED BY <1>4, <2>2, <2>3 DEF StopClose
<1>5. CASE StopCollect(t)
  <2> DEFINE p == phase[call[t].conn]
             rs == call[t].requestIds \cup RequestOf(p)
             ws == call[t].writerIds \cup WriterOf(p)
  <2>1. call[t].conn \in Conns /\ UNCHANGED <<connections, requests, writers, shut>>
    BY <1>0, <1>5 DEF StopCollect, Local, Placed
  <2>2. RequestOf(p) \subseteq Requests /\ WriterOf(p) \subseteq Requests
    BY <1>0, <2>1, PhaseIds
  <2>3. rs \subseteq Requests /\ ws \subseteq Requests
    BY <1>0, <2>2 DEF Call
  <2>4. call' = [call EXCEPT ![t] = [call[t] EXCEPT !.at = "stopClose", !.requestIds = rs,
                                                    !.writerIds = ws]]
    BY <1>0, <1>5 DEF StopCollect
  <2> HIDE DEF rs, ws
  <2>5. [call[t] EXCEPT !.at = "stopClose", !.requestIds = rs, !.writerIds = ws] \in Call
    BY <1>0, <2>3 DEF Call, Points
  <2>6. PICK k \in Call :
          /\ k = [call[t] EXCEPT !.at = "stopClose", !.requestIds = rs, !.writerIds = ws]
          /\ call' = [call EXCEPT ![t] = k]
    BY <2>4, <2>5
  <2>7. k.at = "stopClose" /\ k.at \in StopPoints /\ k.lst = call[t].lst
    BY <1>0, <2>6 DEF Call, StopPoints
  <2> QED BY <1>0, <1>2, <2>1, <2>6, <2>7
<1>6. CASE StopRequests(t)
  <2>1. "stopWriters" \in Points /\ Goto(t, "stopWriters")
        /\ UNCHANGED <<connections, writers, shut>> /\ requests' \subseteq requests
    BY <1>6 DEF Points, StopRequests, RemoveRequests
  <2>2. PICK k \in Call : call' = [call EXCEPT ![t] = k] /\ k.at = "stopWriters"
                          /\ k.lst = call[t].lst
    BY <1>0, <2>1, GotoCall
  <2>3. k.at \in StopPoints
    BY <2>2 DEF StopPoints
  <2> QED BY <1>0, <1>2, <2>1, <2>2, <2>3
<1>7. CASE StopWriters(t)
  <2>1. call' = [call EXCEPT ![t] = Ready] /\ UNCHANGED <<connections, requests, shut>>
        /\ writers' \subseteq writers
    BY <1>7 DEF StopWriters, Return
  <2>2. Ready \in Call /\ Ready.at # "stopCollect"
    BY DEF Ready, Call, Points
  <2> QED BY <1>0, <1>2, <2>1, <2>2
<1> QED BY <1>3, <1>4, <1>5, <1>6, <1>7

\* A frame written where the client still takes one.
LEMMA SendFits ==
  ASSUME ServerType, NEW c \in Conns, NEW r \in Requests,
         NEW kind \in {"full", "head", "chunk", "torn", "last"},
         Len(wire[c]) < MaxFrames, Send(c, kind, r)
  PROVE  WireType'
<1>1. wire \in [Conns -> Seq(Frame)] /\ \A d \in Conns : Len(wire[d]) <= MaxFrames
  BY DEF ServerType, WireType
<1>2. PICK f \in Frame : f = [kind |-> kind, id |-> r]
  BY DEF Frame
<1>3. wire' = [wire EXCEPT ![c] = Append(wire[c], f)]
  BY <1>1, <1>2 DEF Send
<1>4. Append(wire[c], f) \in Seq(Frame) /\ Len(Append(wire[c], f)) = Len(wire[c]) + 1
      /\ Len(wire[c]) \in Nat
  BY <1>1, <1>2
<1>5. \A d \in Conns : wire'[d] = IF d = c THEN Append(wire[c], f) ELSE wire[d]
  BY <1>1, <1>3
<1>6. ASSUME NEW d \in Conns PROVE Len(wire'[d]) <= MaxFrames
  <2>1. CASE d = c
    <3>1. PICK n, m : n = Len(wire[c]) /\ m = Len(wire'[d]) /\ m = n + 1 /\ n \in Nat /\ n < MaxFrames
      BY <1>4, <1>5, <2>1
    <3> QED BY <3>1, HttpAssumption
  <2>2. CASE d # c
    BY <1>1, <1>5, <2>2
  <2> QED BY <2>1, <2>2
<1>7. wire' \in [Conns -> Seq(Frame)]
  BY <1>1, <1>3, <1>4
<1> QED BY <1>6, <1>7 DEF WireType

\* A connection whose request or writer a call owns is nobody else's.
LEMMA OwnedAlone ==
  ASSUME HttpInv, NEW t \in Threads, call[t].at \in RequestPoints \cup WriterPoints
  PROVE  /\ call[t].conn \in Conns /\ call[t].id \in Requests /\ call[t].id \in 1..Len(origin)
         /\ call[t].conn = origin[call[t].id]
         /\ phase[call[t].conn] # Idle
         /\ \A q \in requests \cup writers : origin[q] # call[t].conn
         /\ \A u \in Threads : u # t =>
              /\ call[u].at \in RequestPoints \cup WriterPoints \cup ReadPoints => call[u].conn # call[t].conn
              /\ call[u].at = "poll" => call[t].conn \notin call[u].todo
              /\ call[u].at \in DropPoints /\ call[u].then = "ready" => origin[call[u].id] # call[t].conn
              /\ call[u].at = "chunkWrite" /\ call[t].at \in RequestPoints \cup {"finishWrite"} =>
                   call[u].conn # call[t].conn
<1>0. Local(t, call[t]) /\ ServerType
  BY DEF HttpInv
<1>1. /\ call[t].id \in 1..Len(origin) /\ call[t].conn = origin[call[t].id]
      /\ call[t].conn \in Conns /\ call[t].id \in Requests
  BY <1>0, ServerTypeIsType DEF Local, Placed
<1>2. \/ call[t].at \in RequestPoints /\ phase[call[t].conn] = Pending(call[t].id)
         /\ call[t].id \notin requests
      \/ call[t].at \in WriterPoints /\ phase[call[t].conn] = Streaming(call[t].id)
         /\ call[t].id \notin writers
  BY <1>0 DEF Local, OwnsToken
<1>3. phase[call[t].conn] # Idle
  BY <1>2, PhasesDiffer
<1>4. \A q \in requests \cup writers : origin[q] # call[t].conn
  BY <1>2, PhasesDiffer DEF HttpInv, IndexPhases
<1>5. ASSUME NEW u \in Threads, u # t
      PROVE  /\ call[u].at \in RequestPoints \cup WriterPoints \cup ReadPoints => call[u].conn # call[t].conn
             /\ call[u].at = "poll" => call[t].conn \notin call[u].todo
             /\ call[u].at \in DropPoints /\ call[u].then = "ready" => origin[call[u].id] # call[t].conn
             /\ call[u].at = "chunkWrite" /\ call[t].at \in RequestPoints \cup {"finishWrite"} =>
                  call[u].conn # call[t].conn
  <2>1. Local(u, call[u]) /\ Apart(call[t], call[u]) /\ Apart(call[u], call[t])
    BY <1>5 DEF HttpInv
  <2>2. call[u].at \in RequestPoints \cup WriterPoints => call[u].conn # call[t].conn
    BY <1>2, <2>1, PhasesDiffer DEF Local, OwnsToken, Apart
  <2>3. /\ call[u].at \in ReadPoints => call[u].conn # call[t].conn
        /\ call[u].at = "poll" => call[t].conn \notin call[u].todo
    BY <1>3, <2>1 DEF Local, SeesIdle
  <2>4. call[u].at \in DropPoints /\ call[u].then = "ready" => origin[call[u].id] # call[t].conn
    BY <2>1 DEF Apart
  <2>5. call[u].at = "chunkWrite" /\ call[t].at \in RequestPoints => call[u].conn # call[t].conn
    <3>1. call[t].at \in RequestPoints => phase[call[t].conn] = Pending(call[t].id)
      BY <1>0 DEF Local, OwnsToken
    <3> QED BY <2>1, <3>1, PhasesDiffer DEF Local, OwnsToken
  <2>6. call[u].at = "chunkWrite" /\ call[t].at = "finishWrite" => call[u].conn # call[t].conn
    BY <2>1 DEF Apart, Writing
  <2> QED BY <2>2, <2>3, <2>4, <2>5, <2>6
<1> QED BY <1>1, <1>3, <1>4, <1>5

\* A response call that looks its connection up, or takes its slot's mutex.
LEMMA MoveStep ==
  ASSUME HttpInv, NEW t \in Threads, NEW point, Goto(t, point),
         UNCHANGED <<listenVars, mapVars, slotVars, clientVars, wire>>,
         \/ call[t].at = "openLook" /\ point = "openHead"
         \/ call[t].at \in {"chunkLook", "chunkLock"} /\ point \in {"chunkLock", "chunkWrite"}
         \/ call[t].at \in {"finishLook", "finishLock"} /\ point \in {"finishLock", "finishWrite"},
         point \in Writing =>
            InnerFree(call[t].conn) /\ phase[call[t].conn] = Streaming(call[t].id)
  PROVE  HttpInv'
<1>0. /\ ServerType /\ call[t] \in Call /\ Local(t, call[t]) /\ call \in [Threads -> Call]
      /\ UNCHANGED <<shared, broken, ended>> /\ shut' \in SUBSET Conns /\ WireType'
      /\ call[t].at # "stopFlag"
  BY DEF HttpInv, ServerType, MapsType, WireType, shared, listenVars, mapVars, slotVars, clientVars
<1>1. point \in Points
  BY DEF Points
<1>2. PICK k \in Call :
        /\ call' = [call EXCEPT ![t] = k] /\ k.at = point
        /\ k.lst = call[t].lst /\ k.conn = call[t].conn /\ k.id = call[t].id
        /\ k.then = call[t].then
  BY <1>0, <1>1, GotoCall
<1>3. /\ k.at \notin AcceptPoints \cup ReadPoints \cup DropPoints \cup StopPoints
      /\ k.at \notin {"read", "forget", "forgetRequest", "forgetWriter", "stopCollect", "poll",
                      "mark", "index", "openLook", "openIndex"}
      /\ k.at \in RequestPoints => call[t].at \in RequestPoints \ {"index"}
      /\ k.at \in WriterPoints => call[t].at \in WriterPoints
      /\ k.at \in ChunkPoints => call[t].at \in ChunkPoints
      /\ k.at = "openHead" => call[t].at = "openLook"
      /\ k.at = "chunkWrite" => k.at \in Writing
  BY <1>2 DEF AcceptPoints, ReadPoints, RequestPoints, WriterPoints, ChunkPoints,
              DropPoints, StopPoints, Writing
<1>4. Local(t, k)
  <2>1. Placed(t, k)
    BY <1>0, <1>2, <1>3 DEF Local, Placed, Accepting, WriterPoints
  <2>2. OwnsToken(k)
    BY <1>0, <1>2, <1>3 DEF Local, OwnsToken
  <2>3. SeesIdle(k) /\ DropsOwn(k) /\ Accepted(k)
    BY <1>3 DEF SeesIdle, DropsOwn, Accepted
  <2>4. StaysInPlace(k)
    BY <1>0, <1>2, <1>3 DEF Local, StaysInPlace
  <2> QED BY <2>1, <2>2, <2>3, <2>4 DEF Local
<1>5. ASSUME NEW u \in Threads, u # t PROVE Apart(k, call[u]) /\ Apart(call[u], k)
  <2>1. Apart(call[t], call[u]) /\ Apart(call[u], call[t])
    BY <1>5 DEF HttpInv
  <2>2. k.at \in Writing /\ call[u].at \in Writing => call[u].conn # k.conn
    BY <1>2 DEF InnerFree
  <2> QED BY <1>2, <1>3, <2>1, <2>2 DEF Apart
<1>6. \A u \in Threads : u # t => Apart(k, call[u]) /\ Apart(call[u], k)
  BY <1>5
<1> QED BY <1>0, <1>2, <1>4, <1>6, LocalStep

\* A call begins: it takes its request or writer from the index, or only reads
\* the number of its writer.
LEMMA BeginKeepsInv ==
  ASSUME HttpInv, NEW t \in Threads, NEW r \in 1..Len(origin),
         \/ Respond(t, r) \/ RespondOpen(t, r) \/ RespondChunk(t, r)
         \/ \E keep \in BOOLEAN : RespondFinish(t, r, keep)
  PROVE  HttpInv'
<1> USE DEF listenVars, mapVars, slotVars, clientVars
<1>0. /\ ServerType /\ call \in [Threads -> Call] /\ shut \in SUBSET Conns
      /\ origin[r] \in Conns /\ r \in Requests
  BY ServerTypeIsType DEF HttpInv, ServerType, MapsType
<1>1. PICK point \in {"take", "openLook", "chunkLook", "finishLook"}, k \in Call :
        /\ call' = [call EXCEPT ![t] = k] /\ call[t].at = "ready"
        /\ k.at = point /\ k.id = r /\ k.conn = origin[r] /\ k.then = "ready"
        /\ UNCHANGED <<listeners, stopped, connections, origin, phase, shut, clientVars, wire>>
        /\ point \in {"take", "openLook"} => r \in requests
        /\ requests' = IF point \in {"take", "openLook"} THEN requests \ {r} ELSE requests
        /\ point \in {"chunkLook", "finishLook"} => r \in writers
        /\ writers' = IF point = "finishLook" THEN writers \ {r} ELSE writers
  <2>0. ASSUME NEW point \in {"take", "openLook", "chunkLook", "finishLook"}, NEW keep \in BOOLEAN
        PROVE  /\ [Ready EXCEPT !.at = point, !.id = r, !.conn = origin[r]] \in Call
               /\ [Ready EXCEPT !.at = point, !.id = r, !.conn = origin[r], !.keep = keep] \in Call
    BY <1>0 DEF Ready, Call, Points
  <2>1. CASE Respond(t, r) \/ RespondOpen(t, r)
    <3>1. PICK point \in {"take", "openLook"} : TakeRequest(t, r, point)
      BY <2>1 DEF Respond, RespondOpen
    <3>2. PICK k \in Call : k = [Ready EXCEPT !.at = point, !.id = r, !.conn = origin[r]]
      BY <2>0
    <3>3. k.at = point /\ k.id = r /\ k.conn = origin[r] /\ k.then = "ready"
      BY <3>2 DEF Ready
    <3> QED BY <3>1, <3>2, <3>3 DEF TakeRequest, Enter, At
  <2>2. CASE RespondChunk(t, r)
    <3>2. PICK k \in Call : k = [Ready EXCEPT !.at = "chunkLook", !.id = r, !.conn = origin[r]]
      BY <2>0
    <3>3. k.at = "chunkLook" /\ k.id = r /\ k.conn = origin[r] /\ k.then = "ready"
      BY <3>2 DEF Ready
    <3> QED BY <2>2, <3>2, <3>3 DEF RespondChunk, Enter, At
  <2>3. CASE \E keep \in BOOLEAN : RespondFinish(t, r, keep)
    <3>1. PICK keep \in BOOLEAN : RespondFinish(t, r, keep)
      BY <2>3
    <3>2. PICK k \in Call :
            k = [Ready EXCEPT !.at = "finishLook", !.id = r, !.conn = origin[r], !.keep = keep]
      BY <2>0
    <3>3. k.at = "finishLook" /\ k.id = r /\ k.conn = origin[r] /\ k.then = "ready"
      BY <3>2 DEF Ready
    <3> QED BY <3>1, <3>2, <3>3 DEF RespondFinish, Enter, At
  <2> QED BY <2>1, <2>2, <2>3
<1>5. /\ k.at \notin AcceptPoints \cup ReadPoints \cup DropPoints \cup StopPoints \cup Writing
      /\ k.at \notin {"read", "forget", "forgetRequest", "forgetWriter", "stopCollect", "poll",
                      "mark", "index", "openHead", "openIndex", "chunkWrite"}
      /\ k.at \in RequestPoints => point \in {"take", "openLook"}
      /\ k.at \in WriterPoints => point = "finishLook"
  BY <1>1 DEF AcceptPoints, ReadPoints, RequestPoints, WriterPoints, ChunkPoints,
              DropPoints, StopPoints, Writing
<1>6. /\ r \in requests => phase[origin[r]] = Pending(r) /\ InPlace(origin[r])
      /\ r \in writers => phase[origin[r]] = Streaming(r)
  BY DEF HttpInv, IndexPhases
<1>7. Local(t, k)'
  <2>1. Placed(t, k)'
    BY <1>1, <1>5 DEF Placed, Accepting
  <2>2. OwnsToken(k)'
    BY <1>1, <1>5, <1>6 DEF OwnsToken
  <2>3. SeesIdle(k)' /\ DropsOwn(k)' /\ Accepted(k)'
    BY <1>5 DEF SeesIdle, DropsOwn, Accepted
  <2>4. StaysInPlace(k)'
    BY <1>1, <1>5, <1>6 DEF StaysInPlace, InPlace
  <2> QED BY <2>1, <2>2, <2>3, <2>4 DEF Local
<1>8. ASSUME NEW u \in Threads, u # t PROVE Apart(k, call[u]) /\ Apart(call[u], k)
  <2>1. Local(u, call[u])
    BY DEF HttpInv
  <2>2. /\ k.at \in RequestPoints /\ call[u].at \in RequestPoints => k.id # call[u].id
        /\ k.at \in WriterPoints /\ call[u].at \in WriterPoints => k.id # call[u].id
    BY <1>1, <1>5, <2>1 DEF Local, OwnsToken
  <2>3. call[u].at \in DropPoints /\ call[u].then = "ready" => k.conn # origin[call[u].id]
    BY <1>1, <2>1 DEF Local, DropsOwn
  <2> QED BY <1>5, <2>2, <2>3 DEF Apart
<1>9. /\ \A u \in Threads : u # t => Apart(k, call[u]) /\ Apart(call[u], k)
      /\ requests' \subseteq requests /\ writers' \subseteq writers
      /\ connections' \subseteq connections /\ connections \ connections' = {}
      /\ call[t].at # "stopFlag" /\ shut' \in SUBSET Conns
  BY <1>0, <1>1, <1>8
<1> QED BY <1>1, <1>7, <1>9, ShrinkStep

\* The owner of a connection's request, or of its writer with the mutex held,
\* sets the phase.
LEMMA OwnerSetsPhase ==
  ASSUME HttpInv, NEW t \in Threads, NEW k \in Call, call' = [call EXCEPT ![t] = k],
         call[t].at \in RequestPoints \cup {"finishWrite"},
         NEW p \in Phase, phase' = [phase EXCEPT ![call[t].conn] = p],
         UNCHANGED <<listenVars, mapVars, origin, clientVars>>,
         shut' \in SUBSET Conns, WireType', Local(t, k)',
         \A u \in Threads : u # t => Apart(k, call[u]) /\ Apart(call[u], k)
  PROVE  HttpInv'
<1>1. call[t].at \in RequestPoints \cup WriterPoints /\ call[t].at # "stopFlag"
  BY DEF RequestPoints, WriterPoints
<1>2. PICK c \in Conns : c = call[t].conn
  BY <1>1, OwnedAlone
<1>3. /\ phase[c] # Idle /\ \A q \in requests \cup writers : origin[q] # c
      /\ \A u \in Threads : u # t =>
           /\ call[u].at \in RequestPoints \cup WriterPoints \cup {"chunkWrite"} => call[u].conn # c
           /\ call[u].at \in DropPoints /\ call[u].then = "ready" => origin[call[u].id] # c
  BY <1>1, <1>2, OwnedAlone
<1>4. c \notin Unaccepted
  BY <1>3 DEF HttpInv, UnacceptedIdle
<1>5. /\ UNCHANGED <<listeners, stopped, requests, writers, origin, clientVars>>
      /\ connections \subseteq connections' /\ connections' \subseteq connections \cup {c}
  BY DEF listenVars, mapVars
<1>6. \A u \in Threads : u # t =>
            /\ call[u].at \in RequestPoints \cup WriterPoints \cup {"chunkWrite"} => call[u].conn # c
            /\ p = Idle \/ phase[c] # Idle \/ ~Accepting(call[u])
            /\ call[u].at \in DropPoints /\ call[u].then = "ready" => origin[call[u].id] # c
  BY <1>3
<1> QED BY <1>1, <1>2, <1>3, <1>4, <1>5, <1>6, PhaseStep

\* respond_open whose head was not written, and respond_finish that does not
\* keep its connection, go on to drop it.
LEMMA OwnerDrops ==
  ASSUME HttpInv, NEW t \in Threads, call[t].at \in {"openHead", "finishWrite"},
         call' = [call EXCEPT ![t].at = "drop", ![t].todo = {call[t].conn}],
         UNCHANGED <<listenVars, mapVars, origin, phase, clientVars>>,
         shut' \in SUBSET Conns, WireType'
  PROVE  HttpInv'
<1>0. call[t] \in Call /\ Local(t, call[t]) /\ call \in [Threads -> Call]
  BY DEF HttpInv, ServerType
<1>1. call[t].at \in (RequestPoints \cup WriterPoints) \ {"index"}
  BY DEF RequestPoints, WriterPoints
<1>2. /\ call[t].conn \in Conns /\ call[t].id \in 1..Len(origin)
      /\ call[t].conn = origin[call[t].id] /\ phase[call[t].conn] # Idle
      /\ \A q \in requests \cup writers : origin[q] # call[t].conn
      /\ call[t].then = "ready"
  BY <1>0, <1>1, OwnedAlone DEF Local, Placed
<1>3. [call[t] EXCEPT !.at = "drop", !.todo = {call[t].conn}] \in Call
  BY <1>0, <1>2 DEF Call, Points
<1>4. call' = [call EXCEPT ![t] = [call[t] EXCEPT !.at = "drop", !.todo = {call[t].conn}]]
  BY <1>0
<1>5. PICK k \in Call : /\ k = [call[t] EXCEPT !.at = "drop", !.todo = {call[t].conn}]
                        /\ call' = [call EXCEPT ![t] = k]
  BY <1>3, <1>4
<1>6. k.at = "drop" /\ k.todo = {call[t].conn} /\ k.id = call[t].id /\ k.then = "ready"
  BY <1>0, <1>2, <1>5 DEF Call
<1>7. /\ k.at \notin AcceptPoints \cup ReadPoints \cup RequestPoints \cup WriterPoints
                         \cup ChunkPoints \cup StopPoints \cup Writing
      /\ k.at \notin {"read", "forget", "forgetRequest", "forgetWriter", "stopCollect",
                      "chunkWrite", "poll", "mark", "index", "openLook", "openHead", "openIndex"}
  BY <1>6 DEF AcceptPoints, ReadPoints, RequestPoints, WriterPoints, ChunkPoints,
              StopPoints, Writing
<1>8. Local(t, k)
  <2>1. Placed(t, k) /\ OwnsToken(k) /\ Accepted(k) /\ StaysInPlace(k) /\ SeesIdle(k)
    BY <1>6, <1>7 DEF Placed, Accepting, OwnsToken, Accepted, StaysInPlace, SeesIdle
  <2>2. DropsOwn(k)
    BY <1>2, <1>6 DEF DropsOwn, Dropping
  <2> QED BY <2>1, <2>2 DEF Local
<1>9. ASSUME NEW u \in Threads, u # t PROVE Apart(k, call[u]) /\ Apart(call[u], k)
  <2>1. call[u].at \in RequestPoints \cup WriterPoints => call[u].conn # origin[k.id]
    BY <1>1, <1>2, <1>6, <1>9, OwnedAlone
  <2> QED BY <1>7, <2>1 DEF Apart
<1>10. \A u \in Threads : u # t => Apart(k, call[u]) /\ Apart(call[u], k)
  BY <1>9
<1>11. UNCHANGED <<shared, broken, ended>> /\ call[t].at # "stopFlag"
  BY DEF shared, listenVars, mapVars, clientVars
<1> QED BY <1>5, <1>8, <1>10, <1>11, LocalStep

\* respond: the connection is taken out of the map and answered.
LEMMA AnswerKeepsInv ==
  ASSUME HttpInv, NEW t \in Threads, TakeConnection(t) \/ Answer(t)
  PROVE  HttpInv'
<1> USE DEF At
<1>0. /\ ServerType /\ call[t] \in Call /\ Local(t, call[t]) /\ call \in [Threads -> Call]
      /\ shut \in SUBSET Conns
  BY DEF HttpInv, ServerType, MapsType
<1>1. call[t].at \in RequestPoints /\ call[t].at \in {"take", "answer"}
  BY DEF TakeConnection, Answer, RequestPoints
<1>2. PICK c \in Conns, r \in Requests :
        /\ c = call[t].conn /\ r = call[t].id /\ r \in 1..Len(origin) /\ c = origin[r]
        /\ phase[c] = Pending(r) /\ r \notin requests /\ call[t].then = "ready"
        /\ \A q \in requests \cup writers : origin[q] # c
  BY <1>0, <1>1, OwnedAlone DEF Local, Placed, OwnsToken
<1>3. CASE TakeConnection(t)
  <2>1. /\ connections' = connections \ {c}
        /\ UNCHANGED <<listeners, stopped, requests, writers, origin, phase, shut, clientVars, wire>>
        /\ call[t].at # "stopFlag"
    BY <1>2, <1>3 DEF TakeConnection, listenVars, slotVars
  <2>2. ASSUME NEW k \in Call, call' = [call EXCEPT ![t] = k], Local(t, k)',
               \A u \in Threads : u # t => Apart(k, call[u]) /\ Apart(call[u], k)
        PROVE  HttpInv'
    <3>1. \A u \in Threads : u # t =>
             /\ call[u].at \in RequestPoints \cup WriterPoints \cup ReadPoints => call[u].conn # c
             /\ call[u].at = "poll" => c \notin call[u].todo
      BY <1>1, <1>2, OwnedAlone
    <3>2. \A u \in Threads : u # t =>
             /\ call[u].at \in {"mark", "index", "openLook", "openHead", "openIndex"} =>
                  call[u].conn # c
             /\ call[u].at = "poll" => c \notin call[u].todo
      BY <3>1 DEF RequestPoints, WriterPoints, ReadPoints
    <3>3. \A d \in connections \ connections' : dialled[d] \in listeners =>
            /\ \A q \in requests' \cup writers' : origin[q] # d
            /\ \A u \in Threads : u # t =>
                /\ call[u].at \in {"mark", "index", "openLook", "openHead", "openIndex"} =>
                     call[u].conn # d
                /\ call[u].at = "poll" => d \notin call[u].todo
      BY <1>2, <2>1, <3>2
    <3>4. /\ requests' \subseteq requests /\ writers' \subseteq writers
          /\ connections' \subseteq connections /\ shut' \in SUBSET Conns
      BY <1>0, <2>1
    <3> QED BY <2>1, <2>2, <3>3, <3>4, ShrinkStep
  <2>3. CASE Return(t)
    BY <2>2, <2>3, ReadyFits DEF Return
  <2>4. CASE Goto(t, "answer")
    <3>1. "answer" \in Points
      BY DEF Points
    <3>2. PICK k \in Call :
            /\ call' = [call EXCEPT ![t] = k] /\ k.at = "answer"
            /\ k.conn = call[t].conn /\ k.id = call[t].id /\ k.then = call[t].then
      BY <1>0, <2>4, <3>1, GotoCall
    <3>3. /\ k.at \notin AcceptPoints \cup ReadPoints \cup WriterPoints \cup ChunkPoints
                           \cup DropPoints \cup StopPoints \cup Writing
          /\ k.at \notin {"read", "forget", "forgetRequest", "forgetWriter", "stopCollect",
                          "chunkWrite", "poll", "mark", "index", "openLook", "openHead",
                          "openIndex"}
      BY <3>2 DEF AcceptPoints, ReadPoints, WriterPoints, ChunkPoints, DropPoints, StopPoints,
                  Writing
    <3>4. Local(t, k)'
      <4>1. Placed(t, k)' /\ OwnsToken(k)'
        BY <1>2, <2>1, <3>2, <3>3 DEF Placed, Accepting, OwnsToken
      <4>2. SeesIdle(k)' /\ DropsOwn(k)' /\ Accepted(k)' /\ StaysInPlace(k)'
        BY <3>3 DEF SeesIdle, DropsOwn, Accepted, StaysInPlace
      <4> QED BY <4>1, <4>2 DEF Local
    <3>5. ASSUME NEW u \in Threads, u # t PROVE Apart(k, call[u]) /\ Apart(call[u], k)
      <4>1. Apart(call[t], call[u]) /\ Apart(call[u], call[t])
        BY <3>5 DEF HttpInv
      <4> QED BY <1>1, <3>2, <3>3, <4>1 DEF Apart
    <3>6. \A u \in Threads : u # t => Apart(k, call[u]) /\ Apart(call[u], k)
      BY <3>5
    <3> QED BY <2>2, <3>2, <3>4, <3>6
  <2> QED BY <1>3, <2>3, <2>4 DEF TakeConnection
<1>4. CASE Answer(t)
  <2>1. /\ phase' = [phase EXCEPT ![call[t].conn] = Idle] /\ shut' = shut \cup {c}
        /\ call' = [call EXCEPT ![t] = Ready]
        /\ UNCHANGED <<listenVars, mapVars, origin, clientVars>>
        /\ (Len(wire[c]) < MaxFrames /\ Send(c, "full", r)) \/ UNCHANGED wire
    BY <1>2, <1>4 DEF Answer, Return
  <2>2. WireType'
    <3>1. CASE UNCHANGED wire
      BY <1>0, <3>1 DEF ServerType, WireType
    <3>2. CASE Len(wire[c]) < MaxFrames /\ Send(c, "full", r)
      BY <1>0, <3>2, SendFits
    <3> QED BY <2>1, <3>1, <3>2
  <2>3. shut' \in SUBSET Conns /\ Idle \in Phase
    BY <1>0, <2>1 DEF Phase
  <2>4. Ready \in Call /\ Local(t, Ready)'
        /\ \A u \in Threads : u # t => Apart(Ready, call[u]) /\ Apart(call[u], Ready)
    BY ReadyFits
  <2> QED BY <1>1, <2>1, <2>2, <2>3, <2>4, OwnerSetsPhase
<1> QED BY <1>3, <1>4

\* The look-ups and the locks of respond_open, respond_chunk and respond_finish.
LEMMA LooksKeepInv ==
  ASSUME HttpInv, NEW t \in Threads,
         OpenLookUp(t) \/ ChunkLookUp(t) \/ FinishLookUp(t) \/ ChunkLock(t) \/ FinishLock(t)
  PROVE  HttpInv'
<1> USE DEF At
<1>0. /\ UNCHANGED <<listenVars, mapVars, slotVars, clientVars, wire>>
      /\ call[t].at # "stopFlag"
  BY DEF OpenLookUp, ChunkLookUp, FinishLookUp, LookUp, ChunkLock, FinishLock, LockStream
<1>1. UNCHANGED <<shared, broken, ended>> /\ shut' \in SUBSET Conns /\ WireType'
  BY <1>0 DEF HttpInv, ServerType, MapsType, WireType, shared, listenVars, mapVars, slotVars,
              clientVars
<1>2. CASE Return(t)
  BY <1>0, <1>1, <1>2, ReturnStep
<1>3. CASE ~Return(t)
  <2>1. PICK point :
          /\ Goto(t, point)
          /\ \/ call[t].at = "openLook" /\ point = "openHead"
             \/ call[t].at \in {"chunkLook", "chunkLock"} /\ point \in {"chunkLock", "chunkWrite"}
             \/ call[t].at \in {"finishLook", "finishLock"} /\ point \in {"finishLock", "finishWrite"}
          /\ point \in Writing =>
                InnerFree(call[t].conn) /\ phase[call[t].conn] = Streaming(call[t].id)
    BY <1>3 DEF OpenLookUp, ChunkLookUp, FinishLookUp, LookUp, ChunkLock, FinishLock,
                LockStream, Writing
  <2> QED BY <1>0, <2>1, MoveStep
<1> QED BY <1>2, <1>3

\* respond_open writes the head; its request is still the one pending.
LEMMA OpenHeadKeepsInv ==
  ASSUME HttpInv, NEW t \in Threads, OpenHead(t)
  PROVE  HttpInv'
<1> USE DEF At
<1>0. /\ ServerType /\ call[t] \in Call /\ Local(t, call[t]) /\ call \in [Threads -> Call]
      /\ shut \in SUBSET Conns
  BY DEF HttpInv, ServerType, MapsType
<1>1. call[t].at \in RequestPoints /\ call[t].at = "openHead"
  BY DEF OpenHead, RequestPoints
<1>2. PICK c \in Conns, r \in Requests :
        /\ c = call[t].conn /\ r = call[t].id /\ r \in 1..Len(origin) /\ c = origin[r]
        /\ phase[c] = Pending(r) /\ r \notin requests /\ call[t].then = "ready" /\ InPlace(c)
        /\ \A q \in requests \cup writers : origin[q] # c
  BY <1>0, <1>1, OwnedAlone DEF Local, Placed, OwnsToken, StaysInPlace
<1>3. ASSUME Len(wire[c]) < MaxFrames, Send(c, "head", r),
             phase' = [phase EXCEPT ![c] = Streaming(r)], Goto(t, "openIndex"),
             UNCHANGED <<listenVars, mapVars, origin, shut, clientVars>>
      PROVE  HttpInv'
  <2>1. WireType' /\ shut' \in SUBSET Conns /\ "openIndex" \in Points
    BY <1>0, <1>3, SendFits DEF Points
  <2>2. PICK k \in Call :
          /\ call' = [call EXCEPT ![t] = k] /\ k.at = "openIndex"
          /\ k.conn = call[t].conn /\ k.id = call[t].id /\ k.then = call[t].then
    BY <1>0, <1>3, <2>1, GotoCall
  <2>3. /\ k.at \notin AcceptPoints \cup ReadPoints \cup RequestPoints \cup ChunkPoints
                         \cup DropPoints \cup StopPoints \cup Writing
        /\ k.at \notin {"read", "forget", "forgetRequest", "forgetWriter", "stopCollect",
                        "chunkWrite", "poll", "mark", "index", "openLook", "openHead"}
    BY <2>2 DEF AcceptPoints, ReadPoints, RequestPoints, ChunkPoints, DropPoints, StopPoints,
                Writing
  <2>4. /\ phase'[c] = Streaming(r) /\ r \notin writers' /\ InPlace(c)' /\ origin' = origin
        /\ Streaming(r) \in Phase
    BY <1>2, <1>3 DEF InPlace, mapVars, listenVars, clientVars, HttpInv, ServerType, MapsType, Phase
  <2>5. Local(t, k)'
    <3>1. Placed(t, k)'
      BY <1>2, <2>2, <2>3, <2>4 DEF Placed, Accepting
    <3>2. OwnsToken(k)' /\ StaysInPlace(k)'
      BY <1>2, <2>2, <2>3, <2>4 DEF OwnsToken, StaysInPlace
    <3>3. SeesIdle(k)' /\ DropsOwn(k)' /\ Accepted(k)'
      BY <2>3 DEF SeesIdle, DropsOwn, Accepted
    <3> QED BY <3>1, <3>2, <3>3 DEF Local
  <2>6. ASSUME NEW u \in Threads, u # t PROVE Apart(k, call[u]) /\ Apart(call[u], k)
    <3>1. /\ call[u].at \in WriterPoints => call[u].conn # c
          /\ call[u].at \in DropPoints /\ call[u].then = "ready" => origin[call[u].id] # c
      BY <1>1, <1>2, <2>6, OwnedAlone
    <3>2. call[u].at \in WriterPoints => call[u].id # r
      BY <1>2, <3>1 DEF HttpInv, Local, Placed
    <3> QED BY <1>2, <2>2, <2>3, <3>1, <3>2 DEF Apart
  <2>7. \A u \in Threads : u # t => Apart(k, call[u]) /\ Apart(call[u], k)
    BY <2>6
  <2> QED BY <1>1, <1>2, <1>3, <2>1, <2>2, <2>4, <2>5, <2>7, OwnerSetsPhase
<1>4. ASSUME shut' = shut \cup {c}, call' = [call EXCEPT ![t].at = "drop", ![t].todo = {c}],
             UNCHANGED <<listenVars, mapVars, origin, phase, clientVars, wire>>
      PROVE  HttpInv'
  <2>1. WireType' /\ shut' \in SUBSET Conns
    BY <1>0, <1>4 DEF ServerType, WireType
  <2> QED BY <1>1, <1>2, <1>4, <2>1, OwnerDrops
<1> QED BY <1>2, <1>3, <1>4 DEF OpenHead, mapVars

\* Chunks, and the last one.
LEMMA WritesKeepInv ==
  ASSUME HttpInv, NEW t \in Threads, ChunkWrite(t) \/ FinishWrite(t)
  PROVE  HttpInv'
<1> USE DEF At
<1>0. /\ ServerType /\ call[t] \in Call /\ Local(t, call[t]) /\ call \in [Threads -> Call]
      /\ shut \in SUBSET Conns
  BY DEF HttpInv, ServerType, MapsType
<1>1. call[t].at \in {"chunkWrite", "finishWrite"}
  BY DEF ChunkWrite, FinishWrite
<1>2. PICK c \in Conns, r \in Requests : c = call[t].conn /\ r = call[t].id
  BY <1>0, <1>1, ServerTypeIsType DEF Local, Placed, ChunkPoints, WriterPoints
<1>3. /\ UNCHANGED <<listenVars, mapVars, origin, clientVars>> /\ WireType'
  <2>1. UNCHANGED <<listenVars, mapVars, origin, clientVars>>
    BY DEF ChunkWrite, FinishWrite, slotVars
  <2>2. \/ UNCHANGED wire
        \/ \E kind \in {"full", "head", "chunk", "torn", "last"} :
              Len(wire[c]) < MaxFrames /\ Send(c, kind, r)
    BY <1>2 DEF ChunkWrite, FinishWrite, CanWrite, WriteFails
  <2>3. CASE UNCHANGED wire
    BY <1>0, <2>1, <2>3 DEF ServerType, WireType
  <2>4. CASE \E kind \in {"full", "head", "chunk", "torn", "last"} :
              Len(wire[c]) < MaxFrames /\ Send(c, kind, r)
    BY <1>0, <2>1, <2>4, SendFits
  <2> QED BY <2>1, <2>2, <2>3, <2>4
<1>4. ASSUME Return(t), UNCHANGED <<phase, shut>> PROVE HttpInv'
  <2>1. UNCHANGED <<shared, broken, ended>> /\ shut' \in SUBSET Conns /\ call[t].at # "stopFlag"
    BY <1>0, <1>1, <1>3, <1>4 DEF shared, listenVars, mapVars, clientVars
  <2> QED BY <1>3, <1>4, <2>1, ReturnStep
<1>5. ASSUME call[t].at = "finishWrite", Return(t), phase' = [phase EXCEPT ![c] = Idle],
             UNCHANGED shut
      PROVE  HttpInv'
  <2>1. /\ call' = [call EXCEPT ![t] = Ready] /\ shut' \in SUBSET Conns /\ Idle \in Phase
    BY <1>0, <1>5 DEF Phase, Return
  <2>2. Ready \in Call /\ Local(t, Ready)'
        /\ \A u \in Threads : u # t => Apart(Ready, call[u]) /\ Apart(call[u], Ready)
    BY ReadyFits
  <2> QED BY <1>2, <1>3, <1>5, <2>1, <2>2, OwnerSetsPhase
<1>6. ASSUME call[t].at = "finishWrite", shut' = shut \cup {c},
             call' = [call EXCEPT ![t].at = "drop", ![t].todo = {c}], UNCHANGED phase
      PROVE  HttpInv'
  BY <1>0, <1>2, <1>3, <1>6, OwnerDrops
<1>7. CASE ChunkWrite(t)
  BY <1>4, <1>7 DEF ChunkWrite, slotVars
<1>8. CASE FinishWrite(t)
  BY <1>2, <1>4, <1>5, <1>6, <1>8 DEF FinishWrite
<1> QED BY <1>7, <1>8

\* What clients do: they connect to a registered listener, and send requests.
LEMMA ClientKeepsInv ==
  ASSUME HttpInv, Client
  PROVE  HttpInv'
<1> USE DEF listenVars, mapVars, slotVars
<1>0. /\ ServerType /\ call \in [Threads -> Call] /\ backlog \subseteq Conns
      /\ dialled \in [Conns -> Listeners \cup {NoListener}]
      /\ listeners \subseteq Listeners
  BY DEF HttpInv, ServerType, MapsType
<1>1. /\ UNCHANGED <<listeners, stopped, connections, requests, writers, origin, phase, shut,
                     call, wire>>
  BY DEF Client, ClientConnects, ClientSends, ClientSendsMalformed, ClientCloses
<1>2. ASSUME ServerType', IndexPhases', UnacceptedIdle', DialledOnce',
             Unaccepted' \subseteq Unaccepted,
             \A d \in Conns : InPlace(d) => InPlace(d)'
      PROVE  HttpInv'
  <2>1. ASSUME NEW u \in Threads, NEW m \in Call, m = call[u] PROVE Local(u, m)'
    <3>0. Local(u, m) /\ m.todo \subseteq Conns
      BY <2>1 DEF HttpInv, Call
    <3>1. Placed(u, m)'     BY <1>1, <3>0 DEF Local, Placed
    <3>2. OwnsToken(m)'     BY <1>1, <3>0 DEF Local, OwnsToken
    <3>3. SeesIdle(m)'      BY <1>1, <3>0 DEF Local, SeesIdle
    <3>4. DropsOwn(m)'      BY <1>1, <3>0 DEF Local, DropsOwn
    <3>5. Accepted(m)'      BY <1>2, <3>0 DEF Local, Accepted
    <3>6. StaysInPlace(m)'
      <4>1. m.at \in {"mark", "index", "openLook", "openHead", "openIndex"} => m.conn \in Conns
        BY <1>0, <3>0, ServerTypeIsType DEF Local, Placed, ReadPoints, RequestPoints, WriterPoints
      <4> QED BY <1>2, <3>0, <4>1 DEF Local, StaysInPlace
    <3> QED BY <3>1, <3>2, <3>3, <3>4, <3>5, <3>6 DEF Local
  <2>2. ASSUME NEW u \in Threads PROVE Local(u, call[u])'
    <3>1. PICK m \in Call : m = call[u] /\ m = call'[u]
      BY <1>0, <1>1
    <3>2. Local(u, m)'
      BY <2>1, <3>1
    <3> QED BY <3>1, <3>2
  <2>3. ASSUME NEW u \in Threads, NEW v \in Threads, u # v PROVE Apart(call[u], call[v])'
    BY <1>1, <2>3 DEF HttpInv, Apart
  <2> QED BY <1>2, <2>2, <2>3 DEF HttpInv
<1>3. ASSUME UNCHANGED <<dialled, backlog>>, ServerType' PROVE HttpInv'
  <2>1. IndexPhases' /\ UnacceptedIdle' /\ DialledOnce'
    BY <1>1, <1>3 DEF HttpInv, IndexPhases, UnacceptedIdle, Unaccepted, DialledOnce, InPlace
  <2>2. Unaccepted' \subseteq Unaccepted /\ \A d \in Conns : InPlace(d) => InPlace(d)'
    BY <1>1, <1>3 DEF Unaccepted, InPlace
  <2> QED BY <1>2, <1>3, <2>1, <2>2
<1>4. WireType' /\ call' \in [Threads -> Call]
  BY <1>0, <1>1 DEF ServerType, WireType
<1>5. ASSUME NEW c \in Conns, NEW l \in Listeners, ClientConnects(c, l) PROVE HttpInv'
  <2>1. /\ dialled[c] = NoListener /\ l \in listeners /\ l # NoListener
        /\ dialled' = [dialled EXCEPT ![c] = l] /\ backlog' = backlog \cup {c}
        /\ UNCHANGED <<unread, broken, ended, sent>>
    BY <1>5, NoListenerAssumption DEF ClientConnects
  <2>2. dialled'[c] = l /\ \A d \in Conns : d # c => dialled'[d] = dialled[d]
    BY <1>0, <2>1
  <2>3. Unaccepted' = Unaccepted /\ c \in Unaccepted
    BY <1>0, <2>1, <2>2 DEF Unaccepted
  <2>4. phase[c] = Idle /\ c \notin connections
    BY <2>3 DEF HttpInv, UnacceptedIdle
  <2>5. MapsType' /\ RequestsCounted'
    BY <1>0, <1>1, <2>1 DEF ServerType, MapsType, RequestsCounted, Unread
  <2>6. UnacceptedIdle' /\ DialledOnce'
    BY <1>0, <1>1, <2>1, <2>2, <2>3 DEF HttpInv, UnacceptedIdle, DialledOnce
  <2>7. IndexPhases'
    <3>1. \A r \in requests \cup writers : origin[r] # c /\ origin[r] \in Conns
      BY <1>0, <2>4, IdleIsFree, ServerTypeIsType DEF ServerType, MapsType
    <3> QED BY <1>1, <2>2, <3>1 DEF HttpInv, IndexPhases, InPlace
  <2>8. ASSUME NEW u \in Threads, NEW m \in Call, m = call[u] PROVE Local(u, m)'
    <3>0. Local(u, m) /\ m.todo \subseteq Conns
      BY <2>8 DEF HttpInv, Call
    <3>1. Placed(u, m)'     BY <1>1, <3>0 DEF Local, Placed
    <3>2. OwnsToken(m)'     BY <1>1, <3>0 DEF Local, OwnsToken
    <3>3. SeesIdle(m)'      BY <1>1, <3>0 DEF Local, SeesIdle
    <3>4. DropsOwn(m)'      BY <1>1, <3>0 DEF Local, DropsOwn
    <3>5. Accepted(m)'      BY <2>3, <3>0 DEF Local, Accepted
    <3>6. StaysInPlace(m)'
      <4>1. /\ m.at \in {"mark", "index", "openLook", "openHead", "openIndex"} =>
                 m.conn \in Conns /\ m.conn # c
            /\ m.at = "poll" => c \notin m.todo
        <5>1. m.at \in {"mark", "index", "openLook", "openHead", "openIndex"} => m.conn \in Conns
          BY <1>0, <3>0, ServerTypeIsType DEF Local, Placed, ReadPoints, RequestPoints, WriterPoints
        <5>2. m.at \in RequestPoints \cup WriterPoints => m.conn # c
          BY <2>4, <2>8, IdleIsFree
        <5>3. (m.at = "mark" => m.conn # c) /\ (m.at = "poll" => c \notin m.todo)
          BY <2>3, <3>0 DEF Local, Accepted, ReadPoints
        <5> QED BY <5>1, <5>2, <5>3 DEF RequestPoints, WriterPoints
      <4> QED BY <1>1, <2>2, <3>0, <4>1 DEF Local, StaysInPlace, InPlace
    <3> QED BY <3>1, <3>2, <3>3, <3>4, <3>5, <3>6 DEF Local
  <2>9. ASSUME NEW u \in Threads PROVE Local(u, call[u])'
    <3>1. PICK m \in Call : m = call[u] /\ m = call'[u]
      BY <1>0, <1>1
    <3>2. Local(u, m)'
      BY <2>8, <3>1
    <3> QED BY <3>1, <3>2
  <2>10. ASSUME NEW u \in Threads, NEW v \in Threads, u # v PROVE Apart(call[u], call[v])'
    BY <1>1, <2>10 DEF HttpInv, Apart
  <2> QED BY <1>4, <2>5, <2>6, <2>7, <2>9, <2>10 DEF HttpInv, ServerType
<1>6. ASSUME NEW c \in Conns, ClientSends(c) PROVE HttpInv'
  <2>1. /\ sent < MaxRequests /\ sent' = sent + 1 /\ unread' = [unread EXCEPT ![c] = @ + 1]
        /\ UNCHANGED <<dialled, backlog, broken, ended>>
    BY <1>6 DEF ClientSends
  <2>2. /\ unread \in [Conns -> Nat] /\ unread[c] \in Nat /\ unread' \in [Conns -> Nat]
        /\ unread'[c] = unread[c] + 1 /\ \A d \in Conns : d # c => unread'[d] = unread[d]
    BY <1>0, <2>1 DEF ServerType, MapsType
  <2>3. 1..unread'[c] = (1..unread[c]) \cup {unread[c] + 1} /\ unread[c] + 1 \notin 1..unread[c]
    BY <2>2
  <2>4. Unread' = Unread \cup {<<c, unread[c] + 1>>} /\ <<c, unread[c] + 1>> \notin Unread
    BY <2>2, <2>3 DEF Unread
  <2>5. /\ IsFiniteSet(Unread') /\ Cardinality(Unread') = Cardinality(Unread) + 1
        /\ Cardinality(Unread) \in Nat
    BY <1>0, <2>4, FS_AddElement, FS_CardinalityType DEF ServerType, RequestsCounted
  <2>6. RequestsCounted'
    <3>1. Len(origin') = Len(origin) /\ Len(origin) \in Nat
      BY <1>0, <1>1, ServerTypeIsType
    <3>2. PICK n, q \in Nat : n = Len(origin) /\ q = Cardinality(Unread) /\ n \in Nat /\ n + q = sent
      BY <1>0, <2>5, <3>1 DEF ServerType, RequestsCounted
    <3>3. sent' \in 0..MaxRequests /\ n + (q + 1) = sent'
      BY <1>0, <2>1, <3>2, HttpAssumption DEF ServerType, RequestsCounted
    <3> QED BY <2>5, <3>1, <3>2, <3>3 DEF RequestsCounted
  <2>7. MapsType'
    BY <1>0, <1>1, <2>1, <2>2 DEF ServerType, MapsType
  <2>8. ServerType'
    BY <1>4, <2>6, <2>7 DEF ServerType
  <2> QED BY <1>3, <2>1, <2>8
<1>7. ASSUME NEW c \in Conns, ClientSendsMalformed(c) \/ ClientCloses(c) PROVE HttpInv'
  <2>1. /\ UNCHANGED <<dialled, backlog, unread, sent>>
        /\ broken' \subseteq broken \cup {c} /\ ended' \subseteq ended \cup {c}
    BY <1>7 DEF ClientSendsMalformed, ClientCloses
  <2>2. MapsType' /\ RequestsCounted'
    BY <1>0, <1>1, <2>1 DEF ServerType, MapsType, RequestsCounted, Unread
  <2>3. ServerType'
    BY <1>4, <2>2 DEF ServerType
  <2> QED BY <1>3, <2>1, <2>3
<1> QED BY <1>5, <1>6, <1>7 DEF Client

\* Every step of the server and of its clients keeps the invariant.
LEMMA HttpInvInductive ==
  ASSUME SingleAcceptor, HttpInv, [Next]_vars
  PROVE  HttpInv'
<1>1. CASE UNCHANGED vars
  <2>0. UNCHANGED <<listeners, stopped, connections, requests, writers, origin, phase, shut, call,
                    dialled, backlog, unread, broken, ended, sent, wire>>
    BY <1>1 DEF vars, listenVars, mapVars, slotVars, clientVars
  <2>1. ServerType'
    BY <2>0 DEF HttpInv, ServerType, MapsType, WireType, RequestsCounted, Unread
  <2>2. IndexPhases' /\ UnacceptedIdle' /\ DialledOnce'
    BY <2>0 DEF HttpInv, IndexPhases, UnacceptedIdle, Unaccepted, DialledOnce, InPlace
  <2>3. ASSUME NEW u \in Threads PROVE Local(u, call[u])'
    <3>1. Local(u, call[u])
      BY DEF HttpInv
    <3> QED BY <2>0, <3>1 DEF Local, Placed, Accepting, OwnsToken, SeesIdle, Dropping, DropsOwn,
                              Accepted, Unaccepted, StaysInPlace, InPlace
  <2>4. ASSUME NEW u \in Threads, NEW v \in Threads, u # v PROVE Apart(call[u], call[v])'
    BY <2>0, <2>4 DEF HttpInv, Apart
  <2> QED BY <2>1, <2>2, <2>3, <2>4 DEF HttpInv
<1>2. ASSUME NEW t \in Threads, NEW l \in Listeners, Accept(t, l) PROVE HttpInv'
  <2>1. [Ready EXCEPT !.at = "loop", !.lst = l] \in Call
    BY DEF Ready, Call, Points
  <2>2. PICK k \in Call : k = [Ready EXCEPT !.at = "loop", !.lst = l]
    BY <2>1
  <2>3. k.at = "loop" /\ k.lst = l
    BY <2>2 DEF Ready
  <2>4. /\ call' = [call EXCEPT ![t] = k] /\ call[t].at # "stopFlag" /\ t \in Acceptors
        /\ UNCHANGED <<shared, broken, ended, shut, wire>>
    BY <1>2, <2>2 DEF Accept, Enter, At, shared, listenVars, mapVars, slotVars, clientVars
  <2>5. shut' \in SUBSET Conns /\ WireType'
    BY <2>4 DEF HttpInv, ServerType, MapsType, WireType
  <2> QED BY <2>3, <2>4, <2>5, QuietStep
<1>3. ASSUME NEW t \in Threads, NewCall(t) PROVE HttpInv'
  BY <1>2, <1>3, ListenersKeepInv, BeginKeepsInv DEF NewCall
<1>4. ASSUME NEW t \in Threads, AcceptStep(t) PROVE HttpInv'
  BY <1>4, AcceptLooks, PollKeepsInv, PendingKeepsInv, IndexKeepsInv, TcpKeepsInv, AdmitKeepsInv
  DEF AcceptStep
<1>5. ASSUME NEW t \in Threads, RespondStep(t) PROVE HttpInv'
  BY <1>5, AnswerKeepsInv, LooksKeepInv, OpenHeadKeepsInv, IndexKeepsInv, WritesKeepInv
  DEF RespondStep
<1>6. ASSUME NEW t \in Threads, StopStep(t) PROVE HttpInv'
  BY <1>6, ListenersKeepInv, StopKeepsInv DEF StopStep
<1>7. ASSUME NEW t \in Threads, ThreadStep(t) PROVE HttpInv'
  BY <1>4, <1>5, <1>6, <1>7, DropsKeepInv DEF ThreadStep
<1>8. CASE Client
  BY <1>8, ClientKeepsInv
<1> QED BY <1>1, <1>3, <1>7, <1>8 DEF Next

LEMMA HttpInvInitially ==
  ASSUME Init
  PROVE  HttpInv
<1>1. /\ listeners = {} /\ stopped = {} /\ connections = {} /\ requests = {} /\ writers = {}
      /\ origin = <<>> /\ phase = [c \in Conns |-> Idle] /\ shut = {}
      /\ call = [t \in Threads |-> Ready] /\ dialled = [c \in Conns |-> NoListener]
      /\ backlog = {} /\ unread = [c \in Conns |-> 0] /\ broken = {} /\ ended = {} /\ sent = 0
      /\ wire = [c \in Conns |-> <<>>]
  BY DEF Init
<1>2. Ready \in Call /\ \A t \in Threads : call[t] = Ready /\ Local(t, call[t])
  BY <1>1, ReadyFits
<1>3. \A t, u \in Threads : Apart(call[t], call[u])
  BY <1>2, ReadyFits
<1>4. MapsType
  BY <1>1 DEF MapsType, Phase
<1>5. WireType
  BY <1>1, HttpAssumption DEF WireType
<1>6. Unread = {}
  BY <1>1 DEF Unread
<1>7. RequestsCounted
  BY <1>1, <1>6, FS_EmptySet, HttpAssumption DEF RequestsCounted
<1>8. IndexPhases /\ UnacceptedIdle /\ DialledOnce
  BY <1>1 DEF IndexPhases, UnacceptedIdle, Unaccepted, DialledOnce
<1>9. call \in [Threads -> Call]
  BY <1>1, <1>2
<1> QED BY <1>2, <1>3, <1>4, <1>5, <1>7, <1>8, <1>9 DEF HttpInv, ServerType

\* With one thread that accepts, whatever threads respond and stop, the request
\* index names what the slots are pending for and both indexes name registered
\* connections, or those of a stopped listener (HttpState).
THEOREM IndexesStayExact ==
  ASSUME SingleAcceptor
  PROVE  Spec => []IndexesExact
<1>1. Init => HttpInv
  BY HttpInvInitially
<1>2. HttpInv /\ [Next]_vars => HttpInv'
  BY HttpInvInductive
<1>3. HttpInv => IndexesExact
  <2>1. SUFFICES ASSUME HttpInv PROVE IndexesExact
    OBVIOUS
  <2>2. TypeOK
    BY <2>1, ServerTypeIsType DEF HttpInv
  <2>3. PendingIndexExact /\ IndexesFollowConnections
    BY <2>1 DEF HttpInv, IndexPhases, InPlace, PendingIndexExact, IndexesFollowConnections
  <2> QED BY <2>2, <2>3 DEF IndexesExact
<1> QED BY <1>1, <1>2, <1>3, PTL DEF Spec

-----------------------------------------------------------------------------
(* What was written, against the phases.                                   *)

LastFrame(c) == wire[c][Len(wire[c])]

\* The last response on c is complete, and to a request before `bound`.
EndsResponse(c, bound) ==
    Len(wire[c]) > 0 => LastFrame(c).kind = "last" /\ LastFrame(c).id < bound

\* An open connection in a stream ends in a frame of that stream, any other in
\* a complete response to an earlier request.
WireFits(c) ==
    c \notin shut =>
        /\ phase[c] = Idle => EndsResponse(c, Len(origin) + 1)
        /\ \A r \in Requests : phase[c] = Pending(r) => EndsResponse(c, r)
        /\ \A w \in Requests : phase[c] = Streaming(w) =>
            /\ Len(wire[c]) > 0 /\ LastFrame(c).id = w
            /\ LastFrame(c).kind \in {"head", "chunk", "torn"}
ReadFits(k) ==
    k.at \in ReadPoints /\ k.conn \notin shut => EndsResponse(k.conn, k.id)

FrameInv ==
    /\ ResponsesDoNotMix
    /\ \A c \in Conns : WireFits(c)
    /\ \A t \in Threads : ReadFits(call[t])

\* f may be written next on c.
MayFollow(c, f) ==
    IF f.kind \in {"full", "head"} THEN EndsResponse(c, f.id)
    ELSE /\ Len(wire[c]) > 0 /\ LastFrame(c).id = f.id
         /\ LastFrame(c).kind \in {"head", "chunk", "torn"}

\* A step that writes nothing and sets no phase: the only new obligation is of
\* an accept that has just read the newest request from an idle connection.
LEMMA SilentFrames ==
  ASSUME HttpInv, FrameInv, UNCHANGED <<wire, phase>>, shut \subseteq shut',
         Len(origin') \in Nat, Len(origin) <= Len(origin'),
         \A u \in Threads : call'[u].at \in ReadPoints =>
            \/ call[u].at \in ReadPoints /\ call'[u].conn = call[u].conn /\ call'[u].id = call[u].id
            \/ /\ call'[u].conn \in Conns /\ phase[call'[u].conn] = Idle
               /\ call'[u].id = Len(origin) + 1
  PROVE  FrameInv'
<1>0. Len(origin) \in Nat /\ wire \in [Conns -> Seq(Frame)]
  BY ServerTypeIsType DEF HttpInv, ServerType, WireType
<1>1. ResponsesDoNotMix'
  BY DEF FrameInv, ResponsesDoNotMix
<1>2. ASSUME NEW c \in Conns PROVE WireFits(c)'
  <2>1. WireFits(c)
    BY DEF FrameInv
  <2>2. EndsResponse(c, Len(origin) + 1) => EndsResponse(c, Len(origin) + 1)'
    <3>1. SUFFICES ASSUME Len(wire[c]) > 0, LastFrame(c).id < Len(origin) + 1
                   PROVE  LastFrame(c).id < Len(origin') + 1
      BY DEF EndsResponse, LastFrame
    <3>2. wire[c] \in Seq(Frame) /\ Len(wire[c]) \in Nat
      BY <1>0
    <3>3. LastFrame(c) \in Frame
      BY <3>1, <3>2 DEF LastFrame
    <3>4. LastFrame(c).id \in Nat
      BY <3>3, HttpAssumption DEF Frame, Requests
    <3> QED BY <1>0, <3>1, <3>4
  <2> QED BY <2>1, <2>2 DEF WireFits, EndsResponse, LastFrame
<1>3. ASSUME NEW u \in Threads PROVE ReadFits(call[u])'
  <2>1. CASE call'[u].at \notin ReadPoints
    BY <2>1 DEF ReadFits
  <2>2. CASE call[u].at \in ReadPoints /\ call'[u].conn = call[u].conn /\ call'[u].id = call[u].id
    <3>1. ReadFits(call[u])
      BY DEF FrameInv
    <3> QED BY <2>2, <3>1 DEF ReadFits, EndsResponse, LastFrame
  <2>3. CASE /\ call'[u].conn \in Conns /\ phase[call'[u].conn] = Idle
             /\ call'[u].id = Len(origin) + 1
    <3>1. PICK c \in Conns : c = call'[u].conn /\ WireFits(c)
      BY <2>3 DEF FrameInv
    <3> QED BY <2>3, <3>1 DEF ReadFits, WireFits, EndsResponse, LastFrame
  <2> QED BY <2>1, <2>2, <2>3
<1> QED BY <1>1, <1>2, <1>3 DEF FrameInv

\* One frame is written on a connection that is not idle, and its phase may be
\* set.
LEMMA WriteFrames ==
  ASSUME HttpInv, FrameInv, NEW t \in Threads, NEW c \in Conns, NEW f \in Frame,
         wire' = [wire EXCEPT ![c] = Append(wire[c], f)], MayFollow(c, f),
         phase[c] # Idle, \A d \in Conns : d # c => phase'[d] = phase[d],
         UNCHANGED origin, shut \subseteq shut',
         call'[t].at \notin ReadPoints, \A u \in Threads : u # t => call'[u] = call[u],
         \/ c \in shut'
         \/ phase'[c] = Idle /\ f.kind = "last" /\ f.id < Len(origin) + 1
         \/ phase'[c] = Streaming(f.id) /\ f.kind \in {"head", "chunk", "torn"}
  PROVE  FrameInv'
<1>0. wire \in [Conns -> Seq(Frame)]
  BY DEF HttpInv, ServerType, WireType
<1>1. PICK n \in Nat : n = Len(wire[c])
  BY <1>0
<1>2. /\ wire'[c] = Append(wire[c], f) /\ Len(wire'[c]) = n + 1 /\ wire'[c][n + 1] = f
      /\ \A i \in 1..n : wire'[c][i] = wire[c][i]
      /\ \A d \in Conns : d # c => wire'[d] = wire[d]
  BY <1>0, <1>1
<1>3. ASSUME NEW d \in Conns, NEW i \in 1..Len(wire'[d])
      PROVE  LET g == wire'[d][i] IN
             IF g.kind \in {"full", "head"}
             THEN i = 1 \/ (wire'[d][i - 1].kind = "last" /\ wire'[d][i - 1].id < g.id)
             ELSE i > 1 /\ wire'[d][i - 1].id = g.id
                  /\ wire'[d][i - 1].kind \in {"head", "chunk", "torn"}
  <2>1. CASE d # c
    BY <1>2, <2>1 DEF FrameInv, ResponsesDoNotMix
  <2>2. CASE d = c /\ i # n + 1
    <3>1. i \in 1..n /\ i \in 1..Len(wire[d]) /\ wire'[d][i] = wire[d][i]
          /\ (i > 1 => wire'[d][i - 1] = wire[d][i - 1]) /\ (i = 1 \/ i > 1)
      BY <1>1, <1>2, <2>2
    <3> QED BY <3>1 DEF FrameInv, ResponsesDoNotMix
  <2>3. CASE d = c /\ i = n + 1
    <3>1. wire'[d][i] = f /\ (n > 0 => wire'[d][i - 1] = LastFrame(c)) /\ (n > 0 <=> i > 1)
          /\ (n > 0 \/ i = 1)
      BY <1>1, <1>2, <2>3 DEF LastFrame
    <3>2. IF f.kind \in {"full", "head"} THEN n > 0 => LastFrame(c).kind = "last" /\ LastFrame(c).id < f.id
          ELSE n > 0 /\ LastFrame(c).id = f.id /\ LastFrame(c).kind \in {"head", "chunk", "torn"}
      BY <1>1 DEF MayFollow, EndsResponse
    <3> HIDE DEF LastFrame
    <3> QED BY <3>1, <3>2
  <2> QED BY <1>1, <2>1, <2>2, <2>3
<1>4. ResponsesDoNotMix'
  BY <1>3 DEF ResponsesDoNotMix
<1>5. LastFrame(c)' = f /\ (Len(wire[c]) > 0)'
  BY <1>1, <1>2 DEF LastFrame
<1>6. WireFits(c)'
  BY <1>5, PhasesDiffer DEF WireFits, EndsResponse
<1>7. ASSUME NEW d \in Conns, d # c PROVE WireFits(d)'
  <2>1. WireFits(d)
    BY DEF FrameInv
  <2> QED BY <1>2, <1>7, <2>1 DEF WireFits, EndsResponse, LastFrame
<1>8. ASSUME NEW u \in Threads PROVE ReadFits(call[u])'
  <2>1. CASE call'[u].at \notin ReadPoints
    BY <2>1 DEF ReadFits
  <2>2. CASE call'[u].at \in ReadPoints
    <3>1. call'[u] = call[u] /\ call[u].at \in ReadPoints
      BY <2>2
    <3>2. call[u].conn \in Conns /\ phase[call[u].conn] = Idle /\ ReadFits(call[u])
      BY <3>1, ServerTypeIsType DEF HttpInv, Local, Placed, SeesIdle, FrameInv
    <3> QED BY <1>2, <3>1, <3>2 DEF ReadFits, EndsResponse, LastFrame
  <2> QED BY <2>1, <2>2
<1> QED BY <1>4, <1>6, <1>7, <1>8 DEF FrameInv

\* Steps of t after which it holds no request it has only read.
SilentStep(t) ==
    \/ AcceptLoop(t) \/ ScanIdle(t) \/ PollDone(t) \/ IndexRequest(t) \/ TcpAccept(t)
    \/ TakeConnection(t) \/ OpenLookUp(t) \/ OpenIndex(t) \/ ChunkLookUp(t) \/ ChunkLock(t)
    \/ FinishLookUp(t) \/ FinishLock(t) \/ StopStep(t)
    \/ DropConnection(t) \/ ForgetRead(t) \/ ForgetRequest(t) \/ ForgetWriter(t)

LEMMA SilentStepFrames ==
  ASSUME HttpInv, FrameInv, NEW t \in Threads, SilentStep(t) \/ NewCall(t)
  PROVE  FrameInv'
<1> USE DEF At, Goto, Return, Enter
<1>0. /\ call \in [Threads -> Call] /\ call[t] \in Call /\ Ready.at = "ready"
      /\ call[t].then \in {"ready", "tcp"} /\ Len(origin) \in Nat
  BY ServerTypeIsType DEF HttpInv, ServerType, Call, Ready
<1>1. UNCHANGED <<wire, phase, origin>> /\ shut \subseteq shut'
  <2>1. CASE NewCall(t)
    BY <2>1 DEF NewCall, Listen, Accept, Stop, Respond, RespondOpen, TakeRequest, RespondChunk,
                RespondFinish, slotVars
  <2>2. CASE AcceptLoop(t) \/ ScanIdle(t) \/ PollDone(t) \/ IndexRequest(t) \/ TcpAccept(t)
    BY <2>2 DEF AcceptLoop, ScanIdle, PollDone, IndexRequest, TcpAccept, slotVars
  <2>3. CASE \/ TakeConnection(t) \/ OpenLookUp(t) \/ OpenIndex(t) \/ ChunkLookUp(t)
             \/ ChunkLock(t) \/ FinishLookUp(t) \/ FinishLock(t)
    BY <2>3 DEF TakeConnection, OpenLookUp, OpenIndex, ChunkLookUp, ChunkLock, FinishLookUp,
                FinishLock, LookUp, LockStream, slotVars
  <2>4. CASE StopStep(t)
    BY <2>4 DEF StopStep, StopFlag, StopSweep, StopClose, StopCollect, StopRequests,
                RemoveRequests, StopWriters, slotVars
  <2>5. CASE DropConnection(t) \/ ForgetRead(t) \/ ForgetRequest(t) \/ ForgetWriter(t)
    BY <2>5 DEF DropConnection, ForgetRead, ForgetRequest, RemoveRequests, ForgetWriter, slotVars
  <2> QED BY <2>1, <2>2, <2>3, <2>4, <2>5 DEF SilentStep
<1>2. /\ \A u \in Threads : u # t => call'[u] = call[u]
      /\ call'[t] = call[t] \/ call'[t].at \notin ReadPoints
  <2>1. CASE NewCall(t)
    <3>1. PICK k : k = call'[t]
      OBVIOUS
    <3>2. ASSUME NEW r \in 1..Len(origin), Respond(t, r) \/ RespondOpen(t, r) \/ RespondChunk(t, r)
          PROVE  k.at \in {"take", "openLook", "chunkLook"} /\ \A u \in Threads : u # t => call'[u] = call[u]
      BY <1>0, <3>1, <3>2 DEF Respond, RespondOpen, TakeRequest, RespondChunk, Ready
    <3>3. ASSUME NEW r \in 1..Len(origin), NEW keep \in BOOLEAN, RespondFinish(t, r, keep)
          PROVE  k.at = "finishLook" /\ \A u \in Threads : u # t => call'[u] = call[u]
      BY <1>0, <3>1, <3>3 DEF RespondFinish, Ready
    <3>4. ASSUME NEW l \in Listeners, Accept(t, l) \/ Stop(t, l)
          PROVE  k.at \in {"loop", "stopFlag"} /\ \A u \in Threads : u # t => call'[u] = call[u]
      BY <1>0, <3>1, <3>4 DEF Accept, Stop, Ready
    <3>5. ASSUME NEW l \in Listeners, Listen(t, l) PROVE call' = call
      BY <3>5 DEF Listen
    <3> QED BY <2>1, <3>1, <3>2, <3>3, <3>4, <3>5 DEF NewCall, ReadPoints
  <2>2. CASE AcceptLoop(t) \/ ScanIdle(t) \/ PollDone(t) \/ IndexRequest(t) \/ TcpAccept(t)
    BY <1>0, <2>2 DEF AcceptLoop, ScanIdle, PollDone, IndexRequest, TcpAccept, Call, ReadPoints
  <2>3. CASE \/ TakeConnection(t) \/ OpenLookUp(t) \/ OpenIndex(t) \/ ChunkLookUp(t)
             \/ ChunkLock(t) \/ FinishLookUp(t) \/ FinishLock(t)
    BY <1>0, <2>3 DEF TakeConnection, OpenLookUp, OpenIndex, ChunkLookUp, ChunkLock, FinishLookUp,
                      FinishLock, LookUp, LockStream, Call, ReadPoints
  <2>4. CASE StopStep(t)
    <3>1. CASE StopFlag(t)
      BY <1>0, <3>1 DEF StopFlag, Call, ReadPoints
    <3>2. CASE StopSweep(t)
      BY <1>0, <3>2 DEF StopSweep, Call, ReadPoints
    <3>3. CASE StopClose(t)
      <4>1. CASE Goto(t, "stopRequests")
        BY <1>0, <4>1 DEF Call, ReadPoints
      <4>2. ASSUME NEW c \in call[t].todo,
                   call' = [call EXCEPT ![t].at = "stopCollect", ![t].conn = c, ![t].todo = @ \ {c}]
            PROVE  /\ \A u \in Threads : u # t => call'[u] = call[u]
                   /\ call'[t].at = "stopCollect"
        BY <1>0, <4>2 DEF Call
      <4> QED BY <3>3, <4>1, <4>2 DEF StopClose, ReadPoints
    <3>4. CASE StopCollect(t)
      BY <1>0, <3>4 DEF StopCollect, Call, ReadPoints
    <3>5. CASE StopRequests(t) \/ StopWriters(t)
      BY <1>0, <3>5 DEF StopRequests, RemoveRequests, StopWriters, Call, ReadPoints
    <3> QED BY <2>4, <3>1, <3>2, <3>3, <3>4, <3>5 DEF StopStep
  <2>5. CASE DropConnection(t) \/ ForgetRead(t) \/ ForgetRequest(t) \/ ForgetWriter(t)
    <3>1. ASSUME NEW c \in call[t].todo,
                 call' = [call EXCEPT ![t].todo = @ \ {c}, ![t].conn = c,
                            ![t].at = IF c \in connections THEN "forget" ELSE "drop"]
          PROVE  /\ \A u \in Threads : u # t => call'[u] = call[u]
                 /\ call'[t].at \in {"forget", "drop"}
      BY <1>0, <3>1 DEF Call
    <3>2. CASE IF call[t].then = "ready" THEN Return(t) ELSE Goto(t, call[t].then)
      BY <1>0, <3>2 DEF Call, ReadPoints
    <3>3. CASE ForgetRead(t)
      BY <1>0, <3>3 DEF ForgetRead, Call, ReadPoints
    <3>4. CASE ForgetRequest(t) \/ ForgetWriter(t)
      BY <1>0, <3>4 DEF ForgetRequest, RemoveRequests, ForgetWriter, Call, ReadPoints
    <3>5. CASE DropConnection(t)
      BY <3>1, <3>2, <3>5 DEF DropConnection, ReadPoints
    <3> QED BY <2>5, <3>3, <3>4, <3>5
  <2> QED BY <2>1, <2>2, <2>3, <2>4, <2>5 DEF SilentStep
<1> QED BY <1>0, <1>1, <1>2, SilentFrames

\* The steps of accept that read a request.
LEMMA ReadFrames ==
  ASSUME HttpInv, FrameInv, NEW t \in Threads,
         (\E c \in Conns : PollIdle(t, c)) \/ AdmitRead(t) \/ AdmitCheck(t)
  PROVE  FrameInv'
<1> USE DEF At, Goto, Return
<1>0. /\ ServerType /\ call \in [Threads -> Call] /\ call[t] \in Call /\ Ready.at = "ready"
      /\ Local(t, call[t]) /\ Len(origin) \in Nat
  BY ServerTypeIsType DEF HttpInv, ServerType, Ready
<1>1. UNCHANGED <<wire, phase, sent>> /\ shut \subseteq shut'
  BY DEF PollIdle, AdmitRead, AdmitCheck, slotVars, clientVars
<1>2. ASSUME NEW c \in Conns, ReadRequest(c)
      PROVE  Len(origin') = Len(origin) + 1
  BY <1>0, <1>1, <1>2, ReadCounts
<1>3. ASSUME NEW c \in Conns, PollIdle(t, c)
      PROVE  /\ Len(origin') \in Nat /\ Len(origin) <= Len(origin')
             /\ \A u \in Threads : u # t => call'[u] = call[u]
             /\ call'[t].at \in ReadPoints =>
                  call'[t].conn = c /\ phase[c] = Idle /\ call'[t].id = Len(origin) + 1
  <2>1. \/ /\ phase[c] = Idle /\ ReadRequest(c)
           /\ call' = [call EXCEPT ![t].at = "mark", ![t].conn = c,
                                   ![t].id = Len(origin'), ![t].todo = {}]
        \/ UNCHANGED origin /\ (PassOver(t, c, TRUE) \/ PassOver(t, c, FALSE) \/ Return(t))
    BY <1>3 DEF PollIdle, slotVars
  <2>2. CASE /\ phase[c] = Idle /\ ReadRequest(c)
             /\ call' = [call EXCEPT ![t].at = "mark", ![t].conn = c,
                                   ![t].id = Len(origin'), ![t].todo = {}]
    BY <1>0, <1>2, <2>2 DEF Call
  <2>3. CASE UNCHANGED origin /\ (PassOver(t, c, TRUE) \/ PassOver(t, c, FALSE) \/ Return(t))
    <3>1. call[t].at = "poll"
      BY <1>3 DEF PollIdle
    <3> QED BY <1>0, <2>3, <3>1 DEF PassOver, Call, ReadPoints
  <2> QED BY <2>1, <2>2, <2>3
<1>4. ASSUME AdmitRead(t) \/ AdmitCheck(t)
      PROVE  /\ Len(origin') \in Nat /\ Len(origin) <= Len(origin')
             /\ \A u \in Threads : u # t => call'[u] = call[u]
             /\ call'[t].at \in ReadPoints =>
                  \/ call[t].at \in ReadPoints /\ call'[t].conn = call[t].conn /\ call'[t].id = call[t].id
                  \/ /\ call'[t].conn \in Conns /\ phase[call'[t].conn] = Idle
                     /\ call'[t].id = Len(origin) + 1
  <2>1. CASE AdmitCheck(t)
    <3>1. UNCHANGED origin /\ call[t].at \in ReadPoints
      BY <2>1 DEF AdmitCheck, ReadPoints
    <3> QED BY <1>0, <2>1, <3>1 DEF AdmitCheck, Call, ReadPoints
  <2>2. CASE AdmitRead(t)
    <3>1. call[t].conn \in Conns /\ phase[call[t].conn] = Idle
      BY <1>0, <2>2 DEF AdmitRead, Local, Placed, SeesIdle
    <3>2. \/ /\ ReadRequest(call[t].conn)
             /\ call' = [call EXCEPT ![t].at = "admit", ![t].id = Len(origin')]
          \/ UNCHANGED origin /\ (Goto(t, "loop") \/ Return(t))
      BY <2>2 DEF AdmitRead
    <3>3. CASE /\ ReadRequest(call[t].conn)
               /\ call' = [call EXCEPT ![t].at = "admit", ![t].id = Len(origin')]
      BY <1>0, <1>2, <3>1, <3>3 DEF Call
    <3>4. CASE UNCHANGED origin /\ (Goto(t, "loop") \/ Return(t))
      BY <1>0, <3>4 DEF Call, ReadPoints
    <3> QED BY <3>2, <3>3, <3>4
  <2> QED BY <1>4, <2>1, <2>2
<1>5. /\ Len(origin') \in Nat /\ Len(origin) <= Len(origin')
      /\ \A u \in Threads : call'[u].at \in ReadPoints =>
            \/ call[u].at \in ReadPoints /\ call'[u].conn = call[u].conn /\ call'[u].id = call[u].id
            \/ /\ call'[u].conn \in Conns /\ phase[call'[u].conn] = Idle
               /\ call'[u].id = Len(origin) + 1
  BY <1>3, <1>4
<1> QED BY <1>1, <1>5, SilentFrames

\* The phase is set to pending for the request read.
LEMMA PendingFrames ==
  ASSUME HttpInv, FrameInv, NEW t \in Threads, MarkPending(t) \/ AdmitInsert(t)
  PROVE  FrameInv'
<1> USE DEF At
<1>0. /\ ServerType /\ call \in [Threads -> Call] /\ call[t] \in Call
      /\ Local(t, call[t]) /\ phase \in [Conns -> Phase]
  BY DEF HttpInv, ServerType, MapsType
<1>1. /\ call[t].at \in {"mark", "insert"} /\ Goto(t, "index")
      /\ phase' = [phase EXCEPT ![call[t].conn] = Pending(call[t].id)]
      /\ UNCHANGED <<origin, shut, wire>>
  BY DEF MarkPending, AdmitInsert, clientVars
<1>2. PICK c \in Conns : c = call[t].conn
  BY <1>0, <1>1, ServerTypeIsType DEF Local, Placed, ReadPoints
<1>3. /\ phase'[c] = Pending(call[t].id) /\ \A d \in Conns : d # c => phase'[d] = phase[d]
      /\ \A u \in Threads : u # t => call'[u] = call[u]
      /\ call'[t].at \notin ReadPoints
  BY <1>0, <1>1, <1>2 DEF Goto, Call, ReadPoints
<1>4. c \notin shut => EndsResponse(c, call[t].id)
  BY <1>1, <1>2 DEF FrameInv, ReadFits, ReadPoints
<1>5. ResponsesDoNotMix'
  BY <1>1 DEF FrameInv, ResponsesDoNotMix
<1>6. ASSUME NEW d \in Conns PROVE WireFits(d)'
  <2>1. CASE d = c
    BY <1>1, <1>3, <1>4, <2>1, PhasesDiffer DEF WireFits, EndsResponse, LastFrame
  <2>2. CASE d # c
    <3>1. WireFits(d)
      BY DEF FrameInv
    <3> QED BY <1>1, <1>3, <2>2, <3>1 DEF WireFits, EndsResponse, LastFrame
  <2> QED BY <2>1, <2>2
<1>7. ASSUME NEW u \in Threads PROVE ReadFits(call[u])'
  <2>1. CASE u = t
    BY <1>3, <2>1 DEF ReadFits
  <2>2. CASE u # t
    <3>1. ReadFits(call[u])
      BY DEF FrameInv
    <3> QED BY <1>1, <1>3, <2>2, <3>1 DEF ReadFits, EndsResponse, LastFrame
  <2> QED BY <2>1, <2>2
<1> QED BY <1>5, <1>6, <1>7 DEF FrameInv

\* The steps that write, or fail to.
LEMMA WriterFrames ==
  ASSUME HttpInv, FrameInv, NEW t \in Threads,
         Answer(t) \/ OpenHead(t) \/ ChunkWrite(t) \/ FinishWrite(t)
  PROVE  FrameInv'
<1> USE DEF At
<1>0. /\ ServerType /\ call \in [Threads -> Call] /\ call[t] \in Call
      /\ Local(t, call[t]) /\ Len(origin) \in Nat /\ phase \in [Conns -> Phase]
      /\ wire \in [Conns -> Seq(Frame)] /\ Ready.at = "ready"
  BY ServerTypeIsType DEF HttpInv, ServerType, MapsType, WireType, Ready
<1>1. /\ call[t].at \in {"answer", "openHead", "chunkWrite", "finishWrite"}
      /\ UNCHANGED origin /\ shut \subseteq shut'
  BY DEF Answer, OpenHead, ChunkWrite, FinishWrite, slotVars
<1>2. PICK c \in Conns, r \in Requests :
        /\ c = call[t].conn /\ r = call[t].id /\ r \in 1..Len(origin)
        /\ call[t].at \in {"answer", "openHead"} => phase[c] = Pending(r)
        /\ call[t].at \in {"chunkWrite", "finishWrite"} => phase[c] = Streaming(r)
  BY <1>0, <1>1, ServerTypeIsType
  DEF Local, Placed, OwnsToken, RequestPoints, WriterPoints, ChunkPoints
<1>3. phase[c] # Idle
  BY <1>1, <1>2, PhasesDiffer
<1>4. WireFits(c)
  BY DEF FrameInv
<1>5. /\ \A u \in Threads : u # t => call'[u] = call[u]
      /\ call'[t].at \notin ReadPoints
  <2>1. CASE Return(t)
    BY <1>0, <2>1 DEF Return, ReadPoints
  <2>2. CASE Goto(t, "openIndex")
    BY <1>0, <2>2 DEF Goto, Call, ReadPoints
  <2>3. CASE call' = [call EXCEPT ![t].at = "drop", ![t].todo = {c}]
    BY <1>0, <2>3 DEF Call, ReadPoints
  <2> QED BY <1>2, <2>1, <2>2, <2>3 DEF Answer, OpenHead, ChunkWrite, FinishWrite
<1>6. ASSUME UNCHANGED wire, phase' = phase PROVE FrameInv'
  <2>1. \A u \in Threads : call'[u].at \in ReadPoints =>
            \/ call[u].at \in ReadPoints /\ call'[u].conn = call[u].conn /\ call'[u].id = call[u].id
            \/ /\ call'[u].conn \in Conns /\ phase[call'[u].conn] = Idle
               /\ call'[u].id = Len(origin) + 1
    BY <1>5
  <2>2. Len(origin') \in Nat /\ Len(origin) <= Len(origin')
    BY <1>0, <1>1
  <2> QED BY <1>1, <1>6, <2>1, <2>2, SilentFrames
<1>7. ASSUME NEW kind \in {"full", "head", "chunk", "torn", "last"}, Send(c, kind, r), c \notin shut,
             \A d \in Conns : d # c => phase'[d] = phase[d],
             kind \in {"full", "head"} => phase[c] = Pending(r),
             kind \in {"chunk", "torn", "last"} => phase[c] = Streaming(r),
             \/ c \in shut'
             \/ phase'[c] = Idle /\ kind = "last"
             \/ phase'[c] = Streaming(r) /\ kind \in {"head", "chunk", "torn"}
      PROVE  FrameInv'
  <2>1. PICK f \in Frame : f = [kind |-> kind, id |-> r]
    BY DEF Frame
  <2>2. f.kind = kind /\ f.id = r /\ wire' = [wire EXCEPT ![c] = Append(wire[c], f)]
    BY <1>0, <1>7, <2>1 DEF Send
  <2>3. MayFollow(c, f)
    <3>1. CASE kind \in {"full", "head"}
      BY <1>4, <1>7, <2>2, <3>1 DEF MayFollow, WireFits
    <3>2. CASE kind \in {"chunk", "torn", "last"}
      BY <1>4, <1>7, <2>2, <3>2 DEF MayFollow, WireFits
    <3> QED BY <3>1, <3>2
  <2>4. r < Len(origin) + 1
    BY <1>0, <1>2
  <2>5. \/ c \in shut'
        \/ phase'[c] = Idle /\ f.kind = "last" /\ f.id < Len(origin) + 1
        \/ phase'[c] = Streaming(f.id) /\ f.kind \in {"head", "chunk", "torn"}
    BY <1>7, <2>2, <2>4
  <2> QED BY <1>1, <1>3, <1>5, <1>7, <2>2, <2>3, <2>5, WriteFrames
<1>8. CASE Answer(t)
  <2>1. /\ phase' = [phase EXCEPT ![c] = Idle] /\ c \in shut' /\ phase[c] = Pending(r)
        /\ (c \notin shut /\ Send(c, "full", r)) \/ UNCHANGED wire
    BY <1>2, <1>8 DEF Answer
  <2>2. \A d \in Conns : d # c => phase'[d] = phase[d]
    BY <1>0, <2>1
  <2>3. CASE c \notin shut /\ Send(c, "full", r)
    BY <1>7, <2>1, <2>2, <2>3
  <2>4. CASE UNCHANGED wire
    <3>1. ResponsesDoNotMix'
      BY <2>4 DEF FrameInv, ResponsesDoNotMix
    <3>2. ASSUME NEW d \in Conns PROVE WireFits(d)'
      <4>1. WireFits(d)
        BY DEF FrameInv
      <4> QED BY <1>1, <2>1, <2>2, <2>4, <4>1 DEF WireFits, EndsResponse, LastFrame
    <3>3. ASSUME NEW u \in Threads PROVE ReadFits(call[u])'
      <4>1. ReadFits(call[u])
        BY DEF FrameInv
      <4>2. call'[u].at \in ReadPoints => call'[u] = call[u]
        BY <1>5
      <4> QED BY <1>1, <2>4, <4>1, <4>2 DEF ReadFits, EndsResponse, LastFrame
    <3> QED BY <3>1, <3>2, <3>3 DEF FrameInv
  <2> QED BY <2>1, <2>3, <2>4
<1>9. CASE OpenHead(t)
  <2>1. \/ UNCHANGED wire /\ phase' = phase
        \/ /\ c \notin shut /\ Send(c, "head", r) /\ phase[c] = Pending(r)
           /\ phase' = [phase EXCEPT ![c] = Streaming(r)]
    BY <1>2, <1>9 DEF OpenHead
  <2>2. CASE /\ c \notin shut /\ Send(c, "head", r) /\ phase[c] = Pending(r)
             /\ phase' = [phase EXCEPT ![c] = Streaming(r)]
    <3>1. phase'[c] = Streaming(r) /\ \A d \in Conns : d # c => phase'[d] = phase[d]
      BY <1>0, <2>2
    <3> QED BY <1>7, <2>2, <3>1
  <2> QED BY <1>6, <2>1, <2>2
<1>10. CASE ChunkWrite(t)
  <2>1. /\ phase[c] = Streaming(r) /\ phase' = phase
        /\ \/ UNCHANGED wire
           \/ c \notin shut /\ (Send(c, "chunk", r) \/ Send(c, "torn", r))
    BY <1>2, <1>10 DEF ChunkWrite, CanWrite, WriteFails, slotVars
  <2>2. CASE c \notin shut /\ (Send(c, "chunk", r) \/ Send(c, "torn", r))
    BY <1>7, <2>1, <2>2
  <2> QED BY <1>6, <2>1, <2>2
<1>11. CASE FinishWrite(t)
  <2>1. /\ phase[c] = Streaming(r)
        /\ \/ phase' = phase /\ UNCHANGED wire
           \/ phase' = phase /\ c \notin shut /\ Send(c, "torn", r)
           \/ phase' = phase /\ c \in shut' /\ c \notin shut /\ Send(c, "last", r)
           \/ phase' = [phase EXCEPT ![c] = Idle] /\ c \notin shut /\ Send(c, "last", r)
    BY <1>2, <1>11 DEF FinishWrite, CanWrite, WriteFails
  <2>2. CASE phase' = phase /\ c \notin shut /\ Send(c, "torn", r)
    BY <1>7, <2>1, <2>2
  <2>3. CASE phase' = phase /\ c \in shut' /\ c \notin shut /\ Send(c, "last", r)
    BY <1>7, <2>1, <2>3
  <2>4. CASE phase' = [phase EXCEPT ![c] = Idle] /\ c \notin shut /\ Send(c, "last", r)
    <3>1. phase'[c] = Idle /\ \A d \in Conns : d # c => phase'[d] = phase[d]
      BY <1>0, <2>4
    <3> QED BY <1>7, <2>1, <2>4, <3>1
  <2> QED BY <1>6, <2>1, <2>2, <2>3, <2>4
<1> QED BY <1>8, <1>9, <1>10, <1>11

LEMMA FrameInvInductive ==
  ASSUME HttpInv, FrameInv, [Next]_vars
  PROVE  FrameInv'
<1>0. Len(origin) \in Nat
  BY ServerTypeIsType DEF HttpInv
<1>1. ASSUME UNCHANGED <<wire, phase, origin, shut, call>> PROVE FrameInv'
  BY <1>0, <1>1, SilentFrames
<1>2. CASE UNCHANGED vars
  BY <1>1, <1>2 DEF vars, slotVars
<1>3. CASE Client
  BY <1>1, <1>3 DEF Client, ClientConnects, ClientSends, ClientSendsMalformed, ClientCloses, slotVars
<1>4. ASSUME NEW t \in Threads, ThreadStep(t) \/ NewCall(t) PROVE FrameInv'
  BY <1>4, SilentStepFrames, ReadFrames, PendingFrames, WriterFrames
  DEF ThreadStep, AcceptStep, RespondStep, SilentStep
<1> QED BY <1>2, <1>3, <1>4 DEF Next

\* Frames that do not mix are framed up to the first torn one.
LEMMA UnmixedIsFramed ==
  ASSUME ResponsesDoNotMix, HttpInv
  PROVE  FramedUntilTorn
<1>1. SUFFICES ASSUME NEW c \in Conns, NEW i \in 1..Len(wire[c]),
                      \A j \in 1..i : wire[c][j].kind # "torn",
                      wire[c][i].kind \notin {"full", "head"}
               PROVE  i > 1 /\ wire[c][i - 1] \in [kind : {"head", "chunk"}, id : {wire[c][i].id}]
  BY DEF ResponsesDoNotMix, FramedUntilTorn
<1>2. wire[c] \in Seq(Frame) /\ Len(wire[c]) \in Nat
  BY DEF HttpInv, ServerType, WireType
<1>3. /\ i > 1 /\ wire[c][i - 1].id = wire[c][i].id
      /\ wire[c][i - 1].kind \in {"head", "chunk", "torn"}
  BY <1>1 DEF ResponsesDoNotMix
<1>4. i - 1 \in 1..i /\ i - 1 \in 1..Len(wire[c])
  BY <1>2, <1>3
<1>5. wire[c][i - 1] \in Frame /\ wire[c][i - 1].kind # "torn"
  BY <1>1, <1>2, <1>4
<1> QED BY <1>3, <1>5 DEF Frame

\* With one thread that accepts, the frames of two responses never mix, and as
\* far as no write was cut a client receives whole responses in the order of its
\* requests, however respond, respond_open, respond_chunk and respond_finish are
\* interleaved, fail or are cut short by stop.
THEOREM FramesStayInOrder ==
  ASSUME SingleAcceptor
  PROVE  Spec => []FramesInOrder
<1>1. Init => HttpInv /\ FrameInv
  <2>1. SUFFICES ASSUME Init PROVE HttpInv /\ FrameInv
    OBVIOUS
  <2>2. \A c \in Conns : wire[c] = <<>>
    BY <2>1 DEF Init
  <2>3. \A c \in Conns : Len(wire[c]) = 0
    BY <2>2
  <2>4. \A t \in Threads : call[t].at = "ready"
    BY <2>1 DEF Init, Ready
  <2>5. \A c \in Conns : WireFits(c)
    BY <2>1, <2>3, PhasesDiffer DEF WireFits, EndsResponse, Init
  <2>6. ResponsesDoNotMix
    BY <2>3 DEF ResponsesDoNotMix
  <2> QED BY <2>1, <2>4, <2>5, <2>6, HttpInvInitially DEF FrameInv, ReadFits, ReadPoints
<1>2. HttpInv /\ FrameInv /\ [Next]_vars => HttpInv' /\ FrameInv'
  BY HttpInvInductive, FrameInvInductive
<1>3. HttpInv /\ FrameInv => FramesInOrder
  BY UnmixedIsFramed DEF FrameInv, FramesInOrder
<1> QED BY <1>1, <1>2, <1>3, PTL DEF Spec

-----------------------------------------------------------------------------
(* Who continues a stream.                                                 *)

\* Where accept has a connection nobody else knows, where a call has taken
\* connections out of the map, and where it has a writer in its hands.
FreshPoints   == {"read", "admit", "insert"}
ForgetPoints  == {"forget", "forgetRequest", "forgetWriter"}
CollectPoints == {"stopFlag", "stopSweep", "stopClose", "stopCollect", "stopRequests",
                  "stopWriters", "forgetRequest", "forgetWriter"}
HoldPoints    == {"openIndex", "finishLook", "finishLock", "finishWrite", "drop"}

\* Connections that are registered, or that nobody but an accept has seen.
Reading == {call[u].conn : u \in {v \in Threads : call[v].at \in FreshPoints}}
Live == connections \cup Unaccepted \cup Reading

\* The connections a call has taken out of the map, and those of the writers it
\* has collected there.
Gone(k) ==
    (IF k.at \in ForgetPoints \cup {"stopCollect"} THEN {k.conn} ELSE {})
    \cup (IF k.at \in {"stopClose", "stopCollect"} THEN k.todo ELSE {})
    \cup (IF k.at \in CollectPoints THEN {origin[w] : w \in k.writerIds} ELSE {})

Detached(k) ==
    /\ Gone(k) \cap Live = {}
    /\ k.at \in CollectPoints => k.writerIds \subseteq 1..Len(origin)
    /\ k.at \in {"stopFlag", "stopSweep"} => k.writerIds = {}
    /\ k.at \in FreshPoints => k.conn \notin connections
    /\ k.at = "drop" /\ k.then = "ready" /\ origin[k.id] \in connections =>
         origin[k.id] \in k.todo
    /\ k.at \in {"loop", "scan", "poll", "tcp", "read"} \/ (k.at \in DropPoints /\ k.then = "tcp")
         => k.id = 0

\* A slot's phase names a request read from its own connection.
PhaseOrigins ==
    \A c \in Conns : phase[c] # Idle =>
        phase[c].id \in 1..Len(origin) /\ origin[phase[c].id] = c

KeepInv == PhaseOrigins /\ \A t \in Threads : Detached(call[t])

FailedFinishes ==
    {call[t].conn : t \in {u \in Threads : At(u, "finishWrite") /\ call'[u].at = "ready"}}
StrandsOnlyThese == Stranded' \subseteq Stranded \cup FailedFinishes

\* A step in which no thread moves.
LEMMA UnmovedKeeps ==
  ASSUME KeepInv, UNCHANGED <<connections, writers, origin, phase, call>>,
         Unaccepted' \subseteq Unaccepted
  PROVE  KeepInv' /\ StrandsOnlyThese
<1>1. Live' \subseteq Live
  BY DEF Live, Reading
<1>2. ASSUME NEW t \in Threads PROVE Detached(call[t])'
  <2>1. Detached(call[t])
    BY DEF KeepInv
  <2>2. Gone(call[t])' = Gone(call[t])
    BY DEF Gone
  <2> QED BY <1>1, <2>1, <2>2 DEF Detached
<1>3. PhaseOrigins'
  BY DEF KeepInv, PhaseOrigins
<1>4. Stranded' = Stranded
  BY DEF Stranded
<1> QED BY <1>2, <1>3, <1>4 DEF KeepInv, StrandsOnlyThese

\* The invariant from its parts, after a step of thread t.
LEMMA KeepStep ==
  ASSUME HttpInv, KeepInv, NEW t \in Threads, NEW k, call'[t] = k,
         \A u \in Threads : u # t => call'[u] = call[u],
         Len(origin) \in Nat, Len(origin') \in Nat, Len(origin) <= Len(origin'),
         \A i \in 1..Len(origin) : origin'[i] = origin[i],
         PhaseOrigins', Live' \subseteq Live,
         \A u \in Threads : u # t =>
            /\ call[u].at \in FreshPoints => call[u].conn \notin connections'
            /\ call[u].at = "drop" /\ call[u].then = "ready" =>
                 origin[call[u].id] \notin connections' \ connections,
         Detached(k)'
  PROVE  KeepInv'
<1>1. ASSUME NEW u \in Threads, u # t PROVE Detached(call[u])'
  <2>1. PICK m : m = call[u] /\ m = call'[u] /\ Detached(m) /\ Local(u, m)
    BY <1>1 DEF KeepInv, HttpInv
  <2>2. Gone(m)' = Gone(m)
    <3>1. m.at \in CollectPoints => {origin'[w] : w \in m.writerIds} = {origin[w] : w \in m.writerIds}
      BY <2>1 DEF Detached
    <3> QED BY <3>1 DEF Gone
  <2>3. m.at = "drop" /\ m.then = "ready" => m.id \in 1..Len(origin)
    BY <2>1 DEF Local, DropsOwn, DropPoints
  <2>4. m.at \in CollectPoints => m.writerIds \subseteq 1..Len(origin')
    BY <2>1 DEF Detached
  <2>5. m.at = "drop" /\ m.then = "ready" /\ origin'[m.id] \in connections' => origin'[m.id] \in m.todo
    BY <1>1, <2>1, <2>3 DEF Detached
  <2>6. m.at \in FreshPoints => m.conn \notin connections'
    BY <1>1, <2>1
  <2>7. Detached(m)'
    BY <2>1, <2>2, <2>4, <2>5, <2>6 DEF Detached
  <2> QED BY <2>1, <2>7 DEF Detached, Gone
<1>2. Detached(call[t])'
  BY DEF Detached, Gone
<1> QED BY <1>1, <1>2 DEF KeepInv

\* What a newly stranded stream was before a step of thread t.
LEMMA NewlyStranded ==
  ASSUME NEW t \in Threads, NEW k, call'[t] = k,
         \A u \in Threads : u # t => call'[u] = call[u],
         NEW c, c \in Stranded', c \notin Stranded
  PROVE  /\ c \in connections' /\ phase'[c].kind = "Streaming" /\ phase'[c].id \notin writers'
         /\ ~(k.at \in HoldPoints /\ k.id = phase'[c].id)
         /\ \/ c \notin connections \/ phase'[c] # phase[c]
            \/ phase[c].id \in writers
            \/ call[t].at \in HoldPoints /\ call[t].id = phase[c].id
<1>1. /\ c \in connections' /\ phase'[c].kind = "Streaming" /\ phase'[c].id \notin writers'
      /\ \A u \in Threads : ~(call'[u].id = phase'[c].id /\ call'[u].at \in HoldPoints)
  BY DEF Stranded, HoldPoints
<1>2. ASSUME c \in connections, phase'[c] = phase[c], phase[c].id \notin writers
      PROVE  call[t].at \in HoldPoints /\ call[t].id = phase[c].id
  <2>1. PICK u \in Threads : call[u].id = phase[c].id /\ call[u].at \in HoldPoints
    BY <1>1, <1>2 DEF Stranded, HoldPoints
  <2> QED BY <1>1, <1>2, <2>1
<1> QED BY <1>1, <1>2

\* A step of thread t in which no phase is set and no connection enters the map.
LEMMA QuietInv ==
  ASSUME HttpInv, KeepInv, NEW t \in Threads, NEW k, call'[t] = k,
         \A u \in Threads : u # t => call'[u] = call[u],
         UNCHANGED <<origin, phase>>, Unaccepted' \subseteq Unaccepted,
         connections' \subseteq connections,
         k.at \in FreshPoints => call[t].at \in FreshPoints /\ k.conn = call[t].conn,
         Detached(k)'
  PROVE  KeepInv'
<1>1. Len(origin) \in Nat
  BY ServerTypeIsType DEF HttpInv
<1>2. Live' \subseteq Live
  BY DEF Live, Reading
<1>3. PhaseOrigins'
  BY DEF KeepInv, PhaseOrigins
<1>4. ASSUME NEW u \in Threads, call[u].at \in FreshPoints PROVE call[u].conn \notin connections'
  BY <1>4 DEF KeepInv, Detached
<1> QED BY <1>1, <1>2, <1>3, <1>4, KeepStep

\* Such a step strands nothing if it takes no writer and t keeps the one in its hands.
LEMMA QuietKeeps ==
  ASSUME HttpInv, KeepInv, NEW t \in Threads, NEW k, call'[t] = k,
         \A u \in Threads : u # t => call'[u] = call[u],
         UNCHANGED <<origin, phase>>, Unaccepted' \subseteq Unaccepted,
         connections' \subseteq connections, writers \subseteq writers',
         k.at \in FreshPoints => call[t].at \in FreshPoints /\ k.conn = call[t].conn,
         call[t].at \in HoldPoints => k.at \in HoldPoints /\ k.id = call[t].id,
         Detached(k)'
  PROVE  KeepInv' /\ StrandsOnlyThese
<1>1. KeepInv'
  BY QuietInv
<1>2. ASSUME NEW c, c \in Stranded', c \notin Stranded PROVE FALSE
  BY <1>2, NewlyStranded
<1> QED BY <1>1, <1>2 DEF StrandsOnlyThese

\* A call that has taken nothing out of the maps owes the invariant nothing.
LEMMA PlainDetached ==
  ASSUME NEW k,
         k.at \notin FreshPoints \cup DropPoints \cup StopPoints,
         k.at \in {"loop", "scan", "poll", "tcp"} => k.id = 0
  PROVE  Detached(k)'
<1>1. /\ k.at \notin ForgetPoints /\ k.at \notin CollectPoints /\ k.at \notin DropPoints
      /\ k.at \notin FreshPoints
      /\ k.at \notin {"stopFlag", "stopSweep", "stopClose", "stopCollect", "drop", "read"}
  BY DEF FreshPoints, ForgetPoints, CollectPoints, DropPoints, StopPoints
<1>2. Gone(k)' = {}
  BY <1>1 DEF Gone
<1> QED BY <1>1, <1>2 DEF Detached

\* A call that returns, or goes on where it has taken nothing.
LEMMA PlainKeeps ==
  ASSUME HttpInv, KeepInv, NEW t \in Threads, NEW k, call'[t] = k,
         \A u \in Threads : u # t => call'[u] = call[u],
         UNCHANGED <<origin, phase>>, Unaccepted' \subseteq Unaccepted,
         connections' \subseteq connections, writers \subseteq writers',
         call[t].at \in HoldPoints => k.at \in HoldPoints /\ k.id = call[t].id,
         k.at \notin FreshPoints \cup DropPoints \cup StopPoints,
         k.at \in {"loop", "scan", "poll", "tcp"} => k.id = 0
  PROVE  KeepInv' /\ StrandsOnlyThese
BY PlainDetached, QuietKeeps

\* The start of a call.
LEMMA BeginKeeps ==
  ASSUME HttpInv, KeepInv, NEW t \in Threads, NewCall(t)
  PROVE  KeepInv' /\ StrandsOnlyThese
<1>0. /\ call \in [Threads -> Call] /\ Len(origin) \in Nat
      /\ Ready.id = 0 /\ Ready.writerIds = {}
  BY ServerTypeIsType DEF HttpInv, ServerType, Ready
<1>a. ASSUME NEW k, Enter(t, k)
      PROVE  /\ call'[t] = k /\ \A u \in Threads : u # t => call'[u] = call[u]
             /\ call[t].at = "ready" /\ call[t].at \notin HoldPoints
  BY <1>0, <1>a DEF Enter, At, HoldPoints
<1>1. ASSUME NEW l \in Listeners, Listen(t, l) PROVE KeepInv' /\ StrandsOnlyThese
  <2>1. UNCHANGED <<connections, writers, origin, phase, call, Unaccepted>>
    BY <1>1 DEF Listen, mapVars, slotVars, clientVars, Unaccepted
  <2> QED BY <2>1, UnmovedKeeps
<1>2. ASSUME NEW l \in Listeners, Accept(t, l) PROVE KeepInv' /\ StrandsOnlyThese
  <2>1. PICK k : k = [Ready EXCEPT !.at = "loop", !.lst = l]
    OBVIOUS
  <2>2. k.at = "loop" /\ k.id = 0
    BY <2>1 DEF Ready
  <2>3. Enter(t, k) /\ UNCHANGED <<connections, writers, origin, phase, Unaccepted>>
    BY <1>2, <2>1 DEF Accept, mapVars, slotVars, clientVars, Unaccepted
  <2>4. k.at \notin FreshPoints \cup DropPoints \cup StopPoints
    BY <2>2 DEF FreshPoints, DropPoints, StopPoints
  <2> QED BY <1>a, <2>2, <2>3, <2>4, PlainKeeps
<1>3. ASSUME NEW r \in 1..Len(origin), Respond(t, r) \/ RespondOpen(t, r) \/ RespondChunk(t, r)
      PROVE  KeepInv' /\ StrandsOnlyThese
  <2>1. PICK point \in {"take", "openLook", "chunkLook"} :
           Enter(t, [Ready EXCEPT !.at = point, !.id = r, !.conn = origin[r]])
    BY <1>3 DEF Respond, RespondOpen, TakeRequest, RespondChunk
  <2>2. PICK k : k = [Ready EXCEPT !.at = point, !.id = r, !.conn = origin[r]]
    OBVIOUS
  <2>3. k.at \in {"take", "openLook", "chunkLook"}
    BY <2>2 DEF Ready
  <2>4. UNCHANGED <<connections, writers, origin, phase, Unaccepted>>
    BY <1>3 DEF Respond, RespondOpen, TakeRequest, RespondChunk, mapVars, slotVars, clientVars,
                Unaccepted
  <2>5. k.at \notin FreshPoints \cup DropPoints \cup StopPoints
    BY <2>3 DEF FreshPoints, DropPoints, StopPoints
  <2> QED BY <1>a, <2>1, <2>2, <2>3, <2>4, <2>5, PlainKeeps
<1>4. ASSUME NEW w \in 1..Len(origin), NEW keep \in BOOLEAN, RespondFinish(t, w, keep)
      PROVE  KeepInv' /\ StrandsOnlyThese
  <2>1. PICK k : k = [Ready EXCEPT !.at = "finishLook", !.id = w, !.conn = origin[w], !.keep = keep]
    OBVIOUS
  <2>2. k.at = "finishLook" /\ k.id = w
    BY <2>1 DEF Ready
  <2>3. /\ Enter(t, k) /\ UNCHANGED <<connections, origin, phase, Unaccepted>>
        /\ writers' = writers \ {w}
    BY <1>4, <2>1 DEF RespondFinish, mapVars, slotVars, clientVars, Unaccepted
  <2>4. Detached(k)'
    BY <2>2, PlainDetached DEF FreshPoints, DropPoints, StopPoints
  <2>5. /\ call'[t] = k /\ \A u \in Threads : u # t => call'[u] = call[u]
        /\ call[t].at \notin HoldPoints
    BY <1>a, <2>3
  <2>6. k.at \notin FreshPoints
    BY <2>2 DEF FreshPoints
  <2>9. KeepInv'
    BY <2>3, <2>4, <2>5, <2>6, QuietInv
  <2>10. ASSUME NEW c, c \in Stranded', c \notin Stranded PROVE FALSE
    <3>1. phase[c].id \in writers /\ phase[c].id \notin writers' /\ phase[c].id # w
      BY <2>2, <2>3, <2>5, <2>10, NewlyStranded DEF HoldPoints
    <3> QED BY <2>3, <3>1
  <2> QED BY <2>9, <2>10 DEF StrandsOnlyThese
<1>5. ASSUME NEW l \in Listeners, Stop(t, l) PROVE KeepInv' /\ StrandsOnlyThese
  <2>1. PICK k : k = [Ready EXCEPT !.at = "stopFlag", !.lst = l]
    OBVIOUS
  <2>2. k.at = "stopFlag" /\ k.writerIds = {}
    BY <2>1 DEF Ready
  <2>3. Enter(t, k) /\ UNCHANGED <<connections, writers, origin, phase, Unaccepted>>
    BY <1>5, <2>1 DEF Stop, mapVars, slotVars, clientVars, Unaccepted
  <2>4. Detached(k)'
    <3>1. Gone(k)' = {}
      BY <2>2 DEF Gone, ForgetPoints
    <3> QED BY <2>2, <3>1 DEF Detached, FreshPoints, DropPoints
  <2>5. k.at \notin FreshPoints
    BY <2>2 DEF FreshPoints
  <2> QED BY <1>a, <2>3, <2>4, <2>5, QuietKeeps
<1> QED BY <1>1, <1>2, <1>3, <1>4, <1>5 DEF NewCall

\* What a call keeps of its locals when it only goes on.
LEMMA GoneKept ==
  ASSUME HttpInv, KeepInv, NEW t \in Threads, NEW k,
         UNCHANGED <<origin, connections>>, Live' \subseteq Live,
         k.conn = call[t].conn, k.todo = call[t].todo, k.writerIds = call[t].writerIds,
         k.at \notin FreshPoints \cup DropPoints \cup {"stopFlag", "stopSweep"},
         k.at \in StopPoints, call[t].at \in CollectPoints \ {"forgetRequest", "forgetWriter"},
         k.at \in {"stopClose", "stopCollect"} => call[t].at \in {"stopClose", "stopCollect"},
         k.at = "stopCollect" => call[t].at = "stopCollect"
  PROVE  Detached(k)'
<1>1. PICK m : m = call[t] /\ Detached(m)
  BY DEF KeepInv
<1>2. Gone(k)' \subseteq Gone(m)
  BY <1>1 DEF Gone, ForgetPoints, DropPoints
<1>3. k.writerIds \subseteq 1..Len(origin')
  BY <1>1 DEF Detached
<1>4. k.at \notin {"loop", "scan", "poll", "tcp", "read", "drop"}
  BY DEF StopPoints
<1>5. Gone(k)' \cap Live' = {}
  BY <1>1, <1>2 DEF Detached
<1>6. /\ (k.at \in FreshPoints => k.conn \notin connections')
      /\ (k.at = "drop" /\ k.then = "ready" /\ origin'[k.id] \in connections' =>
            origin'[k.id] \in k.todo)
      /\ (k.at \in {"loop", "scan", "poll", "tcp", "read"} \/ (k.at \in DropPoints /\ k.then = "tcp")
            => k.id = 0)
  BY <1>4
<1> QED BY <1>3, <1>4, <1>5, <1>6 DEF Detached

\* The writers a call has collected from connections it took out of the map go.
LEMMA CollectedStrandNothing ==
  ASSUME HttpInv, KeepInv, NEW t \in Threads, NEW k, call'[t] = k,
         \A u \in Threads : u # t => call'[u] = call[u],
         call[t].at \in {"stopWriters", "forgetWriter"},
         UNCHANGED <<connections, origin, phase>>, writers' = writers \ call[t].writerIds
  PROVE  StrandsOnlyThese
<1>1. ASSUME NEW c, c \in Stranded', c \notin Stranded PROVE FALSE
  <2>1. /\ c \in connections /\ phase[c].kind = "Streaming"
        /\ phase[c].id \in writers /\ phase[c].id \in call[t].writerIds
    BY <1>1, NewlyStranded DEF HoldPoints
  <2>2. c \in Conns /\ phase[c] # Idle
    BY <2>1 DEF HttpInv, ServerType, MapsType, Idle
  <2>3. origin[phase[c].id] = c
    BY <2>2 DEF KeepInv, PhaseOrigins
  <2>4. c \in Gone(call[t])
    BY <2>1, <2>3 DEF Gone, CollectPoints
  <2> QED BY <2>1, <2>4 DEF KeepInv, Detached, Live
<1> QED BY <1>1 DEF StrandsOnlyThese

\* Only accept sees the connections outside the map that may enter it.
LEMMA RegisteredIsNotFresh ==
  ASSUME HttpInv, KeepInv, NEW c \in connections
  PROVE  c \notin Unaccepted \cup Reading
BY DEF HttpInv, UnacceptedIdle, KeepInv, Detached, Reading

\* The steps of stop.
LEMMA StopKeeps ==
  ASSUME HttpInv, KeepInv, NEW t \in Threads, StopStep(t)
  PROVE  KeepInv' /\ StrandsOnlyThese
<1>0. /\ call \in [Threads -> Call] /\ call[t] \in Call /\ ServerType
      /\ connections \subseteq Conns
  BY DEF HttpInv, ServerType, MapsType
<1>1. PICK m : m = call[t] /\ Detached(m)
  BY DEF KeepInv
<1>2. CASE StopFlag(t)
  <2>1. PICK k \in Call : /\ call' = [call EXCEPT ![t] = k] /\ k.at = "stopSweep"
                          /\ k.writerIds = call[t].writerIds
    BY <1>0, <1>2, GotoCall DEF StopFlag, Points
  <2>2. call[t].at = "stopFlag" /\ UNCHANGED <<connections, writers, origin, phase, Unaccepted>>
    BY <1>2 DEF StopFlag, At, mapVars, slotVars, clientVars, Unaccepted
  <2>3. k.writerIds = {}
    BY <1>1, <2>1, <2>2 DEF Detached
  <2>4. Gone(k)' = {}
    BY <2>1, <2>3 DEF Gone, ForgetPoints
  <2>5. Detached(k)'
    BY <2>1, <2>3, <2>4 DEF Detached, FreshPoints, DropPoints
  <2> QED BY <1>0, <2>1, <2>2, <2>5, QuietKeeps DEF HoldPoints, FreshPoints
<1>3. CASE StopSweep(t)
  <2> DEFINE mine == {c \in connections : dialled[c] = call[t].lst}
  <2>1. PICK k : k = [call[t] EXCEPT !.at = "stopClose", !.todo = mine]
    OBVIOUS
  <2>2. /\ k.at = "stopClose" /\ k.todo = mine /\ k.writerIds = call[t].writerIds
    BY <1>0, <2>1 DEF Call
  <2>3. /\ call' = [call EXCEPT ![t] = k] /\ call[t].at = "stopSweep"
        /\ UNCHANGED <<writers, origin, phase, Unaccepted>> /\ connections' = connections \ mine
    BY <1>0, <1>3, <2>1 DEF StopSweep, At, mapVars, slotVars, clientVars, Unaccepted
  <2>4. /\ call'[t] = k /\ \A u \in Threads : u # t => call'[u] = call[u]
    BY <1>0, <2>3
  <2>5. k.writerIds = {}
    BY <1>1, <2>2, <2>3 DEF Detached
  <2>6. Gone(k)' = mine
    BY <2>2, <2>5 DEF Gone, ForgetPoints
  <2>7. Reading' \subseteq Reading
    BY <2>2, <2>4 DEF Reading, FreshPoints
  <2>8. mine \cap Live' = {}
    BY <2>3, <2>7, RegisteredIsNotFresh DEF Live
  <2>9. Detached(k)'
    BY <2>2, <2>5, <2>6, <2>8 DEF Detached, FreshPoints, DropPoints
  <2> QED BY <2>2, <2>3, <2>4, <2>9, QuietKeeps DEF HoldPoints, FreshPoints
<1>4. CASE StopClose(t)
  <2>0. call[t].at = "stopClose" /\ UNCHANGED <<connections, writers, origin, phase, Unaccepted>>
    BY <1>4 DEF StopClose, At, mapVars, clientVars, Unaccepted
  <2>1. CASE Goto(t, "stopRequests")
    <3>1. PICK k \in Call : /\ call' = [call EXCEPT ![t] = k] /\ k.at = "stopRequests"
                            /\ k.conn = call[t].conn /\ k.todo = call[t].todo
                            /\ k.writerIds = call[t].writerIds
      BY <1>0, <2>1, GotoCall DEF Points
    <3>2. call'[t] = k /\ \A u \in Threads : u # t => call'[u] = call[u]
      BY <1>0, <3>1
    <3>3. Live' \subseteq Live
      BY <2>0, <3>1, <3>2 DEF Live, Reading, FreshPoints
    <3>4. Detached(k)'
      BY <2>0, <3>1, <3>3, GoneKept DEF CollectPoints, StopPoints, FreshPoints, DropPoints
    <3> QED BY <2>0, <3>1, <3>2, <3>4, QuietKeeps DEF HoldPoints, FreshPoints
  <2>2. ASSUME NEW c \in call[t].todo,
               call' = [call EXCEPT ![t].at = "stopCollect", ![t].conn = c, ![t].todo = @ \ {c}]
        PROVE  KeepInv' /\ StrandsOnlyThese
    <3>1. PICK k : k = [call[t] EXCEPT !.at = "stopCollect", !.conn = c, !.todo = @ \ {c}]
      OBVIOUS
    <3>2. /\ k.at = "stopCollect" /\ k.conn = c /\ k.todo = call[t].todo \ {c}
          /\ k.writerIds = call[t].writerIds
      BY <1>0, <3>1 DEF Call
    <3>3. call'[t] = k /\ \A u \in Threads : u # t => call'[u] = call[u]
      BY <1>0, <2>2, <3>1
    <3>4. Live' \subseteq Live
      BY <2>0, <3>2, <3>3 DEF Live, Reading, FreshPoints
    <3>5. Gone(k)' \subseteq Gone(m)
      BY <1>1, <2>0, <2>2, <3>2 DEF Gone, ForgetPoints, CollectPoints
    <3>6. k.writerIds \subseteq 1..Len(origin')
      BY <1>1, <2>0, <3>2 DEF Detached, CollectPoints
    <3>7. Gone(k)' \cap Live' = {}
      BY <1>1, <3>4, <3>5 DEF Detached
    <3>8. Detached(k)'
      BY <3>2, <3>6, <3>7 DEF Detached, FreshPoints, DropPoints
    <3> QED BY <2>0, <3>2, <3>3, <3>8, QuietKeeps DEF HoldPoints, FreshPoints
  <2> QED BY <1>4, <2>1, <2>2 DEF StopClose
<1>5. CASE StopCollect(t)
  <2> DEFINE c == call[t].conn  p == phase[c]
  <2>0. /\ call[t].at = "stopCollect"
        /\ UNCHANGED <<connections, writers, origin, phase, Unaccepted>>
    BY <1>5 DEF StopCollect, At, mapVars, slotVars, clientVars, Unaccepted
  <2>1. PICK k : k = [call[t] EXCEPT !.at = "stopClose", !.requestIds = @ \cup RequestOf(p),
                                     !.writerIds = @ \cup WriterOf(p)]
    OBVIOUS
  <2>2. /\ k.at = "stopClose" /\ k.todo = call[t].todo
        /\ k.writerIds = call[t].writerIds \cup WriterOf(p)
    BY <1>0, <2>1 DEF Call
  <2>3. call'[t] = k /\ \A u \in Threads : u # t => call'[u] = call[u]
    BY <1>0, <1>5, <2>1 DEF StopCollect
  <2>4. Live' \subseteq Live
    BY <2>0, <2>2, <2>3 DEF Live, Reading, FreshPoints
  <2>5. c \in Conns
    BY <2>0 DEF HttpInv, Local, Placed
  <2>6. \A w \in WriterOf(p) : w \in 1..Len(origin) /\ origin[w] = c
    BY <2>5 DEF WriterOf, KeepInv, PhaseOrigins, Idle
  <2>7. k.writerIds \subseteq 1..Len(origin')
    BY <1>1, <2>0, <2>2, <2>6 DEF Detached, CollectPoints
  <2>8. Gone(k)' \subseteq Gone(m)
    <3>1. Gone(k)' = k.todo \cup {origin[w] : w \in k.writerIds}
      BY <2>0, <2>2 DEF Gone, ForgetPoints, CollectPoints
    <3>2. Gone(m) = {c} \cup m.todo \cup {origin[w] : w \in m.writerIds}
      BY <1>1, <2>0 DEF Gone, ForgetPoints, CollectPoints
    <3> HIDE DEF c, p
    <3> QED BY <1>1, <2>2, <2>6, <3>1, <3>2
  <2>9. Gone(k)' \cap Live' = {}
    BY <1>1, <2>4, <2>8 DEF Detached
  <2>10. Detached(k)'
    BY <2>2, <2>7, <2>9 DEF Detached, FreshPoints, DropPoints
  <2> QED BY <2>0, <2>2, <2>3, <2>10, QuietKeeps DEF HoldPoints, FreshPoints
<1>6. CASE StopRequests(t)
  <2>0. /\ call[t].at = "stopRequests"
        /\ UNCHANGED <<connections, writers, origin, phase, Unaccepted>>
    BY <1>6 DEF StopRequests, RemoveRequests, At, mapVars, slotVars, clientVars, Unaccepted
  <2>1. PICK k \in Call : /\ call' = [call EXCEPT ![t] = k] /\ k.at = "stopWriters"
                          /\ k.conn = call[t].conn /\ k.todo = call[t].todo
                          /\ k.writerIds = call[t].writerIds
    BY <1>0, <1>6, GotoCall DEF StopRequests, RemoveRequests, Points
  <2>2. call'[t] = k /\ \A u \in Threads : u # t => call'[u] = call[u]
    BY <1>0, <2>1
  <2>3. Live' \subseteq Live
    BY <2>0, <2>1, <2>2 DEF Live, Reading, FreshPoints
  <2>4. Detached(k)'
    BY <2>0, <2>1, <2>3, GoneKept DEF CollectPoints, StopPoints, FreshPoints, DropPoints
  <2> QED BY <2>0, <2>1, <2>2, <2>4, QuietKeeps DEF HoldPoints, FreshPoints
<1>7. CASE StopWriters(t)
  <2>0. /\ call[t].at = "stopWriters" /\ writers' = writers \ call[t].writerIds
        /\ UNCHANGED <<connections, origin, phase, Unaccepted>>
    BY <1>7 DEF StopWriters, At, mapVars, slotVars, clientVars, Unaccepted
  <2>1. /\ call'[t] = Ready /\ Ready.at = "ready"
        /\ \A u \in Threads : u # t => call'[u] = call[u]
    BY <1>0, <1>7 DEF StopWriters, Return, Ready
  <2>2. StrandsOnlyThese
    BY <2>0, <2>1, CollectedStrandNothing
  <2>3. Detached(Ready)'
    BY <2>1, PlainDetached DEF FreshPoints, DropPoints, StopPoints
  <2> QED BY <2>0, <2>1, <2>2, <2>3, QuietInv DEF FreshPoints
<1> QED BY <1>2, <1>3, <1>4, <1>5, <1>6, <1>7 DEF StopStep

\* A call that is about to drop a connection and holds its writer drops no other.
LEMMA DropperId ==
  ASSUME HttpInv, KeepInv, NEW t \in Threads, call[t].at = "drop",
         NEW c \in connections, phase[c].kind = "Streaming", phase[c].id = call[t].id
  PROVE  call[t].then = "ready" /\ c = origin[call[t].id] /\ call[t].todo = {c}
<1>1. c \in Conns /\ phase[c] # Idle /\ Len(origin) \in Nat
  BY ServerTypeIsType DEF HttpInv, ServerType, MapsType, Idle
<1>2. call[t].id # 0 /\ origin[call[t].id] = c
  BY <1>1 DEF KeepInv, PhaseOrigins
<1>3. call[t].then = "ready"
  <2>1. call[t].then \in {"ready", "tcp"}
    BY DEF HttpInv, ServerType, Call
  <2> QED BY <1>2, <2>1 DEF KeepInv, Detached, DropPoints
<1>4. c \in call[t].todo
  BY <1>2, <1>3 DEF KeepInv, Detached
<1>5. call[t].todo \subseteq {c}
  BY <1>2, <1>3 DEF HttpInv, Local, DropsOwn, Dropping, DropPoints
<1> QED BY <1>2, <1>3, <1>4, <1>5

\* The steps of drop_connection.
LEMMA DropsKeep ==
  ASSUME HttpInv, KeepInv, NEW t \in Threads,
         DropConnection(t) \/ ForgetRead(t) \/ ForgetRequest(t) \/ ForgetWriter(t)
  PROVE  KeepInv' /\ StrandsOnlyThese
<1>0. /\ call \in [Threads -> Call] /\ call[t] \in Call /\ ServerType
      /\ call[t].then \in {"ready", "tcp"}
  BY DEF HttpInv, ServerType, Call
<1>1. PICK m : m = call[t] /\ Detached(m) /\ Local(t, m)
  BY DEF KeepInv, HttpInv
<1>2. ASSUME NEW c \in call[t].todo, call[t].at = "drop", connections' = connections \ {c},
             call' = [call EXCEPT ![t].todo = @ \ {c}, ![t].conn = c,
                        ![t].at = IF c \in connections THEN "forget" ELSE "drop"],
             UNCHANGED <<writers, origin, phase, Unaccepted>>
      PROVE  KeepInv' /\ StrandsOnlyThese
  <2>1. PICK k : k = [call[t] EXCEPT !.todo = @ \ {c}, !.conn = c,
                                     !.at = IF c \in connections THEN "forget" ELSE "drop"]
    OBVIOUS
  <2>2. /\ k.todo = m.todo \ {c} /\ k.conn = c /\ k.then = m.then /\ k.id = m.id
        /\ k.at = IF c \in connections THEN "forget" ELSE "drop"
    BY <1>0, <1>1, <2>1 DEF Call
  <2>3. call'[t] = k /\ \A u \in Threads : u # t => call'[u] = call[u]
    BY <1>0, <1>2, <2>1
  <2>4. k.then = "tcp" => k.id = 0
    BY <1>1, <1>2, <2>2 DEF Detached, DropPoints
  <2>5. CASE c \in connections
    <3>1. k.at = "forget"
      BY <2>2, <2>5
    <3>2. Gone(k)' = {c}
      BY <2>2, <3>1 DEF Gone, ForgetPoints, CollectPoints
    <3>3. Reading' \subseteq Reading
      BY <2>3, <3>1 DEF Reading, FreshPoints
    <3>4. c \notin Live'
      BY <1>2, <2>5, <3>3, RegisteredIsNotFresh DEF Live
    <3>5. Detached(k)'
      BY <2>4, <3>1, <3>2, <3>4 DEF Detached, FreshPoints, CollectPoints
    <3>6. KeepInv'
      BY <1>2, <2>3, <3>1, <3>5, QuietInv DEF FreshPoints
    <3>7. ASSUME NEW d, d \in Stranded', d \notin Stranded PROVE FALSE
      <4>1. /\ d \in connections /\ d # c /\ phase[d].kind = "Streaming"
            /\ phase[d].id = call[t].id
        BY <1>2, <2>3, <3>7, NewlyStranded
      <4> QED BY <1>2, <4>1, DropperId
    <3> QED BY <3>6, <3>7 DEF StrandsOnlyThese
  <2>6. CASE c \notin connections
    <3>1. k.at = "drop"
      BY <2>2, <2>6
    <3>2. Gone(k)' = {}
      BY <3>1 DEF Gone, ForgetPoints, CollectPoints
    <3>3. k.then = "ready" /\ origin'[k.id] \in connections' => origin'[k.id] \in k.todo
      BY <1>1, <1>2, <2>2, <2>6 DEF Detached
    <3>4. Detached(k)'
      BY <2>4, <3>1, <3>2, <3>3 DEF Detached, FreshPoints, CollectPoints
    <3> QED BY <1>1, <1>2, <2>2, <2>3, <3>1, <3>4, QuietKeeps DEF FreshPoints, HoldPoints
  <2> QED BY <2>5, <2>6
<1>3. ASSUME call[t].at = "drop", call[t].todo = {},
             IF call[t].then = "ready" THEN Return(t) ELSE Goto(t, call[t].then),
             UNCHANGED <<connections, writers, origin, phase, Unaccepted>>
      PROVE  KeepInv' /\ StrandsOnlyThese
  <2>1. PICK k : /\ call' = [call EXCEPT ![t] = k] /\ k.at \in {"ready", "tcp"}
                 /\ k.at = "tcp" => k.id = 0
    <3>1. CASE call[t].then = "ready"
      BY <1>3, <3>1 DEF Return, Ready
    <3>2. CASE call[t].then = "tcp"
      <4>1. m.id = 0
        BY <1>1, <1>3, <3>2 DEF Detached, DropPoints
      <4> QED BY <1>0, <1>1, <1>3, <3>2, <4>1, GotoCall DEF Points
    <3> QED BY <1>0, <3>1, <3>2
  <2>2. call'[t] = k /\ \A u \in Threads : u # t => call'[u] = call[u]
    BY <1>0, <2>1
  <2>3. Detached(k)'
    BY <2>1, PlainDetached DEF FreshPoints, DropPoints, StopPoints
  <2>4. KeepInv'
    BY <1>3, <2>1, <2>2, <2>3, QuietInv DEF FreshPoints
  <2>5. ASSUME NEW d, d \in Stranded', d \notin Stranded PROVE FALSE
    <3>1. d \in connections /\ phase[d].kind = "Streaming" /\ phase[d].id = call[t].id
      BY <1>3, <2>2, <2>5, NewlyStranded
    <3> QED BY <1>3, <3>1, DropperId
  <2> QED BY <2>4, <2>5 DEF StrandsOnlyThese
<1>4. CASE DropConnection(t)
  BY <1>2, <1>3, <1>4 DEF DropConnection, At, slotVars, clientVars, Unaccepted
<1>5. CASE ForgetRead(t)
  <2> DEFINE c == call[t].conn  p == phase[c]
  <2>0. /\ call[t].at = "forget"
        /\ UNCHANGED <<connections, writers, origin, phase, Unaccepted>>
    BY <1>5 DEF ForgetRead, At, mapVars, slotVars, clientVars, Unaccepted
  <2>1. PICK k : k = [call[t] EXCEPT !.at = "forgetRequest", !.requestIds = RequestOf(p),
                                     !.writerIds = WriterOf(p)]
    OBVIOUS
  <2>2. /\ k.at = "forgetRequest" /\ k.conn = c /\ k.writerIds = WriterOf(p)
        /\ k.then = m.then /\ k.id = m.id
    BY <1>0, <1>1, <2>1 DEF Call
  <2>3. call'[t] = k /\ \A u \in Threads : u # t => call'[u] = call[u]
    BY <1>0, <1>5, <2>1 DEF ForgetRead
  <2>4. Live' \subseteq Live
    BY <2>0, <2>2, <2>3 DEF Live, Reading, FreshPoints
  <2>5. c \in Conns
    BY <2>0 DEF HttpInv, Local, Placed
  <2>6. \A w \in WriterOf(p) : w \in 1..Len(origin) /\ origin[w] = c
    BY <2>5 DEF WriterOf, KeepInv, PhaseOrigins, Idle
  <2>7. k.writerIds \subseteq 1..Len(origin')
    BY <2>0, <2>2, <2>6
  <2>8. Gone(k)' \subseteq {c} /\ c \in Gone(m)
    <3>1. Gone(k)' = {c} \cup {origin[w] : w \in k.writerIds}
      BY <2>0, <2>2 DEF Gone, ForgetPoints, CollectPoints
    <3>2. c \in Gone(m)
      BY <1>1, <2>0 DEF Gone, ForgetPoints
    <3> HIDE DEF c, p
    <3> QED BY <2>2, <2>6, <3>1, <3>2
  <2>9. Gone(k)' \cap Live' = {}
    BY <1>1, <2>4, <2>8 DEF Detached
  <2>10. k.then = "tcp" => k.id = 0
    BY <1>1, <2>0, <2>2 DEF Detached, DropPoints
  <2>11. Detached(k)'
    BY <2>2, <2>7, <2>9, <2>10 DEF Detached, FreshPoints
  <2> QED BY <2>0, <2>2, <2>3, <2>11, QuietKeeps DEF HoldPoints, FreshPoints
<1>6. CASE ForgetRequest(t)
  <2>0. /\ call[t].at = "forgetRequest"
        /\ UNCHANGED <<connections, writers, origin, phase, Unaccepted>>
    BY <1>6 DEF ForgetRequest, RemoveRequests, At, mapVars, slotVars, clientVars, Unaccepted
  <2>1. PICK k \in Call : /\ call' = [call EXCEPT ![t] = k] /\ k.at = "forgetWriter"
                          /\ k.conn = m.conn /\ k.then = m.then /\ k.id = m.id
                          /\ k.writerIds = m.writerIds
    BY <1>0, <1>1, <1>6, GotoCall DEF ForgetRequest, RemoveRequests, Points
  <2>2. call'[t] = k /\ \A u \in Threads : u # t => call'[u] = call[u]
    BY <1>0, <2>1
  <2>3. Live' \subseteq Live
    BY <2>0, <2>1, <2>2 DEF Live, Reading, FreshPoints
  <2>4. Gone(k)' = Gone(m)
    BY <1>1, <2>0, <2>1 DEF Gone, ForgetPoints, CollectPoints
  <2>5. k.writerIds \subseteq 1..Len(origin') /\ (k.then = "tcp" => k.id = 0)
    BY <1>1, <2>0, <2>1 DEF Detached, CollectPoints, DropPoints
  <2>6. Gone(k)' \cap Live' = {}
    BY <1>1, <2>3, <2>4 DEF Detached
  <2>7. Detached(k)'
    BY <2>1, <2>5, <2>6 DEF Detached, FreshPoints
  <2> QED BY <2>0, <2>1, <2>2, <2>7, QuietKeeps DEF HoldPoints, FreshPoints
<1>7. CASE ForgetWriter(t)
  <2>0. /\ call[t].at = "forgetWriter" /\ writers' = writers \ call[t].writerIds
        /\ UNCHANGED <<connections, origin, phase, Unaccepted>>
    BY <1>7 DEF ForgetWriter, At, mapVars, slotVars, clientVars, Unaccepted
  <2>1. PICK k \in Call : /\ call' = [call EXCEPT ![t] = k] /\ k.at = "drop"
                          /\ k.then = m.then /\ k.id = m.id
    BY <1>0, <1>1, <1>7, GotoCall DEF ForgetWriter, Points
  <2>2. call'[t] = k /\ \A u \in Threads : u # t => call'[u] = call[u]
    BY <1>0, <2>1
  <2>3. StrandsOnlyThese
    BY <2>0, <2>2, CollectedStrandNothing
  <2>4. k.then = "ready" => origin[k.id] \notin connections
    <3>1. m.then = "ready" => origin[m.id] = m.conn
      BY <1>1, <2>0 DEF Local, DropsOwn, Dropping, DropPoints
    <3>2. m.conn \in Gone(m)
      BY <1>1, <2>0 DEF Gone, ForgetPoints
    <3> QED BY <1>1, <2>1, <3>1, <3>2 DEF Detached, Live
  <2>5. k.then = "tcp" => k.id = 0
    BY <1>1, <2>0, <2>1 DEF Detached, DropPoints
  <2>6. Gone(k)' = {}
    BY <2>1 DEF Gone, ForgetPoints, CollectPoints
  <2>7. Detached(k)'
    BY <2>0, <2>1, <2>4, <2>5, <2>6 DEF Detached, FreshPoints, CollectPoints
  <2> QED BY <2>0, <2>1, <2>2, <2>3, <2>7, QuietInv DEF FreshPoints
<1> QED BY <1>4, <1>5, <1>6, <1>7

\* A step of thread t that sets the phase of a slot to the stream t goes on
\* with, or to none, strands nothing if t held no other writer.
LEMMA PhaseStrandsNothing ==
  ASSUME HttpInv, KeepInv, NEW t \in Threads, NEW k, call'[t] = k,
         \A u \in Threads : u # t => call'[u] = call[u],
         NEW c \in Conns, NEW p, phase' = [phase EXCEPT ![c] = p],
         p.kind # "Streaming" \/ (k.at \in HoldPoints /\ k.id = p.id),
         connections' \subseteq connections \cup {c}, writers \subseteq writers',
         call[t].at \in HoldPoints => c = origin[call[t].id]
  PROVE  StrandsOnlyThese
<1>0. phase \in [Conns -> Phase] /\ connections \subseteq Conns
  BY DEF HttpInv, ServerType, MapsType
<1>1. ASSUME NEW d, d \in Stranded', d \notin Stranded PROVE FALSE
  <2>1. /\ d \in connections' /\ phase'[d].kind = "Streaming" /\ phase'[d].id \notin writers'
        /\ ~(k.at \in HoldPoints /\ k.id = phase'[d].id)
        /\ \/ d \notin connections \/ phase'[d] # phase[d]
           \/ phase[d].id \in writers
           \/ call[t].at \in HoldPoints /\ call[t].id = phase[d].id
    BY <1>1, NewlyStranded
  <2>2. d \in Conns
    BY <1>0, <2>1
  <2>3. d # c
    BY <1>0, <2>1
  <2>4. phase'[d] = phase[d] /\ d \in connections
    BY <1>0, <2>1, <2>2, <2>3
  <2>5. call[t].at \in HoldPoints /\ call[t].id = phase[d].id
    BY <2>1, <2>4
  <2>6. phase[d] # Idle
    BY <2>1, <2>4 DEF Idle
  <2>7. origin[call[t].id] = d
    BY <2>2, <2>5, <2>6 DEF KeepInv, PhaseOrigins
  <2> QED BY <2>3, <2>5, <2>7
<1> QED BY <1>1 DEF StrandsOnlyThese

\* A step of thread t that sets the phase of a slot keeps the invariant if the
\* phase is of a request read from that slot's connection.
LEMMA PhaseKeepsInv ==
  ASSUME HttpInv, KeepInv, NEW t \in Threads, NEW k, call'[t] = k,
         \A u \in Threads : u # t => call'[u] = call[u],
         NEW c \in Conns, NEW p, phase' = [phase EXCEPT ![c] = p],
         p = Idle \/ (p.id \in 1..Len(origin) /\ origin[p.id] = c),
         UNCHANGED origin, Live' \subseteq Live,
         \A u \in Threads : u # t =>
            /\ call[u].at \in FreshPoints => call[u].conn \notin connections'
            /\ call[u].at = "drop" /\ call[u].then = "ready" =>
                 origin[call[u].id] \notin connections' \ connections,
         Detached(k)'
  PROVE  KeepInv'
<1>1. phase \in [Conns -> Phase] /\ Len(origin) \in Nat
  BY ServerTypeIsType DEF HttpInv, ServerType, MapsType
<1>2. PhaseOrigins'
  BY <1>1 DEF KeepInv, PhaseOrigins
<1> QED BY <1>1, <1>2, KeepStep

\* The steps of accept that read a request: its number is new.
LEMMA ReadKeeps ==
  ASSUME HttpInv, KeepInv, NEW t \in Threads, NEW k, call'[t] = k,
         \A u \in Threads : u # t => call'[u] = call[u],
         NEW c, ReadRequest(c), UNCHANGED <<connections, writers, phase, Unaccepted>>,
         call[t].at \notin HoldPoints,
         \/ k.at = "mark"
         \/ k.at = "admit" /\ call[t].at = "read" /\ k.conn = call[t].conn
  PROVE  KeepInv' /\ StrandsOnlyThese
<1>1. origin \in Seq(Conns) /\ Len(origin) \in Nat
  BY ServerTypeIsType DEF HttpInv, ServerType, MapsType
<1>2. /\ Len(origin') = Len(origin) + 1
      /\ \A i \in 1..Len(origin) : origin'[i] = origin[i] /\ i \in 1..Len(origin')
  BY <1>1 DEF ReadRequest
<1>3. PhaseOrigins'
  BY <1>2 DEF KeepInv, PhaseOrigins
<1>4. k.at = "admit" => call[t].conn \notin connections
  BY DEF KeepInv, Detached, FreshPoints
<1>5. Detached(k)'
  <2>1. Gone(k)' = {}
    BY DEF Gone, ForgetPoints, CollectPoints
  <2> QED BY <1>4, <2>1 DEF Detached, FreshPoints, DropPoints, CollectPoints
<1>6. Live' \subseteq Live
  BY DEF Live, Reading, FreshPoints
<1>7. ASSUME NEW u \in Threads, call[u].at \in FreshPoints PROVE call[u].conn \notin connections'
  BY <1>7 DEF KeepInv, Detached
<1>8. Len(origin') \in Nat /\ Len(origin) <= Len(origin')
  BY <1>1, <1>2
<1>9. KeepInv'
  BY <1>1, <1>2, <1>3, <1>5, <1>6, <1>7, <1>8, KeepStep
<1>10. ASSUME NEW d, d \in Stranded', d \notin Stranded PROVE FALSE
  BY <1>10, NewlyStranded
<1> QED BY <1>9, <1>10 DEF StrandsOnlyThese

\* The steps of accept on the connections it knows.
LEMMA PollKeeps ==
  ASSUME HttpInv, KeepInv, NEW t \in Threads,
         \/ AcceptLoop(t) \/ ScanIdle(t) \/ (\E c \in Conns : PollIdle(t, c)) \/ PollDone(t)
         \/ IndexRequest(t)
  PROVE  KeepInv' /\ StrandsOnlyThese
<1>0. /\ call \in [Threads -> Call] /\ call[t] \in Call /\ ServerType
      /\ Ready.at = "ready"
  BY DEF HttpInv, ServerType, Ready
<1>1. PICK m : m = call[t] /\ Detached(m)
  BY DEF KeepInv
<1>2. ASSUME call[t].at \notin HoldPoints, UNCHANGED <<connections, writers, origin, phase, Unaccepted>>,
             NEW k, call' = [call EXCEPT ![t] = k], k.at \in {"ready", "loop", "scan", "poll"},
             k.at # "ready" => k.id = 0
      PROVE  KeepInv' /\ StrandsOnlyThese
  <2>1. call'[t] = k /\ \A u \in Threads : u # t => call'[u] = call[u]
    BY <1>0, <1>2
  <2>2. k.at \notin FreshPoints \cup DropPoints \cup StopPoints
    BY <1>2 DEF FreshPoints, DropPoints, StopPoints
  <2> QED BY <1>2, <2>1, <2>2, PlainKeeps
<1>3. ASSUME Return(t), call[t].at \notin HoldPoints,
             UNCHANGED <<connections, writers, origin, phase, Unaccepted>>
      PROVE  KeepInv' /\ StrandsOnlyThese
  BY <1>0, <1>2, <1>3 DEF Return
<1>4. CASE AcceptLoop(t)
  <2>1. /\ call[t].at = "loop" /\ UNCHANGED <<connections, writers, origin, phase, Unaccepted>>
        /\ Return(t) \/ Goto(t, "scan")
    BY <1>4 DEF AcceptLoop, At, mapVars, slotVars, clientVars, Unaccepted
  <2>2. m.id = 0
    BY <1>1, <2>1 DEF Detached
  <2>3. CASE Goto(t, "scan")
    <3>1. PICK k \in Call : call' = [call EXCEPT ![t] = k] /\ k.at = "scan" /\ k.id = m.id
      BY <1>0, <1>1, <2>3, GotoCall DEF Points
    <3> QED BY <1>2, <2>1, <2>2, <3>1 DEF HoldPoints
  <2> QED BY <1>3, <2>1, <2>3 DEF HoldPoints
<1>5. CASE ScanIdle(t)
  <2> DEFINE idle == {c \in connections : dialled[c] = call[t].lst /\ InnerFree(c) /\ phase[c] = Idle}
  <2>1. /\ call[t].at = "scan" /\ UNCHANGED <<connections, writers, origin, phase, Unaccepted>>
    BY <1>5 DEF ScanIdle, At, mapVars, slotVars, clientVars, Unaccepted
  <2>2. PICK k : k = [call[t] EXCEPT !.at = "poll", !.closed = {}, !.todo = idle]
    OBVIOUS
  <2>3. call' = [call EXCEPT ![t] = k]
    BY <1>0, <1>5, <2>2 DEF ScanIdle
  <2>4. k.at = "poll" /\ k.id = m.id /\ m.id = 0
    BY <1>0, <1>1, <2>1, <2>2 DEF Call, Detached
  <2> QED BY <1>2, <2>1, <2>3, <2>4 DEF HoldPoints
<1>6. ASSUME NEW c \in Conns, PollIdle(t, c) PROVE KeepInv' /\ StrandsOnlyThese
  <2>1. /\ call[t].at = "poll" /\ UNCHANGED <<connections, writers, phase, Unaccepted>>
    BY <1>6 DEF PollIdle, At, mapVars, slotVars, Unaccepted
  <2>2. ASSUME NEW gone \in BOOLEAN, PassOver(t, c, gone), UNCHANGED origin
        PROVE  KeepInv' /\ StrandsOnlyThese
    <3>1. PICK k : k = [call[t] EXCEPT !.todo = @ \ {c}, !.closed = IF gone THEN @ \cup {c} ELSE @]
      OBVIOUS
    <3>2. call' = [call EXCEPT ![t] = k]
      BY <1>0, <2>2, <3>1 DEF PassOver
    <3>3. k.at = "poll" /\ k.id = m.id /\ m.id = 0
      BY <1>0, <1>1, <2>1, <3>1 DEF Call, Detached
    <3> QED BY <1>2, <2>1, <2>2, <3>2, <3>3 DEF HoldPoints
  <2>3. ASSUME ReadRequest(c),
               call' = [call EXCEPT ![t].at = "mark", ![t].conn = c, ![t].id = Len(origin'),
                                    ![t].todo = {}]
        PROVE  KeepInv' /\ StrandsOnlyThese
    <3>1. PICK k : k = [call[t] EXCEPT !.at = "mark", !.conn = c, !.id = Len(origin'), !.todo = {}]
      OBVIOUS
    <3>2. call'[t] = k /\ \A u \in Threads : u # t => call'[u] = call[u]
      BY <1>0, <2>3, <3>1
    <3>3. k.at = "mark"
      BY <1>0, <3>1 DEF Call
    <3>4. call[t].at \notin HoldPoints
      BY <2>1 DEF HoldPoints
    <3> QED BY <2>1, <2>3, <3>2, <3>3, <3>4, ReadKeeps
  <2>4. CASE Return(t) /\ UNCHANGED origin
    BY <1>3, <2>1, <2>4 DEF HoldPoints
  <2>5. \/ \E gone \in BOOLEAN : PassOver(t, c, gone) /\ UNCHANGED origin
        \/ /\ ReadRequest(c)
           /\ call' = [call EXCEPT ![t].at = "mark", ![t].conn = c, ![t].id = Len(origin'),
                                   ![t].todo = {}]
        \/ Return(t) /\ UNCHANGED origin
    BY <1>6 DEF PollIdle, slotVars
  <2> QED BY <2>2, <2>3, <2>4, <2>5
<1>7. CASE PollDone(t)
  <2>1. /\ call[t].at = "poll" /\ UNCHANGED <<connections, writers, origin, phase, Unaccepted>>
    BY <1>7 DEF PollDone, At, mapVars, slotVars, clientVars, Unaccepted
  <2>2. PICK k : k = [call[t] EXCEPT !.at = "drop", !.todo = call[t].closed, !.then = "tcp"]
    OBVIOUS
  <2>3. call'[t] = k /\ \A u \in Threads : u # t => call'[u] = call[u]
    BY <1>0, <1>7, <2>2 DEF PollDone
  <2>4. k.at = "drop" /\ k.then = "tcp" /\ k.id = 0
    BY <1>0, <1>1, <2>1, <2>2 DEF Call, Detached
  <2>5. Gone(k)' = {}
    BY <2>4 DEF Gone, ForgetPoints, CollectPoints
  <2>6. Detached(k)'
    BY <2>4, <2>5 DEF Detached, FreshPoints, CollectPoints
  <2> QED BY <2>1, <2>3, <2>4, <2>6, QuietKeeps DEF HoldPoints, FreshPoints
<1>8. CASE IndexRequest(t)
  BY <1>3, <1>8 DEF IndexRequest, At, slotVars, clientVars, Unaccepted, HoldPoints
<1> QED BY <1>4, <1>5, <1>6, <1>7, <1>8

\* A connection enters the map, pending for its first request.
LEMMA AdmitKeeps ==
  ASSUME SingleAcceptor, HttpInv, KeepInv, NEW t \in Threads,
         MarkPending(t) \/ TcpAccept(t) \/ AdmitRead(t) \/ AdmitCheck(t) \/ AdmitInsert(t)
  PROVE  KeepInv' /\ StrandsOnlyThese
<1>0. /\ call \in [Threads -> Call] /\ call[t] \in Call /\ ServerType
      /\ Ready.at = "ready" /\ phase \in [Conns -> Phase] /\ connections \subseteq Conns
      /\ backlog \subseteq Conns
  BY DEF HttpInv, ServerType, MapsType, Ready
<1>1. PICK m : m = call[t] /\ Detached(m) /\ Local(t, m)
  BY DEF KeepInv, HttpInv
<1> DEFINE c == call[t].conn
<1>2. ASSUME call[t].at \notin HoldPoints, UNCHANGED <<connections, writers, origin, phase, Unaccepted>>,
             Return(t) \/ (Goto(t, "loop") /\ call[t].id = 0)
      PROVE  KeepInv' /\ StrandsOnlyThese
  <2>1. PICK k : /\ call' = [call EXCEPT ![t] = k] /\ k.at \in {"ready", "loop"}
                 /\ k.at = "loop" => k.id = 0
    BY <1>0, <1>2, GotoCall DEF Return, Points
  <2>2. call'[t] = k /\ \A u \in Threads : u # t => call'[u] = call[u]
    BY <1>0, <2>1
  <2>3. k.at \notin FreshPoints \cup DropPoints \cup StopPoints
    BY <2>1 DEF FreshPoints, DropPoints, StopPoints
  <2> QED BY <1>2, <2>1, <2>2, <2>3, PlainKeeps
<1>3. CASE MarkPending(t)
  <2>1. /\ call[t].at = "mark" /\ UNCHANGED <<connections, writers, origin, Unaccepted>>
        /\ phase' = [phase EXCEPT ![c] = Pending(call[t].id)]
    BY <1>3 DEF MarkPending, At, mapVars, clientVars, Unaccepted
  <2>2. PICK k \in Call : call' = [call EXCEPT ![t] = k] /\ k.at = "index"
    BY <1>0, <1>3, GotoCall DEF MarkPending, Points
  <2>3. call'[t] = k /\ \A u \in Threads : u # t => call'[u] = call[u]
    BY <1>0, <2>2
  <2>4. c \in Conns /\ call[t].id \in 1..Len(origin) /\ origin[call[t].id] = c
    BY <1>1, <2>1, ServerTypeIsType DEF Local, Placed, ReadPoints, HttpInv
  <2>5. Detached(k)'
    BY <2>2, PlainDetached DEF FreshPoints, DropPoints, StopPoints
  <2>6. Live' \subseteq Live
    BY <2>1, <2>2, <2>3 DEF Live, Reading, FreshPoints
  <2>7. ASSUME NEW u \in Threads, call[u].at \in FreshPoints PROVE call[u].conn \notin connections'
    BY <2>1, <2>7 DEF KeepInv, Detached
  <2> DEFINE p == Pending(call[t].id)
  <2>8. p.id = call[t].id /\ p.kind # "Streaming"
    BY DEF Pending
  <2>9. call[t].at \notin HoldPoints
    BY <2>1 DEF HoldPoints
  <2> HIDE DEF p, c
  <2>10. phase' = [phase EXCEPT ![c] = p] /\ p.id \in 1..Len(origin) /\ origin[p.id] = c
    BY <2>1, <2>4, <2>8 DEF p
  <2>a. /\ UNCHANGED origin /\ (p = Idle \/ (p.id \in 1..Len(origin) /\ origin[p.id] = c))
        /\ \A u \in Threads : u # t =>
             /\ call[u].at \in FreshPoints => call[u].conn \notin connections'
             /\ call[u].at = "drop" /\ call[u].then = "ready" =>
                  origin[call[u].id] \notin connections' \ connections
    BY <2>1, <2>7, <2>10
  <2>11. KeepInv'
    BY <2>3, <2>4, <2>5, <2>6, <2>10, <2>a, PhaseKeepsInv
  <2>b. connections' \subseteq connections \cup {c} /\ writers \subseteq writers'
    BY <2>1
  <2>12. StrandsOnlyThese
    BY <2>3, <2>4, <2>8, <2>9, <2>10, <2>b, PhaseStrandsNothing
  <2> QED BY <2>11, <2>12
<1>4. CASE TcpAccept(t)
  <2>1. call[t].at = "tcp" /\ UNCHANGED <<connections, writers, origin, phase, dialled>>
    BY <1>4 DEF TcpAccept, At, mapVars, slotVars
  <2>2. m.id = 0
    BY <1>1, <2>1 DEF Detached
  <2>3. ASSUME NEW d \in backlog, backlog' = backlog \ {d}, dialled[d] = call[t].lst,
               call' = [call EXCEPT ![t].at = "read", ![t].conn = d]
        PROVE  KeepInv' /\ StrandsOnlyThese
    <3>1. PICK k : k = [call[t] EXCEPT !.at = "read", !.conn = d]
      OBVIOUS
    <3>2. k.at = "read" /\ k.conn = d /\ k.id = 0
      BY <1>0, <1>1, <2>2, <3>1 DEF Call
    <3>3. call'[t] = k /\ \A u \in Threads : u # t => call'[u] = call[u]
      BY <1>0, <2>3, <3>1
    <3>4. d \in Unaccepted /\ d \notin connections
      BY DEF HttpInv, UnacceptedIdle, Unaccepted
    <3>5. Gone(k)' = {}
      BY <3>2 DEF Gone, ForgetPoints, CollectPoints
    <3>6. Detached(k)'
      BY <2>1, <3>2, <3>4, <3>5 DEF Detached, FreshPoints, CollectPoints, DropPoints
    <3>7. Unaccepted' \subseteq Unaccepted
      BY <2>1, <2>3 DEF Unaccepted
    <3>8. Reading' \subseteq Reading \cup {d}
      BY <3>2, <3>3 DEF Reading
    <3>9. Live' \subseteq Live
      BY <2>1, <3>4, <3>7, <3>8 DEF Live
    <3>10. PhaseOrigins'
      BY <2>1 DEF KeepInv, PhaseOrigins
    <3>11. ASSUME NEW u \in Threads, call[u].at \in FreshPoints PROVE call[u].conn \notin connections'
      BY <2>1, <3>11 DEF KeepInv, Detached
    <3>12. Len(origin) \in Nat
      BY ServerTypeIsType DEF HttpInv
    <3>13. KeepInv'
      BY <2>1, <3>3, <3>6, <3>9, <3>10, <3>11, <3>12, KeepStep
    <3>14. ASSUME NEW e, e \in Stranded', e \notin Stranded PROVE FALSE
      BY <2>1, <3>3, <3>14, NewlyStranded DEF HoldPoints
    <3> QED BY <3>13, <3>14 DEF StrandsOnlyThese
  <2>4. CASE (Goto(t, "loop") \/ Return(t)) /\ UNCHANGED backlog
    <3>1. UNCHANGED Unaccepted
      BY <2>1, <2>4 DEF Unaccepted
    <3> QED BY <1>1, <1>2, <2>1, <2>2, <2>4, <3>1 DEF HoldPoints
  <2> QED BY <1>4, <2>3, <2>4 DEF TcpAccept
<1>5. CASE AdmitRead(t)
  <2>1. /\ call[t].at = "read" /\ UNCHANGED <<connections, writers, phase, Unaccepted>>
    BY <1>5 DEF AdmitRead, At, mapVars, Unaccepted
  <2>2. m.id = 0
    BY <1>1, <2>1 DEF Detached
  <2>3. CASE ReadRequest(c) /\ call' = [call EXCEPT ![t].at = "admit", ![t].id = Len(origin')]
    <3>1. PICK k : k = [call[t] EXCEPT !.at = "admit", !.id = Len(origin')]
      OBVIOUS
    <3>2. k.at = "admit" /\ k.conn = call[t].conn
      BY <1>0, <3>1 DEF Call
    <3>3. call'[t] = k /\ \A u \in Threads : u # t => call'[u] = call[u]
      BY <1>0, <2>3, <3>1
    <3>4. call[t].at \notin HoldPoints
      BY <2>1 DEF HoldPoints
    <3> QED BY <2>1, <2>3, <3>2, <3>3, <3>4, ReadKeeps
  <2>4. CASE (Goto(t, "loop") \/ Return(t)) /\ UNCHANGED origin
    BY <1>1, <1>2, <2>1, <2>2, <2>4 DEF HoldPoints
  <2> QED BY <1>5, <2>3, <2>4 DEF AdmitRead
<1>6. CASE AdmitCheck(t)
  <2>1. /\ call[t].at = "admit" /\ UNCHANGED <<connections, writers, origin, phase, Unaccepted>>
    BY <1>6 DEF AdmitCheck, At, mapVars, clientVars, Unaccepted
  <2>2. CASE Goto(t, "insert")
    <3>1. PICK k \in Call : /\ call' = [call EXCEPT ![t] = k] /\ k.at = "insert"
                            /\ k.conn = call[t].conn
      BY <1>0, <2>2, GotoCall DEF Points
    <3>2. call'[t] = k /\ \A u \in Threads : u # t => call'[u] = call[u]
      BY <1>0, <3>1
    <3>3. k.conn \notin connections
      BY <1>1, <2>1, <3>1 DEF Detached, FreshPoints
    <3>4. Gone(k)' = {}
      BY <3>1 DEF Gone, ForgetPoints, CollectPoints
    <3>5. Detached(k)'
      BY <2>1, <3>1, <3>3, <3>4 DEF Detached, CollectPoints, DropPoints
    <3> QED BY <2>1, <3>1, <3>2, <3>5, QuietKeeps DEF HoldPoints, FreshPoints
  <2> QED BY <1>2, <1>6, <2>1, <2>2 DEF AdmitCheck, HoldPoints
<1>7. CASE AdmitInsert(t)
  <2>1. /\ call[t].at = "insert" /\ UNCHANGED <<writers, origin, Unaccepted>>
        /\ connections' = connections \cup {c}
        /\ phase' = [phase EXCEPT ![c] = Pending(call[t].id)]
    BY <1>7 DEF AdmitInsert, At, clientVars, Unaccepted
  <2>2. PICK k \in Call : call' = [call EXCEPT ![t] = k] /\ k.at = "index"
    BY <1>0, <1>7, GotoCall DEF AdmitInsert, Points
  <2>3. call'[t] = k /\ \A u \in Threads : u # t => call'[u] = call[u]
    BY <1>0, <2>2
  <2>4. c \in Conns /\ call[t].id \in 1..Len(origin) /\ origin[call[t].id] = c
    BY <1>1, <2>1, ServerTypeIsType DEF Local, Placed, ReadPoints, HttpInv
  <2>5. Detached(k)'
    BY <2>2, PlainDetached DEF FreshPoints, DropPoints, StopPoints
  <2>6. c \in Reading
    BY <2>1 DEF Reading, FreshPoints
  <2>7. Reading' \subseteq Reading
    BY <2>2, <2>3 DEF Reading, FreshPoints
  <2>8. Live' \subseteq Live
    BY <2>1, <2>6, <2>7 DEF Live
  <2>9. ASSUME NEW u \in Threads, u # t
        PROVE  /\ call[u].at \in FreshPoints => call[u].conn \notin connections'
               /\ call[u].at = "drop" /\ call[u].then = "ready" =>
                    origin[call[u].id] \notin connections' \ connections
    <3>1. ~Accepting(call[u])
      <4>1. Accepting(call[t])
        BY <2>1 DEF Accepting, AcceptPoints
      <4> QED BY <2>9, <4>1, OnlyAcceptor
    <3>2. call[u].at \notin FreshPoints
      BY <3>1 DEF Accepting, AcceptPoints, FreshPoints
    <3>3. phase[c] = Idle
      BY <1>1, <2>1 DEF Local, SeesIdle, ReadPoints
    <3>4. call[u].at = "drop" /\ call[u].then = "ready" => phase[origin[call[u].id]] # Idle
      BY DEF HttpInv, Local, DropsOwn, DropPoints
    <3> HIDE DEF c
    <3> QED BY <2>1, <3>2, <3>3, <3>4
  <2> DEFINE p == Pending(call[t].id)
  <2>10. p.id = call[t].id /\ p.kind # "Streaming"
    BY DEF Pending
  <2>11. call[t].at \notin HoldPoints
    BY <2>1 DEF HoldPoints
  <2> HIDE DEF p, c
  <2>12. phase' = [phase EXCEPT ![c] = p] /\ p.id \in 1..Len(origin) /\ origin[p.id] = c
    BY <2>1, <2>4, <2>10 DEF p
  <2>a. UNCHANGED origin /\ (p = Idle \/ (p.id \in 1..Len(origin) /\ origin[p.id] = c))
    BY <2>1, <2>12
  <2>13. KeepInv'
    BY <2>3, <2>4, <2>5, <2>8, <2>9, <2>12, <2>a, PhaseKeepsInv
  <2>14. StrandsOnlyThese
    BY <2>1, <2>3, <2>4, <2>10, <2>11, <2>12, PhaseStrandsNothing
  <2> QED BY <2>13, <2>14
<1> QED BY <1>3, <1>4, <1>5, <1>6, <1>7

\* The steps of a response that set no phase.
LEMMA RespondKeeps ==
  ASSUME HttpInv, KeepInv, NEW t \in Threads,
         \/ TakeConnection(t) \/ OpenLookUp(t) \/ OpenIndex(t) \/ ChunkLookUp(t) \/ ChunkLock(t)
         \/ ChunkWrite(t) \/ FinishLookUp(t) \/ FinishLock(t)
  PROVE  KeepInv' /\ StrandsOnlyThese
<1>0. /\ call \in [Threads -> Call] /\ call[t] \in Call /\ ServerType /\ Ready.at = "ready"
      /\ connections \subseteq Conns
  BY DEF HttpInv, ServerType, MapsType, Ready
<1>1. Local(t, call[t])
  BY DEF HttpInv
<1> DEFINE RespondPoints == {"ready", "answer", "openHead", "chunkLock", "chunkWrite"}
<1>2. ASSUME call[t].at \notin HoldPoints, UNCHANGED <<writers, origin, phase, Unaccepted>>,
             connections' \subseteq connections,
             Return(t) \/ \E point \in RespondPoints : Goto(t, point)
      PROVE  KeepInv' /\ StrandsOnlyThese
  <2>1. PICK k : call' = [call EXCEPT ![t] = k] /\ k.at \in RespondPoints
    <3>1. CASE Return(t)
      BY <1>0, <3>1 DEF Return
    <3>2. ASSUME NEW point \in RespondPoints, Goto(t, point)
          PROVE  \E k : call' = [call EXCEPT ![t] = k] /\ k.at \in RespondPoints
      <4>1. point \in Points
        BY DEF Points
      <4> QED BY <1>0, <3>2, <4>1, GotoCall
    <3> QED BY <1>2, <3>1, <3>2
  <2>2. call'[t] = k /\ \A u \in Threads : u # t => call'[u] = call[u]
    BY <1>0, <2>1
  <2>3. /\ k.at \notin FreshPoints \cup DropPoints \cup StopPoints
        /\ k.at \notin {"loop", "scan", "poll", "tcp"}
    BY <2>1 DEF FreshPoints, DropPoints, StopPoints
  <2> QED BY <1>2, <2>2, <2>3, PlainKeeps
<1>3. CASE TakeConnection(t)
  <2>1. Return(t) \/ Goto(t, "answer")
    BY <1>3 DEF TakeConnection
  <2> QED BY <1>2, <1>3, <2>1 DEF TakeConnection, At, slotVars, clientVars, Unaccepted, HoldPoints
<1>4. CASE OpenLookUp(t) \/ ChunkLookUp(t)
  <2>1. Return(t) \/ Goto(t, "openHead") \/ Goto(t, "chunkLock")
    BY <1>4 DEF OpenLookUp, ChunkLookUp, LookUp
  <2> QED BY <1>2, <1>4, <2>1 DEF OpenLookUp, ChunkLookUp, LookUp, At, mapVars, slotVars, clientVars,
                                  Unaccepted, HoldPoints
<1>5. CASE ChunkLock(t)
  <2>1. Return(t) \/ Goto(t, "chunkWrite")
    BY <1>5 DEF ChunkLock, LockStream
  <2> QED BY <1>2, <1>5, <2>1 DEF ChunkLock, LockStream, At, mapVars, slotVars, clientVars,
                                  Unaccepted, HoldPoints
<1>6. CASE ChunkWrite(t)
  BY <1>2, <1>6 DEF ChunkWrite, At, mapVars, slotVars, clientVars, Unaccepted, HoldPoints
<1>7. ASSUME NEW k, call' = [call EXCEPT ![t] = k], k.at \in {"finishLock", "finishWrite"},
             k.id = call[t].id, UNCHANGED <<connections, writers, origin, phase, Unaccepted>>
      PROVE  KeepInv' /\ StrandsOnlyThese
  <2>1. call'[t] = k /\ \A u \in Threads : u # t => call'[u] = call[u]
    BY <1>0, <1>7
  <2>2. /\ k.at \notin FreshPoints \cup DropPoints \cup StopPoints /\ k.at \in HoldPoints
        /\ k.at \notin {"loop", "scan", "poll", "tcp"}
    BY <1>7 DEF FreshPoints, DropPoints, StopPoints, HoldPoints
  <2> QED BY <1>7, <2>1, <2>2, PlainKeeps
\* A call that returns with the writer in its hands.
<1>8. ASSUME Return(t), UNCHANGED <<connections, origin, phase, Unaccepted>>, writers \subseteq writers',
             call[t].at \in WriterPoints,
             call[t].id \in writers' \/ call[t].conn \notin connections
      PROVE  KeepInv' /\ StrandsOnlyThese
  <2>1. call'[t] = Ready /\ \A u \in Threads : u # t => call'[u] = call[u]
    BY <1>0, <1>8 DEF Return
  <2>2. Detached(Ready)'
    BY <1>0, PlainDetached DEF FreshPoints, DropPoints, StopPoints
  <2>3. KeepInv'
    BY <1>0, <1>8, <2>1, <2>2, QuietInv DEF FreshPoints
  <2>4. ASSUME NEW d, d \in Stranded', d \notin Stranded PROVE FALSE
    <3>1. /\ d \in connections /\ phase[d].kind = "Streaming" /\ phase[d].id \notin writers'
          /\ phase[d].id = call[t].id
      BY <1>8, <2>1, <2>4, NewlyStranded
    <3>2. origin[call[t].id] = d
      BY <1>0, <3>1 DEF KeepInv, PhaseOrigins, Idle
    <3>3. call[t].conn = d
      BY <1>1, <1>8, <3>2 DEF Local, Placed
    <3> QED BY <1>8, <3>1, <3>3
  <2> QED BY <2>3, <2>4 DEF StrandsOnlyThese
<1>9. CASE OpenIndex(t)
  <2>1. /\ call[t].at = "openIndex" /\ Return(t) /\ writers' = writers \cup {call[t].id}
        /\ UNCHANGED <<connections, origin, phase, Unaccepted>>
    BY <1>9 DEF OpenIndex, At, slotVars, clientVars, Unaccepted
  <2> QED BY <1>8, <2>1 DEF WriterPoints
<1>10. CASE FinishLookUp(t)
  <2>1. /\ call[t].at = "finishLook"
        /\ UNCHANGED <<connections, writers, origin, phase, Unaccepted>>
        /\ Goto(t, "finishLock") \/ (Return(t) /\ call[t].conn \notin connections)
    BY <1>10 DEF FinishLookUp, LookUp, At, mapVars, slotVars, clientVars, Unaccepted
  <2>2. CASE Goto(t, "finishLock")
    <3>1. PICK k \in Call : call' = [call EXCEPT ![t] = k] /\ k.at = "finishLock" /\ k.id = call[t].id
      BY <1>0, <2>2, GotoCall DEF Points
    <3> QED BY <1>7, <2>1, <3>1
  <2> QED BY <1>8, <2>1, <2>2 DEF WriterPoints
<1>11. CASE FinishLock(t)
  <2>1. /\ call[t].at = "finishLock"
        /\ UNCHANGED <<connections, writers, origin, phase, Unaccepted>>
        /\ phase[call[t].conn] = Streaming(call[t].id) => Goto(t, "finishWrite")
    BY <1>11 DEF FinishLock, LockStream, At, mapVars, slotVars, clientVars, Unaccepted
  <2>2. Goto(t, "finishWrite")
    BY <1>1, <2>1 DEF Local, OwnsToken, WriterPoints
  <2>3. PICK k \in Call : call' = [call EXCEPT ![t] = k] /\ k.at = "finishWrite" /\ k.id = call[t].id
    BY <1>0, <2>2, GotoCall DEF Points
  <2> QED BY <1>7, <2>1, <2>3
<1> QED BY <1>3, <1>4, <1>5, <1>6, <1>9, <1>10, <1>11

\* The steps of a response that set the phase of its slot.
LEMMA ResponseKeeps ==
  ASSUME HttpInv, KeepInv, NEW t \in Threads, Answer(t) \/ OpenHead(t) \/ FinishWrite(t)
  PROVE  KeepInv' /\ StrandsOnlyThese
<1>0. /\ call \in [Threads -> Call] /\ call[t] \in Call /\ ServerType /\ Ready.at = "ready"
      /\ connections \subseteq Conns /\ Len(origin) \in Nat
  BY ServerTypeIsType DEF HttpInv, ServerType, MapsType, Ready
<1> DEFINE c == call[t].conn  r == call[t].id
<1>1. /\ call[t].at \in {"answer", "openHead", "finishWrite"}
      /\ UNCHANGED <<connections, writers, origin, Unaccepted>>
  BY DEF Answer, OpenHead, FinishWrite, At, clientVars, mapVars, Unaccepted
<1>2. /\ c \in Conns /\ r \in 1..Len(origin) /\ origin[r] = c /\ call[t].then = "ready"
      /\ call[t].at = "finishWrite" => phase[c] = Streaming(r)
  <2>1. Local(t, call[t])
    BY DEF HttpInv
  <2>2. call[t].at \in (RequestPoints \cup WriterPoints) \ {"index"}
    BY <1>1 DEF RequestPoints, WriterPoints
  <2>3. r \in 1..Len(origin) /\ c = origin[r] /\ call[t].then = "ready"
    BY <2>1, <2>2 DEF Local, Placed
  <2>4. call[t].at = "finishWrite" => phase[c] = Streaming(r)
    BY <2>1 DEF Local, OwnsToken, WriterPoints
  <2> QED BY <2>3, <2>4, ServerTypeIsType DEF HttpInv
\* The phase is set and the call goes on at k.
<1>3. ASSUME NEW k, call'[t] = k, \A u \in Threads : u # t => call'[u] = call[u],
             NEW p, phase' = [phase EXCEPT ![c] = p],
             \/ p = Idle
             \/ p = Streaming(r) /\ k.at = "openIndex" /\ k.id = r,
             k.at \in {"ready", "openIndex"}
      PROVE  KeepInv' /\ StrandsOnlyThese
  <2>1. k.at \notin FreshPoints \cup DropPoints \cup StopPoints
    BY <1>3 DEF FreshPoints, DropPoints, StopPoints
  <2>2. Detached(k)'
    BY <1>3, <2>1, PlainDetached
  <2>3. Live' \subseteq Live
    BY <1>1, <1>3, <2>1 DEF Live, Reading
  <2>4. /\ p = Idle \/ (p.id \in 1..Len(origin) /\ origin[p.id] = c)
        /\ p.kind # "Streaming" \/ (k.at \in HoldPoints /\ k.id = p.id)
    BY <1>2, <1>3 DEF Streaming, Idle, HoldPoints
  <2>5. /\ UNCHANGED origin /\ connections' \subseteq connections \cup {c} /\ writers \subseteq writers'
        /\ call[t].at \in HoldPoints => c = origin[call[t].id]
    BY <1>1, <1>2
  <2>6. \A u \in Threads : u # t =>
            /\ call[u].at \in FreshPoints => call[u].conn \notin connections'
            /\ call[u].at = "drop" /\ call[u].then = "ready" =>
                 origin[call[u].id] \notin connections' \ connections
    BY <1>1 DEF KeepInv, Detached
  <2>7. c \in Conns
    BY <1>2
  <2> HIDE DEF c, r
  <2>8. KeepInv'
    BY <1>3, <2>2, <2>3, <2>4, <2>5, <2>6, <2>7, PhaseKeepsInv
  <2>9. StrandsOnlyThese
    <3>1. /\ call'[t] = k /\ \A u \in Threads : u # t => call'[u] = call[u]
          /\ phase' = [phase EXCEPT ![c] = p]
          /\ p.kind # "Streaming" \/ (k.at \in HoldPoints /\ k.id = p.id)
          /\ connections' \subseteq connections \cup {c} /\ writers \subseteq writers'
      BY <1>3, <2>4, <2>5
    <3>2. call[t].at \in HoldPoints => c = origin[call[t].id]
      BY <2>5
    <3> QED BY <2>7, <3>1, <3>2, PhaseStrandsNothing
  <2> QED BY <2>8, <2>9
\* The connection is dropped as it is.
<1>4. ASSUME call' = [call EXCEPT ![t].at = "drop", ![t].todo = {c}], phase' = phase
      PROVE  KeepInv' /\ StrandsOnlyThese
  <2>1. PICK k : k = [call[t] EXCEPT !.at = "drop", !.todo = {c}]
    OBVIOUS
  <2>2. k.at = "drop" /\ k.todo = {c} /\ k.id = r /\ k.then = "ready"
    BY <1>0, <1>2, <2>1 DEF Call
  <2>3. call'[t] = k /\ \A u \in Threads : u # t => call'[u] = call[u]
    BY <1>0, <1>4, <2>1
  <2>4. Gone(k)' = {}
    BY <2>2 DEF Gone, ForgetPoints, CollectPoints
  <2>5. Detached(k)'
    BY <1>1, <1>2, <2>2, <2>4 DEF Detached, FreshPoints, CollectPoints
  <2>6. k.at \in HoldPoints /\ k.at \notin FreshPoints
    BY <2>2 DEF HoldPoints, FreshPoints
  <2> QED BY <1>1, <1>4, <2>2, <2>3, <2>5, <2>6, QuietKeeps
<1>5. ASSUME Return(t)
      PROVE  call'[t] = Ready /\ \A u \in Threads : u # t => call'[u] = call[u]
  BY <1>0, <1>5 DEF Return
<1>6. ASSUME Return(t), phase' = phase, call[t].at \notin HoldPoints
      PROVE  KeepInv' /\ StrandsOnlyThese
  <2>1. Ready.at \notin FreshPoints \cup DropPoints \cup StopPoints
    BY <1>0 DEF FreshPoints, DropPoints, StopPoints
  <2> QED BY <1>0, <1>1, <1>5, <1>6, <2>1, PlainKeeps
<1>7. CASE Answer(t)
  <2>1. Return(t) /\ call[t].at \notin HoldPoints
    BY <1>7 DEF Answer, At, HoldPoints
  <2>2. phase' = [phase EXCEPT ![c] = Idle] \/ phase' = phase
    BY <1>7 DEF Answer
  <2> HIDE DEF c, r
  <2> QED BY <1>0, <1>3, <1>5, <1>6, <2>1, <2>2
<1>8. CASE OpenHead(t)
  <2>1. call[t].at \notin HoldPoints
    BY <1>8 DEF OpenHead, At, HoldPoints
  <2>2. \/ Return(t) /\ phase' = phase
        \/ phase' = [phase EXCEPT ![c] = Streaming(r)] /\ Goto(t, "openIndex")
        \/ call' = [call EXCEPT ![t].at = "drop", ![t].todo = {c}] /\ phase' = phase
    BY <1>8 DEF OpenHead
  <2>3. CASE phase' = [phase EXCEPT ![c] = Streaming(r)] /\ Goto(t, "openIndex")
    <3>1. PICK k \in Call : call' = [call EXCEPT ![t] = k] /\ k.at = "openIndex" /\ k.id = r
      BY <1>0, <2>3, GotoCall DEF Points
    <3>2. call'[t] = k /\ \A u \in Threads : u # t => call'[u] = call[u]
      BY <1>0, <3>1
    <3> HIDE DEF c, r
    <3> QED BY <1>3, <2>3, <3>1, <3>2
  <2> QED BY <1>4, <1>6, <2>1, <2>2, <2>3
<1>9. CASE FinishWrite(t)
  <2>1. \/ phase' = [phase EXCEPT ![c] = Idle] /\ Return(t)
        \/ call' = [call EXCEPT ![t].at = "drop", ![t].todo = {c}] /\ phase' = phase
        \/ Return(t) /\ phase' = phase
    BY <1>9 DEF FinishWrite
  <2>2. CASE phase' = [phase EXCEPT ![c] = Idle] /\ Return(t)
    <3> HIDE DEF c, r
    <3> QED BY <1>0, <1>3, <1>5, <2>2
  <2>3. CASE Return(t) /\ phase' = phase
    <3>1. call'[t] = Ready /\ \A u \in Threads : u # t => call'[u] = call[u]
      BY <1>5, <2>3
    <3>2. Detached(Ready)'
      BY <1>0, PlainDetached DEF FreshPoints, DropPoints, StopPoints
    <3>3. KeepInv'
      BY <1>0, <1>1, <2>3, <3>1, <3>2, QuietInv DEF FreshPoints
    <3>4. c \in FailedFinishes
      BY <1>0, <1>9, <3>1 DEF FinishWrite, FailedFinishes, At
    <3>5. ASSUME NEW d, d \in Stranded', d \notin Stranded PROVE d = c
      <4>1. /\ d \in connections /\ phase[d].kind = "Streaming" /\ phase[d].id = r
        BY <1>1, <2>3, <3>1, <3>5, NewlyStranded
      <4>2. origin[r] = d
        BY <1>0, <4>1 DEF KeepInv, PhaseOrigins, Idle
      <4> QED BY <1>2, <4>2
    <3> HIDE DEF c
    <3> QED BY <3>3, <3>4, <3>5 DEF StrandsOnlyThese
  <2> QED BY <1>4, <2>1, <2>2, <2>3
<1> QED BY <1>7, <1>8, <1>9

\* Every step keeps the invariant and strands only what the property allows.
LEMMA KeepInvInductive ==
  ASSUME SingleAcceptor, HttpInv, KeepInv, [Next]_vars
  PROVE  KeepInv' /\ StrandsOnlyThese
<1>1. CASE UNCHANGED vars
  <2>1. UNCHANGED <<connections, writers, origin, phase, call, dialled, backlog>>
    BY <1>1 DEF vars, mapVars, slotVars, clientVars
  <2> QED BY <2>1, UnmovedKeeps DEF Unaccepted
<1>2. CASE Client
  <2>1. UNCHANGED <<connections, writers, origin, phase, call>>
    BY <1>2 DEF Client, ClientConnects, ClientSends, ClientSendsMalformed, ClientCloses, mapVars,
                slotVars
  <2>2. Unaccepted' \subseteq Unaccepted
    <3>0. dialled \in [Conns -> Listeners \cup {NoListener}]
      BY DEF HttpInv, ServerType, MapsType
    <3>1. ASSUME NEW c \in Conns, NEW l \in Listeners, ClientConnects(c, l)
          PROVE  Unaccepted' \subseteq Unaccepted
      BY <3>0, <3>1, NoListenerAssumption DEF ClientConnects, Unaccepted
    <3> QED BY <1>2, <3>1 DEF Client, ClientSends, ClientSendsMalformed, ClientCloses, Unaccepted
  <2> QED BY <2>1, <2>2, UnmovedKeeps
<1>3. ASSUME NEW t \in Threads, NewCall(t) \/ ThreadStep(t) PROVE KeepInv' /\ StrandsOnlyThese
  <2>1. CASE AcceptStep(t)
    BY <2>1, PollKeeps, AdmitKeeps DEF AcceptStep
  <2>2. CASE RespondStep(t)
    BY <2>2, RespondKeeps, ResponseKeeps DEF RespondStep
  <2> QED BY <1>3, <2>1, <2>2, BeginKeeps, StopKeeps, DropsKeep DEF ThreadStep
<1> QED BY <1>1, <1>2, <1>3 DEF Next

\* With one thread that accepts, a stream loses its writer only when the last
\* write of its respond_finish fails (take_writer before the slot's phase is
\* set); no other failure of respond_open, respond_chunk or respond_finish, no
\* drop_connection and no stop leaves a registered connection streaming with
\* nobody to continue it.
THEOREM StreamsKeepTheirWriter ==
  ASSUME SingleAcceptor
  PROVE  Spec => OnlyFailedFinishStrands
<1>1. Init => HttpInv /\ KeepInv
  <2>1. SUFFICES ASSUME Init PROVE HttpInv /\ KeepInv
    OBVIOUS
  <2>2. \A t \in Threads : call[t].at = "ready"
    BY <2>1 DEF Init, Ready
  <2>3. \A t \in Threads : Gone(call[t]) = {}
    BY <2>2 DEF Gone, ForgetPoints, CollectPoints
  <2>4. \A t \in Threads : Detached(call[t])
    BY <2>2, <2>3 DEF Detached, CollectPoints, FreshPoints, DropPoints
  <2>5. PhaseOrigins
    BY <2>1 DEF Init, PhaseOrigins
  <2> QED BY <2>1, <2>4, <2>5, HttpInvInitially DEF KeepInv
<1>2. HttpInv /\ KeepInv /\ [Next]_vars => HttpInv' /\ KeepInv'
  BY HttpInvInductive, KeepInvInductive
<1>3. HttpInv /\ KeepInv /\ [Next]_vars =>
         [Stranded' \subseteq Stranded \cup {call[t].conn : t \in {u \in Threads :
            At(u, "finishWrite") /\ call'[u].at = "ready"}}]_vars
  BY KeepInvInductive DEF StrandsOnlyThese, FailedFinishes
<1> QED BY <1>1, <1>2, <1>3, PTL DEF Spec, OnlyFailedFinishStrands
=============================================================================
