----------------------------- MODULE NativeHost -----------------------------
(***************************************************************************)
(* The bounded worker pool of crates/host-native/src/lib.rs: public handles *)
(* (Clone / Drop), HostDispatch::start, the sync_channel between callers    *)
(* and workers, run_worker and its job, begin_shutdown and join_workers.    *)
(*                                                                         *)
(* One action is what the code does between two points where another       *)
(* thread can interfere: a critical section, a load of an atomic, a send   *)
(* of a response frame.  A job stands for its id, request, response sender *)
(* and cancellation token; what a provider returns is nondeterministic.    *)
(***************************************************************************)
EXTENDS Naturals, Sequences, FiniteSets

CONSTANTS
    Workers,        \* the worker threads build_with_worker_spawner spawns
    Clients,        \* threads that can hold a public NativeHost handle
    Owner,          \* the client build_with_worker_spawner returns to
    Jobs,           \* the start calls of a behaviour, one job id each
    RoutedJobs,     \* the jobs whose route Kernel::supports_route admits
    Capacities,     \* the queue_capacity a host may be built with; 0 is a rendezvous
    MaxContents     \* bound: contents of one provider reply

ASSUME NativeHostAssumption ==
    /\ Workers # {}
    /\ Owner \in Clients
    /\ RoutedJobs \subseteq Jobs
    /\ Capacities \subseteq Nat
    /\ MaxContents \in Nat

NoJob == "no job"
ASSUME NoJobAssumption == NoJob \notin Jobs

VARIABLES
    built,          \* "building", "ready" or "failed" construction
    owns,           \* clients holding a handle; public_handles is its size
    cpc,            \* where each client is in shutdown / drop / construction
    joinSet,        \* the JoinHandles a caller has taken out of state.workers
    workers,        \* state.workers: JoinHandles nobody has taken yet
    senderOpen,     \* state.queue is Some: the channel has its sender
    shuttingDown,   \* state.shutting_down
    activeJobs,     \* keys of state.active_jobs
    queue,          \* jobs buffered in the channel
    capacity,       \* the bound of the sync_channel
    wpc,            \* where each worker is in run_worker / run_job
    wjob,           \* the job a worker holds
    admitted,       \* outcome of start: "new", "accepted" or "rejected"
    cancelled,      \* jobs whose Cancellation is set
    dropped,        \* jobs whose response receiver is gone
    frames          \* frames sent on a job's ResponseSender, in order

clientVars == <<built, owns, cpc, joinSet, workers>>
hostVars   == <<senderOpen, shuttingDown, activeJobs, queue, capacity>>
workerVars == <<wpc, wjob>>
jobVars    == <<admitted, cancelled, dropped, frames>>
vars       == <<clientVars, hostVars, workerVars, jobVars>>

\* A content frame sent while the job's token is already set is a "late" one.
Terminal == {"done", "error", "cancel"}
Frame    == Terminal \cup {"content", "late"}

ClientPC == {"ready", "closing", "dropClosing", "sweep", "dropSweep",
             "join", "joining", "gone"}
WorkerPC == {"unborn", "idle", "recv", "got", "register", "insert", "refuse",
             "run", "dispatch", "provider", "reply", "send", "finish",
             "unregister", "exited"}

\* Program points at which a worker owns a job taken from the channel.
Holding == WorkerPC \ {"unborn", "idle", "recv", "exited"}
\* Program points between register_active_job and unregister_active_job.
Registered == Holding \ {"got", "register", "insert", "refuse"}

\* state.queue's mutex is free: no begin_shutdown between its swap and the
\* drop of the guard.
QueueLockFree == \A c \in Clients : cpc[c] \notin {"closing", "dropClosing"}
\* state.active_jobs' mutex is free: no register_active_job between its load
\* of the flag and its insert.
NoActiveLock == TRUE
ActiveLockFree == \A w \in Workers : wpc[w] # "insert"

TypeOK ==
    /\ built \in {"building", "ready", "failed"}
    /\ owns \in SUBSET Clients
    /\ cpc \in [Clients -> ClientPC]
    /\ joinSet \in [Clients -> SUBSET Workers]
    /\ workers \in SUBSET Workers
    /\ senderOpen \in BOOLEAN
    /\ shuttingDown \in BOOLEAN
    /\ activeJobs \in SUBSET Jobs
    /\ queue \in Seq(Jobs)
    /\ capacity \in Capacities
    /\ wpc \in [Workers -> WorkerPC]
    /\ wjob \in [Workers -> Jobs \cup {NoJob}]
    /\ \A w \in Workers : wjob[w] # NoJob <=> wpc[w] \in Holding
    /\ admitted \in [Jobs -> {"new", "accepted", "rejected"}]
    /\ cancelled \in SUBSET Jobs
    /\ dropped \in SUBSET Jobs
    /\ frames \in [Jobs -> Seq(Frame)]

Init ==
    /\ built = "building"
    /\ owns = {}
    /\ cpc = [c \in Clients |-> IF c = Owner THEN "ready" ELSE "gone"]
    /\ joinSet = [c \in Clients |-> {}]
    /\ workers = {}
    /\ senderOpen = TRUE
    /\ shuttingDown = FALSE
    /\ activeJobs = {}
    /\ queue = <<>>
    /\ capacity \in Capacities
    /\ wpc = [w \in Workers |-> "unborn"]
    /\ wjob = [w \in Workers |-> NoJob]
    /\ admitted = [j \in Jobs |-> "new"]
    /\ cancelled = {}
    /\ dropped = {}
    /\ frames = [j \in Jobs |-> <<>>]

-----------------------------------------------------------------------------
(* Construction: build_with_worker_spawner.                                *)

\* One turn of the spawn loop: the thread starts and its JoinHandle is pushed.
\* With the last worker the constructor returns the first public handle.
SpawnWorker(w) ==
    /\ built = "building"
    /\ wpc[w] = "unborn"
    /\ wpc' = [wpc EXCEPT ![w] = "idle"]
    /\ workers' = workers \cup {w}
    /\ IF workers' = Workers
       THEN built' = "ready" /\ owns' = {Owner}
       ELSE UNCHANGED <<built, owns>>
    /\ UNCHANGED <<cpc, joinSet, hostVars, wjob, jobVars>>

\* The operating system refuses a thread: cleanup_partial_workers begins a
\* shutdown and joins the workers already spawned; no handle is returned.
SpawnFails ==
    /\ built = "building"
    /\ built' = "failed"
    /\ shuttingDown' = TRUE
    /\ cpc' = [cpc EXCEPT ![Owner] = "closing"]
    /\ UNCHANGED <<owns, joinSet, workers, senderOpen, activeJobs, queue,
                   capacity, workerVars, jobVars>>

-----------------------------------------------------------------------------
(* Public handles.                                                         *)

\* Clone for NativeHost: another thread receives a handle.
CloneHandle(c, d) ==
    /\ c \in owns /\ cpc[c] = "ready"
    /\ d \notin owns /\ cpc[d] = "gone"
    /\ owns' = owns \cup {d}
    /\ cpc' = [cpc EXCEPT ![d] = "ready"]
    /\ UNCHANGED <<built, joinSet, workers, hostVars, workerVars, jobVars>>

\* Whether try_send succeeds: there is a free slot or, on a rendezvous
\* channel, a worker waiting in recv.
CanSendUnawaited == Len(queue) < capacity \/ (capacity = 0 /\ queue = <<>>)
CanSend ==
    \/ Len(queue) < capacity
    \/ capacity = 0 /\ queue = <<>> /\ \E w \in Workers : wpc[w] = "recv"

\* HostDispatch::start with enqueue_job: route admission, then, under the
\* queue mutex, the shutdown check and the try_send.
Start(c, j) ==
    /\ c \in owns /\ cpc[c] = "ready"
    /\ admitted[j] = "new"
    /\ \/ /\ j \notin RoutedJobs
          /\ admitted' = [admitted EXCEPT ![j] = "rejected"]
          /\ UNCHANGED queue
       \/ /\ j \in RoutedJobs /\ QueueLockFree
          /\ shuttingDown \/ ~senderOpen \/ ~CanSend
          /\ admitted' = [admitted EXCEPT ![j] = "rejected"]
          /\ UNCHANGED queue
       \/ /\ j \in RoutedJobs /\ QueueLockFree
          /\ ~shuttingDown /\ senderOpen /\ CanSend
          /\ admitted' = [admitted EXCEPT ![j] = "accepted"]
          /\ queue' = Append(queue, j)
    /\ UNCHANGED <<clientVars, senderOpen, shuttingDown, activeJobs, capacity,
                   workerVars, cancelled, dropped, frames>>

\* begin_shutdown takes the queue mutex: only the caller whose swap finds the
\* flag clear goes on to close the queue; later callers return at once.
BeginShutdown(c, closing, otherwise) ==
    /\ QueueLockFree
    /\ shuttingDown' = TRUE
    /\ cpc' = [cpc EXCEPT ![c] = IF shuttingDown THEN otherwise ELSE closing]

\* NativeHost::shutdown.
Shutdown(c) ==
    /\ c \in owns /\ cpc[c] = "ready"
    /\ BeginShutdown(c, "closing", "join")
    /\ UNCHANGED <<built, owns, joinSet, workers, senderOpen, activeJobs,
                   queue, capacity, workerVars, jobVars>>

\* Drop for NativeHost: the last handle begins a shutdown and never joins.
DropHandle(c) ==
    /\ c \in owns /\ cpc[c] = "ready"
    /\ owns' = owns \ {c}
    /\ IF owns = {c}
       THEN BeginShutdown(c, "dropClosing", "gone")
       ELSE cpc' = [cpc EXCEPT ![c] = "gone"] /\ UNCHANGED shuttingDown
    /\ UNCHANGED <<built, joinSet, workers, senderOpen, activeJobs, queue,
                   capacity, workerVars, jobVars>>

\* queue.take(), then the guard is dropped.
SenderKept(c) ==
    /\ cpc[c] \in {"closing", "dropClosing"}
    /\ cpc' = [cpc EXCEPT ![c] = IF @ = "closing" THEN "sweep" ELSE "dropSweep"]
    /\ UNCHANGED <<built, owns, joinSet, workers, hostVars, workerVars, jobVars>>
CloseQueue(c) ==
    /\ cpc[c] \in {"closing", "dropClosing"}
    /\ senderOpen' = FALSE
    /\ cpc' = [cpc EXCEPT ![c] = IF @ = "closing" THEN "sweep" ELSE "dropSweep"]
    /\ UNCHANGED <<built, owns, joinSet, workers, shuttingDown, activeJobs,
                   queue, capacity, workerVars, jobVars>>

\* Under the active_jobs mutex every registered job's token is cancelled.
CancelActive(c) ==
    /\ cpc[c] \in {"sweep", "dropSweep"} /\ ActiveLockFree
    /\ cancelled' = cancelled \cup activeJobs
    /\ cpc' = [cpc EXCEPT ![c] = IF @ = "sweep" THEN "join" ELSE "gone"]
    /\ UNCHANGED <<built, owns, joinSet, workers, hostVars, workerVars,
                   admitted, dropped, frames>>

\* join_workers takes every JoinHandle still in state.workers ...
TakeHandles(c) ==
    /\ cpc[c] = "join"
    /\ joinSet' = [joinSet EXCEPT ![c] = workers]
    /\ workers' = {}
    /\ cpc' = [cpc EXCEPT ![c] = "joining"]
    /\ UNCHANGED <<built, owns, hostVars, workerVars, jobVars>>

\* ... and returns when each of those threads has ended; a failed construction
\* then returns its error.
Join(c) ==
    /\ cpc[c] = "joining"
    /\ \A w \in joinSet[c] : wpc[w] = "exited"
    /\ joinSet' = [joinSet EXCEPT ![c] = {}]
    /\ cpc' = [cpc EXCEPT ![c] = IF c \in owns THEN "ready" ELSE "gone"]
    /\ UNCHANGED <<built, owns, workers, hostVars, workerVars, jobVars>>

-----------------------------------------------------------------------------
(* Workers: run_worker, register_active_job, run_job, send_reply.          *)

Goto(w, to) == wpc' = [wpc EXCEPT ![w] = to]

\* The channel's receiver is behind one mutex: one worker at a time is in recv.
LockReceiver(w) ==
    /\ wpc[w] = "idle"
    /\ \A v \in Workers : wpc[v] # "recv"
    /\ Goto(w, "recv")
    /\ UNCHANGED <<clientVars, hostVars, wjob, jobVars>>

\* recv hands out the oldest buffered job, also after the sender is gone.
Receive(w) ==
    /\ wpc[w] = "recv" /\ queue # <<>>
    /\ wjob' = [wjob EXCEPT ![w] = Head(queue)]
    /\ queue' = Tail(queue)
    /\ Goto(w, "got")
    /\ UNCHANGED <<clientVars, senderOpen, shuttingDown, activeJobs, capacity, jobVars>>

\* recv fails once the channel is empty and has no sender: the thread ends.
ExitUndrained(w) ==
    /\ wpc[w] = "recv" /\ ~senderOpen
    /\ Goto(w, "exited")
    /\ UNCHANGED <<clientVars, hostVars, wjob, jobVars>>
WorkerExit(w) ==
    /\ wpc[w] = "recv" /\ queue = <<>> /\ ~senderOpen
    /\ Goto(w, "exited")
    /\ UNCHANGED <<clientVars, hostVars, wjob, jobVars>>

\* The unlocked load of shutting_down.
CheckShutdown(w) ==
    /\ wpc[w] = "got"
    /\ Goto(w, IF shuttingDown THEN "refuse" ELSE "register")
    /\ UNCHANGED <<clientVars, hostVars, wjob, jobVars>>

\* register_active_job loads the flag again under the active_jobs mutex ...
RegisterActiveJob(w) ==
    /\ wpc[w] = "register" /\ ActiveLockFree
    /\ Goto(w, IF shuttingDown THEN "refuse" ELSE "insert")
    /\ UNCHANGED <<clientVars, hostVars, wjob, jobVars>>

\* ... and inserts the job before releasing it; the flag may be set in between.
InsertActiveJob(w) ==
    /\ wpc[w] = "insert"
    /\ activeJobs' = activeJobs \cup {wjob[w]}
    /\ Goto(w, "run")
    /\ UNCHANGED <<clientVars, senderOpen, shuttingDown, queue, capacity, wjob, jobVars>>

\* A frame reaches the stream unless the receiver is gone.
Send(j, frame) ==
    frames' = [frames EXCEPT ![j] = IF j \in dropped THEN @ ELSE Append(@, frame)]

\* send_error("host_shutting_down") for a job that never ran.
RefuseSilently(w) ==
    /\ wpc[w] = "refuse"
    /\ Goto(w, "idle")
    /\ wjob' = [wjob EXCEPT ![w] = NoJob]
    /\ UNCHANGED <<clientVars, hostVars, jobVars>>
RefuseJob(w) ==
    /\ wpc[w] = "refuse"
    /\ Send(wjob[w], "error")
    /\ Goto(w, "idle")
    /\ wjob' = [wjob EXCEPT ![w] = NoJob]
    /\ UNCHANGED <<clientVars, hostVars, admitted, cancelled, dropped>>

\* The token is polled at `from`: a cancelled job is answered and ends, any
\* other goes on to `to`.
PollWithoutReturn(w, from, to) ==
    /\ wpc[w] = from
    /\ IF wjob[w] \in cancelled THEN Send(wjob[w], "cancel") ELSE UNCHANGED frames
    /\ Goto(w, to)
    /\ UNCHANGED <<clientVars, hostVars, wjob, admitted, cancelled, dropped>>
PollCancellation(w, from, to) ==
    /\ wpc[w] = from
    /\ IF wjob[w] \in cancelled
       THEN Send(wjob[w], "cancel") /\ Goto(w, "unregister")
       ELSE Goto(w, to) /\ UNCHANGED frames
    /\ UNCHANGED <<clientVars, hostVars, wjob, admitted, cancelled, dropped>>

\* run_job polls the token, then Kernel::dispatch does, before provider code.
RunJob(w)           == PollCancellation(w, "run", "dispatch")
DispatchToKernel(w) == PollCancellation(w, "dispatch", "provider")

\* The provider returns a reply, which is sent frame by frame.
ProviderReplies(w) ==
    /\ wpc[w] = "provider"
    /\ Goto(w, "reply")
    /\ UNCHANGED <<clientVars, hostVars, wjob, jobVars>>

\* The provider returns an error or panics: one frame, "cancel" for
\* E_CANCELLED and "error" otherwise.
ProviderFails(w) ==
    /\ wpc[w] = "provider"
    /\ \E frame \in {"error", "cancel"} : Send(wjob[w], frame)
    /\ Goto(w, "unregister")
    /\ UNCHANGED <<clientVars, hostVars, wjob, admitted, cancelled, dropped>>

\* send_reply polls the token before every content and before the end.  How
\* many contents the reply has is decided as they are sent.
SkipPoll(w) ==
    /\ wpc[w] = "reply"
    /\ \/ Len(frames[wjob[w]]) < MaxContents /\ Goto(w, "send")
       \/ Goto(w, "finish")
    /\ UNCHANGED <<clientVars, hostVars, wjob, jobVars>>
PollReply(w) ==
    /\ wpc[w] = "reply"
    /\ \/ PollCancellation(w, "reply", "finish")
       \/ /\ Len(frames[wjob[w]]) < MaxContents
          /\ PollCancellation(w, "reply", "send")

\* One content frame; a send that fails ends the reply with no terminal frame.
SendContent(w) ==
    LET j == wjob[w] IN
    /\ wpc[w] = "send"
    /\ Send(j, IF j \in cancelled THEN "late" ELSE "content")
    /\ Goto(w, IF j \in dropped THEN "unregister" ELSE "reply")
    /\ UNCHANGED <<clientVars, hostVars, wjob, admitted, cancelled, dropped>>

\* responses.done().
FinishReply(w) ==
    /\ wpc[w] = "finish"
    /\ Send(wjob[w], "done")
    /\ Goto(w, "unregister")
    /\ UNCHANGED <<clientVars, hostVars, wjob, admitted, cancelled, dropped>>

UnregisterKeepsJob(w) ==
    /\ wpc[w] = "unregister" /\ ActiveLockFree
    /\ activeJobs' = activeJobs \ {wjob[w]}
    /\ Goto(w, "idle")
    /\ UNCHANGED <<clientVars, senderOpen, shuttingDown, queue, capacity, wjob, jobVars>>
UnregisterActiveJob(w) ==
    /\ wpc[w] = "unregister" /\ ActiveLockFree
    /\ activeJobs' = activeJobs \ {wjob[w]}
    /\ wjob' = [wjob EXCEPT ![w] = NoJob]
    /\ Goto(w, "idle")
    /\ UNCHANGED <<clientVars, senderOpen, shuttingDown, queue, capacity, jobVars>>

-----------------------------------------------------------------------------
(* The consumer of a conversation (faber's Sermo, outside this repository). *)

ConsumerCancels(j) ==
    /\ admitted[j] = "accepted" /\ j \notin cancelled
    /\ cancelled' = cancelled \cup {j}
    /\ UNCHANGED <<clientVars, hostVars, workerVars, admitted, dropped, frames>>

ConsumerDrops(j) ==
    /\ admitted[j] = "accepted" /\ j \notin dropped
    /\ dropped' = dropped \cup {j}
    /\ UNCHANGED <<clientVars, hostVars, workerVars, admitted, cancelled, frames>>

\* Nothing is left to do: the pool is gone and nobody holds a handle.
Quiescent ==
    /\ \A w \in Workers : wpc[w] \in {"unborn", "exited"}
    /\ \A c \in Clients : cpc[c] = "gone"
    /\ UNCHANGED vars

WorkerStep(w) ==
    \/ LockReceiver(w) \/ Receive(w) \/ WorkerExit(w)
    \/ CheckShutdown(w) \/ RegisterActiveJob(w) \/ InsertActiveJob(w)
    \/ RefuseJob(w) \/ RunJob(w) \/ DispatchToKernel(w)
    \/ ProviderReplies(w) \/ ProviderFails(w)
    \/ PollReply(w) \/ SendContent(w) \/ FinishReply(w)
    \/ UnregisterActiveJob(w)

ShutdownStep(c) == CloseQueue(c) \/ CancelActive(c) \/ TakeHandles(c) \/ Join(c)

ClientStep(c) ==
    \/ \E d \in Clients : CloneHandle(c, d)
    \/ \E j \in Jobs : Start(c, j)
    \/ Shutdown(c) \/ DropHandle(c) \/ ShutdownStep(c)

Next ==
    \/ \E w \in Workers : SpawnWorker(w) \/ WorkerStep(w)
    \/ SpawnFails
    \/ \E c \in Clients : ClientStep(c)
    \/ \E j \in Jobs : ConsumerCancels(j) \/ ConsumerDrops(j)
    \/ Quiescent

Spec == Init /\ [][Next]_vars

\* Threads are scheduled and provider calls return; nothing obliges a client
\* to start a job, to shut down or to drop its handle.
Fairness ==
    /\ \A w \in Workers : WF_vars(WorkerStep(w))
    /\ \A c \in Clients : WF_vars(ShutdownStep(c))

FairSpec == Spec /\ Fairness

-----------------------------------------------------------------------------
(* Properties.                                                             *)

\* No client is inside begin_shutdown.
SweepDone == \A c \in Clients :
    cpc[c] \notin {"closing", "dropClosing", "sweep", "dropSweep"}

\* begin_shutdown misses no running job: once it has returned, every job
\* still registered in active_jobs has its token set, although a worker may
\* have loaded the flag before it was set and inserted its job afterwards.
NoJobEscapesShutdown == shuttingDown /\ SweepDone => activeJobs \subseteq cancelled

Ended(j) == j \in dropped \/ \E i \in 1..Len(frames[j]) : frames[j][i] \in Terminal
Queued(j) == \E i \in 1..Len(queue) : queue[i] = j
Held(j)   == \E w \in Workers : wjob[w] = j

\* An accepted job is never lost and never run twice: it is buffered once, or
\* held by exactly one worker, or over; a job start refused is nowhere; and
\* active_jobs registers exactly the jobs workers are running.
JobsAccountedFor ==
    /\ \A j \in Jobs :
        /\ Queued(j) \/ Held(j) => admitted[j] = "accepted"
        /\ admitted[j] = "accepted" => Queued(j) \/ Held(j) \/ Ended(j)
        /\ ~(Queued(j) /\ Held(j))
    /\ \A i, k \in 1..Len(queue) : queue[i] = queue[k] => i = k
    /\ \A v, w \in Workers : wjob[v] = wjob[w] /\ wjob[v] # NoJob => v = w
    /\ activeJobs = {wjob[w] : w \in {v \in Workers : wpc[v] \in Registered}}

\* A response stream is well formed: a terminal frame is the last frame, so
\* there is at most one, whichever of refusal, cancellation, provider failure
\* and completion the interleaving picks (ResponseSender itself keeps no latch).
OneTerminalFrame ==
    \A j \in Jobs : \A i \in 1..Len(frames[j]) :
        frames[j][i] \in Terminal => i = Len(frames[j])

\* Cancellation stops a reply: send_reply polls before each content, so at
\* most the one content already past its poll follows the cancellation.
CancellationStopsContent ==
    \A j \in Jobs : \A i, k \in 1..Len(frames[j]) :
        frames[j][i] = "late" /\ frames[j][k] = "late" => i = k

\* With queue_capacity 0 no accepted job waits for a worker to become free,
\* not behind a running job and not while the sender is dropped: until it is
\* taken, a worker is in recv for it (enqueue_job, run_worker).
RendezvousHandsOver ==
    capacity = 0 /\ queue # <<>> =>
        Len(queue) = 1 /\ \E w \in Workers : wpc[w] = "recv"

\* A client returns from join_workers in this step.
Returns(c) == cpc[c] = "joining" /\ cpc'[c] # "joining"
Idle == /\ \A w \in Workers : wpc[w] \in {"unborn", "exited"}
        /\ queue = <<>> /\ activeJobs = {}

\* The shutdown (or failed construction) that took the JoinHandles returns
\* only when every thread has ended and no accepted job is left behind.
JoinerDrains ==
    [][\A c \in Clients : Returns(c) /\ joinSet[c] # {} => Idle]_vars

\* host-native/README.md: "Explicit `shutdown` joins workers."  Whichever
\* caller it is, shutdown returns only when no worker runs any more.
EveryShutdownJoins == [][\A c \in Clients : Returns(c) => Idle]_vars

\* Every accepted job gets a terminal frame unless its consumer went away.
AcceptedJobsEnd == \A j \in Jobs : admitted[j] = "accepted" ~> Ended(j)

\* shutdown always returns: join_workers never waits forever.
ShutdownReturns == \A c \in Clients : cpc[c] = "joining" ~> cpc[c] # "joining"

\* Dropping the last public handle, which joins nobody, still ends every
\* worker thread.
LastDropStopsPool ==
    (built = "ready" /\ owns = {}) ~> (\A w \in Workers : wpc[w] = "exited")

\* What a consumer sees of a job, whichever of run_worker's paths it took:
\* content, then one terminal frame and nothing after it, and no content once
\* its cancellation was polled.
StreamsWellFormed == OneTerminalFrame /\ CancellationStopsContent

\* The pool always comes to rest: shutdown returns, and dropping the last
\* handle ends the workers although nobody joins them.
PoolEnds == ShutdownReturns /\ LastDropStopsPool
=============================================================================
