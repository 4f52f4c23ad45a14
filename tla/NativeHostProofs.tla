-------------------------- MODULE NativeHostProofs --------------------------
(***************************************************************************)
(* Proofs about NativeHost for every number of workers, clients and jobs    *)
(* and every queue capacity.                                               *)
(***************************************************************************)
EXTENDS NativeHost, TLAPS

\* A frame sent on a job's stream keeps the streams well typed.
LEMMA SendType ==
  ASSUME TypeOK, NEW j \in Jobs, NEW frame \in Frame, Send(j, frame)
  PROVE  frames' \in [Jobs -> Seq(Frame)]
<1>1. frames[j] \in Seq(Frame) /\ Append(frames[j], frame) \in Seq(Frame)
  BY DEF TypeOK
<1> QED
  BY <1>1 DEF TypeOK, Send

\* A worker that holds a job holds one of Jobs.
LEMMA HoldsJob ==
  ASSUME TypeOK, NEW w \in Workers, wpc[w] \in Holding
  PROVE  wjob[w] \in Jobs
BY DEF TypeOK

\* Every step of a worker keeps every variable in its type.
LEMMA WorkerKeepsType ==
  ASSUME TypeOK, NEW w \in Workers, WorkerStep(w)
  PROVE  TypeOK'
<1> USE HoldsJob, NoJobAssumption
<1> USE DEF Goto, WorkerPC, Holding, clientVars, hostVars, workerVars, jobVars
<1>0. {"error", "cancel", "done", "content", "late"} \subseteq Frame
  BY DEF Frame, Terminal
<1>1. CASE LockReceiver(w)   BY <1>1 DEF LockReceiver, TypeOK
<1>2. CASE Receive(w)
  <2>1. Head(queue) \in Jobs /\ Tail(queue) \in Seq(Jobs)
    BY <1>2 DEF Receive, TypeOK
  <2> QED BY <1>2, <2>1 DEF Receive, TypeOK
<1>3. CASE WorkerExit(w)     BY <1>3 DEF WorkerExit, TypeOK
<1>4. CASE CheckShutdown(w)  BY <1>4 DEF CheckShutdown, TypeOK
<1>5. CASE RegisterActiveJob(w) BY <1>5 DEF RegisterActiveJob, TypeOK
<1>6. CASE InsertActiveJob(w)
  <2>1. wjob[w] \in Jobs BY <1>6 DEF InsertActiveJob
  <2> QED BY <1>6, <2>1 DEF InsertActiveJob, TypeOK
<1>7. CASE RefuseJob(w)
  <2>1. frames' \in [Jobs -> Seq(Frame)]
    BY <1>0, <1>7, SendType DEF RefuseJob
  <2> QED BY <1>7, <2>1 DEF RefuseJob, TypeOK
<1>8. ASSUME NEW from \in Holding, NEW to \in Holding, PollCancellation(w, from, to)
      PROVE  TypeOK'
  <2>1. frames' \in [Jobs -> Seq(Frame)]
    <3>1. CASE wjob[w] \in cancelled
      BY <1>0, <1>8, <3>1, SendType DEF PollCancellation
    <3>2. CASE wjob[w] \notin cancelled
      BY <1>8, <3>2 DEF PollCancellation, TypeOK
    <3> QED BY <3>1, <3>2
  <2>2. wpc' \in [Workers -> WorkerPC] /\ wpc[w] \in Holding /\ wpc'[w] \in Holding
    BY <1>8 DEF PollCancellation, TypeOK
  <2>3. \A v \in Workers : v # w => wpc'[v] = wpc[v]
    BY <1>8 DEF PollCancellation, TypeOK
  <2>4. \A v \in Workers : wjob'[v] # NoJob <=> wpc'[v] \in Holding
    BY <1>8, <2>2, <2>3 DEF PollCancellation, TypeOK
  <2> QED BY <1>8, <2>1, <2>2, <2>4 DEF PollCancellation, TypeOK
<1>9. CASE RunJob(w) \/ DispatchToKernel(w) \/ PollReply(w)
  BY <1>8, <1>9 DEF RunJob, DispatchToKernel, PollReply
<1>10. CASE ProviderReplies(w) BY <1>10 DEF ProviderReplies, TypeOK
<1>11. CASE ProviderFails(w)
  <2>1. frames' \in [Jobs -> Seq(Frame)]
    BY <1>0, <1>11, SendType DEF ProviderFails
  <2> QED BY <1>11, <2>1 DEF ProviderFails, TypeOK
<1>13. CASE SendContent(w)
  <2>1. frames' \in [Jobs -> Seq(Frame)]
    BY <1>0, <1>13, SendType DEF SendContent
  <2> QED BY <1>13, <2>1 DEF SendContent, TypeOK
<1>14. CASE FinishReply(w)
  <2>1. frames' \in [Jobs -> Seq(Frame)]
    BY <1>0, <1>14, SendType DEF FinishReply
  <2> QED BY <1>14, <2>1 DEF FinishReply, TypeOK
<1>15. CASE UnregisterActiveJob(w) BY <1>15 DEF UnregisterActiveJob, TypeOK
<1> QED
  BY <1>1, <1>2, <1>3, <1>4, <1>5, <1>6, <1>7, <1>9, <1>10, <1>11, <1>13,
     <1>14, <1>15 DEF WorkerStep

\* Every step of a caller keeps every variable in its type.
LEMMA ClientKeepsType ==
  ASSUME TypeOK, NEW c \in Clients, ClientStep(c)
  PROVE  TypeOK'
<1> USE DEF ClientPC, clientVars, hostVars, workerVars, jobVars
<1>1. ASSUME NEW d \in Clients, CloneHandle(c, d) PROVE TypeOK'
  BY <1>1 DEF CloneHandle, TypeOK
<1>2. ASSUME NEW j \in Jobs, Start(c, j) PROVE TypeOK'
  <2>0. queue \in Seq(Jobs) /\ Append(queue, j) \in Seq(Jobs)
    BY DEF TypeOK
  <2>1. queue' \in Seq(Jobs)
    BY <1>2, <2>0 DEF Start
  <2>2. admitted' \in [Jobs -> {"new", "accepted", "rejected"}]
    BY <1>2 DEF Start, TypeOK
  <2>3. UNCHANGED <<clientVars, senderOpen, shuttingDown, activeJobs, capacity,
                    workerVars, cancelled, dropped, frames>>
    BY <1>2 DEF Start
  <2> QED BY <2>1, <2>2, <2>3 DEF TypeOK
<1>3. CASE Shutdown(c)     BY <1>3 DEF Shutdown, BeginShutdown, TypeOK
<1>4. CASE DropHandle(c)   BY <1>4 DEF DropHandle, BeginShutdown, TypeOK
<1>5. CASE CloseQueue(c)   BY <1>5 DEF CloseQueue, TypeOK
<1>6. CASE CancelActive(c) BY <1>6 DEF CancelActive, TypeOK
<1>7. CASE TakeHandles(c)  BY <1>7 DEF TakeHandles, TypeOK
<1>8. CASE Join(c)         BY <1>8 DEF Join, TypeOK
<1> QED
  BY <1>1, <1>2, <1>3, <1>4, <1>5, <1>6, <1>7, <1>8 DEF ClientStep, ShutdownStep

\* Every step of the pool keeps every variable in its type.
LEMMA TypeOKStep == TypeOK /\ [Next]_vars => TypeOK'
<1> SUFFICES ASSUME TypeOK, [Next]_vars PROVE TypeOK'
  OBVIOUS
<1>1. ASSUME NEW w \in Workers, SpawnWorker(w) PROVE TypeOK'
  BY <1>1, NativeHostAssumption
  DEF SpawnWorker, TypeOK, WorkerPC, Holding, hostVars, jobVars
<1>2. CASE SpawnFails
  BY <1>2 DEF SpawnFails, TypeOK, ClientPC, workerVars, jobVars
<1>3. ASSUME NEW j \in Jobs, ConsumerCancels(j) \/ ConsumerDrops(j) PROVE TypeOK'
  BY <1>3 DEF ConsumerCancels, ConsumerDrops, TypeOK, clientVars, hostVars, workerVars
<1>4. CASE Quiescent \/ UNCHANGED vars
  BY <1>4 DEF Quiescent, TypeOK, vars, clientVars, hostVars, workerVars, jobVars
<1> QED
  BY <1>1, <1>2, <1>3, <1>4, WorkerKeepsType, ClientKeepsType DEF Next

\* The state build_with_worker_spawner starts from is well typed.
LEMMA TypeOKInit == Init => TypeOK
<1> SUFFICES ASSUME Init PROVE TypeOK
  OBVIOUS
<1>1. <<>> \in Seq(Jobs) /\ <<>> \in Seq(Frame)
  OBVIOUS
<1>2. frames \in [Jobs -> Seq(Frame)] /\ queue \in Seq(Jobs)
  BY <1>1 DEF Init
<1>3. cpc \in [Clients -> ClientPC] /\ wpc \in [Workers -> WorkerPC]
  BY DEF Init, ClientPC, WorkerPC
<1>4. \A w \in Workers : wjob[w] # NoJob <=> wpc[w] \in Holding
  BY DEF Init, Holding, WorkerPC
<1> QED
  BY <1>2, <1>3, <1>4 DEF Init, TypeOK

\* The state of the pool stays well typed: construction, clone, start,
\* shutdown, drop and every worker step of host-native/src/lib.rs.
THEOREM TypeCorrect == Spec => []TypeOK
BY TypeOKInit, TypeOKStep, PTL DEF Spec

-----------------------------------------------------------------------------
(* begin_shutdown misses no running job.  The property alone is not         *)
(* inductive: a worker about to insert its job could add it after the       *)
(* sweep.  The missing half is that, once the sweep is over, no worker is   *)
(* between its load of the flag and its insert.                             *)

SweepInv == shuttingDown /\ SweepDone => activeJobs \subseteq cancelled /\ ActiveLockFree

\* What the workers do keeps SweepInv: only InsertActiveJob registers a job
\* and only a clear flag leads to it.
LEMMA WorkerKeepsSweepInv ==
  ASSUME TypeOK, SweepInv, NEW w \in Workers, WorkerStep(w)
  PROVE  SweepInv'
<1> USE DEF TypeOK, SweepInv, SweepDone, ActiveLockFree, Goto,
            clientVars, hostVars, jobVars
<1>1. CASE LockReceiver(w)   BY <1>1 DEF LockReceiver
<1>2. CASE Receive(w)        BY <1>2 DEF Receive
<1>3. CASE WorkerExit(w)     BY <1>3 DEF WorkerExit
<1>4. CASE CheckShutdown(w)  BY <1>4 DEF CheckShutdown
<1>5. CASE RegisterActiveJob(w) BY <1>5 DEF RegisterActiveJob
<1>6. CASE InsertActiveJob(w) BY <1>6 DEF InsertActiveJob
<1>7. CASE RefuseJob(w)      BY <1>7 DEF RefuseJob
<1>8. CASE RunJob(w)         BY <1>8 DEF RunJob, PollCancellation
<1>9. CASE DispatchToKernel(w) BY <1>9 DEF DispatchToKernel, PollCancellation
<1>10. CASE ProviderReplies(w) BY <1>10 DEF ProviderReplies
<1>11. CASE ProviderFails(w) BY <1>11 DEF ProviderFails
<1>12. CASE PollReply(w)     BY <1>12 DEF PollReply, PollCancellation
<1>13. CASE SendContent(w)   BY <1>13 DEF SendContent
<1>14. CASE FinishReply(w)   BY <1>14 DEF FinishReply
<1>15. CASE UnregisterActiveJob(w) BY <1>15 DEF UnregisterActiveJob
<1> QED
  BY <1>1, <1>2, <1>3, <1>4, <1>5, <1>6, <1>7, <1>8, <1>9, <1>10, <1>11,
     <1>12, <1>13, <1>14, <1>15 DEF WorkerStep

\* What the callers do keeps SweepInv: setting the flag opens the window in
\* which the sweep is pending, and the sweep needs the active_jobs mutex.
LEMMA ClientKeepsSweepInv ==
  ASSUME TypeOK, SweepInv, NEW c \in Clients, ClientStep(c)
  PROVE  SweepInv'
<1> USE DEF TypeOK, SweepInv, SweepDone, ActiveLockFree,
            hostVars, workerVars, jobVars, clientVars
<1>1. ASSUME NEW d \in Clients, CloneHandle(c, d) PROVE SweepInv'
  BY <1>1 DEF CloneHandle
<1>2. ASSUME NEW j \in Jobs, Start(c, j) PROVE SweepInv'
  BY <1>2 DEF Start
<1>3. CASE Shutdown(c)     BY <1>3 DEF Shutdown, BeginShutdown
<1>4. CASE DropHandle(c)   BY <1>4 DEF DropHandle, BeginShutdown
<1>5. CASE CloseQueue(c)   BY <1>5 DEF CloseQueue
<1>6. CASE CancelActive(c) BY <1>6 DEF CancelActive
<1>7. CASE TakeHandles(c)  BY <1>7 DEF TakeHandles
<1>8. CASE Join(c)         BY <1>8 DEF Join
<1> QED
  BY <1>1, <1>2, <1>3, <1>4, <1>5, <1>6, <1>7, <1>8 DEF ClientStep, ShutdownStep

\* Once begin_shutdown has returned, every registered job is cancelled.
THEOREM ShutdownReachesEveryJob == Spec => []NoJobEscapesShutdown
<1>1. Init => SweepInv
  BY DEF Init, SweepInv
<1>2. TypeOK /\ SweepInv /\ [Next]_vars => SweepInv'
  <2> SUFFICES ASSUME TypeOK, SweepInv, [Next]_vars PROVE SweepInv'
    OBVIOUS
  <2> USE DEF SweepInv, SweepDone, ActiveLockFree, TypeOK
  <2>1. ASSUME NEW w \in Workers, SpawnWorker(w) PROVE SweepInv'
    BY <2>1 DEF SpawnWorker, hostVars, jobVars
  <2>2. CASE SpawnFails
    BY <2>2, NativeHostAssumption DEF SpawnFails
  <2>3. ASSUME NEW j \in Jobs, ConsumerCancels(j) \/ ConsumerDrops(j)
        PROVE  SweepInv'
    BY <2>3 DEF ConsumerCancels, ConsumerDrops, clientVars, hostVars, workerVars
  <2>4. CASE Quiescent \/ UNCHANGED vars
    BY <2>4 DEF Quiescent, vars, clientVars, hostVars, workerVars, jobVars
  <2> QED
    BY <2>1, <2>2, <2>3, <2>4, WorkerKeepsSweepInv, ClientKeepsSweepInv DEF Next
<1>3. SweepInv => NoJobEscapesShutdown
  BY DEF SweepInv, NoJobEscapesShutdown
<1> QED
  BY <1>1, <1>2, <1>3, TypeCorrect, PTL DEF Spec

-----------------------------------------------------------------------------
(* The rendezvous channel.  RendezvousHandsOver is inductive over TypeOK: a  *)
(* job is accepted only for a worker in recv, Receive leaves recv with that *)
(* job, WorkerExit only with an empty channel.                              *)

\* A step that leaves the channel alone and lets no worker leave recv keeps
\* the hand-over.
LEMMA HandOverFrame ==
  ASSUME RendezvousHandsOver, UNCHANGED <<queue, capacity>>,
         \A w \in Workers : wpc[w] = "recv" => wpc'[w] = "recv"
  PROVE  RendezvousHandsOver'
BY DEF RendezvousHandsOver

\* What the workers do keeps the hand-over.
LEMMA WorkerKeepsHandOver ==
  ASSUME TypeOK, RendezvousHandsOver, NEW w \in Workers, WorkerStep(w)
  PROVE  RendezvousHandsOver'
<1> USE DEF Goto, clientVars, hostVars, jobVars
<1>0. queue \in Seq(Jobs) /\ wpc \in [Workers -> WorkerPC]
  BY DEF TypeOK
<1>1. CASE Receive(w)
  <2>1. queue # <<>> /\ queue' = Tail(queue) /\ UNCHANGED capacity
    BY <1>1 DEF Receive
  <2>2. CASE capacity = 0
    <3>1. Len(queue') = 0 /\ queue' \in Seq(Jobs)
      BY <1>0, <2>1, <2>2 DEF RendezvousHandsOver
    <3> QED BY <3>1 DEF RendezvousHandsOver
  <2> QED BY <2>1, <2>2 DEF RendezvousHandsOver
<1>2. CASE WorkerExit(w)
  BY <1>2 DEF WorkerExit, RendezvousHandsOver
<1>3. CASE UNCHANGED <<queue, capacity>> /\ wpc[w] # "recv" /\ wpc' = [wpc EXCEPT ![w] = wpc'[w]]
  <2>1. \A v \in Workers : wpc[v] = "recv" => wpc'[v] = "recv"
    BY <1>0, <1>3
  <2> QED BY <1>3, <2>1, HandOverFrame
<1>4. CASE LockReceiver(w) \/ CheckShutdown(w) \/ RegisterActiveJob(w) \/ InsertActiveJob(w)
  BY <1>0, <1>3, <1>4 DEF LockReceiver, CheckShutdown, RegisterActiveJob, InsertActiveJob
<1>5. CASE RefuseJob(w) \/ ProviderReplies(w) \/ ProviderFails(w) \/ UnregisterActiveJob(w)
  BY <1>0, <1>3, <1>5 DEF RefuseJob, ProviderReplies, ProviderFails, UnregisterActiveJob
<1>6. CASE RunJob(w) \/ DispatchToKernel(w) \/ PollReply(w)
  BY <1>0, <1>3, <1>6 DEF RunJob, DispatchToKernel, PollReply, PollCancellation
<1>7. CASE SendContent(w) \/ FinishReply(w)
  BY <1>0, <1>3, <1>7 DEF SendContent, FinishReply
<1> QED
  BY <1>1, <1>2, <1>4, <1>5, <1>6, <1>7 DEF WorkerStep

\* What the callers do keeps the hand-over: with capacity 0 try_send succeeds
\* only while a worker waits, and closing the queue wakes nobody with a job due.
LEMMA ClientKeepsHandOver ==
  ASSUME TypeOK, RendezvousHandsOver, NEW c \in Clients, ClientStep(c)
  PROVE  RendezvousHandsOver'
<1> USE DEF clientVars, hostVars, workerVars, jobVars
<1>1. ASSUME NEW j \in Jobs, Start(c, j) PROVE RendezvousHandsOver'
  <2>0. UNCHANGED <<capacity, wpc>>
    BY <1>1 DEF Start
  <2>1. CASE UNCHANGED queue
    BY <2>0, <2>1, HandOverFrame
  <2>2. CASE CanSend /\ queue' = Append(queue, j)
    <3>1. Len(queue') = Len(queue) + 1 /\ Len(queue) \in Nat
      BY <2>2 DEF TypeOK
    <3>2. CASE Len(queue) < capacity
      BY <2>0, <3>1, <3>2 DEF RendezvousHandsOver
    <3>3. CASE capacity = 0 /\ queue = <<>> /\ \E w \in Workers : wpc[w] = "recv"
      <4>1. Len(queue') = 1
        BY <3>1, <3>3
      <4> QED BY <2>0, <3>3, <4>1 DEF RendezvousHandsOver
    <3> QED BY <2>2, <3>2, <3>3 DEF CanSend
  <2> QED BY <1>1, <2>1, <2>2 DEF Start
<1>2. CASE UNCHANGED <<queue, capacity, wpc>>
  BY <1>2, HandOverFrame
<1>3. ASSUME NEW d \in Clients, CloneHandle(c, d) PROVE UNCHANGED <<queue, capacity, wpc>>
  BY <1>3 DEF CloneHandle
<1>4. CASE Shutdown(c) \/ DropHandle(c) \/ CloseQueue(c)
  BY <1>2, <1>4 DEF Shutdown, DropHandle, CloseQueue
<1>5. CASE CancelActive(c) \/ TakeHandles(c) \/ Join(c)
  BY <1>2, <1>5 DEF CancelActive, TakeHandles, Join
<1> QED
  BY <1>1, <1>2, <1>3, <1>4, <1>5 DEF ClientStep, ShutdownStep

\* A host built with queue_capacity 0 never leaves an accepted job without a
\* worker that has come for it, whether other workers run, exit or the sender
\* is dropped in between (enqueue_job, run_worker).
THEOREM RendezvousNeverBuffers == Spec => []RendezvousHandsOver
<1>1. Init => RendezvousHandsOver
  BY DEF Init, RendezvousHandsOver
<1>2. TypeOK /\ RendezvousHandsOver /\ [Next]_vars => RendezvousHandsOver'
  <2> SUFFICES ASSUME TypeOK, RendezvousHandsOver, [Next]_vars PROVE RendezvousHandsOver'
    OBVIOUS
  <2>1. ASSUME NEW w \in Workers, SpawnWorker(w) PROVE RendezvousHandsOver'
    BY <2>1, HandOverFrame DEF SpawnWorker, hostVars, TypeOK
  <2>2. CASE SpawnFails
    BY <2>2, HandOverFrame DEF SpawnFails, workerVars
  <2>3. ASSUME NEW j \in Jobs, ConsumerCancels(j) \/ ConsumerDrops(j)
        PROVE  RendezvousHandsOver'
    BY <2>3, HandOverFrame DEF ConsumerCancels, ConsumerDrops, hostVars, workerVars
  <2>4. CASE Quiescent \/ UNCHANGED vars
    BY <2>4, HandOverFrame DEF Quiescent, vars, hostVars, workerVars
  <2> QED
    BY <2>1, <2>2, <2>3, <2>4, WorkerKeepsHandOver, ClientKeepsHandOver DEF Next
<1> QED
  BY <1>1, <1>2, TypeCorrect, PTL DEF Spec
-----------------------------------------------------------------------------
(* An accepted job is never lost and never run twice.                       *)
(* JobsAccountedFor alone is not inductive: UnregisterActiveJob lets go of a *)
(* job, so the job must be over by then.                                    *)

UnregisteredIsEnded ==
    \A w \in Workers : wpc[w] = "unregister" => Ended(wjob[w])

JobsInv == JobsAccountedFor /\ UnregisteredIsEnded

\* A frame of one of these kinds is on the job's stream.
HasFrame(j, kinds) == \E i \in 1..Len(frames[j]) : frames[j][i] \in kinds

\* A send adds at most the one frame, and only to its own stream.
LEMMA SentFrame ==
  ASSUME TypeOK, NEW j \in Jobs, NEW frame \in Frame, Send(j, frame),
         NEW k \in Jobs, NEW kinds
  PROVE  HasFrame(k, kinds)' <=>
            HasFrame(k, kinds) \/ (k = j /\ j \notin dropped /\ frame \in kinds)
<1>0. frames \in [Jobs -> Seq(Frame)]
  BY DEF TypeOK
<1>1. CASE k # j \/ j \in dropped
  <2>1. frames'[k] = frames[k]
    BY <1>0, <1>1 DEF Send
  <2> QED BY <1>1, <2>1 DEF HasFrame
<1>2. CASE k = j /\ j \notin dropped
  <2>1. frames'[k] = Append(frames[k], frame) /\ frames[k] \in Seq(Frame)
    BY <1>0, <1>2 DEF Send
  <2>2. /\ Len(frames'[k]) = Len(frames[k]) + 1
        /\ Len(frames[k]) \in Nat
        /\ frames'[k][Len(frames[k]) + 1] = frame
        /\ \A i \in 1..Len(frames[k]) : frames'[k][i] = frames[k][i]
    BY <2>1
  <2>3. 1..Len(frames'[k]) = (1..Len(frames[k])) \cup {Len(frames[k]) + 1}
    BY <2>2
  <2> QED BY <1>2, <2>2, <2>3 DEF HasFrame
<1> QED BY <1>1, <1>2

\* A job that is over stays over, and a terminal frame ends its job.
LEMMA SendEnds ==
  ASSUME TypeOK, NEW j \in Jobs, NEW frame \in Frame, Send(j, frame),
         UNCHANGED dropped
  PROVE  /\ \A k \in Jobs : Ended(k) => Ended(k)'
         /\ frame \in Terminal => Ended(j)'
<1>1. \A k \in Jobs : HasFrame(k, Terminal)' <=>
         HasFrame(k, Terminal) \/ (k = j /\ j \notin dropped /\ frame \in Terminal)
  BY SentFrame
<1>2. \A k \in Jobs : Ended(k) <=> k \in dropped \/ HasFrame(k, Terminal)
  BY DEF Ended, HasFrame
<1>3. \A k \in Jobs : Ended(k)' <=> k \in dropped' \/ HasFrame(k, Terminal)'
  BY DEF Ended, HasFrame
<1> QED BY <1>1, <1>2, <1>3

\* A step that moves no job keeps them accounted for.
LEMMA JobsFrame ==
  ASSUME JobsInv, UNCHANGED <<queue, wjob, admitted, activeJobs>>,
         \A w \in Workers : wpc'[w] \in Registered <=> wpc[w] \in Registered,
         \A j \in Jobs : Ended(j) => Ended(j)',
         \A w \in Workers : wpc'[w] = "unregister" => Ended(wjob[w])'
  PROVE  JobsInv'
<1>1. UnregisteredIsEnded'
  BY DEF UnregisteredIsEnded
<1>2. {v \in Workers : wpc'[v] \in Registered} = {v \in Workers : wpc[v] \in Registered}
  OBVIOUS
<1>3. \A j \in Jobs : (Queued(j)' <=> Queued(j)) /\ (Held(j)' <=> Held(j))
  BY DEF Queued, Held
<1> QED BY <1>1, <1>2, <1>3 DEF JobsInv, JobsAccountedFor

\* Taking the oldest job out of the channel.
LEMMA QueueTail ==
  ASSUME queue \in Seq(Jobs), queue # <<>>, queue' = Tail(queue),
         \A i, k \in 1..Len(queue) : queue[i] = queue[k] => i = k
  PROVE  /\ \A j : Queued(j) <=> Queued(j)' \/ j = Head(queue)
         /\ \A j : j = Head(queue) => ~Queued(j)'
         /\ \A i, k \in 1..Len(queue') : queue'[i] = queue'[k] => i = k
         /\ Head(queue) \in Jobs
<1>1. /\ Len(queue) \in Nat \ {0} /\ Len(queue') = Len(queue) - 1
      /\ Head(queue) = queue[1] /\ Head(queue) \in Jobs
      /\ \A i \in 1..Len(queue') : queue'[i] = queue[i + 1]
  OBVIOUS
<1>2. \A i \in 1..Len(queue') : i + 1 \in 1..Len(queue) /\ i + 1 # 1
  BY <1>1
<1>3. \A i \in 1..Len(queue) : i # 1 => (i - 1 \in 1..Len(queue') /\ queue'[i - 1] = queue[i])
  <2> SUFFICES ASSUME NEW i \in 1..Len(queue), i # 1
               PROVE  i - 1 \in 1..Len(queue') /\ queue'[i - 1] = queue[i]
    OBVIOUS
  <2>1. i - 1 \in 1..Len(queue') /\ (i - 1) + 1 = i
    BY <1>1
  <2> QED BY <1>1, <2>1
<1>4. 1 \in 1..Len(queue)
  BY <1>1
<1>5. \A j : Queued(j) <=> Queued(j)' \/ j = Head(queue)
  BY <1>1, <1>2, <1>3, <1>4 DEF Queued
<1>6. ~ \E i \in 1..Len(queue') : queue'[i] = Head(queue)
  BY <1>1, <1>2, <1>4
<1>7. ASSUME NEW i \in 1..Len(queue'), NEW k \in 1..Len(queue'), queue'[i] = queue'[k]
      PROVE  i = k
  <2>1. i + 1 = k + 1
    BY <1>1, <1>2, <1>7
  <2> QED BY <2>1
<1>8. \A i, k \in 1..Len(queue') : queue'[i] = queue'[k] => i = k
  BY <1>7
<1>9. \A j : j = Head(queue) => ~Queued(j)'
  BY <1>6 DEF Queued
<1> QED BY <1>1, <1>5, <1>8, <1>9

\* recv moves the oldest job from the channel into the worker's hands.
LEMMA ReceiveKeepsJobs ==
  ASSUME TypeOK, JobsInv, NEW w \in Workers, Receive(w)
  PROVE  JobsInv'
<1> USE DEF clientVars, jobVars, Goto
<1>0. /\ wjob \in [Workers -> Jobs \cup {NoJob}] /\ wpc \in [Workers -> WorkerPC]
      /\ wjob[w] = NoJob
  BY DEF TypeOK, Receive, Holding
<1>1. /\ queue \in Seq(Jobs) /\ queue # <<>> /\ queue' = Tail(queue)
      /\ \A i, k \in 1..Len(queue) : queue[i] = queue[k] => i = k
  BY DEF TypeOK, JobsInv, JobsAccountedFor, Receive
<1>2. /\ \A j : Queued(j) <=> (Queued(j)' \/ j = Head(queue))
      /\ \A j : j = Head(queue) => ~Queued(j)'
      /\ \A i, k \in 1..Len(queue') : queue'[i] = queue'[k] => i = k
      /\ Head(queue) \in Jobs
  BY <1>1, QueueTail
<1>3. /\ wjob'[w] = Head(queue) /\ \A v \in Workers : v # w => wjob'[v] = wjob[v]
      /\ wpc'[w] = "got" /\ \A v \in Workers : v # w => wpc'[v] = wpc[v]
      /\ wpc[w] = "recv"
  BY <1>0 DEF Receive
<1>4. UNCHANGED <<admitted, dropped, frames, activeJobs>>
  BY DEF Receive
<1>5. \A j \in Jobs : Held(j)' <=> (Held(j) \/ j = Head(queue))
  BY <1>0, <1>2, <1>3, NoJobAssumption DEF Held
<1>6. \A j \in Jobs : Ended(j)' <=> Ended(j)
  BY <1>4 DEF Ended
<1>7. ~Held(Head(queue))
  BY <1>2 DEF JobsInv, JobsAccountedFor
<1>8. \A j \in Jobs : /\ Queued(j)' \/ Held(j)' => admitted'[j] = "accepted"
                      /\ admitted'[j] = "accepted" => Queued(j)' \/ Held(j)' \/ Ended(j)'
                      /\ ~(Queued(j)' /\ Held(j)')
  BY <1>2, <1>4, <1>5, <1>6 DEF JobsInv, JobsAccountedFor
<1>9. \A u, v \in Workers : wjob'[u] = wjob'[v] /\ wjob'[u] # NoJob => u = v
  BY <1>3, <1>7 DEF JobsInv, JobsAccountedFor, Held
<1>10. activeJobs' = {wjob'[v] : v \in {u \in Workers : wpc'[u] \in Registered}}
  <2>1. {u \in Workers : wpc'[u] \in Registered} = {u \in Workers : wpc[u] \in Registered}
    BY <1>3 DEF Registered, Holding, WorkerPC
  <2>2. w \notin {u \in Workers : wpc[u] \in Registered}
    BY <1>3 DEF Registered, Holding, WorkerPC
  <2> QED BY <1>3, <1>4, <2>1, <2>2 DEF JobsInv, JobsAccountedFor
<1>11. UnregisteredIsEnded'
  <2> SUFFICES ASSUME NEW v \in Workers, wpc'[v] = "unregister" PROVE Ended(wjob[v])'
    BY DEF UnregisteredIsEnded
  <2>1. v # w /\ wpc[v] = "unregister" /\ wjob'[v] = wjob[v]
    BY <1>3
  <2> QED BY <1>4, <2>1 DEF Ended, JobsInv, UnregisteredIsEnded
<1> QED BY <1>2, <1>8, <1>9, <1>10, <1>11 DEF JobsInv, JobsAccountedFor

\* A worker that lets go of a job which is over, and which active_jobs no
\* longer holds, keeps the jobs accounted for.
LEMMA ReleaseKeepsJobs ==
  ASSUME TypeOK, JobsInv, NEW w \in Workers,
         wpc[w] \in Holding,
         wpc' = [wpc EXCEPT ![w] = "idle"], wjob' = [wjob EXCEPT ![w] = NoJob],
         UNCHANGED <<queue, admitted>>,
         activeJobs' = activeJobs \ {wjob[w]},
         \A j \in Jobs : (Ended(j) \/ j = wjob[w]) => Ended(j)'
  PROVE  JobsInv'
<1>0. /\ wjob \in [Workers -> Jobs \cup {NoJob}] /\ wpc \in [Workers -> WorkerPC]
      /\ wjob[w] \in Jobs
  BY HoldsJob DEF TypeOK
<1>1. /\ wjob'[w] = NoJob /\ \A v \in Workers : v # w => wjob'[v] = wjob[v]
      /\ wpc'[w] = "idle" /\ \A v \in Workers : v # w => wpc'[v] = wpc[v]
  BY <1>0
<1>2. \A v \in Workers : v # w => wjob[v] # wjob[w]
  BY <1>0, NoJobAssumption DEF JobsInv, JobsAccountedFor
<1>3. \A j \in Jobs : (Queued(j)' <=> Queued(j)) /\ (Held(j)' => Held(j))
                      /\ (Held(j) /\ j # wjob[w] => Held(j)')
  <2>1. \A j \in Jobs : Queued(j)' <=> Queued(j)
    BY DEF Queued
  <2>2. \A j \in Jobs : (Held(j)' => Held(j)) /\ (Held(j) /\ j # wjob[w] => Held(j)')
    BY <1>0, <1>1, NoJobAssumption DEF Held
  <2> QED BY <2>1, <2>2
<1>4. \A j \in Jobs : /\ Queued(j)' \/ Held(j)' => admitted'[j] = "accepted"
                      /\ admitted'[j] = "accepted" => Queued(j)' \/ Held(j)' \/ Ended(j)'
                      /\ ~(Queued(j)' /\ Held(j)')
  BY <1>3 DEF JobsInv, JobsAccountedFor
<1>5. \A u, v \in Workers : wjob'[u] = wjob'[v] /\ wjob'[u] # NoJob => u = v
  BY <1>1 DEF JobsInv, JobsAccountedFor
<1>6. activeJobs' = {wjob'[v] : v \in {u \in Workers : wpc'[u] \in Registered}}
  <2>1. activeJobs = {wjob[v] : v \in {u \in Workers : wpc[u] \in Registered}}
    BY DEF JobsInv, JobsAccountedFor
  <2>2. {u \in Workers : wpc'[u] \in Registered}
          = {u \in Workers : wpc[u] \in Registered} \ {w}
    BY <1>1 DEF Registered, Holding, WorkerPC
  <2> QED BY <1>1, <1>2, <2>1, <2>2
<1>7. UnregisteredIsEnded'
  <2> SUFFICES ASSUME NEW v \in Workers, wpc'[v] = "unregister" PROVE Ended(wjob[v])'
    BY DEF UnregisteredIsEnded
  <2>1. v # w /\ wpc[v] = "unregister" /\ wjob'[v] = wjob[v] /\ wjob[v] \in Jobs
    BY <1>1, HoldsJob DEF Holding, WorkerPC
  <2>2. PICK j \in Jobs : j = wjob[v] /\ j = wjob'[v]
    BY <2>1
  <2>3. Ended(j)
    BY <2>1, <2>2 DEF JobsInv, UnregisteredIsEnded
  <2>4. Ended(j)'
    BY <2>3
  <2> QED BY <2>2, <2>4 DEF Ended
<1>8. \A i, k \in 1..Len(queue') : queue'[i] = queue'[k] => i = k
  BY DEF JobsInv, JobsAccountedFor
<1> QED BY <1>4, <1>5, <1>6, <1>7, <1>8 DEF JobsInv, JobsAccountedFor

\* A step of a worker that keeps its job, leaves or enters no registered part
\* of run_worker, and has ended the job when it reaches unregister.
LEMMA WorkerFrame ==
  ASSUME TypeOK, JobsInv, NEW w \in Workers, NEW to \in WorkerPC,
         wpc' = [wpc EXCEPT ![w] = to],
         to \in Registered <=> wpc[w] \in Registered,
         UNCHANGED <<queue, wjob, admitted, activeJobs>>,
         \A j \in Jobs : Ended(j) => Ended(j)',
         to = "unregister" => Ended(wjob[w])'
  PROVE  JobsInv'
<1>1. wpc'[w] = to /\ \A v \in Workers : v # w => wpc'[v] = wpc[v]
  BY DEF TypeOK
<1>2. ASSUME NEW v \in Workers, wpc'[v] = "unregister" PROVE Ended(wjob[v])'
  <2>1. CASE v = w
    BY <1>1, <1>2, <2>1
  <2>2. CASE v # w
    <3>1. wpc[v] = "unregister" /\ wjob[v] \in Jobs /\ wjob'[v] = wjob[v]
      BY <1>1, <1>2, <2>2, HoldsJob DEF Holding, WorkerPC
    <3>2. PICK j \in Jobs : j = wjob[v] /\ j = wjob'[v]
      BY <3>1
    <3>3. Ended(j)'
      BY <3>1, <3>2 DEF JobsInv, UnregisteredIsEnded
    <3> QED BY <3>2, <3>3 DEF Ended
  <2> QED BY <2>1, <2>2
<1>3. \A v \in Workers : wpc'[v] \in Registered <=> wpc[v] \in Registered
  BY <1>1
<1> QED BY <1>2, <1>3, JobsFrame

\* What the workers do keeps every accepted job accounted for.
LEMMA WorkerKeepsJobs ==
  ASSUME TypeOK, JobsInv, NEW w \in Workers, WorkerStep(w)
  PROVE  JobsInv'
<1> USE DEF Goto, clientVars, hostVars, jobVars
<1>0. /\ {"error", "cancel", "done", "content", "late"} \subseteq Frame
      /\ {"error", "cancel", "done"} \subseteq Terminal
  BY DEF Frame, Terminal
<1>1. ASSUME UNCHANGED <<frames, dropped>> PROVE \A j \in Jobs : Ended(j) => Ended(j)'
  BY <1>1 DEF Ended
<1>2. CASE LockReceiver(w) \/ WorkerExit(w) \/ CheckShutdown(w) \/ RegisterActiveJob(w)
             \/ ProviderReplies(w)
  <2>1. UNCHANGED <<frames, dropped, queue, wjob, admitted, activeJobs>>
    BY <1>2 DEF LockReceiver, WorkerExit, CheckShutdown, RegisterActiveJob, ProviderReplies
  <2>2. PICK to \in WorkerPC \ {"unregister"} :
          /\ wpc' = [wpc EXCEPT ![w] = to]
          /\ to \in Registered <=> wpc[w] \in Registered
    BY <1>2 DEF LockReceiver, WorkerExit, CheckShutdown, RegisterActiveJob, ProviderReplies,
                Registered, Holding, WorkerPC
  <2> QED BY <1>1, <2>1, <2>2, WorkerFrame
<1>3. CASE Receive(w)
  BY <1>3, ReceiveKeepsJobs
<1>4. CASE InsertActiveJob(w)
  <2>1. /\ wpc[w] = "insert" /\ wpc'[w] = "run"
        /\ \A v \in Workers : v # w => wpc'[v] = wpc[v]
        /\ UNCHANGED <<queue, wjob, admitted, dropped, frames>>
        /\ activeJobs' = activeJobs \cup {wjob[w]}
    BY <1>4 DEF InsertActiveJob, TypeOK
  <2>2. {u \in Workers : wpc'[u] \in Registered}
          = {u \in Workers : wpc[u] \in Registered} \cup {w}
    BY <2>1 DEF Registered, Holding, WorkerPC
  <2>3. activeJobs' = {wjob'[v] : v \in {u \in Workers : wpc'[u] \in Registered}}
    BY <2>1, <2>2 DEF JobsInv, JobsAccountedFor
  <2>4. \A j \in Jobs : (Queued(j)' <=> Queued(j)) /\ (Held(j)' <=> Held(j))
                         /\ (Ended(j)' <=> Ended(j))
    BY <2>1 DEF Queued, Held, Ended
  <2>5. UnregisteredIsEnded'
    BY <2>1 DEF JobsInv, UnregisteredIsEnded, Ended
  <2> QED BY <2>1, <2>3, <2>4, <2>5 DEF JobsInv, JobsAccountedFor
<1>5. CASE RefuseJob(w)
  <2>1. wpc[w] \in Holding /\ wjob[w] \in Jobs
    BY <1>5, HoldsJob DEF RefuseJob, Holding, WorkerPC
  <2>2. \A j \in Jobs : (Ended(j) \/ j = wjob[w]) => Ended(j)'
    <3>1. PICK k \in Jobs : k = wjob[w] /\ Send(k, "error") /\ UNCHANGED dropped
      BY <1>5, <2>1 DEF RefuseJob
    <3>2. (\A j \in Jobs : Ended(j) => Ended(j)') /\ Ended(k)'
      BY <1>0, <3>1, SendEnds
    <3> QED BY <3>1, <3>2
  <2>3. wjob[w] \notin activeJobs
    BY <1>5, <2>1, NoJobAssumption
    DEF RefuseJob, JobsInv, JobsAccountedFor, Registered, Holding, WorkerPC
  <2>4. /\ wpc' = [wpc EXCEPT ![w] = "idle"] /\ wjob' = [wjob EXCEPT ![w] = NoJob]
        /\ UNCHANGED <<queue, admitted>> /\ activeJobs' = activeJobs \ {wjob[w]}
    BY <1>5, <2>3 DEF RefuseJob
  <2> QED BY <2>1, <2>2, <2>4, ReleaseKeepsJobs
<1>6. ASSUME NEW from \in Registered, NEW to \in Registered \ {"unregister"},
             PollCancellation(w, from, to)
      PROVE  JobsInv'
  <2>1. UNCHANGED <<queue, wjob, admitted, activeJobs, dropped>> /\ wpc[w] \in Registered
    BY <1>6 DEF PollCancellation
  <2>2. wjob[w] \in Jobs /\ wjob'[w] = wjob[w]
    BY <2>1, HoldsJob DEF Registered
  <2>3. CASE wjob[w] \in cancelled
    <3>1. Send(wjob[w], "cancel") /\ wpc' = [wpc EXCEPT ![w] = "unregister"]
      BY <1>6, <2>3 DEF PollCancellation
    <3>2. PICK k \in Jobs : k = wjob[w] /\ k = wjob'[w] /\ Send(k, "cancel")
      BY <2>2, <3>1
    <3>3. (\A j \in Jobs : Ended(j) => Ended(j)') /\ Ended(k)'
      BY <1>0, <2>1, <3>2, SendEnds
    <3>4. Ended(wjob[w])'
      BY <3>2, <3>3 DEF Ended
    <3>5. "unregister" \in Registered /\ "unregister" \in WorkerPC
      BY DEF Registered, Holding, WorkerPC
    <3> QED BY <2>1, <3>1, <3>3, <3>4, <3>5, WorkerFrame
  <2>4. CASE wjob[w] \notin cancelled
    <3>1. UNCHANGED frames /\ wpc' = [wpc EXCEPT ![w] = to] /\ to \in WorkerPC
      BY <1>6, <2>4 DEF PollCancellation, Registered, Holding
    <3> QED BY <1>1, <2>1, <3>1, WorkerFrame
  <2> QED BY <2>3, <2>4
<1>7. CASE RunJob(w) \/ DispatchToKernel(w) \/ PollReply(w)
  <2>1. /\ {"run", "dispatch", "reply", "provider", "finish", "send"}
             \subseteq Registered \ {"unregister"}
    BY DEF Registered, Holding, WorkerPC
  <2> QED BY <1>6, <1>7, <2>1 DEF RunJob, DispatchToKernel, PollReply
<1>8. ASSUME NEW frame \in Frame, Send(wjob[w], frame), wpc[w] \in Registered,
             NEW to \in Registered, wpc' = [wpc EXCEPT ![w] = to],
             UNCHANGED <<queue, wjob, admitted, activeJobs, dropped>>,
             to = "unregister" => frame \in Terminal \/ wjob[w] \in dropped
      PROVE  JobsInv'
  <2>1. wjob[w] \in Jobs /\ wjob'[w] = wjob[w] /\ to \in WorkerPC
    BY <1>8, HoldsJob DEF Registered, Holding
  <2>2. PICK k \in Jobs : k = wjob[w] /\ k = wjob'[w] /\ Send(k, frame)
    BY <1>8, <2>1
  <2>3. (\A j \in Jobs : Ended(j) => Ended(j)') /\ (frame \in Terminal => Ended(k)')
    BY <1>8, <2>2, SendEnds
  <2>4. k \in dropped => Ended(k)'
    BY <2>3 DEF Ended
  <2>5. to = "unregister" => Ended(wjob[w])'
    BY <1>8, <2>2, <2>3, <2>4 DEF Ended
  <2> QED BY <1>8, <2>1, <2>3, <2>5, WorkerFrame
<1>9. CASE ProviderFails(w)
  <2>1. PICK frame \in {"error", "cancel"} : Send(wjob[w], frame)
    BY <1>9 DEF ProviderFails
  <2>2. {"provider", "unregister"} \subseteq Registered
    BY DEF Registered, Holding, WorkerPC
  <2> QED BY <1>0, <1>8, <1>9, <2>1, <2>2 DEF ProviderFails
<1>10. CASE SendContent(w)
  <2>1. {"send", "unregister", "reply"} \subseteq Registered
    BY DEF Registered, Holding, WorkerPC
  <2> QED BY <1>0, <1>8, <1>10, <2>1 DEF SendContent
<1>11. CASE FinishReply(w)
  <2>1. {"finish", "unregister"} \subseteq Registered
    BY DEF Registered, Holding, WorkerPC
  <2> QED BY <1>0, <1>8, <1>11, <2>1 DEF FinishReply
<1>12. CASE UnregisterActiveJob(w)
  <2>1. wpc[w] \in Holding /\ wjob[w] \in Jobs /\ UNCHANGED <<frames, dropped>>
    BY <1>12, HoldsJob DEF UnregisterActiveJob, Holding, WorkerPC
  <2>2. Ended(wjob[w])
    BY <1>12 DEF UnregisterActiveJob, JobsInv, UnregisteredIsEnded
  <2>3. \A j \in Jobs : (Ended(j) \/ j = wjob[w]) => Ended(j)'
    BY <2>1, <2>2 DEF Ended
  <2>4. /\ wpc' = [wpc EXCEPT ![w] = "idle"] /\ wjob' = [wjob EXCEPT ![w] = NoJob]
        /\ UNCHANGED <<queue, admitted>> /\ activeJobs' = activeJobs \ {wjob[w]}
    BY <1>12 DEF UnregisterActiveJob
  <2> QED BY <2>1, <2>3, <2>4, ReleaseKeepsJobs
<1> QED
  BY <1>2, <1>3, <1>4, <1>5, <1>7, <1>9, <1>10, <1>11, <1>12 DEF WorkerStep

\* start puts a job into the channel at most once: it only sends a new one.
LEMMA StartKeepsJobs ==
  ASSUME TypeOK, JobsInv, NEW c \in Clients, NEW j \in Jobs, Start(c, j)
  PROVE  JobsInv'
<1>0. /\ admitted \in [Jobs -> {"new", "accepted", "rejected"}] /\ admitted[j] = "new"
      /\ UNCHANGED <<wpc, wjob, activeJobs, dropped, frames>>
  BY DEF TypeOK, Start, workerVars
<1>1. ~Queued(j) /\ ~Held(j)
  BY <1>0 DEF JobsInv, JobsAccountedFor
<1>2. \A k \in Jobs : (Held(k)' <=> Held(k)) /\ (Ended(k)' <=> Ended(k))
  BY <1>0 DEF Held, Ended
<1>3. UnregisteredIsEnded'
  BY <1>0 DEF JobsInv, UnregisteredIsEnded, Ended
<1>4. CASE UNCHANGED queue /\ admitted' = [admitted EXCEPT ![j] = "rejected"]
  <2>1. \A k \in Jobs : Queued(k)' <=> Queued(k)
    BY <1>4 DEF Queued
  <2>2. \A k \in Jobs : k # j => admitted'[k] = admitted[k]
    BY <1>0, <1>4
  <2>3. admitted'[j] = "rejected"
    BY <1>0, <1>4
  <2> QED BY <1>0, <1>1, <1>2, <1>3, <1>4, <2>1, <2>2, <2>3 DEF JobsInv, JobsAccountedFor
<1>5. CASE queue' = Append(queue, j) /\ admitted' = [admitted EXCEPT ![j] = "accepted"]
  <2>1. /\ queue \in Seq(Jobs) /\ Len(queue) \in Nat /\ Len(queue') = Len(queue) + 1
        /\ queue'[Len(queue) + 1] = j
        /\ \A i \in 1..Len(queue) : queue'[i] = queue[i]
    BY <1>5 DEF TypeOK
  <2>2. 1..Len(queue') = (1..Len(queue)) \cup {Len(queue) + 1}
    BY <2>1
  <2>3. \A k \in Jobs : Queued(k)' <=> (Queued(k) \/ k = j)
    BY <2>1, <2>2 DEF Queued
  <2>4. \A i, k \in 1..Len(queue') : queue'[i] = queue'[k] => i = k
    BY <1>1, <2>1, <2>2 DEF Queued, JobsInv, JobsAccountedFor
  <2>5. (\A k \in Jobs : k # j => admitted'[k] = admitted[k]) /\ admitted'[j] = "accepted"
    BY <1>0, <1>5
  <2>6. \A k \in Jobs : /\ Queued(k)' \/ Held(k)' => admitted'[k] = "accepted"
                        /\ admitted'[k] = "accepted" => Queued(k)' \/ Held(k)' \/ Ended(k)'
                        /\ ~(Queued(k)' /\ Held(k)')
    BY <1>1, <1>2, <2>3, <2>5 DEF JobsInv, JobsAccountedFor
  <2> QED BY <1>0, <1>3, <2>4, <2>6 DEF JobsInv, JobsAccountedFor
<1> QED BY <1>4, <1>5 DEF Start

\* A step that touches neither the channel, the workers' jobs nor the streams.
LEMMA UntouchedKeepsJobs ==
  ASSUME JobsInv, UNCHANGED <<queue, workerVars, admitted, activeJobs, frames>>,
         dropped \subseteq dropped'
  PROVE  JobsInv'
<1>1. \A j \in Jobs : Ended(j) => Ended(j)'
  BY DEF Ended
<1>2. \A w \in Workers : wpc'[w] = "unregister" => Ended(wjob[w])'
  BY DEF Ended, JobsInv, UnregisteredIsEnded, workerVars
<1> QED BY <1>1, <1>2, JobsFrame DEF workerVars

\* Every step of the pool keeps the jobs accounted for.
LEMMA JobsInvStep == TypeOK /\ JobsInv /\ [Next]_vars => JobsInv'
<1> SUFFICES ASSUME TypeOK, JobsInv, [Next]_vars PROVE JobsInv'
  OBVIOUS
<1> USE DEF clientVars, hostVars, jobVars
<1>1. ASSUME NEW w \in Workers, SpawnWorker(w) PROVE JobsInv'
  <2>1. /\ UNCHANGED <<queue, wjob, admitted, activeJobs, dropped, frames>>
        /\ wpc' = [wpc EXCEPT ![w] = "idle"] /\ wpc[w] = "unborn"
    BY <1>1 DEF SpawnWorker
  <2>2. "idle" \in WorkerPC /\ "idle" \notin Registered /\ wpc[w] \notin Registered
    BY <2>1 DEF WorkerPC, Registered, Holding
  <2>3. \A j \in Jobs : Ended(j) => Ended(j)'
    BY <2>1 DEF Ended
  <2> QED BY <2>1, <2>2, <2>3, WorkerFrame
<1>2. CASE SpawnFails
  BY <1>2, UntouchedKeepsJobs DEF SpawnFails
<1>3. ASSUME NEW j \in Jobs, ConsumerCancels(j) \/ ConsumerDrops(j) PROVE JobsInv'
  BY <1>3, UntouchedKeepsJobs DEF ConsumerCancels, ConsumerDrops
<1>4. CASE Quiescent \/ UNCHANGED vars
  BY <1>4, UntouchedKeepsJobs DEF Quiescent, vars
<1>5. ASSUME NEW c \in Clients, ClientStep(c) PROVE JobsInv'
  <2>1. ASSUME NEW d \in Clients, CloneHandle(c, d) PROVE JobsInv'
    BY <2>1, UntouchedKeepsJobs DEF CloneHandle
  <2>2. CASE Shutdown(c) \/ DropHandle(c) \/ CloseQueue(c)
    BY <2>2, UntouchedKeepsJobs DEF Shutdown, DropHandle, CloseQueue
  <2>3. CASE CancelActive(c) \/ TakeHandles(c) \/ Join(c)
    BY <2>3, UntouchedKeepsJobs DEF CancelActive, TakeHandles, Join
  <2> QED
    BY <1>5, <2>1, <2>2, <2>3, StartKeepsJobs DEF ClientStep, ShutdownStep
<1> QED BY <1>1, <1>2, <1>3, <1>4, <1>5, WorkerKeepsJobs DEF Next

\* Nothing is queued or held at the start.
LEMMA JobsInvInit == Init => JobsInv
<1> SUFFICES ASSUME Init PROVE JobsInv
  OBVIOUS
<1>1. \A j \in Jobs : ~Queued(j) /\ ~Held(j)
  BY NoJobAssumption DEF Init, Queued, Held
<1>2. {v \in Workers : wpc[v] \in Registered} = {}
  BY DEF Init, Registered, Holding
<1>3. UnregisteredIsEnded
  BY DEF Init, UnregisteredIsEnded
<1>4. activeJobs = {wjob[w] : w \in {v \in Workers : wpc[v] \in Registered}}
  BY <1>2 DEF Init
<1>5. \A j \in Jobs : admitted[j] # "accepted"
  BY DEF Init
<1>6. /\ \A i, k \in 1..Len(queue) : queue[i] = queue[k] => i = k
      /\ \A v, w \in Workers : wjob[v] = wjob[w] /\ wjob[v] # NoJob => v = w
  BY DEF Init
<1> QED BY <1>1, <1>3, <1>4, <1>5, <1>6 DEF JobsInv, JobsAccountedFor

\* An accepted job is buffered once, held by exactly one worker, or over: none
\* is lost between start, recv, register_active_job and unregister_active_job,
\* and none is run twice.
THEOREM NoJobLostOrRunTwice == Spec => []JobsAccountedFor
<1>1. JobsInv => JobsAccountedFor
  BY DEF JobsInv
<1> QED BY <1>1, JobsInvInit, JobsInvStep, TypeCorrect, PTL DEF Spec

-----------------------------------------------------------------------------
(* The streams.  Both halves of StreamsWellFormed look back at what was sent *)
(* before, so the invariant says what is on a stream at each program point  *)
(* of the worker that holds its job; JobsInv says that there is only one.   *)

Silent(j) == frames[j] = <<>>

\* Program points before the first frame of a job, and between two of them.
BeforeReply == {"got", "register", "insert", "refuse", "run", "dispatch", "provider"}
InReply     == {"reply", "send", "finish"}

\* Nothing is on the stream of a job no worker has answered yet.
QuietUntilReply ==
    /\ \A j \in Jobs : admitted[j] # "accepted" \/ Queued(j) => Silent(j)
    /\ \A w \in Workers : wpc[w] \in BeforeReply => Silent(wjob[w])

\* A reply in progress has no terminal frame, and none of its contents is late
\* once the next one has passed its poll.
ReplyOpen ==
    /\ \A w \in Workers : wpc[w] \in InReply => ~HasFrame(wjob[w], Terminal)
    /\ \A w \in Workers : wpc[w] = "send" => ~HasFrame(wjob[w], {"late"})
    /\ \A j \in Jobs : HasFrame(j, {"late"}) => j \in cancelled

StreamInv == QuietUntilReply /\ ReplyOpen /\ StreamsWellFormed

\* A step that sends nothing keeps the streams well formed when each worker's
\* new program point allows what is already on its job's stream.
LEMMA NothingSent ==
  ASSUME StreamInv, UNCHANGED frames, cancelled \subseteq cancelled',
         \A j \in Jobs : admitted'[j] # "accepted" \/ Queued(j)' => Silent(j),
         \A w \in Workers : wpc'[w] \in BeforeReply => frames[wjob'[w]] = <<>>,
         \A w \in Workers : wpc'[w] \in InReply =>
            ~ \E i \in 1..Len(frames[wjob'[w]]) : frames[wjob'[w]][i] \in Terminal,
         \A w \in Workers : wpc'[w] = "send" =>
            ~ \E i \in 1..Len(frames[wjob'[w]]) : frames[wjob'[w]][i] \in {"late"}
  PROVE  StreamInv'
<1>1. QuietUntilReply'
  BY DEF QuietUntilReply, Silent
<1>2. \A j \in Jobs : HasFrame(j, {"late"})' => j \in cancelled'
  BY DEF StreamInv, ReplyOpen, HasFrame
<1>3. ReplyOpen'
  BY <1>2 DEF ReplyOpen, HasFrame
<1>4. StreamsWellFormed'
  BY DEF StreamInv, StreamsWellFormed, OneTerminalFrame, CancellationStopsContent
<1> QED BY <1>1, <1>3, <1>4 DEF StreamInv

\* The worker that sends a frame on a stream with no terminal frame keeps it
\* well formed when it goes on only after a content.
LEMMA SendKeepsStreams ==
  ASSUME TypeOK, JobsInv, StreamInv, NEW w \in Workers, NEW frame \in Frame,
         wpc[w] \in Holding, Send(wjob[w], frame),
         ~HasFrame(wjob[w], Terminal),
         frame = "late" => wjob[w] \in cancelled /\ ~HasFrame(wjob[w], {"late"}),
         NEW to, wpc' = [wpc EXCEPT ![w] = to],
         to \in {"idle", "unregister"} \/ (to = "reply" /\ frame \notin Terminal),
         \A v \in Workers : v # w => wjob'[v] = wjob[v],
         to = "reply" => wjob'[w] = wjob[w],
         UNCHANGED <<queue, admitted, cancelled, dropped>>
  PROVE  StreamInv'
<1>0. /\ frames \in [Jobs -> Seq(Frame)] /\ wpc \in [Workers -> WorkerPC]
      /\ wjob[w] \in Jobs
  BY HoldsJob DEF TypeOK
<1>1. PICK j \in Jobs : j = wjob[w]
  BY <1>0
<1>2. admitted[j] = "accepted" /\ ~Queued(j)
  <2>1. Held(j)
    BY <1>1 DEF Held
  <2> QED BY <2>1 DEF JobsInv, JobsAccountedFor
<1>3. \A k \in Jobs : k # j => frames'[k] = frames[k]
  BY <1>0, <1>1 DEF Send
<1>4. \A v \in Workers : v # w /\ wpc[v] \in Holding => wjob[v] \in Jobs /\ wjob[v] # j
  BY <1>0, <1>1, HoldsJob, NoJobAssumption DEF JobsInv, JobsAccountedFor
<1>5. wpc'[w] = to /\ \A v \in Workers : v # w => wpc'[v] = wpc[v]
  BY <1>0
<1>6. BeforeReply \cup InReply \subseteq Holding
  BY DEF BeforeReply, InReply, Holding, WorkerPC
<1>7. to \notin BeforeReply /\ to # "send" /\ (to \in InReply => to = "reply")
  BY DEF BeforeReply, InReply
<1>8. ASSUME NEW kinds, NEW k \in Jobs
      PROVE  HasFrame(k, kinds)' <=>
               (HasFrame(k, kinds) \/ (k = j /\ j \notin dropped /\ frame \in kinds))
  <2>1. Send(j, frame)
    BY <1>1
  <2> QED BY <2>1, SentFrame
<1>9. QuietUntilReply'
  <2>1. \A k \in Jobs : admitted'[k] # "accepted" \/ Queued(k)' => Silent(k)'
    BY <1>2, <1>3 DEF StreamInv, QuietUntilReply, Silent, Queued
  <2>2. \A v \in Workers : wpc'[v] \in BeforeReply => frames'[wjob'[v]] = <<>>
    BY <1>3, <1>4, <1>5, <1>6, <1>7 DEF StreamInv, QuietUntilReply, Silent
  <2> QED BY <2>1, <2>2 DEF QuietUntilReply, Silent
<1>10. ReplyOpen'
  <2>1. \A k \in Jobs : HasFrame(k, {"late"})' => k \in cancelled'
    BY <1>1, <1>8 DEF StreamInv, ReplyOpen
  <2>2. ASSUME NEW v \in Workers, wpc'[v] \in InReply PROVE ~HasFrame(wjob[v], Terminal)'
    <3>1. CASE v = w
      <4>1. wjob'[v] = j /\ frame \notin Terminal
        BY <1>1, <1>5, <1>7, <2>2, <3>1
      <4>2. ~HasFrame(j, Terminal)'
        BY <1>1, <1>8, <4>1
      <4> QED BY <4>1, <4>2 DEF HasFrame
    <3>2. CASE v # w
      <4>1. wjob'[v] = wjob[v] /\ frames'[wjob[v]] = frames[wjob[v]]
        BY <1>3, <1>4, <1>5, <1>6, <2>2, <3>2
      <4> QED BY <1>5, <2>2, <3>2, <4>1 DEF HasFrame, StreamInv, ReplyOpen
    <3> QED BY <3>1, <3>2
  <2>3. ASSUME NEW v \in Workers, wpc'[v] = "send" PROVE ~HasFrame(wjob[v], {"late"})'
    <3>1. v # w /\ wpc[v] = "send" /\ "send" \in InReply
      BY <1>5, <1>7, <2>3 DEF InReply
    <3>2. wjob'[v] = wjob[v] /\ frames'[wjob[v]] = frames[wjob[v]]
      BY <1>3, <1>4, <1>5, <1>6, <3>1
    <3> QED BY <3>1, <3>2 DEF HasFrame, StreamInv, ReplyOpen
  <2> QED BY <2>1, <2>2, <2>3 DEF ReplyOpen
<1>11. StreamsWellFormed'
  <2>0. \A k \in Jobs : k # j \/ j \in dropped => frames'[k] = frames[k]
    BY <1>0, <1>1 DEF Send
  <2>1. CASE j \in dropped
    BY <2>0, <2>1 DEF StreamInv, StreamsWellFormed, OneTerminalFrame, CancellationStopsContent
  <2>2. CASE j \notin dropped
    <3>1. frames'[j] = Append(frames[j], frame) /\ frames[j] \in Seq(Frame)
      BY <1>0, <1>1, <2>2 DEF Send
    <3>2. /\ Len(frames'[j]) = Len(frames[j]) + 1
          /\ Len(frames[j]) \in Nat
          /\ frames'[j][Len(frames[j]) + 1] = frame
          /\ \A i \in 1..Len(frames[j]) : frames'[j][i] = frames[j][i]
      BY <3>1
    <3>3. 1..Len(frames'[j]) = (1..Len(frames[j])) \cup {Len(frames[j]) + 1}
      BY <3>2
    <3>4. \A i \in 1..Len(frames[j]) : frames'[j][i] \notin Terminal
      BY <1>1, <3>2 DEF HasFrame
    <3>5. frame = "late" => \A i \in 1..Len(frames[j]) : frames'[j][i] # "late"
      BY <1>1, <3>2 DEF HasFrame
    <3>6. OneTerminalFrame'
      BY <2>0, <3>2, <3>3, <3>4 DEF StreamInv, StreamsWellFormed, OneTerminalFrame
    <3>7. CancellationStopsContent'
      <4>0. \A k \in Jobs : \A i, m \in 1..Len(frames[k]) :
               frames[k][i] = "late" /\ frames[k][m] = "late" => i = m
        BY DEF StreamInv, StreamsWellFormed, CancellationStopsContent
      <4> SUFFICES ASSUME NEW k \in Jobs, NEW i \in 1..Len(frames'[k]),
                          NEW m \in 1..Len(frames'[k]),
                          frames'[k][i] = "late", frames'[k][m] = "late"
                   PROVE  i = m
        BY DEF CancellationStopsContent
      <4>1. CASE k # j
        BY <2>0, <4>0, <4>1
      <4>2. CASE k = j /\ frame = "late"
        <5>1. i = Len(frames[j]) + 1 /\ m = Len(frames[j]) + 1
          BY <3>3, <3>5, <4>2
        <5> QED BY <5>1
      <4>3. CASE k = j /\ frame # "late"
        <5>1. i \in 1..Len(frames[j]) /\ m \in 1..Len(frames[j])
          BY <3>2, <3>3, <4>3
        <5>2. frames[j][i] = "late" /\ frames[j][m] = "late"
          BY <3>2, <4>3, <5>1
        <5> QED BY <4>0, <5>1, <5>2
      <4> QED BY <4>1, <4>2, <4>3
    <3> QED BY <3>6, <3>7 DEF StreamsWellFormed
  <2> QED BY <2>1, <2>2
<1> QED BY <1>9, <1>10, <1>11 DEF StreamInv

\* A worker that sends nothing, keeps its job and stays before its reply, or
\* stays in it, or ends, keeps the streams well formed.
LEMMA QuietWorkerKeepsStreams ==
  ASSUME TypeOK, StreamInv, NEW w \in Workers, NEW to,
         wpc' = [wpc EXCEPT ![w] = to],
         UNCHANGED <<queue, wjob, admitted, cancelled, frames>>,
         to \in BeforeReply => wpc[w] \in BeforeReply,
         to \in InReply => wpc[w] \in BeforeReply \cup InReply,
         to = "send" => wjob[w] \in Jobs /\ wjob[w] \notin cancelled
  PROVE  StreamInv'
<1>1. wpc'[w] = to /\ \A v \in Workers : v # w => wpc'[v] = wpc[v]
  BY DEF TypeOK
<1>2. \A j \in Jobs : admitted'[j] # "accepted" \/ Queued(j)' => Silent(j)
  BY DEF StreamInv, QuietUntilReply, Queued
<1>3. \A v \in Workers : wpc'[v] \in BeforeReply => frames[wjob'[v]] = <<>>
  BY <1>1 DEF StreamInv, QuietUntilReply, Silent
<1>4. \A v \in Workers : wpc'[v] \in InReply =>
         ~ \E i \in 1..Len(frames[wjob'[v]]) : frames[wjob'[v]][i] \in Terminal
  <2>1. wpc[w] \in BeforeReply => Len(frames[wjob[w]]) = 0
    BY DEF StreamInv, QuietUntilReply, Silent
  <2> QED BY <1>1, <2>1 DEF StreamInv, ReplyOpen, HasFrame
<1>5. \A v \in Workers : wpc'[v] = "send" =>
         ~ \E i \in 1..Len(frames[wjob'[v]]) : frames[wjob'[v]][i] \in {"late"}
  BY <1>1 DEF StreamInv, ReplyOpen, HasFrame
<1> QED BY <1>2, <1>3, <1>4, <1>5, NothingSent

\* What the workers do keeps the streams well formed.
LEMMA WorkerKeepsStreams ==
  ASSUME TypeOK, JobsInv, StreamInv, NEW w \in Workers, WorkerStep(w)
  PROVE  StreamInv'
<1> USE DEF Goto, clientVars, hostVars, jobVars
<1>0. /\ {"error", "cancel", "done"} \subseteq Frame \cap Terminal
      /\ {"content", "late"} \subseteq Frame \ Terminal
  BY DEF Frame, Terminal
<1>1. CASE LockReceiver(w) \/ WorkerExit(w) \/ CheckShutdown(w) \/ RegisterActiveJob(w)
             \/ InsertActiveJob(w) \/ ProviderReplies(w)
  <2>1. UNCHANGED <<queue, wjob, admitted, cancelled, frames>>
    BY <1>1 DEF LockReceiver, WorkerExit, CheckShutdown, RegisterActiveJob, InsertActiveJob,
                ProviderReplies
  <2>2. PICK to : /\ wpc' = [wpc EXCEPT ![w] = to]
                  /\ to \in BeforeReply => wpc[w] \in BeforeReply
                  /\ to \in InReply => wpc[w] \in BeforeReply
                  /\ to # "send"
    BY <1>1 DEF LockReceiver, WorkerExit, CheckShutdown, RegisterActiveJob, InsertActiveJob,
                ProviderReplies, BeforeReply, InReply
  <2> QED BY <2>1, <2>2, QuietWorkerKeepsStreams
<1>2. CASE Receive(w)
  <2>1. /\ queue \in Seq(Jobs) /\ queue # <<>> /\ queue' = Tail(queue)
        /\ \A i, k \in 1..Len(queue) : queue[i] = queue[k] => i = k
    BY <1>2 DEF TypeOK, JobsInv, JobsAccountedFor, Receive
  <2>2. /\ \A j : Queued(j) <=> (Queued(j)' \/ j = Head(queue))
        /\ Head(queue) \in Jobs
    BY <2>1, QueueTail
  <2>3. /\ wjob'[w] = Head(queue) /\ \A v \in Workers : v # w => wjob'[v] = wjob[v]
        /\ wpc'[w] = "got" /\ \A v \in Workers : v # w => wpc'[v] = wpc[v]
        /\ UNCHANGED <<admitted, cancelled, frames>>
    BY <1>2 DEF Receive, TypeOK
  <2>4. \A j \in Jobs : admitted'[j] # "accepted" \/ Queued(j)' => Silent(j)
    BY <2>2, <2>3 DEF StreamInv, QuietUntilReply
  <2>5. Queued(Head(queue))
    BY <2>2
  <2>6. frames[Head(queue)] = <<>>
    BY <2>2, <2>5 DEF StreamInv, QuietUntilReply, Silent
  <2>7. \A v \in Workers : wpc'[v] \in BeforeReply => frames[wjob'[v]] = <<>>
    BY <2>3, <2>6 DEF StreamInv, QuietUntilReply, Silent
  <2>8. "got" \notin InReply /\ "got" # "send"
    BY DEF InReply
  <2>9. \A v \in Workers : wpc'[v] \in InReply =>
            ~ \E i \in 1..Len(frames[wjob'[v]]) : frames[wjob'[v]][i] \in Terminal
    BY <2>3, <2>8 DEF StreamInv, ReplyOpen, HasFrame
  <2>10. \A v \in Workers : wpc'[v] = "send" =>
            ~ \E i \in 1..Len(frames[wjob'[v]]) : frames[wjob'[v]][i] \in {"late"}
    BY <2>3, <2>8 DEF StreamInv, ReplyOpen, HasFrame
  <2> QED BY <2>3, <2>4, <2>7, <2>9, <2>10, NothingSent
<1>3. wpc[w] \in BeforeReply \cup InReply =>
         wpc[w] \in Holding /\ wjob[w] \in Jobs /\ ~HasFrame(wjob[w], Terminal)
  <2>1. BeforeReply \cup InReply \subseteq Holding
    BY DEF BeforeReply, InReply, Holding, WorkerPC
  <2>2. wpc[w] \in BeforeReply => Len(frames[wjob[w]]) = 0
    BY DEF StreamInv, QuietUntilReply, Silent
  <2> QED BY <2>1, <2>2, HoldsJob DEF StreamInv, ReplyOpen, HasFrame
<1>4. CASE RefuseJob(w)
  <2>1. wpc[w] \in BeforeReply
    BY <1>4 DEF RefuseJob, BeforeReply
  <2>2. \A v \in Workers : v # w => wjob'[v] = wjob[v]
    BY <1>4 DEF RefuseJob, TypeOK
  <2> QED BY <1>0, <1>3, <1>4, <2>1, <2>2, SendKeepsStreams DEF RefuseJob
<1>5. ASSUME NEW from \in BeforeReply \cup InReply, NEW to \in BeforeReply \cup InReply,
             to \in BeforeReply => from \in BeforeReply, PollCancellation(w, from, to)
      PROVE  StreamInv'
  <2>1. wpc[w] = from /\ UNCHANGED <<queue, wjob, admitted, cancelled, dropped>>
    BY <1>5 DEF PollCancellation
  <2>2. CASE wjob[w] \in cancelled
    <3>1. Send(wjob[w], "cancel") /\ wpc' = [wpc EXCEPT ![w] = "unregister"]
      BY <1>5, <2>2 DEF PollCancellation
    <3> QED BY <1>0, <1>3, <2>1, <3>1, SendKeepsStreams
  <2>3. CASE wjob[w] \notin cancelled
    <3>1. UNCHANGED frames /\ wpc' = [wpc EXCEPT ![w] = to]
      BY <1>5, <2>3 DEF PollCancellation
    <3> QED BY <1>3, <1>5, <2>1, <2>3, <3>1, QuietWorkerKeepsStreams
  <2> QED BY <2>2, <2>3
<1>6. CASE RunJob(w) \/ DispatchToKernel(w) \/ PollReply(w)
  <2>1. /\ {"run", "dispatch", "provider"} \subseteq BeforeReply
        /\ {"reply", "send", "finish"} \subseteq InReply \ BeforeReply
    BY DEF BeforeReply, InReply
  <2> QED BY <1>5, <1>6, <2>1 DEF RunJob, DispatchToKernel, PollReply
<1>7. CASE ProviderFails(w)
  <2>1. PICK frame \in {"error", "cancel"} : Send(wjob[w], frame)
    BY <1>7 DEF ProviderFails
  <2>2. wpc[w] \in BeforeReply
    BY <1>7 DEF ProviderFails, BeforeReply
  <2>3. /\ wpc' = [wpc EXCEPT ![w] = "unregister"]
        /\ UNCHANGED <<wjob, queue, admitted, cancelled, dropped>>
    BY <1>7 DEF ProviderFails
  <2> QED BY <1>0, <1>3, <2>1, <2>2, <2>3, SendKeepsStreams
<1>8. CASE SendContent(w)
  <2>1. wpc[w] = "send" /\ wpc[w] \in InReply
    BY <1>8 DEF SendContent, InReply
  <2>2. ~HasFrame(wjob[w], {"late"})
    BY <2>1 DEF StreamInv, ReplyOpen
  <2>3. PICK frame \in {"content", "late"} :
          Send(wjob[w], frame) /\ (frame = "late" => wjob[w] \in cancelled)
    BY <1>8 DEF SendContent
  <2>4. PICK to \in {"unregister", "reply"} : wpc' = [wpc EXCEPT ![w] = to]
    BY <1>8 DEF SendContent
  <2>5. UNCHANGED <<wjob, queue, admitted, cancelled, dropped>>
    BY <1>8 DEF SendContent
  <2> QED BY <1>0, <1>3, <2>1, <2>2, <2>3, <2>4, <2>5, SendKeepsStreams
<1>9. CASE FinishReply(w)
  <2>1. wpc[w] \in InReply
    BY <1>9 DEF FinishReply, InReply
  <2> QED BY <1>0, <1>3, <1>9, <2>1, SendKeepsStreams DEF FinishReply
<1>10. CASE UnregisterActiveJob(w)
  <2>1. /\ \A v \in Workers : v # w => wjob'[v] = wjob[v] /\ wpc'[v] = wpc[v]
        /\ wpc'[w] = "idle"
        /\ UNCHANGED <<queue, admitted, cancelled, frames>>
    BY <1>10 DEF UnregisterActiveJob, TypeOK
  <2>2. "idle" \notin BeforeReply \cup InReply /\ "idle" # "send"
    BY DEF BeforeReply, InReply
  <2>3. \A j \in Jobs : admitted'[j] # "accepted" \/ Queued(j)' => Silent(j)
    BY <2>1 DEF StreamInv, QuietUntilReply, Queued
  <2>4. \A v \in Workers : wpc'[v] \in BeforeReply => frames[wjob'[v]] = <<>>
    BY <2>1, <2>2 DEF StreamInv, QuietUntilReply, Silent
  <2>5. \A v \in Workers : wpc'[v] \in InReply =>
            ~ \E i \in 1..Len(frames[wjob'[v]]) : frames[wjob'[v]][i] \in Terminal
    BY <2>1, <2>2 DEF StreamInv, ReplyOpen, HasFrame
  <2>6. \A v \in Workers : wpc'[v] = "send" =>
            ~ \E i \in 1..Len(frames[wjob'[v]]) : frames[wjob'[v]][i] \in {"late"}
    BY <2>1, <2>2 DEF StreamInv, ReplyOpen, HasFrame
  <2> QED BY <2>1, <2>3, <2>4, <2>5, <2>6, NothingSent
<1> QED
  BY <1>1, <1>2, <1>4, <1>6, <1>7, <1>8, <1>9, <1>10 DEF WorkerStep

\* A step in which no worker moves, and only jobs with an empty stream enter
\* the channel or are refused.
LEMMA CallerKeepsStreams ==
  ASSUME StreamInv, UNCHANGED <<workerVars, frames>>, cancelled \subseteq cancelled',
         \A j \in Jobs : admitted'[j] # "accepted" \/ Queued(j)' => Silent(j)
  PROVE  StreamInv'
<1>1. \A v \in Workers : wpc'[v] \in BeforeReply => frames[wjob'[v]] = <<>>
  BY DEF StreamInv, QuietUntilReply, Silent, workerVars
<1>2. \A v \in Workers : wpc'[v] \in InReply =>
         ~ \E i \in 1..Len(frames[wjob'[v]]) : frames[wjob'[v]][i] \in Terminal
  BY DEF StreamInv, ReplyOpen, HasFrame, workerVars
<1>3. \A v \in Workers : wpc'[v] = "send" =>
         ~ \E i \in 1..Len(frames[wjob'[v]]) : frames[wjob'[v]][i] \in {"late"}
  BY DEF StreamInv, ReplyOpen, HasFrame, workerVars
<1> QED BY <1>1, <1>2, <1>3, NothingSent

\* Every step of the pool keeps the streams well formed.
LEMMA StreamInvStep == TypeOK /\ JobsInv /\ StreamInv /\ [Next]_vars => StreamInv'
<1> SUFFICES ASSUME TypeOK, JobsInv, StreamInv, [Next]_vars PROVE StreamInv'
  OBVIOUS
<1> USE DEF clientVars, hostVars, jobVars
<1>0. ASSUME UNCHANGED <<queue, admitted>>
      PROVE  \A j \in Jobs : admitted'[j] # "accepted" \/ Queued(j)' => Silent(j)
  BY <1>0 DEF StreamInv, QuietUntilReply, Queued
<1>1. ASSUME NEW w \in Workers, SpawnWorker(w) PROVE StreamInv'
  <2>1. /\ wpc' = [wpc EXCEPT ![w] = "idle"]
        /\ UNCHANGED <<queue, wjob, admitted, cancelled, frames>>
    BY <1>1 DEF SpawnWorker
  <2> QED BY <2>1, QuietWorkerKeepsStreams DEF BeforeReply, InReply
<1>2. CASE SpawnFails
  BY <1>0, <1>2, CallerKeepsStreams DEF SpawnFails
<1>3. ASSUME NEW j \in Jobs, ConsumerCancels(j) \/ ConsumerDrops(j) PROVE StreamInv'
  BY <1>0, <1>3, CallerKeepsStreams DEF ConsumerCancels, ConsumerDrops
<1>4. CASE Quiescent \/ UNCHANGED vars
  BY <1>0, <1>4, CallerKeepsStreams DEF Quiescent, vars
<1>5. ASSUME NEW c \in Clients, ClientStep(c) PROVE StreamInv'
  <2>1. ASSUME NEW d \in Clients, CloneHandle(c, d) PROVE StreamInv'
    BY <1>0, <2>1, CallerKeepsStreams DEF CloneHandle
  <2>2. CASE Shutdown(c) \/ DropHandle(c) \/ CloseQueue(c)
    BY <1>0, <2>2, CallerKeepsStreams DEF Shutdown, DropHandle, CloseQueue
  <2>3. CASE CancelActive(c) \/ TakeHandles(c) \/ Join(c)
    BY <1>0, <2>3, CallerKeepsStreams DEF CancelActive, TakeHandles, Join
  <2>4. ASSUME NEW j \in Jobs, Start(c, j) PROVE StreamInv'
    <3>1. /\ admitted[j] = "new" /\ UNCHANGED <<workerVars, cancelled, frames>>
          /\ \A k \in Jobs : k # j => admitted'[k] = admitted[k]
      BY <2>4 DEF Start, TypeOK
    <3>2. \A k \in Jobs : Queued(k)' => Queued(k) \/ k = j
      <4>1. CASE UNCHANGED queue
        BY <4>1 DEF Queued
      <4>2. CASE queue' = Append(queue, j)
        <5>1. /\ Len(queue) \in Nat /\ Len(queue') = Len(queue) + 1
              /\ queue'[Len(queue) + 1] = j
              /\ \A i \in 1..Len(queue) : queue'[i] = queue[i]
          BY <4>2 DEF TypeOK
        <5> QED BY <5>1 DEF Queued
      <4> QED BY <2>4, <4>1, <4>2 DEF Start
    <3>3. \A k \in Jobs : admitted'[k] # "accepted" \/ Queued(k)' => Silent(k)
      BY <3>1, <3>2 DEF StreamInv, QuietUntilReply
    <3> QED BY <3>1, <3>3, CallerKeepsStreams
  <2> QED BY <1>5, <2>1, <2>2, <2>3, <2>4 DEF ClientStep, ShutdownStep
<1> QED BY <1>1, <1>2, <1>3, <1>4, <1>5, WorkerKeepsStreams DEF Next

\* Every stream is empty at the start.
LEMMA StreamInvInit == Init => StreamInv
<1> SUFFICES ASSUME Init PROVE StreamInv
  OBVIOUS
<1>1. \A j \in Jobs : frames[j] = <<>> /\ Len(frames[j]) = 0
  BY DEF Init
<1>2. \A w \in Workers : wpc[w] \notin BeforeReply \cup InReply /\ wpc[w] # "send"
  BY DEF Init, BeforeReply, InReply
<1> QED
  BY <1>1, <1>2 DEF StreamInv, QuietUntilReply, Silent, ReplyOpen, HasFrame,
                    StreamsWellFormed, OneTerminalFrame, CancellationStopsContent

\* Whichever of refusal, cancellation, provider failure and completion ends a
\* job, its stream has one terminal frame, the last one, and at most one
\* content after the cancellation.
THEOREM EveryStreamWellFormed == Spec => []StreamsWellFormed
<1>1. StreamInv => StreamsWellFormed
  BY DEF StreamInv
<1> QED
  BY <1>1, JobsInvInit, JobsInvStep, StreamInvInit, StreamInvStep, TypeCorrect, PTL DEF Spec

-----------------------------------------------------------------------------
(* The caller of join_workers that has the JoinHandles returns to an idle    *)
(* pool.  This needs where every JoinHandle is, and that a thread ends only *)
(* on a closed and empty channel, which nobody fills again.                  *)

BuildingIsAlone ==
    built = "building" =>
        owns = {} /\ \A c \in Clients : cpc[c] \in {"ready", "gone"} /\ joinSet[c] = {}

\* One caller at a time has JoinHandles, and then state.workers has none.
OneJoiner ==
    \A c \in Clients : joinSet[c] # {} =>
        /\ cpc[c] = "joining" /\ workers = {}
        /\ \A d \in Clients : joinSet[d] # {} => d = c

\* The JoinHandle of a thread that runs is in state.workers or with a joiner.
ThreadsAccountedFor ==
    \A w \in Workers : wpc[w] \notin {"unborn", "exited"} =>
        w \in workers \/ \E c \in Clients : w \in joinSet[c]

\* A thread ends only on a closed and empty channel, which stays so.
ExitedMeansDrained ==
    \A w \in Workers : wpc[w] = "exited" => queue = <<>> /\ ~senderOpen

JoinInv == BuildingIsAlone /\ OneJoiner /\ ThreadsAccountedFor /\ ExitedMeansDrained

\* What the workers do keeps JoinInv: WorkerExit needs a closed and empty
\* channel, and no worker fills or opens it.
LEMMA WorkerKeepsJoinInv ==
  ASSUME TypeOK, JoinInv, NEW w \in Workers, WorkerStep(w)
  PROVE  JoinInv'
<1> USE DEF Goto, clientVars, hostVars, jobVars
<1>1. UNCHANGED <<built, owns, cpc, joinSet, workers, senderOpen>>
  BY DEF WorkerStep, LockReceiver, Receive, WorkerExit, CheckShutdown, RegisterActiveJob,
         InsertActiveJob, RefuseJob, RunJob, DispatchToKernel, PollCancellation,
         ProviderReplies, ProviderFails, PollReply, SendContent, FinishReply,
         UnregisterActiveJob
<1>2. /\ wpc[w] \notin {"unborn", "exited"}
      /\ \A v \in Workers : v # w => wpc'[v] = wpc[v]
  BY DEF TypeOK, WorkerStep, LockReceiver, Receive, WorkerExit, CheckShutdown,
         RegisterActiveJob, InsertActiveJob, RefuseJob, RunJob, DispatchToKernel,
         PollCancellation, ProviderReplies, ProviderFails, PollReply, SendContent,
         FinishReply, UnregisterActiveJob
<1>3. BuildingIsAlone' /\ OneJoiner'
  BY <1>1 DEF JoinInv, BuildingIsAlone, OneJoiner
<1>4. ThreadsAccountedFor'
  BY <1>1, <1>2 DEF JoinInv, ThreadsAccountedFor
<1>5. CASE WorkerExit(w)
  <2>1. queue' = <<>> /\ ~senderOpen'
    BY <1>5 DEF WorkerExit
  <2> QED BY <1>3, <1>4, <2>1 DEF JoinInv, ExitedMeansDrained
<1>6. CASE Receive(w)
  <2>1. wpc'[w] = "got" /\ queue # <<>>
    BY <1>6 DEF Receive, TypeOK
  <2>2. ExitedMeansDrained'
    BY <1>1, <1>2, <2>1 DEF JoinInv, ExitedMeansDrained
  <2> QED BY <1>3, <1>4, <2>2 DEF JoinInv
<1>7. CASE ~WorkerExit(w) /\ ~Receive(w)
  <2>1. UNCHANGED queue /\ wpc'[w] # "exited"
    BY <1>7 DEF TypeOK, WorkerStep, LockReceiver, CheckShutdown,
         RegisterActiveJob, InsertActiveJob, RefuseJob, RunJob, DispatchToKernel,
         PollCancellation, ProviderReplies, ProviderFails, PollReply, SendContent,
         FinishReply, UnregisterActiveJob
  <2>2. ExitedMeansDrained'
    BY <1>1, <1>2, <2>1 DEF JoinInv, ExitedMeansDrained
  <2> QED BY <1>3, <1>4, <2>2 DEF JoinInv
<1> QED BY <1>5, <1>6, <1>7

\* What the callers do keeps JoinInv: TakeHandles moves every JoinHandle at
\* once, Join drops those of ended threads only, and start sends only while
\* the channel is open.
LEMMA ClientKeepsJoinInv ==
  ASSUME TypeOK, JoinInv, NEW c \in Clients, ClientStep(c)
  PROVE  JoinInv'
<1> USE DEF clientVars, hostVars, workerVars, jobVars,
            JoinInv, BuildingIsAlone, OneJoiner, ThreadsAccountedFor, ExitedMeansDrained
<1>0. /\ cpc \in [Clients -> ClientPC] /\ joinSet \in [Clients -> SUBSET Workers]
      /\ wpc \in [Workers -> WorkerPC] /\ senderOpen \in BOOLEAN
  BY DEF TypeOK
<1>1. ASSUME NEW d \in Clients, CloneHandle(c, d) PROVE JoinInv'
  BY <1>0, <1>1 DEF CloneHandle
<1>2. ASSUME NEW j \in Jobs, Start(c, j) PROVE JoinInv'
  BY <1>0, <1>2 DEF Start
<1>3. CASE Shutdown(c)     BY <1>0, <1>3 DEF Shutdown, BeginShutdown
<1>4. CASE DropHandle(c)   BY <1>0, <1>4 DEF DropHandle, BeginShutdown
<1>5. CASE CloseQueue(c)   BY <1>0, <1>5 DEF CloseQueue
<1>6. CASE CancelActive(c) BY <1>0, <1>6 DEF CancelActive
<1>7. CASE TakeHandles(c)
  <2>1. joinSet[c] = {}
    BY <1>7 DEF TakeHandles
  <2>2. /\ joinSet'[c] = workers /\ \A d \in Clients : d # c => joinSet'[d] = joinSet[d]
        /\ workers' = {} /\ cpc'[c] = "joining"
        /\ \A d \in Clients : d # c => cpc'[d] = cpc[d]
        /\ UNCHANGED <<built, owns, wpc, queue, senderOpen>>
    BY <1>0, <1>7 DEF TakeHandles
  <2>3. built # "building"
    BY <1>7 DEF TakeHandles
  <2>4. OneJoiner'
    BY <2>2
  <2>5. ThreadsAccountedFor'
    BY <2>1, <2>2
  <2> QED BY <2>2, <2>3, <2>4, <2>5
<1>8. CASE Join(c)
  <2>1. /\ joinSet'[c] = {} /\ \A d \in Clients : d # c => joinSet'[d] = joinSet[d]
        /\ \A d \in Clients : d # c => cpc'[d] = cpc[d]
        /\ UNCHANGED <<built, owns, workers, wpc, queue, senderOpen>>
        /\ \A w \in joinSet[c] : wpc[w] = "exited"
    BY <1>0, <1>8 DEF Join
  <2>2. built # "building"
    BY <1>8 DEF Join
  <2>3. ThreadsAccountedFor'
    BY <2>1
  <2>4. OneJoiner'
    BY <2>1
  <2> QED BY <2>1, <2>2, <2>3, <2>4
<1> QED
  BY <1>1, <1>2, <1>3, <1>4, <1>5, <1>6, <1>7, <1>8 DEF ClientStep, ShutdownStep

\* Every step of the pool keeps JoinInv.
LEMMA JoinInvStep == TypeOK /\ JoinInv /\ [Next]_vars => JoinInv'
<1> SUFFICES ASSUME TypeOK, JoinInv, [Next]_vars PROVE JoinInv'
  OBVIOUS
<1> USE DEF clientVars, hostVars, workerVars, jobVars
<1>1. ASSUME NEW w \in Workers, SpawnWorker(w) PROVE JoinInv'
  <2>1. /\ built = "building" /\ workers' = workers \cup {w}
        /\ wpc'[w] = "idle" /\ \A v \in Workers : v # w => wpc'[v] = wpc[v]
        /\ UNCHANGED <<cpc, joinSet, queue, senderOpen>>
        /\ built' = "building" => owns' = owns
    BY <1>1 DEF SpawnWorker, TypeOK
  <2> QED
    BY <2>1 DEF JoinInv, BuildingIsAlone, OneJoiner, ThreadsAccountedFor, ExitedMeansDrained
<1>2. CASE SpawnFails
  <2>1. /\ built = "building" /\ built' = "failed"
        /\ UNCHANGED <<joinSet, workers, queue, senderOpen, wpc>>
    BY <1>2 DEF SpawnFails
  <2> QED
    BY <2>1 DEF JoinInv, BuildingIsAlone, OneJoiner, ThreadsAccountedFor, ExitedMeansDrained
<1>3. ASSUME NEW j \in Jobs, ConsumerCancels(j) \/ ConsumerDrops(j) PROVE JoinInv'
  BY <1>3 DEF ConsumerCancels, ConsumerDrops, JoinInv, BuildingIsAlone, OneJoiner,
              ThreadsAccountedFor, ExitedMeansDrained
<1>4. CASE Quiescent \/ UNCHANGED vars
  BY <1>4 DEF Quiescent, vars, JoinInv, BuildingIsAlone, OneJoiner, ThreadsAccountedFor,
              ExitedMeansDrained
<1> QED BY <1>1, <1>2, <1>3, <1>4, WorkerKeepsJoinInv, ClientKeepsJoinInv DEF Next

\* No thread runs and nobody joins at the start.
LEMMA JoinInvInit == Init => JoinInv
BY DEF Init, JoinInv, BuildingIsAlone, OneJoiner, ThreadsAccountedFor, ExitedMeansDrained

\* A step in which a caller returns from join_workers is its Join step.
LEMMA ReturnIsJoin ==
  ASSUME TypeOK, JoinInv, [Next]_vars, NEW c \in Clients, Returns(c)
  PROVE  Join(c)
<1> USE DEF clientVars, hostVars, workerVars, jobVars
<1>0. cpc \in [Clients -> ClientPC] /\ cpc[c] = "joining" /\ cpc'[c] # "joining"
  BY DEF TypeOK, Returns
<1>1. ASSUME NEW w \in Workers, SpawnWorker(w) \/ WorkerStep(w) PROVE UNCHANGED cpc
  BY <1>1 DEF SpawnWorker, WorkerStep, LockReceiver, Receive, WorkerExit, CheckShutdown,
              RegisterActiveJob, InsertActiveJob, RefuseJob, RunJob, DispatchToKernel,
              PollCancellation, ProviderReplies, ProviderFails, PollReply, SendContent,
              FinishReply, UnregisterActiveJob
<1>2. ASSUME NEW j \in Jobs, ConsumerCancels(j) \/ ConsumerDrops(j) PROVE UNCHANGED cpc
  BY <1>2 DEF ConsumerCancels, ConsumerDrops
<1>3. Quiescent \/ UNCHANGED vars => UNCHANGED cpc
  BY DEF Quiescent, vars
<1>4. ~SpawnFails
  BY <1>0 DEF SpawnFails, JoinInv, BuildingIsAlone
<1>5. ASSUME NEW e \in Clients, ClientStep(e) PROVE Join(c)
  <2>1. ASSUME NEW d \in Clients, CloneHandle(e, d) PROVE FALSE
    BY <1>0, <2>1 DEF CloneHandle
  <2>2. ASSUME NEW j \in Jobs, Start(e, j) PROVE FALSE
    BY <1>0, <2>2 DEF Start
  <2>3. ~Shutdown(e) /\ ~DropHandle(e)
    BY <1>0 DEF Shutdown, DropHandle, BeginShutdown
  <2>4. ~CloseQueue(e) /\ ~CancelActive(e) /\ ~TakeHandles(e)
    BY <1>0 DEF CloseQueue, CancelActive, TakeHandles
  <2>5. Join(e) => e = c
    BY <1>0 DEF Join
  <2> QED BY <1>5, <2>1, <2>2, <2>3, <2>4, <2>5 DEF ClientStep, ShutdownStep
<1> QED BY <1>0, <1>1, <1>2, <1>3, <1>4, <1>5 DEF Next

\* When the caller that holds the JoinHandles finds their threads ended, no
\* thread runs, the channel is empty and no job is registered.
LEMMA JoinFindsIdle ==
  ASSUME TypeOK, JobsInv, JoinInv, NEW c \in Clients, joinSet[c] # {}, Join(c)
  PROVE  Idle
<1>1. /\ joinSet[c] \subseteq Workers /\ workers = {}
      /\ \A w \in joinSet[c] : wpc[w] = "exited"
      /\ \A d \in Clients : joinSet[d] # {} => d = c
  BY DEF TypeOK, Join, JoinInv, OneJoiner
<1>2. \A w \in Workers : wpc[w] \in {"unborn", "exited"}
  BY <1>1 DEF JoinInv, ThreadsAccountedFor
<1>3. queue = <<>>
  BY <1>1 DEF JoinInv, ExitedMeansDrained
<1>4. {v \in Workers : wpc[v] \in Registered} = {}
  BY <1>2 DEF Registered, Holding
<1>5. activeJobs = {}
  BY <1>4 DEF JobsInv, JobsAccountedFor
<1> QED BY <1>2, <1>3, <1>5 DEF Idle

\* The shutdown (or failed construction) that took the JoinHandles returns only
\* when every thread has ended and no accepted job is queued or running.
THEOREM JoinerLeavesNothing == Spec => JoinerDrains
<1>1. TypeOK /\ JobsInv /\ JoinInv /\ [Next]_vars =>
        [\A c \in Clients : Returns(c) /\ joinSet[c] # {} => Idle]_vars
  BY ReturnIsJoin, JoinFindsIdle
<1> QED
  BY <1>1, JobsInvInit, JobsInvStep, JoinInvInit, JoinInvStep, TypeCorrect, PTL
  DEF Spec, JoinerDrains
=============================================================================
