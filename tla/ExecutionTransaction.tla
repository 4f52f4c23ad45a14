------------------------ MODULE ExecutionTransaction ------------------------
(***************************************************************************)
(* The distributed execution transaction of                                *)
(* crates/host-coordinator/src/execution_transaction/ over its device       *)
(* backend (FakeExecutionBackend, and DeviceRuntimeBackend in               *)
(* macos-arm64/src/transaction_backend.rs, which share this contract).      *)
(*                                                                         *)
(* One caller owns the transaction, so prepare, commit and abort are one    *)
(* action each; execute is one action per operation because device events   *)
(* complete in between.  A backend call may fail wherever it returns a      *)
(* Result.  Partitions are numbers: BTreeMap iterates them in that order.   *)
(***************************************************************************)
EXTENDS TransactionPlan

CONSTANTS
    Partitions,     \* logical partitions of the bound plans
    Plans,          \* accepted plans: [ops, boundary, ledger]
    AutoComplete,   \* events complete when dispatched (always, on devices)
    MaxExecuted     \* bound: operations a caller runs in one transaction

ASSUME TransactionAssumption ==
    /\ Partitions \subseteq Nat
    /\ AutoComplete \in BOOLEAN
    /\ MaxExecuted \in Nat

\* An accepted plan: its operations write only on partitions they take part in.
ASSUME PlansAssumption ==
    \A p \in Plans :
        /\ p.ops \in Seq(Ops(p))
        /\ \A op \in Ops(p) :
            /\ op.to \subseteq op.parts /\ op.parts \subseteq Partitions
            /\ IsFiniteSet(op.parts) /\ op.bytes \in Nat

-----------------------------------------------------------------------------
VARIABLES
    plan,           \* the accepted plan, fixed at construction
    state,          \* TransactionState
    failure,        \* the recorded TransactionFailure, or "none"
    cursor,         \* next operation of the loop in execute
    reserved,       \* partitions of self.reservation ({} for None)
    staged,         \* self.staged_write_set
    executed,       \* self.executed_operations, as indices into the plan
    completed,      \* self.completed_events
    released,       \* self.teardown.released_partitions
    retired,        \* self.teardown.retired_partitions
    held,           \* backend.reservations
    buffers,        \* partitions with device buffers in backend.resources
    stagedWrites,   \* backend.staged_writes
    stagedBytes,    \* backend.staged_total_bytes
    published,      \* backend.published_writes
    publishedBytes, \* backend.published_total_bytes
    publishedOnce,  \* backend.published_once
    dispatched,     \* backend.dispatched_events
    events          \* backend.completed_events

txnVars     == <<reserved, staged, executed, completed, released, retired>>
publishVars == <<published, publishedBytes, publishedOnce>>
vars == <<plan, state, failure, cursor, txnVars, held, buffers, stagedWrites,
          stagedBytes, publishVars, dispatched, events>>

States   == {"New", "Prepared", "Executing", "Committed", "Failed", "Aborted"}
Failures == {"none", "backend", "publish", "cancelled"}

TypeOK ==
    /\ plan \in Plans
    /\ state \in States /\ failure \in Failures
    /\ cursor \in 1..(Len(plan.ops) + 1)
    /\ executed \in Seq(1..Len(plan.ops))
    /\ reserved \cup released \cup retired \cup held \cup buffers \subseteq Partitions
    /\ staged \cup stagedWrites \cup published \subseteq Declared(plan)
    /\ stagedBytes \in Nat /\ publishedBytes \in Nat /\ publishedOnce \in BOOLEAN
    /\ completed \cup dispatched \cup events \subseteq AllEvents(plan)

Init ==
    /\ plan \in Plans
    /\ plan.ops # <<>>
    /\ state = "New" /\ failure = "none" /\ cursor = 1
    /\ reserved = {} /\ staged = {} /\ executed = <<>> /\ completed = {}
    /\ released = {} /\ retired = {}
    /\ held = {} /\ buffers = {}
    /\ stagedWrites = {} /\ stagedBytes = 0
    /\ published = {} /\ publishedBytes = 0 /\ publishedOnce = FALSE
    /\ dispatched = {} /\ events = {}

\* The loop of execute still has operations to run: its caller is inside it.
Running == state = "Executing" /\ cursor <= Len(plan.ops)
OpsRun  == {plan.ops[i] : i \in 1..(cursor - 1)}

-----------------------------------------------------------------------------
(* prepare                                                                 *)

\* The loop over the derived reservation reserves every partition.
Prepare ==
    /\ state = "New" /\ Admitted(plan)
    /\ Referenced(plan) \cap held = {}
    /\ held' = held \cup Referenced(plan)
    /\ buffers' = buffers \cup Referenced(plan)
    /\ reserved' = Referenced(plan)
    /\ state' = "Prepared"
    /\ UNCHANGED <<plan, failure, cursor, staged, executed, completed, released,
                   retired, stagedWrites, stagedBytes, publishVars, dispatched, events>>

\* backend.reserve fails at partition q, because q is held already or because
\* one of q's buffers cannot be allocated: the partitions before q stay
\* reserved and prepare returns.  A first buffer of q stays tracked when the
\* failing allocation is a later one.
PrepareFails(q) ==
    LET before == {p \in Referenced(plan) : p < q} IN
    /\ state = "New" /\ Admitted(plan)
    /\ q \in Referenced(plan) /\ before \cap held = {}
    /\ held' = held \cup before
    /\ \/ buffers' = buffers \cup before
       \/ /\ q \notin held
          /\ StagingBytes(plan, q) + OutputBytes(plan, q) > 0
          /\ buffers' = buffers \cup before \cup {q}
    /\ UNCHANGED <<plan, state, failure, cursor, txnVars, stagedWrites, stagedBytes,
                   publishVars, dispatched, events>>

-----------------------------------------------------------------------------
(* execute and execute_operation                                           *)

Execute ==
    /\ state = "Prepared"
    /\ state' = "Executing"
    /\ UNCHANGED <<plan, failure, cursor, txnVars, held, buffers, stagedWrites,
                   stagedBytes, publishVars, dispatched, events>>

\* fail: only a transaction that has not ended records a failure.
Fail(why) ==
    /\ state \in {"New", "Prepared", "Executing"}
    /\ state' = "Failed" /\ failure' = why

\* backend.run_operation fails; it may have allocated buffers by then.
RunFails(op) ==
    /\ Fail("backend")
    /\ \E touched \in (IF op.kind = "barrier" THEN {{}} ELSE SUBSET op.parts) :
        buffers' = buffers \cup touched
    /\ UNCHANGED <<txnVars, stagedWrites, stagedBytes, dispatched, events>>

\* run_operation succeeds and dispatches the operation's events.
Dispatch(op) ==
    /\ buffers' = IF op.kind = "barrier" THEN buffers ELSE buffers \cup op.parts
    /\ dispatched' = dispatched \cup CompletedEvents(op)
    /\ events' = IF AutoComplete THEN events \cup CompletedEvents(op) ELSE events

StageTotal(writes) ==
    /\ stagedWrites' = stagedWrites \cup writes
    /\ staged' = staged \cup writes
    /\ stagedBytes' = stagedBytes + SumBytes(staged')
Stage(writes) ==
    /\ stagedWrites' = stagedWrites \cup writes
    /\ stagedBytes' = stagedBytes + SumBytes(writes)
    /\ staged' = staged \cup writes

\* backend.stage_write fails at write w, staged before or not: the writes of
\* the operation for earlier partitions stay staged.
StageErrorIgnored(op) ==
    /\ Dispatch(op)
    /\ \E w \in StagedWrites(op) :
        LET before == {v \in StagedWrites(op) : v.part < w.part} IN
        /\ before \cap stagedWrites = {}
        /\ Stage(before)
    /\ UNCHANGED <<state, failure, reserved, executed, completed, released, retired>>
StageUnrecorded(op) ==
    /\ Dispatch(op)
    /\ \E w \in StagedWrites(op) :
        LET before == {v \in StagedWrites(op) : v.part < w.part} IN
        /\ before \cap stagedWrites = {}
        /\ stagedWrites' = stagedWrites \cup before
        /\ stagedBytes' = stagedBytes + SumBytes(before)
    /\ Fail("backend")
    /\ UNCHANGED txnVars
StageFails(op) ==
    /\ Dispatch(op)
    /\ \E w \in StagedWrites(op) :
        LET before == {v \in StagedWrites(op) : v.part < w.part} IN
        /\ before \cap stagedWrites = {}
        /\ Stage(before)
    /\ Fail("backend")
    /\ UNCHANGED <<reserved, executed, completed, released, retired>>

\* Every write is staged, the operation is recorded, and the events the
\* backend reports complete join the transaction.
RunSucceeds(i) ==
    LET op == plan.ops[i] IN
    /\ Dispatch(op)
    /\ StagedWrites(op) \cap stagedWrites = {}
    /\ Stage(StagedWrites(op))
    /\ executed' = Append(executed, i)
    /\ completed' = completed \cup (CompletedEvents(op) \cap events')
    /\ UNCHANGED <<state, failure, reserved, released, retired>>

ExecuteOperation(i) ==
    /\ \/ RunFails(plan.ops[i])
       \/ StageFails(plan.ops[i])
       \/ RunSucceeds(i)
    /\ UNCHANGED <<plan, held, publishVars>>

\* One turn of the loop in execute; a failure ends it.
ExecuteNext ==
    /\ Running
    /\ ExecuteOperation(cursor)
    /\ cursor' = IF state' = "Failed" THEN cursor ELSE cursor + 1

\* execute_operation is public: its caller may name any operation of the
\* snapshot again while the transaction is still Executing.
ExecuteAgain(i) ==
    /\ state = "Executing" /\ ~Running
    /\ Len(executed) < MaxExecuted
    /\ ExecuteOperation(i)
    /\ UNCHANGED cursor

\* A dispatched event completes on its device.
EventCompletes(e) ==
    /\ e \in dispatched \ events
    /\ events' = events \cup {e}
    /\ UNCHANGED <<plan, state, failure, cursor, txnVars, held, buffers,
                   stagedWrites, stagedBytes, publishVars, dispatched>>

-----------------------------------------------------------------------------
(* commit and abort                                                        *)

Refreshed == completed \cup (AllEvents(plan) \cap events)
BoundaryDispatched == BoundaryEvents(plan) \subseteq dispatched
BoundaryReached == BoundaryEvents(plan) \subseteq Refreshed

\* backend.release / the second half of backend.retire, for a set of partitions.
FreeReservations(parts) ==
    /\ held' = held \ parts
    /\ UNCHANGED buffers
FreePartitions(parts) ==
    /\ held' = held \ parts
    /\ buffers' = buffers \ parts

CommitNotReached ==
    /\ state = "Executing" /\ ~Running
    /\ ~BoundaryReached
    /\ completed' = Refreshed
    /\ UNCHANGED <<plan, state, failure, cursor, reserved, staged, executed, released,
                   retired, held, buffers, stagedWrites, stagedBytes, publishVars,
                   dispatched, events>>

PublishFails ==
    /\ state = "Executing" /\ ~Running
    /\ BoundaryReached
    /\ completed' = Refreshed
    /\ Fail("publish")
    /\ UNCHANGED <<plan, cursor, reserved, staged, executed, released, retired, held,
                   buffers, stagedWrites, stagedBytes, publishVars, dispatched, events>>

Commit ==
    /\ state = "Executing" /\ ~Running
    /\ BoundaryReached /\ ~publishedOnce
    /\ completed' = Refreshed
    /\ published' = stagedWrites /\ publishedBytes' = stagedBytes
    /\ publishedOnce' = TRUE
    /\ FreePartitions(reserved)
    /\ released' = released \cup reserved
    /\ state' = "Committed"
    /\ UNCHANGED <<plan, failure, cursor, reserved, staged, executed, retired,
                   stagedWrites, stagedBytes, dispatched, events>>

\* Aborting an aborted transaction returns its receipt, a committed one refuses.
NotAborted == state # "Aborted" /\ ~Running
Abortable  == state \in {"New", "Prepared", "Executing", "Failed"} /\ ~Running

\* What backend.retire withdraws from the staged writes.
DeclaredOf(parts)  == {w \in Declared(plan) : w.part \in parts}
Withdrawn(parts) == {w \in stagedWrites : w.part \in parts}

\* Staged partitions are retired, the other reserved ones released.
Abort ==
    LET stagedParts == {w.part : w \in staged} IN
    /\ Abortable
    /\ stagedWrites' = stagedWrites \ Withdrawn(stagedParts)
    /\ stagedBytes' = stagedBytes - SumBytes(Withdrawn(stagedParts))
    /\ FreePartitions(stagedParts \cup reserved)
    /\ retired' = retired \cup stagedParts
    /\ released' = released \cup (reserved \ stagedParts)
    /\ failure' = IF state = "Failed" THEN failure ELSE "cancelled"
    /\ state' = "Aborted"
    /\ UNCHANGED <<plan, cursor, reserved, staged, executed, completed, publishVars,
                   dispatched, events>>

\* A transaction that has ended stays as it is.
Ended == state \in {"Committed", "Aborted"} /\ UNCHANGED vars

Next ==
    \/ Prepare \/ (\E q \in Partitions : PrepareFails(q))
    \/ Execute \/ ExecuteNext \/ (\E i \in 1..Len(plan.ops) : ExecuteAgain(i))
    \/ (\E e \in AllEvents(plan) : EventCompletes(e))
    \/ CommitNotReached \/ PublishFails \/ Commit \/ Abort
    \/ Ended

Spec == Init /\ [][Next]_vars

-----------------------------------------------------------------------------
(* Properties.                                                             *)

\* Publication is all or nothing: readers see no write of a transaction that
\* has not committed, whichever operation, staging or publication failed, and
\* the whole declared write set of one that has.
NoPartialPublication ==
    published = IF state = "Committed" THEN Declared(plan) ELSE {}

\* commit publishes only past the declared boundary: every participant of
\* every boundary barrier and launch has really completed on its device, and
\* every operation of the plan ran, in plan order.
CommittedPastBoundary ==
    state = "Committed" =>
        /\ BoundaryEvents(plan) \subseteq events
        /\ \A i \in 1..Len(plan.ops) : i <= Len(executed) /\ executed[i] = i

\* Nothing outlives a transaction that prepared: commit and abort leave no
\* reservation and no device buffer, and the receipt's teardown accounts for
\* every reserved partition exactly once; abort also withdraws every write.
TeardownComplete ==
    state \in {"Committed", "Aborted"} /\ reserved # {} =>
        /\ held = {} /\ buffers = {}
        /\ released \cup retired = reserved /\ released \cap retired = {}
        /\ state = "Aborted" => stagedWrites = {}

\* The byte counters follow the write sets through staging, failure,
\* retirement and publication.
BytesMatchWrites ==
    stagedBytes = SumBytes(stagedWrites) /\ publishedBytes = SumBytes(published)

\* The transaction's own record of what is staged is the backend's, until
\* abort withdraws the backend's part.
StagedRecordExact == state # "Aborted" => staged = stagedWrites

\* Operations touch only partitions prepare reserved, so the teardown of the
\* recorded reservation is enough.
WorkInsideReservation ==
    state \in {"Prepared", "Executing", "Failed"} =>
        /\ held = reserved /\ buffers \subseteq reserved
        /\ {w.part : w \in staged} \subseteq reserved

\* The transaction implements atomic publication.
Abstract == INSTANCE AtomicPublication WITH
    writeSet <- Declared(plan),
    decision <- CASE state = "Committed" -> "committed"
                  [] state = "Aborted" -> "aborted"
                  [] OTHER -> "open",
    visible <- published
ImplementsAtomicPublication == Abstract!Spec

\* transaction.rs, prepare: "On any failure nothing is reserved and the
\* transaction stays `New`."
NewReservesNothing == state = "New" => held = {}

\* What readers see (commit, publish): nothing or the whole declared write
\* set, and only once every boundary event of the snapshot is complete.
PublicationSafe == NoPartialPublication /\ CommittedPastBoundary

\* The staging ledger (stage_write, abort, retire): the transaction, the
\* backend and the byte counters agree on what is staged, also when a stage
\* fails between two writes of one operation.
StagingExact == TypeOK /\ BytesMatchWrites /\ StagedRecordExact
=============================================================================
