-------------------------- MODULE SessionResidency --------------------------
(***************************************************************************)
(* The model and sequence residency of                                     *)
(* macos-arm64/src/composite_host/residency.rs composed with the sequence   *)
(* machine it owns: SequenceResidency mirrors the machine's cursor into the *)
(* invocation-state descriptor the device programs read, SessionResidency   *)
(* adds the resident allocations and the reset and release accounting.     *)
(* poison and commit_verification are not reachable through it.            *)
(***************************************************************************)
EXTENDS InferenceSession

CONSTANT Weights    \* weight allocations of the model; K, V and state are three more

ASSUME ResidencyAssumption == Weights \in Nat \ {0}

VARIABLES
    invocationState,    \* DescriptorInvocationState
    liveHandles,        \* live_handles
    releasedCount,      \* released_allocations
    resetCount          \* reset_count

ownVars == <<liveHandles, releasedCount, resetCount>>
residencyVars == <<sessionVars, invocationState, ownVars>>

Allocations == Weights + 3

\* sync_invocation_state and sync_invocation_state_reset; the epoch is the
\* machine's after the call.
SyncCursor(position, rows) ==
    invocationState' = [position |-> position, after |-> position + rows,
                        rows |-> rows, epoch |-> epoch']

ResidencyTypeOK ==
    /\ TypeOK
    /\ invocationState \in [position : Nat, after : Nat, rows : Nat, epoch : Nat]
    /\ liveHandles \in BOOLEAN
    /\ releasedCount \in Nat /\ resetCount \in Nat

\* prepare and compose, on specifications that pass their checks.
ResidencyInit ==
    /\ Init
    /\ invocationState = [position |-> 0, after |-> 0, rows |-> 0, epoch |-> 1]
    /\ liveHandles = TRUE /\ releasedCount = 0 /\ resetCount = 0

ResidencyBegin(t, mode, rows) ==
    BeginTransaction(t, mode, rows) /\ UNCHANGED <<invocationState, ownVars>>

ResidencyRecord(t) ==
    /\ RecordPossibleMutation(t) \/ DropTransaction(t)
    /\ UNCHANGED <<invocationState, ownVars>>

\* SequenceResidency::commit: the machine first, then the mirror.
CommitUnsynced(t) == Commit(t) /\ UNCHANGED <<invocationState, ownVars>>
ResidencyCommit(t) ==
    /\ Commit(t)
    /\ SyncCursor(txn[t].prefix, txn[t].rows)
    /\ UNCHANGED ownVars

ResidencyFail(t) == Fail(t) /\ UNCHANGED <<invocationState, ownVars>>

ResidencyReset ==
    /\ LogicalReset
    /\ SyncCursor(0, 0)
    /\ resetCount' = resetCount + 1
    /\ UNCHANGED <<liveHandles, releasedCount>>

\* release: the machine refuses a second one before anything is counted.
ReleaseUnguarded ==
    /\ released' = TRUE
    /\ UNCHANGED <<validLen, epoch, phase, lastCommit, txn, commits, reported>>
    /\ releasedCount < 3 * Allocations
    /\ releasedCount' = releasedCount + Allocations
    /\ liveHandles' = FALSE
    /\ UNCHANGED <<invocationState, resetCount>>
ResidencyRelease ==
    /\ Release
    /\ releasedCount' = IF liveHandles THEN releasedCount + Allocations ELSE releasedCount
    /\ liveHandles' = FALSE
    /\ UNCHANGED <<invocationState, resetCount>>

ResidencyNext ==
    \/ \E t \in Txns :
        \/ \E mode \in Modes, rows \in 0..(Capacity + 1) : ResidencyBegin(t, mode, rows)
        \/ ResidencyRecord(t) \/ ResidencyCommit(t) \/ ResidencyFail(t)
    \/ ResidencyReset \/ ResidencyRelease

ResidencySpec == ResidencyInit /\ [][ResidencyNext]_residencyVars

-----------------------------------------------------------------------------
(* Properties.                                                             *)

\* What the device programs read is the machine's cursor, also after stale
\* commits were refused, after a reset and after poison: the mirror's epoch is
\* the live one and its valid length the committed one.
MirrorFollowsCursor ==
    /\ invocationState.epoch = epoch
    /\ invocationState.after = validLen
    /\ invocationState.rows = lastCommit.rows

\* Every allocation is released exactly once, by the release that ends the
\* sequence, poisoned or not, and none while the sequence can still be used.
AllocationsReleasedOnce ==
    /\ liveHandles <=> ~released
    /\ releasedCount = IF released THEN Allocations ELSE 0
    /\ resetCount = epoch - 1

\* The residency as a whole (SessionResidency): Fresh exactly while empty, the
\* descriptor mirror at the machine's cursor and every allocation released
\* once.
ResidencyInv ==
    ResidencyTypeOK /\ FreshIffEmpty /\ MirrorFollowsCursor /\ AllocationsReleasedOnce
=============================================================================
