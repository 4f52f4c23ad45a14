-------------------------- MODULE InferenceSession --------------------------
(***************************************************************************)
(* The model-session sequence machine of                                   *)
(* macos-arm64/src/composite_host/inference_state.rs: capacity, committed   *)
(* valid length, epoch and phase, and the invocation transactions planned   *)
(* against it.                                                             *)
(*                                                                         *)
(* Planning borrows the machine only for the call, so callers may hold any  *)
(* number of transactions, planned at different cursors and epochs, and     *)
(* commit, fail or keep them in any order.  A rejected call changes         *)
(* nothing.  write_position and query_start always equal prefix_before and  *)
(* are not repeated; poisoned_invocation is set with the phase and only      *)
(* shown by inspect.                                                       *)
(***************************************************************************)
EXTENDS Integers, Sequences

CONSTANTS
    Txns,       \* InvocationTransaction handles callers can hold at a time
    Capacity,   \* the fixed sequence capacity
    MaxEpoch    \* the largest sequence_epoch (u32::MAX in the code)

ASSUME SessionAssumption ==
    /\ Capacity \in Nat \ {0}
    /\ MaxEpoch \in Nat \ {0}

Modes  == {"Prefill", "ScalarDecode", "Verification"}
Phases == {"Fresh", "Prefill", "Decode", "Poisoned"}

\* PlannedInvocation and the transaction's possible_mutation.
Plan  == [mode : Modes, prefix : Nat, rows : Nat, epoch : Nat, mutated : BOOLEAN]
NoTxn == [mode |-> "none"]
NoCommit == [rows |-> 0]

VARIABLES
    validLen,   \* valid_len: rows committed
    epoch,      \* sequence_epoch
    phase,      \* SequencePhase
    released,   \* released
    lastCommit, \* last_commit: the CursorFacts of the last commit, or NoCommit
    txn,        \* the transaction in each handle, or NoTxn
    commits,    \* history: every commit [epoch, prefix, rows], in order
    reported    \* history: fail was called on a dispatched transaction at
                \* whose cursor nothing was ever committed

machine == <<validLen, epoch, phase, released, lastCommit>>
sessionVars == <<machine, txn, commits, reported>>

Commits == [epoch : Nat, prefix : Nat, rows : Nat]

TypeOK ==
    /\ validLen \in 0..Capacity
    /\ epoch \in 1..MaxEpoch
    /\ phase \in Phases
    /\ released \in BOOLEAN
    /\ lastCommit \in Commits \cup {NoCommit}
    /\ txn \in [Txns -> Plan \cup {NoTxn}]
    /\ commits \in Seq(Commits)
    /\ reported \in BOOLEAN

Init ==
    /\ validLen = 0 /\ epoch = 1 /\ phase = "Fresh" /\ released = FALSE
    /\ lastCommit = NoCommit
    /\ txn = [t \in Txns |-> NoTxn]
    /\ commits = <<>> /\ reported = FALSE

-----------------------------------------------------------------------------
\* ensure_mutable.
PoisonIgnored == ~released
Mutable == ~released /\ phase # "Poisoned"

\* ensure_plan_matches; the plan's capacity is the machine's.
PrefixMatches(plan) == plan.prefix = validLen
EpochMatches(plan)  == plan.epoch = epoch
Matches(plan) ==
    /\ plan.epoch = epoch
    /\ plan.prefix = validLen

\* The mode and phase checks and the overflow check of begin_invocation.
AdmitsOneMore(mode, rows) ==
    /\ rows >= 1
    /\ mode = "Prefill" => phase = "Fresh" /\ validLen = 0
    /\ mode = "ScalarDecode" => rows = 1 /\ phase \in {"Prefill", "Decode"}
    /\ mode = "Verification" => rows >= 2 /\ phase \in {"Prefill", "Decode"} /\ validLen # 0
    /\ validLen + rows <= Capacity + 1
Admits(mode, rows) ==
    /\ rows >= 1
    /\ mode = "Prefill" => phase = "Fresh" /\ validLen = 0
    /\ mode = "ScalarDecode" => rows = 1 /\ phase \in {"Prefill", "Decode"}
    /\ mode = "Verification" => rows >= 2 /\ phase \in {"Prefill", "Decode"} /\ validLen # 0
    /\ validLen + rows <= Capacity

\* begin_transaction: planning does not change the machine.
BeginTransaction(t, mode, rows) ==
    /\ txn[t] = NoTxn
    /\ Mutable /\ Admits(mode, rows)
    /\ txn' = [txn EXCEPT ![t] = [mode |-> mode, prefix |-> validLen, rows |-> rows,
                                  epoch |-> epoch, mutated |-> FALSE]]
    /\ UNCHANGED <<machine, commits, reported>>

\* record_possible_mutation: device work may have started, whatever the
\* machine has become meanwhile.
RecordPossibleMutation(t) ==
    /\ txn[t] # NoTxn
    /\ txn' = [txn EXCEPT ![t].mutated = TRUE]
    /\ UNCHANGED <<machine, commits, reported>>

\* The caller drops a transaction it no longer needs.
DropTransaction(t) ==
    /\ txn[t] # NoTxn
    /\ txn' = [txn EXCEPT ![t] = NoTxn]
    /\ UNCHANGED <<machine, commits, reported>>

\* The cursor moves past `rows` rows of the plan.
Advance(plan, rows) ==
    LET facts == [epoch |-> plan.epoch, prefix |-> plan.prefix, rows |-> rows] IN
    /\ validLen' = plan.prefix + rows
    /\ lastCommit' = facts
    /\ commits' = Append(commits, facts)

\* commit and commit_transaction.  The caller keeps the transaction and may
\* present it again.
Commit(t) ==
    /\ txn[t] # NoTxn /\ txn[t].mode # "Verification"
    /\ Mutable /\ Matches(txn[t])
    /\ Advance(txn[t], txn[t].rows)
    /\ phase' = IF txn[t].mode = "Prefill" THEN "Prefill" ELSE "Decode"
    /\ UNCHANGED <<epoch, released, txn, reported>>

\* commit_verification: r of the candidate rows are accepted, none of them is
\* an abort that changes nothing.
AcceptUnchecked(t, r) ==
    /\ txn[t] # NoTxn /\ txn[t].mode = "Verification"
    /\ Mutable /\ Matches(txn[t])
    /\ r # 0
    /\ Advance(txn[t], r)
    /\ phase' = "Decode"
    /\ UNCHANGED <<epoch, released, txn, reported>>
CommitVerification(t, r) ==
    /\ txn[t] # NoTxn /\ txn[t].mode = "Verification"
    /\ Mutable /\ Matches(txn[t])
    /\ r <= txn[t].rows
    /\ IF r = 0 THEN UNCHANGED <<machine, commits>>
                ELSE /\ Advance(txn[t], r)
                     /\ phase' = "Decode"
                     /\ UNCHANGED <<epoch, released>>
    /\ UNCHANGED <<txn, reported>>

\* poison: public, and what fail does after a possible device write.
Poison(t) ==
    /\ txn[t] # NoTxn
    /\ Mutable /\ Matches(txn[t])
    /\ phase' = "Poisoned"
    /\ UNCHANGED <<validLen, epoch, released, lastCommit, txn, commits, reported>>

\* A commit was made at the cursor of this plan, by it or by another one.
CursorUsed(plan) == \E i \in 1..Len(commits) :
    commits[i].epoch = plan.epoch /\ commits[i].prefix = plan.prefix

\* fail on a transaction with a recorded mutation, through fail_unproven: the
\* machine is poisoned, or the call is rejected.  (Before dispatch, fail is
\* abort_pre_dispatch, which changes nothing.)
Fail(t) ==
    /\ txn[t] # NoTxn /\ txn[t].mutated
    /\ reported' = (reported \/ ~CursorUsed(txn[t]))
    /\ phase' = IF Mutable /\ Matches(txn[t]) THEN "Poisoned" ELSE phase
    /\ UNCHANGED <<validLen, epoch, released, lastCommit, txn, commits>>

\* logical_reset: the epoch is advanced with checked_add.
ResetKeepsEpoch ==
    /\ Mutable /\ epoch < MaxEpoch
    /\ validLen' = 0 /\ phase' = "Fresh" /\ lastCommit' = NoCommit
    /\ UNCHANGED <<epoch, released, txn, commits, reported>>
ResetKeepsPhase ==
    /\ Mutable /\ epoch < MaxEpoch
    /\ validLen' = 0 /\ epoch' = epoch + 1 /\ lastCommit' = NoCommit
    /\ UNCHANGED <<phase, released, txn, commits, reported>>
LogicalReset ==
    /\ Mutable /\ epoch < MaxEpoch
    /\ validLen' = 0 /\ epoch' = epoch + 1
    /\ phase' = "Fresh" /\ lastCommit' = NoCommit
    /\ UNCHANGED <<released, txn, commits, reported>>

\* release: terminal, legal after poison.
Release ==
    /\ ~released
    /\ released' = TRUE
    /\ UNCHANGED <<validLen, epoch, phase, lastCommit, txn, commits, reported>>

Next ==
    \/ \E t \in Txns :
        \/ \E mode \in Modes, rows \in 0..(Capacity + 1) : BeginTransaction(t, mode, rows)
        \/ \E r \in 0..Capacity : CommitVerification(t, r)
        \/ RecordPossibleMutation(t) \/ DropTransaction(t)
        \/ Commit(t) \/ Poison(t) \/ Fail(t)
    \/ LogicalReset \/ Release

Spec == Init /\ [][Next]_sessionVars

-----------------------------------------------------------------------------
(* Properties.                                                             *)

\* Committed rows tile the sequence: within an epoch each commit starts where
\* the previous one ended and the first starts at zero, however many plans
\* were outstanding, re-presented, partly accepted or left over from before a
\* reset; so no row is committed twice, none is skipped, none lies past the
\* capacity, and epochs never go back (ensure_plan_matches, commit_verification).
CommitsTile ==
    \A i \in 1..Len(commits) :
        /\ commits[i].rows >= 1 /\ commits[i].prefix + commits[i].rows <= Capacity
        /\ IF i > 1 /\ commits[i - 1].epoch = commits[i].epoch
           THEN commits[i].prefix = commits[i - 1].prefix + commits[i - 1].rows
           ELSE commits[i].prefix = 0 /\ (i > 1 => commits[i - 1].epoch < commits[i].epoch)

\* The cursor the machine exposes is the end of what this epoch committed,
\* and last_commit describes the commit that put it there.
CursorIsLastCommit ==
    IF commits # <<>> /\ commits[Len(commits)].epoch = epoch
    THEN /\ lastCommit = commits[Len(commits)]
         /\ validLen = lastCommit.prefix + lastCommit.rows
    ELSE lastCommit = NoCommit /\ validLen = 0

\* A live sequence is Fresh exactly while nothing is committed, so a prefill
\* can run only once per epoch and decode and verification only after it
\* (the valid_len tests of begin_invocation never decide).
FreshIffEmpty == phase # "Poisoned" => (phase = "Fresh" <=> validLen = 0)

\* Every plan a caller holds, live or stale, ends within the capacity: what the
\* proofs know of a plan when it is committed.
LivePlansFit ==
    \A t \in Txns : txn[t] # NoTxn => txn[t].prefix + txn[t].rows <= Capacity

\* Poison and release are final: neither a commit, nor a reset, nor a failing
\* transaction changes the sequence again.
PoisonIsFinal ==
    [][released \/ phase = "Poisoned" =>
        /\ UNCHANGED <<validLen, epoch, phase, lastCommit, commits>>
        /\ released => released']_sessionVars

\* Rows are retired only by a reset, which also retires every plan made
\* before it; the epoch never goes back.
CursorMonotone ==
    [][/\ epoch' >= epoch
       /\ validLen' < validLen => epoch' = epoch + 1 /\ validLen' = 0]_sessionVars

\* inference_state.rs, fail: "Close a failed transaction: pre-dispatch stays
\* unchanged; a possible device write poisons because rollback is not proven."
ReportedWritePoisons == reported => phase = "Poisoned" \/ released
=============================================================================
