----------------------- MODULE InferenceSessionProofs -----------------------
(* Theorems about the sequence machine and the residency built on it, for  *)
(* every capacity, every largest epoch, any number of outstanding          *)
(* transactions and any number of weights.                                 *)
EXTENDS SessionResidency, TLAPS

\* What every outstanding plan carries from its admission: at least one row,
\* and an end within the capacity.
PlansSound ==
    \A t \in Txns : txn[t] # NoTxn =>
        txn[t].rows >= 1 /\ txn[t].prefix + txn[t].rows <= Capacity

\* No commit is from an epoch the machine has not reached.
CommitEpochs == \A i \in 1..Len(commits) : commits[i].epoch <= epoch

\* The inductive invariant.
SessionInv ==
    /\ TypeOK
    /\ PlansSound
    /\ CommitEpochs
    /\ CommitsTile
    /\ CursorIsLastCommit
    /\ FreshIffEmpty

\* The initial machine satisfies the invariant.
LEMMA SessionInvInit == Init => SessionInv
<1> SUFFICES ASSUME Init PROVE SessionInv
  OBVIOUS
<1>1. TypeOK /\ FreshIffEmpty
  <2>1. txn \in [Txns -> Plan \cup {NoTxn}]
    BY DEF Init
  <2>2. validLen \in 0..Capacity /\ epoch \in 1..MaxEpoch
    BY SessionAssumption DEF Init
  <2>3. commits \in Seq(Commits)
    BY DEF Init
  <2>4. phase \in Phases /\ released \in BOOLEAN /\ reported \in BOOLEAN
        /\ lastCommit \in Commits \cup {NoCommit}
    BY DEF Init, Phases
  <2> QED
    BY <2>1, <2>2, <2>3, <2>4 DEF TypeOK, FreshIffEmpty, Init
<1>2. PlansSound
  BY DEF Init, PlansSound
<1>3. commits = <<>> /\ Len(commits) = 0 /\ 1..Len(commits) = {}
  BY DEF Init
<1>4. CommitEpochs /\ CommitsTile
  BY <1>3 DEF CommitEpochs, CommitsTile
<1>5. CursorIsLastCommit
  BY <1>3 DEF Init, CursorIsLastCommit
<1> QED
  BY <1>1, <1>2, <1>4, <1>5 DEF SessionInv

\* A handle that holds a transaction holds a well-typed plan.
LEMMA HeldPlan ==
  ASSUME TypeOK, NEW t \in Txns, txn[t] # NoTxn
  PROVE  txn[t] \in Plan
  BY DEF TypeOK

\* begin_transaction plans within the capacity and changes nothing else.
LEMMA BeginKeepsInv ==
  ASSUME SessionInv, NEW t \in Txns, NEW mode \in Modes, NEW rows \in 0..(Capacity + 1),
         BeginTransaction(t, mode, rows)
  PROVE  SessionInv'
<1> DEFINE plan == [mode |-> mode, prefix |-> validLen, rows |-> rows,
                    epoch |-> epoch, mutated |-> FALSE]
<1>1. plan \in Plan /\ rows >= 1 /\ validLen + rows <= Capacity
  BY SessionAssumption DEF SessionInv, TypeOK, Plan, BeginTransaction, Admits
<1>2. txn' = [txn EXCEPT ![t] = plan] /\ UNCHANGED <<machine, commits, reported>>
  BY DEF BeginTransaction
<1> HIDE DEF plan
<1>3. TypeOK'
  BY <1>1, <1>2 DEF SessionInv, TypeOK, machine
<1>4. PlansSound'
  <2>1. plan.rows = rows /\ plan.prefix = validLen
    BY DEF plan
  <2> QED
    BY <1>1, <1>2, <2>1 DEF SessionInv, TypeOK, PlansSound
<1>5. CommitEpochs' /\ CommitsTile' /\ CursorIsLastCommit' /\ FreshIffEmpty'
  BY <1>2 DEF SessionInv, CommitEpochs, CommitsTile, CursorIsLastCommit, FreshIffEmpty,
     machine
<1> QED
  BY <1>3, <1>4, <1>5 DEF SessionInv

\* Advancing the cursor by some rows of a matching plan keeps the tiling.
LEMMA AdvanceKeepsInv ==
  ASSUME SessionInv, NEW plan \in Plan, NEW rows \in Nat,
         rows >= 1, plan.prefix + rows <= Capacity,
         Matches(plan), Advance(plan, rows),
         phase' \in {"Prefill", "Decode"},
         UNCHANGED <<epoch, released, txn, reported>>
  PROVE  SessionInv'
<1> DEFINE facts == [epoch |-> plan.epoch, prefix |-> plan.prefix, rows |-> rows]
<1>1. facts \in Commits /\ facts.epoch = epoch /\ facts.prefix = validLen /\ facts.rows = rows
  BY DEF Plan, Commits, Matches
<1>2. /\ validLen' = validLen + rows /\ lastCommit' = facts
      /\ commits' = Append(commits, facts)
  BY DEF Advance, Matches
<1>3. validLen + rows <= Capacity /\ validLen \in Nat /\ epoch \in Nat /\ commits \in Seq(Commits)
  BY SessionAssumption DEF SessionInv, TypeOK, Matches
<1> HIDE DEF facts
<1>4. /\ Len(commits') = Len(commits) + 1 /\ Len(commits) \in Nat
      /\ commits'[Len(commits) + 1] = facts
      /\ \A i \in 1..Len(commits) : commits'[i] = commits[i]
      /\ commits' \in Seq(Commits)
  BY <1>1, <1>2, <1>3
<1>5. TypeOK'
  BY <1>1, <1>2, <1>3, <1>4 DEF SessionInv, TypeOK, Phases
<1>6. PlansSound'
  BY DEF SessionInv, PlansSound
<1>7. CommitEpochs'
  BY <1>1, <1>3, <1>4 DEF SessionInv, CommitEpochs
<1>8. CommitsTile'
  <2> SUFFICES ASSUME NEW i \in 1..(Len(commits) + 1)
               PROVE  /\ commits'[i].rows >= 1
                      /\ commits'[i].prefix + commits'[i].rows <= Capacity
                      /\ IF i > 1 /\ commits'[i - 1].epoch = commits'[i].epoch
                         THEN commits'[i].prefix = commits'[i - 1].prefix + commits'[i - 1].rows
                         ELSE /\ commits'[i].prefix = 0
                              /\ i > 1 => commits'[i - 1].epoch < commits'[i].epoch
    BY <1>4 DEF CommitsTile
  <2>0. facts.prefix + facts.rows <= Capacity /\ facts.rows >= 1
    BY <1>1, <1>3
  <2>1. CASE i <= Len(commits)
    BY <1>4, <2>1 DEF SessionInv, CommitsTile
  <2>2. CASE i = Len(commits) + 1 /\ Len(commits) = 0
    <3>1. commits = <<>>
      BY <1>3, <2>2
    <3>2. validLen = 0
      BY <3>1 DEF SessionInv, CursorIsLastCommit
    <3> QED
      BY <1>1, <1>3, <1>4, <2>0, <2>2, <3>2
  <2>3. CASE i = Len(commits) + 1 /\ Len(commits) > 0
    <3> DEFINE last == commits[Len(commits)]
    <3>1. /\ commits'[i] = facts /\ commits'[i - 1] = last
          /\ last \in Commits /\ last.epoch <= epoch /\ commits # <<>>
      BY <1>3, <1>4, <2>3 DEF SessionInv, CommitEpochs
    <3>2. CASE last.epoch = epoch
      <4>1. validLen = last.prefix + last.rows
        BY <3>1, <3>2 DEF SessionInv, CursorIsLastCommit
      <4> QED
        BY <1>1, <2>0, <2>3, <3>1, <3>2, <4>1
    <3>3. CASE last.epoch # epoch
      <4>1. validLen = 0
        BY <3>1, <3>3 DEF SessionInv, CursorIsLastCommit
      <4>2. last.epoch < epoch
        BY <1>3, <3>1, <3>3 DEF Commits
      <4>3. /\ i > 1 /\ commits'[i - 1].epoch < commits'[i].epoch
            /\ commits'[i].prefix = 0 /\ commits'[i].rows >= 1
        BY <1>1, <1>4, <2>3, <3>1, <4>1, <4>2
      <4>4. commits'[i - 1].epoch # commits'[i].epoch
        BY <1>1, <3>1, <3>3
      <4> QED
        BY <2>0, <3>1, <4>3, <4>4
    <3> QED
      BY <3>2, <3>3
  <2> QED
    BY <1>3, <1>4, <2>1, <2>2, <2>3
<1>9. CursorIsLastCommit'
  BY <1>1, <1>2, <1>3, <1>4 DEF CursorIsLastCommit
<1>10. FreshIffEmpty'
  BY <1>2, <1>3 DEF FreshIffEmpty
<1> QED
  BY <1>5, <1>6, <1>7, <1>8, <1>9, <1>10 DEF SessionInv

\* The steps of one transaction handle keep the invariant.
LEMMA TransactionKeepsInv ==
  ASSUME SessionInv, NEW t \in Txns,
         \/ \E r \in 0..Capacity : CommitVerification(t, r)
         \/ RecordPossibleMutation(t) \/ DropTransaction(t)
         \/ Commit(t) \/ Poison(t) \/ Fail(t)
  PROVE  SessionInv'
<1>0. txn[t] # NoTxn /\ txn[t] \in Plan
  BY HeldPlan DEF SessionInv, CommitVerification, RecordPossibleMutation, DropTransaction,
     Commit, Poison, Fail
<1>1. CASE \E r \in 0..Capacity : CommitVerification(t, r)
  <2> PICK r \in 0..Capacity : CommitVerification(t, r)
    BY <1>1
  <2>1. CASE r = 0
    BY <2>1 DEF CommitVerification, SessionInv, TypeOK, PlansSound, CommitEpochs, CommitsTile,
       CursorIsLastCommit, FreshIffEmpty, machine
  <2>2. CASE r # 0
    <3>1. /\ r \in Nat /\ r >= 1 /\ txn[t].prefix + r <= Capacity
          /\ Matches(txn[t]) /\ Advance(txn[t], r) /\ phase' = "Decode"
          /\ UNCHANGED <<epoch, released, txn, reported>>
      BY <1>0, <2>2, SessionAssumption DEF CommitVerification, SessionInv, PlansSound, Plan
    <3> QED
      BY <1>0, <3>1, AdvanceKeepsInv
  <2> QED
    BY <2>1, <2>2
<1>2. CASE Commit(t)
  <2>1. /\ txn[t].rows \in Nat /\ txn[t].rows >= 1 /\ txn[t].prefix + txn[t].rows <= Capacity
        /\ Matches(txn[t]) /\ Advance(txn[t], txn[t].rows)
        /\ phase' \in {"Prefill", "Decode"}
        /\ UNCHANGED <<epoch, released, txn, reported>>
    BY <1>0, <1>2 DEF Commit, SessionInv, PlansSound, Plan
  <2> QED
    BY <1>0, <2>1, AdvanceKeepsInv
<1>3. CASE RecordPossibleMutation(t) \/ DropTransaction(t)
  <2>1. UNCHANGED <<machine, commits, reported>>
    BY <1>3 DEF RecordPossibleMutation, DropTransaction
  <2>2. \/ txn' = [txn EXCEPT ![t] = NoTxn]
        \/ txn' = [txn EXCEPT ![t].mutated = TRUE]
    BY <1>3 DEF RecordPossibleMutation, DropTransaction
  <2>3. \A s \in Txns : s # t => txn'[s] = txn[s]
    BY <2>2 DEF SessionInv, TypeOK
  <2>4. \/ txn'[t] = NoTxn
        \/ txn'[t] \in Plan /\ txn'[t].rows = txn[t].rows /\ txn'[t].prefix = txn[t].prefix
    BY <1>0, <2>2 DEF SessionInv, TypeOK, Plan
  <2>5. txn' \in [Txns -> Plan \cup {NoTxn}]
    BY <2>2, <2>3, <2>4 DEF SessionInv, TypeOK
  <2>6. TypeOK'
    BY <2>1, <2>5 DEF SessionInv, TypeOK, machine
  <2>7. PlansSound'
    BY <1>0, <2>3, <2>4 DEF SessionInv, PlansSound
  <2>8. CommitEpochs' /\ CommitsTile' /\ CursorIsLastCommit' /\ FreshIffEmpty'
    BY <2>1 DEF SessionInv, CommitEpochs, CommitsTile, CursorIsLastCommit, FreshIffEmpty,
       machine
  <2> QED
    BY <2>6, <2>7, <2>8 DEF SessionInv
<1>4. CASE Poison(t) \/ Fail(t)
  <2>1. /\ UNCHANGED <<validLen, epoch, released, lastCommit, txn, commits>>
        /\ phase' = "Poisoned" \/ phase' = phase
        /\ reported' \in BOOLEAN
    BY <1>4 DEF Poison, Fail, SessionInv, TypeOK
  <2> QED
    BY <2>1 DEF SessionInv, TypeOK, PlansSound, CommitEpochs, CommitsTile,
       CursorIsLastCommit, FreshIffEmpty, Phases
<1> QED
  BY <1>1, <1>2, <1>3, <1>4

\* A reset opens an epoch no commit belongs to.
LEMMA ResetKeepsInv ==
  ASSUME SessionInv, LogicalReset
  PROVE  SessionInv'
<1>1. TypeOK' /\ PlansSound'
  BY SessionAssumption
  DEF LogicalReset, SessionInv, TypeOK, PlansSound, Phases, NoCommit
<1>2. epoch' = epoch + 1 /\ epoch \in Nat /\ commits' = commits /\ commits \in Seq(Commits)
  BY SessionAssumption DEF LogicalReset, SessionInv, TypeOK
<1>3. CommitEpochs' /\ \A i \in 1..Len(commits) : commits[i].epoch # epoch'
  <2>1. ASSUME NEW i \in 1..Len(commits)
        PROVE  commits[i].epoch \in Nat /\ commits[i].epoch <= epoch
    <3>1. commits[i] \in Commits
      BY <1>2
    <3>2. commits[i].epoch \in Nat
      BY <3>1 DEF Commits
    <3> QED
      BY <3>2 DEF SessionInv, CommitEpochs
  <2>2. \A i \in 1..Len(commits) : commits[i].epoch <= epoch + 1 /\ commits[i].epoch # epoch + 1
    BY <1>2, <2>1
  <2> QED
    BY <1>2, <2>2 DEF CommitEpochs
<1>4. CommitsTile'
  BY <1>2 DEF SessionInv, CommitsTile
<1>5. commits # <<>> => Len(commits) \in 1..Len(commits)
  BY <1>2
<1>6. CursorIsLastCommit'
  BY <1>2, <1>3, <1>5 DEF LogicalReset, CursorIsLastCommit
<1>7. FreshIffEmpty'
  BY DEF LogicalReset, FreshIffEmpty
<1> QED
  BY <1>1, <1>3, <1>4, <1>6, <1>7 DEF SessionInv

\* Every step of the machine keeps the invariant.
LEMMA SessionInvStep ==
  ASSUME SessionInv, [Next]_sessionVars
  PROVE  SessionInv'
<1>1. CASE \E t \in Txns : \E mode \in Modes, rows \in 0..(Capacity + 1) :
        BeginTransaction(t, mode, rows)
  BY <1>1, BeginKeepsInv
<1>2. CASE \E t \in Txns :
        \/ \E r \in 0..Capacity : CommitVerification(t, r)
        \/ RecordPossibleMutation(t) \/ DropTransaction(t)
        \/ Commit(t) \/ Poison(t) \/ Fail(t)
  BY <1>2, TransactionKeepsInv
<1>3. CASE LogicalReset
  BY <1>3, ResetKeepsInv
<1>4. CASE Release
  BY <1>4 DEF Release, SessionInv, TypeOK, PlansSound, CommitEpochs, CommitsTile,
     CursorIsLastCommit, FreshIffEmpty
<1>5. CASE UNCHANGED sessionVars
  BY <1>5 DEF sessionVars, machine, SessionInv, TypeOK, PlansSound, CommitEpochs, CommitsTile,
     CursorIsLastCommit, FreshIffEmpty
<1> QED
  BY <1>1, <1>2, <1>3, <1>4, <1>5 DEF Next

\* The invariant holds in every reachable state.
LEMMA SessionInvariant == Spec => []SessionInv
  BY SessionInvInit, SessionInvStep, PTL DEF Spec

\* Committed rows tile the sequence in every epoch: no interleaving of plans,
\* commits, partly accepted verifications, failures and resets commits a row
\* twice, skips one, reaches past the capacity, or commits under an epoch that
\* is over (ensure_plan_matches, commit_verification).
THEOREM RowsCommittedOnce == Spec => []CommitsTile
<1>1. SessionInv => CommitsTile
  BY DEF SessionInv
<1> QED
  BY <1>1, SessionInvariant, PTL

\* The exposed cursor is always the end of the current epoch's last commit.
THEOREM CursorTracksCommits == Spec => []CursorIsLastCommit
<1>1. SessionInv => CursorIsLastCommit
  BY DEF SessionInv
<1> QED
  BY <1>1, SessionInvariant, PTL

\* Poison and release are final.
THEOREM PoisonFinal == Spec => PoisonIsFinal
<1>1. ASSUME [Next]_sessionVars, released \/ phase = "Poisoned"
      PROVE  UNCHANGED <<validLen, epoch, phase, lastCommit, commits>> /\ (released => released')
  BY <1>1 DEF Next, sessionVars, machine, BeginTransaction, CommitVerification,
     RecordPossibleMutation, DropTransaction, Commit, Poison, Fail, LogicalReset, Release, Mutable
<1> QED
  BY <1>1, PTL DEF Spec, PoisonIsFinal

\* Rows are retired only by a reset, which advances the epoch by one and
\* empties the sequence; no commit, poison, failure or release moves the
\* cursor back, and no step moves the epoch back.
THEOREM CursorNeverRetreats == Spec => CursorMonotone
<1>1. ASSUME SessionInv, SessionInv', [Next]_sessionVars
      PROVE  epoch' >= epoch /\ (validLen' < validLen => epoch' = epoch + 1 /\ validLen' = 0)
  <2>0. validLen \in Nat /\ epoch \in Nat /\ txn \in [Txns -> Plan \cup {NoTxn}]
    BY <1>1, SessionAssumption DEF SessionInv, TypeOK
  <2>1. ASSUME NEW plan \in Plan, NEW rows \in Nat, Matches(plan), Advance(plan, rows)
        PROVE  validLen' >= validLen
    BY <2>0, <2>1 DEF Matches, Advance, Plan
  <2>2. ASSUME NEW t \in Txns, Commit(t) PROVE validLen' >= validLen /\ epoch' = epoch
    <3>1. txn[t] \in Plan /\ txn[t].rows \in Nat
      BY <2>0, <2>2 DEF Commit, Plan
    <3> QED BY <2>1, <2>2, <3>1 DEF Commit
  <2>3. ASSUME NEW t \in Txns, NEW r \in 0..Capacity, CommitVerification(t, r)
        PROVE  validLen' >= validLen /\ epoch' = epoch
    <3>1. txn[t] \in Plan
      BY <2>0, <2>3 DEF CommitVerification
    <3>2. CASE r = 0
      BY <2>0, <2>3, <3>2 DEF CommitVerification, machine
    <3>3. CASE r # 0
      BY <2>1, <2>3, <3>1, <3>3, SessionAssumption DEF CommitVerification
    <3> QED BY <3>2, <3>3
  <2>4. CASE LogicalReset
    BY <2>0, <2>4 DEF LogicalReset
  <2>5. CASE UNCHANGED <<validLen, epoch>>
    BY <2>0, <2>5
  <2>6. CASE \E t \in Txns : \E mode \in Modes, rows \in 0..(Capacity + 1) :
               BeginTransaction(t, mode, rows)
    BY <2>5, <2>6 DEF BeginTransaction, machine
  <2>7. CASE \E t \in Txns : RecordPossibleMutation(t) \/ DropTransaction(t)
                               \/ Poison(t) \/ Fail(t)
    BY <2>5, <2>7 DEF RecordPossibleMutation, DropTransaction, Poison, Fail, machine
  <2>8. CASE Release \/ UNCHANGED sessionVars
    BY <2>5, <2>8 DEF Release, sessionVars, machine
  <2>9. ASSUME validLen' >= validLen, epoch' = epoch
        PROVE  epoch' >= epoch /\ (validLen' < validLen => epoch' = epoch + 1 /\ validLen' = 0)
    <3>1. validLen' \in Nat
      BY <1>1, SessionAssumption DEF SessionInv, TypeOK
    <3> QED BY <2>0, <2>9, <3>1
  <2> QED
    BY <1>1, <2>2, <2>3, <2>4, <2>6, <2>7, <2>8, <2>9 DEF Next
<1> QED
  BY <1>1, SessionInvariant, PTL DEF Spec, CursorMonotone

-----------------------------------------------------------------------------
(* The residency around the machine.  Each of its operations takes a step of *)
(* the machine, so all of the above holds of it; what it adds is the mirror  *)
(* the device reads and the accounting of its allocations.                   *)

\* An operation of the residency is an operation of the machine it owns.
LEMMA ResidencyStepIsMachineStep ==
  ASSUME [ResidencyNext]_residencyVars
  PROVE  [Next]_sessionVars
BY DEF ResidencyNext, residencyVars, ResidencyBegin, ResidencyRecord, ResidencyCommit,
       ResidencyFail, ResidencyReset, ResidencyRelease, Next

\* SequenceResidency uses its machine only through the machine's operations:
\* every behaviour of the residency is one of the sequence machine.
THEOREM ResidencyRefinesMachine == ResidencySpec => Spec
<1>1. ResidencyInit => Init
  BY DEF ResidencyInit
<1> QED
  BY <1>1, ResidencyStepIsMachineStep, PTL DEF ResidencySpec, Spec

\* The inductive part: what the residency keeps besides the machine.  The mirror
\* is at the cursor because commit is refused unless its plan's epoch is live.
LEMMA ResidencyStep ==
  ASSUME SessionInv, ResidencyInv, [ResidencyNext]_residencyVars, SessionInv'
  PROVE  ResidencyInv'
<1> USE DEF ResidencyTypeOK, MirrorFollowsCursor, AllocationsReleasedOnce
<1>0. /\ TypeOK' /\ FreshIffEmpty' /\ TypeOK
      /\ ResidencyTypeOK /\ MirrorFollowsCursor /\ AllocationsReleasedOnce
      /\ epoch \in Nat /\ epoch' \in Nat /\ Allocations \in Nat
  BY SessionAssumption, ResidencyAssumption
  DEF SessionInv, ResidencyInv, TypeOK, Allocations
<1>1. ASSUME UNCHANGED <<validLen, epoch, lastCommit, released, invocationState, ownVars>>
      PROVE  ResidencyInv'
  BY <1>0, <1>1 DEF ResidencyInv, ownVars
<1>2. ASSUME NEW t \in Txns, NEW mode \in Modes, NEW rows \in 0..(Capacity + 1),
             ResidencyBegin(t, mode, rows)
      PROVE  ResidencyInv'
  BY <1>1, <1>2 DEF ResidencyBegin, BeginTransaction, machine
<1>3. ASSUME NEW t \in Txns, ResidencyRecord(t) \/ ResidencyFail(t)
      PROVE  ResidencyInv'
  BY <1>1, <1>3 DEF ResidencyRecord, ResidencyFail, RecordPossibleMutation,
                    DropTransaction, Fail, machine
<1>4. ASSUME NEW t \in Txns, ResidencyCommit(t) PROVE ResidencyInv'
  <2>1. /\ txn[t] \in Plan /\ txn[t].prefix \in Nat /\ txn[t].rows \in Nat
    BY <1>0, <1>4, HeldPlan DEF ResidencyCommit, Commit, Plan
  <2>2. /\ UNCHANGED <<epoch, released, ownVars>>
        /\ validLen' = txn[t].prefix + txn[t].rows
        /\ lastCommit'.rows = txn[t].rows
        /\ invocationState' = [position |-> txn[t].prefix,
                               after |-> txn[t].prefix + txn[t].rows,
                               rows |-> txn[t].rows, epoch |-> epoch']
    BY <1>4 DEF ResidencyCommit, Commit, Advance, SyncCursor
  <2>3. invocationState' \in [position : Nat, after : Nat, rows : Nat, epoch : Nat]
    BY <1>0, <2>1, <2>2
  <2> QED BY <1>0, <2>2, <2>3 DEF ResidencyInv, ownVars
<1>5. CASE ResidencyReset
  <2>1. /\ validLen' = 0 /\ epoch' = epoch + 1 /\ lastCommit' = [rows |-> 0]
        /\ resetCount' = resetCount + 1
        /\ UNCHANGED <<released, liveHandles, releasedCount>>
        /\ invocationState' = [position |-> 0, after |-> 0 + 0, rows |-> 0, epoch |-> epoch']
    BY <1>5 DEF ResidencyReset, LogicalReset, SyncCursor, NoCommit
  <2>2. invocationState' \in [position : Nat, after : Nat, rows : Nat, epoch : Nat]
    BY <1>0, <2>1
  <2> QED BY <1>0, <2>1, <2>2 DEF ResidencyInv
<1>6. CASE ResidencyRelease
  <2>1. /\ ~released /\ released' = TRUE /\ liveHandles' = FALSE
        /\ releasedCount' = IF liveHandles THEN releasedCount + Allocations
                                           ELSE releasedCount
        /\ UNCHANGED <<validLen, epoch, lastCommit, invocationState, resetCount>>
    BY <1>6 DEF ResidencyRelease, Release
  <2>2. releasedCount' = Allocations
    BY <1>0, <2>1
  <2> QED BY <1>0, <2>1, <2>2 DEF ResidencyInv
<1>7. CASE UNCHANGED residencyVars
  BY <1>1, <1>7 DEF residencyVars, sessionVars, machine
<1> QED
  BY <1>2, <1>3, <1>4, <1>5, <1>6, <1>7 DEF ResidencyNext

\* The invocation state the device programs read is always at the machine's
\* live cursor and epoch, and release gives every allocation back exactly once.
THEOREM ResidencySound == ResidencySpec => []ResidencyInv
<1>1. ResidencyInit /\ SessionInv => ResidencyInv
  BY ResidencyAssumption
  DEF ResidencyInit, Init, SessionInv, ResidencyInv, ResidencyTypeOK, MirrorFollowsCursor,
      AllocationsReleasedOnce, Allocations, NoCommit
<1> QED
  BY <1>1, ResidencyStep, ResidencyRefinesMachine, SessionInvariant, PTL DEF ResidencySpec
=============================================================================
