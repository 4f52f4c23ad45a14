--------------------- MODULE ExecutionTransactionProofs ---------------------
(* Theorems about the execution transaction, for every accepted plan, any    *)
(* set of partitions and any number of repeated operations.                 *)
EXTENDS ExecutionTransaction, FiniteSetTheorems, WellFoundedInduction, TLAPS

-----------------------------------------------------------------------------
(* What SumBytes of TransactionPlan computes, for every finite set of writes: *)
(* it does not depend on the order in which the fold takes the writes.  The   *)
(* library's induction theorems are replaced by least counterexamples.        *)

\* A non-empty set of naturals has a least element.
LEMMA LeastNatural ==
  ASSUME NEW T \in SUBSET Nat, T # {}
  PROVE  \E m \in T : \A k \in T : m <= k
<1>1. PICK m \in T : \A k \in T : ~(<<k, m>> \in OpToRel(<, Nat))
  BY NatLessThanWellFounded, WFMin, Zenon
<1>2. \A k \in T : ~(k < m)
  BY <1>1 DEF OpToRel
<1> QED
  BY <1>2

\* Among finite sets one has the fewest elements.
LEMMA SmallestSet ==
  ASSUME NEW F, F # {}, \A s \in F : IsFiniteSet(s)
  PROVE  \E s \in F : \A t \in F : Cardinality(s) <= Cardinality(t)
<1> DEFINE T == {Cardinality(s) : s \in F}
<1>1. T \in SUBSET Nat /\ T # {}
  BY FS_CardinalityType
<1>2. PICK m \in T : \A k \in T : m <= k
  BY <1>1, LeastNatural
<1> QED
  BY <1>2

-----------------------------------------------------------------------------
(* The fold as a function on the subsets of a set.                           *)

Pick(s) == CHOOSE w \in s : TRUE

\* The equation of the fold, for a family D of sets.
FoldEquation(g, D) ==
    g = [s \in D |-> IF s = {} THEN 0 ELSE Pick(s).bytes + g[s \ {Pick(s)}]]

Fold(S) == CHOOSE g : FoldEquation(g, SUBSET S)

\* SumBytes is that function at its whole set.
LEMMA SumIsFold == ASSUME NEW S PROVE SumBytes(S) = Fold(S)[S]
  BY DEF SumBytes, MapThenSumSet, MapThenFoldSet, Fold, FoldEquation, Pick

LEMMA PickIn == ASSUME NEW s, s # {} PROVE Pick(s) \in s
  BY DEF Pick

\* Taking the picked write out of a finite set leaves one fewer.
LEMMA PickShrinks ==
  ASSUME NEW s, IsFiniteSet(s), s # {}
  PROVE  /\ IsFiniteSet(s \ {Pick(s)})
         /\ Cardinality(s) \in Nat /\ Cardinality(s \ {Pick(s)}) \in Nat
         /\ Cardinality(s \ {Pick(s)}) = Cardinality(s) - 1
  BY PickIn, FS_RemoveElement, FS_CardinalityType

\* The fold of a finite set exists: a function for the subsets of at most n
\* writes extends to those of n + 1.
LEMMA FoldExists ==
  ASSUME NEW S, IsFiniteSet(S)
  PROVE  FoldEquation(Fold(S), SUBSET S)
<1> DEFINE D(n) == {s \in SUBSET S : Cardinality(s) <= n}
           Bad == {n \in Nat : ~\E g : FoldEquation(g, D(n))}
<1>0. \A s \in SUBSET S : IsFiniteSet(s) /\ Cardinality(s) \in Nat
  BY FS_Subset, FS_CardinalityType
<1>1. Bad = {}
  <2> SUFFICES ASSUME Bad # {} PROVE FALSE
    OBVIOUS
  <2>1. PICK m \in Bad : \A k \in Bad : m <= k
    <3>1. Bad \in SUBSET Nat
      OBVIOUS
    <3> QED
      BY <3>1, LeastNatural
  <2>2. m \in Nat /\ ~\E g : FoldEquation(g, D(m))
    OBVIOUS
  <2>3. CASE m = 0
    <3> DEFINE g == [s \in D(0) |-> 0]
    <3>1. \A s \in D(0) : s = {}
      <4> SUFFICES ASSUME NEW s \in D(0) PROVE s = {}
        OBVIOUS
      <4>1. IsFiniteSet(s) /\ Cardinality(s) = 0
        BY <1>0
      <4> QED
        BY <4>1, FS_EmptySet
    <3>2. FoldEquation(g, D(0))
      BY <3>1 DEF FoldEquation
    <3> QED
      BY <2>2, <2>3, <3>2
  <2>4. CASE m > 0
    <3>1. m - 1 \in Nat /\ m - 1 \notin Bad
      <4> HIDE DEF Bad
      <4> QED
        BY <2>1, <2>2, <2>4
    <3>2. PICK g : FoldEquation(g, D(m - 1))
      BY <3>1
    <3> DEFINE h == [s \in D(m) |-> IF s = {} THEN 0 ELSE Pick(s).bytes + g[s \ {Pick(s)}]]
    <3>3. \A s \in D(m) : s # {} => s \ {Pick(s)} \in D(m - 1) /\ s \ {Pick(s)} \in D(m)
      <4> SUFFICES ASSUME NEW s \in D(m), s # {}
                   PROVE  s \ {Pick(s)} \in D(m - 1) /\ s \ {Pick(s)} \in D(m)
        OBVIOUS
      <4>1. Cardinality(s) \in Nat /\ Cardinality(s \ {Pick(s)}) = Cardinality(s) - 1
        BY <1>0, PickShrinks
      <4> QED
        BY <2>2, <4>1
    <3>4. \A s \in D(m) : s # {} => h[s \ {Pick(s)}] = g[s \ {Pick(s)}]
      <4> SUFFICES ASSUME NEW s \in D(m), s # {}
                   PROVE  h[s \ {Pick(s)}] = g[s \ {Pick(s)}]
        OBVIOUS
      <4> DEFINE t == s \ {Pick(s)}
      <4>1. t \in D(m - 1) /\ t \in D(m)
        BY <3>3
      <4> HIDE DEF t
      <4>2. g[t] = IF t = {} THEN 0 ELSE Pick(t).bytes + g[t \ {Pick(t)}]
        BY <3>2, <4>1 DEF FoldEquation
      <4>3. h[t] = IF t = {} THEN 0 ELSE Pick(t).bytes + g[t \ {Pick(t)}]
        BY <4>1
      <4> QED
        BY <4>2, <4>3 DEF t
    <3>5. FoldEquation(h, D(m))
      <4> DEFINE e == [s \in D(m) |-> IF s = {} THEN 0 ELSE Pick(s).bytes + h[s \ {Pick(s)}]]
      <4>1. \A s \in D(m) : h[s] = e[s]
        BY <3>4
      <4>2. h = e
        BY <4>1
      <4> QED
        BY <4>2 DEF FoldEquation
    <3> QED
      BY <2>2, <3>5
  <2> QED
    BY <2>2, <2>3, <2>4
<1>2. D(Cardinality(S)) = SUBSET S /\ Cardinality(S) \in Nat
  BY FS_Subset, FS_CardinalityType
<1>3. \E g : FoldEquation(g, SUBSET S)
  BY <1>1, <1>2
<1> QED
  BY <1>3 DEF Fold

\* Folds of two sets agree on what both contain.
LEMMA FoldsAgree ==
  ASSUME NEW S, NEW T, IsFiniteSet(S), IsFiniteSet(T)
  PROVE  \A s \in (SUBSET S) \cap (SUBSET T) : Fold(S)[s] = Fold(T)[s]
<1> DEFINE Bad == {s \in (SUBSET S) \cap (SUBSET T) : Fold(S)[s] # Fold(T)[s]}
<1> SUFFICES ASSUME Bad # {} PROVE FALSE
  OBVIOUS
<1>1. \A s \in Bad : IsFiniteSet(s)
  BY FS_Subset
<1>2. PICK s \in Bad : \A t \in Bad : Cardinality(s) <= Cardinality(t)
  <2> HIDE DEF Bad
  <2> QED
    BY <1>1, SmallestSet
<1>3. /\ Fold(S)[s] = IF s = {} THEN 0 ELSE Pick(s).bytes + Fold(S)[s \ {Pick(s)}]
      /\ Fold(T)[s] = IF s = {} THEN 0 ELSE Pick(s).bytes + Fold(T)[s \ {Pick(s)}]
  <2>1. FoldEquation(Fold(S), SUBSET S) /\ FoldEquation(Fold(T), SUBSET T)
    BY FoldExists
  <2> QED
    BY <2>1 DEF FoldEquation
<1>4. s # {}
  BY <1>3
<1>5. s \ {Pick(s)} \notin Bad
  <2>1. /\ Cardinality(s) \in Nat
        /\ Cardinality(s \ {Pick(s)}) = Cardinality(s) - 1
    BY <1>1, <1>4, PickShrinks
  <2> HIDE DEF Bad
  <2> QED
    BY <1>2, <2>1
<1>6. Fold(S)[s \ {Pick(s)}] = Fold(T)[s \ {Pick(s)}]
  BY <1>5
<1> QED
  BY <1>3, <1>4, <1>6

\* The equations of SumBytes.
LEMMA SumBytesEmpty == SumBytes({}) = 0
<1>1. IsFiniteSet({}) /\ {} \in SUBSET {}
  BY FS_EmptySet
<1>2. FoldEquation(Fold({}), SUBSET {})
  BY <1>1, FoldExists
<1> QED
  BY <1>1, <1>2, SumIsFold DEF FoldEquation

LEMMA SumBytesPick ==
  ASSUME NEW S, IsFiniteSet(S), S # {}
  PROVE  SumBytes(S) = Pick(S).bytes + SumBytes(S \ {Pick(S)})
<1> DEFINE R == S \ {Pick(S)}
<1>1. Fold(S)[S] = Pick(S).bytes + Fold(S)[R]
  BY FoldExists DEF FoldEquation
<1>2. IsFiniteSet(R)
  BY PickShrinks
<1>3. Fold(S)[R] = Fold(R)[R]
  <2>1. R \in (SUBSET S) \cap (SUBSET R)
    OBVIOUS
  <2> HIDE DEF R
  <2> QED
    BY <1>2, <2>1, FoldsAgree
<1> QED
  BY <1>1, <1>3, SumIsFold

\* A finite set of writes.
Writes(S) == IsFiniteSet(S) /\ \A w \in S : w.bytes \in Nat

LEMMA SumBytesNat ==
  ASSUME NEW S, Writes(S)
  PROVE  SumBytes(S) \in Nat
<1> DEFINE Bad == {s \in SUBSET S : SumBytes(s) \notin Nat}
<1> SUFFICES ASSUME Bad # {} PROVE FALSE
  OBVIOUS
<1>1. \A s \in Bad : IsFiniteSet(s)
  BY FS_Subset DEF Writes
<1>2. PICK s \in Bad : \A t \in Bad : Cardinality(s) <= Cardinality(t)
  <2> HIDE DEF Bad
  <2> QED
    BY <1>1, SmallestSet
<1>3. s # {}
  BY SumBytesEmpty
<1>4. s \ {Pick(s)} \notin Bad
  <2>1. /\ Cardinality(s) \in Nat
        /\ Cardinality(s \ {Pick(s)}) = Cardinality(s) - 1
    BY <1>1, <1>3, PickShrinks
  <2> HIDE DEF Bad
  <2> QED
    BY <1>2, <2>1
<1>5. SumBytes(s \ {Pick(s)}) \in Nat /\ Pick(s).bytes \in Nat
  BY <1>3, <1>4, PickIn DEF Writes
<1> QED
  BY <1>1, <1>3, <1>5, SumBytesPick

LEMMA WritesSubset ==
  ASSUME NEW S, Writes(S), NEW T \in SUBSET S
  PROVE  Writes(T)
  BY FS_Subset DEF Writes

\* Any write may be taken out first.
LEMMA SumBytesRemove ==
  ASSUME NEW S, Writes(S), NEW w \in S
  PROVE  SumBytes(S) = w.bytes + SumBytes(S \ {w})
<1> DEFINE Bad == {s \in SUBSET S : \E v \in s : SumBytes(s) # v.bytes + SumBytes(s \ {v})}
<1> SUFFICES ASSUME Bad # {} PROVE FALSE
  OBVIOUS
<1>1. \A s \in Bad : IsFiniteSet(s)
  BY FS_Subset DEF Writes
<1>2. PICK s \in Bad : \A t \in Bad : Cardinality(s) <= Cardinality(t)
  <2> HIDE DEF Bad
  <2> QED
    BY <1>1, SmallestSet
<1>3. PICK v \in s : SumBytes(s) # v.bytes + SumBytes(s \ {v})
  OBVIOUS
<1> DEFINE x == Pick(s)
<1>4. x \in s /\ IsFiniteSet(s) /\ s \in SUBSET S
  BY <1>1, PickIn
<1>5. SumBytes(s) = x.bytes + SumBytes(s \ {x})
  BY <1>4, SumBytesPick
<1> HIDE DEF x
<1>6. v # x
  BY <1>3, <1>5
<1>7. \A y \in s : s \ {y} \notin Bad
  <2> SUFFICES ASSUME NEW y \in s PROVE s \ {y} \notin Bad
    OBVIOUS
  <2>1. Cardinality(s) \in Nat /\ Cardinality(s \ {y}) = Cardinality(s) - 1
    BY <1>4, FS_CardinalityType, FS_RemoveElement
  <2> HIDE DEF Bad
  <2> QED
    BY <1>2, <2>1
<1>8. /\ SumBytes(s \ {x}) = v.bytes + SumBytes((s \ {x}) \ {v})
      /\ SumBytes(s \ {v}) = x.bytes + SumBytes((s \ {v}) \ {x})
  BY <1>4, <1>6, <1>7
<1>9. (s \ {x}) \ {v} = (s \ {v}) \ {x}
  OBVIOUS
<1>10. x.bytes \in Nat /\ v.bytes \in Nat /\ SumBytes((s \ {v}) \ {x}) \in Nat
  <2>1. Writes((s \ {v}) \ {x})
    BY <1>4, WritesSubset
  <2> QED
    BY <1>4, <2>1, SumBytesNat DEF Writes
<1> QED
  BY <1>3, <1>5, <1>8, <1>9, <1>10

\* Disjoint sets of writes add up.
LEMMA SumBytesUnion ==
  ASSUME NEW S, NEW T, Writes(S), Writes(T), S \cap T = {}
  PROVE  SumBytes(S \cup T) = SumBytes(S) + SumBytes(T)
<1> DEFINE Bad == {t \in SUBSET T : SumBytes(S \cup t) # SumBytes(S) + SumBytes(t)}
<1> SUFFICES ASSUME Bad # {} PROVE FALSE
  OBVIOUS
<1>1. \A t \in Bad : IsFiniteSet(t)
  BY FS_Subset DEF Writes
<1>2. PICK t \in Bad : \A u \in Bad : Cardinality(t) <= Cardinality(u)
  <2> HIDE DEF Bad
  <2> QED
    BY <1>1, SmallestSet
<1>3. t # {}
  <2>1. SumBytes(S) \in Nat /\ S \cup {} = S
    BY SumBytesNat
  <2> QED
    BY <2>1, SumBytesEmpty
<1>4. PICK w \in t : TRUE
  BY <1>3
<1>5. t \ {w} \notin Bad
  <2>1. Cardinality(t) \in Nat /\ Cardinality(t \ {w}) = Cardinality(t) - 1
    BY <1>1, <1>4, FS_CardinalityType, FS_RemoveElement
  <2> HIDE DEF Bad
  <2> QED
    BY <1>2, <2>1
<1>6. SumBytes(S \cup (t \ {w})) = SumBytes(S) + SumBytes(t \ {w})
  BY <1>5
<1>7. Writes(t) /\ Writes(t \ {w}) /\ Writes(S \cup t)
  <2>1. Writes(t) /\ Writes(t \ {w})
    BY WritesSubset
  <2> QED
    BY <2>1, FS_Union DEF Writes
<1>8. (S \cup t) \ {w} = S \cup (t \ {w})
  OBVIOUS
<1>9. /\ SumBytes(t) = w.bytes + SumBytes(t \ {w})
      /\ SumBytes(S \cup t) = w.bytes + SumBytes(S \cup (t \ {w}))
  BY <1>7, <1>8, SumBytesRemove
<1>10. w.bytes \in Nat /\ SumBytes(S) \in Nat /\ SumBytes(t \ {w}) \in Nat
  BY <1>7, SumBytesNat DEF Writes
<1> QED
  BY <1>6, <1>9, <1>10

\* What is left after a subset is withdrawn.
LEMMA SumBytesDifference ==
  ASSUME NEW S, Writes(S), NEW T \in SUBSET S
  PROVE  SumBytes(S \ T) = SumBytes(S) - SumBytes(T)
<1>1. Writes(T) /\ Writes(S \ T) /\ (S \ T) \cup T = S /\ (S \ T) \cap T = {}
  BY WritesSubset
<1>2. SumBytes(S) = SumBytes(S \ T) + SumBytes(T)
  BY <1>1, SumBytesUnion
<1> QED
  BY <1>1, <1>2, SumBytesNat

-----------------------------------------------------------------------------
(* The transaction.                                                          *)

\* The writes of the first n operations of a plan.
WritesOf(p, n) == UNION {StagedWrites(p.ops[i]) : i \in 1..n}

\* Types, without the byte counters.
TxnType ==
    /\ plan \in Plans
    /\ state \in States /\ failure \in Failures
    /\ cursor \in 1..(Len(plan.ops) + 1)
    /\ executed \in Seq(1..Len(plan.ops))
    /\ stagedWrites \subseteq Declared(plan) /\ staged \subseteq Declared(plan)
    /\ completed \cup dispatched \cup events \subseteq AllEvents(plan)
    /\ publishedOnce \in BOOLEAN /\ (publishedOnce <=> state = "Committed")

\* What each state says of the loop in execute.  Inside it the writes staged
\* are those of the operations before the cursor.
LoopInv ==
    /\ state \in {"New", "Prepared"} => cursor = 1 /\ executed = <<>> /\ stagedWrites = {}
    /\ state = "Executing" =>
        /\ stagedWrites = WritesOf(plan, cursor - 1)
        /\ cursor - 1 <= Len(executed)
        /\ \A i \in 1..(cursor - 1) : executed[i] = i
        /\ Running => Len(executed) = cursor - 1

\* What each state says of the reservation.
ReservationInv ==
    /\ state = "New" => reserved = {} /\ held \subseteq Referenced(plan)
                        /\ buffers \subseteq Referenced(plan)
    /\ state \in {"Prepared", "Executing", "Failed"} =>
        reserved = Referenced(plan) /\ held = reserved /\ buffers \subseteq reserved
    /\ state \notin {"Committed", "Aborted"} => released = {} /\ retired = {}

\* The inductive invariant.
TxnInv ==
    /\ TxnType /\ LoopInv /\ ReservationInv
    /\ completed \subseteq events
    /\ StagedRecordExact /\ PublicationSafe /\ TeardownComplete

-----------------------------------------------------------------------------
(* Plans.                                                                   *)

\* An operation of the plan, its writes, events and partitions.
LEMMA OperationOfPlan ==
  ASSUME plan \in Plans, NEW i \in 1..Len(plan.ops)
  PROVE  /\ StagedWrites(plan.ops[i]) \subseteq Declared(plan)
         /\ CompletedEvents(plan.ops[i]) \subseteq AllEvents(plan)
         /\ plan.ops[i].parts \subseteq Referenced(plan)
<1>1. plan.ops[i] \in Ops(plan)
  BY DEF Ops
<1> QED
  BY <1>1 DEF Declared, AllEvents, Referenced

\* Every declared write is for a referenced partition, of the model.
LEMMA WritesInside ==
  ASSUME plan \in Plans
  PROVE  /\ \A w \in Declared(plan) : w.part \in Referenced(plan)
         /\ Referenced(plan) \subseteq Partitions
<1>1. ASSUME NEW w \in Declared(plan)
      PROVE  w.part \in Referenced(plan)
  <2>1. PICK op \in Ops(plan) : w \in StagedWrites(op)
    BY DEF Declared
  <2>2. PICK p \in op.to : w = [op |-> OperationRef(op), part |-> p, bytes |-> op.bytes]
    BY <2>1 DEF StagedWrites
  <2> QED
    BY <2>1, <2>2, PlansAssumption DEF Referenced
<1>2. Referenced(plan) \subseteq Partitions
  BY PlansAssumption DEF Referenced
<1> QED
  BY <1>1, <1>2

\* The writes of a prefix, grown by one operation, up to the declared ones.
LEMMA PrefixWrites ==
  ASSUME plan \in Plans
  PROVE  /\ Len(plan.ops) \in Nat
         /\ WritesOf(plan, 0) = {}
         /\ \A n \in 0..(Len(plan.ops) - 1) :
              WritesOf(plan, n + 1) = WritesOf(plan, n) \cup StagedWrites(plan.ops[n + 1])
         /\ WritesOf(plan, Len(plan.ops)) = Declared(plan)
<1>1. Len(plan.ops) \in Nat
  BY PlansAssumption
<1>2. WritesOf(plan, 0) = {}
  BY DEF WritesOf
<1>3. ASSUME NEW n \in 0..(Len(plan.ops) - 1)
      PROVE  WritesOf(plan, n + 1) = WritesOf(plan, n) \cup StagedWrites(plan.ops[n + 1])
  <2>1. 1..(n + 1) = (1..n) \cup {n + 1}
    BY <1>1
  <2> QED
    BY <2>1 DEF WritesOf
<1>4. WritesOf(plan, Len(plan.ops)) = Declared(plan)
  BY DEF WritesOf, Declared, Ops
<1> QED
  BY <1>1, <1>2, <1>3, <1>4

-----------------------------------------------------------------------------
(* One lemma per action.                                                    *)

LEMMA TxnInvInit == Init => TxnInv
<1> SUFFICES ASSUME Init PROVE TxnInv
  OBVIOUS
<1>1. Len(plan.ops) \in Nat
  BY PlansAssumption DEF Init
<1>2. TxnType
  <2>1. cursor \in 1..(Len(plan.ops) + 1) /\ executed \in Seq(1..Len(plan.ops))
    BY <1>1 DEF Init
  <2>2. publishedOnce \in BOOLEAN /\ (publishedOnce <=> state = "Committed")
    BY DEF Init
  <2> QED
    BY <2>1, <2>2 DEF Init, TxnType, States, Failures
<1>3. LoopInv /\ ReservationInv /\ StagedRecordExact /\ PublicationSafe /\ TeardownComplete
  BY DEF Init, LoopInv, ReservationInv, StagedRecordExact, PublicationSafe,
     NoPartialPublication, CommittedPastBoundary, TeardownComplete
<1> QED
  BY <1>2, <1>3 DEF TxnInv, Init

\* Nothing is held before prepare runs to its end, so it holds what it records.
LEMMA PrepareKeepsInv == TxnInv /\ Prepare => TxnInv'
<1> SUFFICES ASSUME TxnInv, Prepare PROVE TxnInv'
  OBVIOUS
<1>1. TxnType'
  BY DEF TxnInv, Prepare, TxnType, States, publishVars
<1>2. LoopInv'
  BY DEF TxnInv, Prepare, LoopInv
<1>3. ReservationInv'
  <2>1. held = {} /\ buffers \subseteq Referenced(plan)
    BY DEF TxnInv, ReservationInv, Prepare
  <2> QED
    BY <2>1 DEF TxnInv, Prepare, ReservationInv
<1>4. StagedRecordExact' /\ PublicationSafe' /\ TeardownComplete'
  BY DEF TxnInv, Prepare, StagedRecordExact, PublicationSafe, NoPartialPublication,
     CommittedPastBoundary, TeardownComplete, publishVars
<1> QED
  BY <1>1, <1>2, <1>3, <1>4 DEF TxnInv, Prepare

\* A prepare that fails leaves only partitions of the plan behind.
LEMMA PrepareFailsKeepsInv ==
  ASSUME TxnInv, NEW q \in Partitions, PrepareFails(q)
  PROVE  TxnInv'
<1>1. TxnType' /\ LoopInv'
  BY DEF TxnInv, PrepareFails, TxnType, LoopInv, Running, publishVars, txnVars
<1>2. ReservationInv'
  BY DEF TxnInv, PrepareFails, ReservationInv, txnVars
<1>3. StagedRecordExact' /\ PublicationSafe' /\ TeardownComplete'
  BY DEF TxnInv, PrepareFails, StagedRecordExact, PublicationSafe, NoPartialPublication,
     CommittedPastBoundary, TeardownComplete, publishVars, txnVars
<1> QED
  BY <1>1, <1>2, <1>3 DEF TxnInv, PrepareFails, txnVars

LEMMA ExecuteKeepsInv == TxnInv /\ Execute => TxnInv'
<1> SUFFICES ASSUME TxnInv, Execute PROVE TxnInv'
  OBVIOUS
<1>1. TxnType'
  BY DEF TxnInv, Execute, TxnType, States, publishVars, txnVars
<1>2. LoopInv'
  <2>1. cursor' = 1 /\ executed' = <<>> /\ stagedWrites' = {} /\ plan' = plan
    BY DEF TxnInv, Execute, LoopInv, txnVars
  <2>2. WritesOf(plan, 0) = {} /\ Len(executed') = 0
    BY <2>1, PrefixWrites DEF TxnInv, TxnType
  <2> QED
    BY <2>1, <2>2 DEF Execute, LoopInv
<1>3. ReservationInv' /\ StagedRecordExact' /\ PublicationSafe' /\ TeardownComplete'
  BY DEF TxnInv, Execute, ReservationInv, StagedRecordExact, PublicationSafe,
     NoPartialPublication, CommittedPastBoundary, TeardownComplete, publishVars, txnVars
<1> QED
  BY <1>1, <1>2, <1>3 DEF TxnInv, Execute, txnVars

\* An operation that fails on its device has touched only its own partitions.
LEMMA RunFailsKeepsInv ==
  ASSUME TxnInv, state = "Executing", NEW i \in 1..Len(plan.ops),
         RunFails(plan.ops[i]), UNCHANGED <<plan, held, publishVars, cursor>>
  PROVE  TxnInv'
<1>1. state' = "Failed" /\ failure' = "backend"
  BY DEF RunFails, Fail
<1>2. UNCHANGED <<plan, held, cursor, published, publishedBytes, publishedOnce, reserved,
                  staged, executed, completed, released, retired, stagedWrites, events,
                  dispatched>>
  BY DEF RunFails, txnVars, publishVars
<1>3. buffers' \subseteq buffers \cup plan.ops[i].parts
  BY DEF RunFails
<1>4. TxnType' /\ LoopInv'
  BY <1>1, <1>2 DEF TxnInv, TxnType, LoopInv, States, Failures
<1>5. ReservationInv'
  <2>1. plan.ops[i].parts \subseteq Referenced(plan)
    BY OperationOfPlan DEF TxnInv, TxnType
  <2> QED
    BY <1>1, <1>2, <1>3, <2>1 DEF TxnInv, ReservationInv
<1>6. StagedRecordExact' /\ PublicationSafe' /\ TeardownComplete'
  BY <1>1, <1>2 DEF TxnInv, StagedRecordExact, PublicationSafe, NoPartialPublication,
     CommittedPastBoundary, TeardownComplete
<1> QED
  BY <1>2, <1>4, <1>5, <1>6 DEF TxnInv

\* What run_operation dispatches stays inside the plan.
LEMMA DispatchInside ==
  ASSUME TxnInv, state = "Executing", NEW i \in 1..Len(plan.ops), Dispatch(plan.ops[i])
  PROVE  /\ buffers' \subseteq Referenced(plan)
         /\ dispatched' \cup events' \subseteq AllEvents(plan)
         /\ events \subseteq events'
<1>1. /\ CompletedEvents(plan.ops[i]) \subseteq AllEvents(plan)
      /\ plan.ops[i].parts \subseteq Referenced(plan)
  BY OperationOfPlan DEF TxnInv, TxnType
<1>2. buffers \subseteq Referenced(plan) /\ dispatched \cup events \subseteq AllEvents(plan)
  BY DEF TxnInv, TxnType, ReservationInv
<1> QED
  BY <1>1, <1>2 DEF Dispatch

\* A stage that fails in the middle keeps both records of what is staged equal.
LEMMA StageFailsKeepsInv ==
  ASSUME TxnInv, state = "Executing", NEW i \in 1..Len(plan.ops),
         StageFails(plan.ops[i]), UNCHANGED <<plan, held, publishVars, cursor>>
  PROVE  TxnInv'
<1>1. state' = "Failed" /\ failure' = "backend"
  BY DEF StageFails, Fail
<1>2. UNCHANGED <<plan, held, cursor, published, publishedBytes, publishedOnce, reserved,
                  executed, completed, released, retired>>
  BY DEF StageFails, publishVars
<1>3. PICK before \in SUBSET StagedWrites(plan.ops[i]) :
        stagedWrites' = stagedWrites \cup before /\ staged' = staged \cup before
  BY DEF StageFails, Stage
<1>4. before \subseteq Declared(plan)
  BY <1>3, OperationOfPlan DEF TxnInv, TxnType
<1>5. /\ buffers' \subseteq Referenced(plan)
      /\ dispatched' \cup events' \subseteq AllEvents(plan)
      /\ events \subseteq events'
  BY DispatchInside DEF StageFails
<1>6. TxnType' /\ LoopInv'
  BY <1>1, <1>2, <1>3, <1>4, <1>5 DEF TxnInv, TxnType, LoopInv, States, Failures
<1>7. ReservationInv'
  BY <1>1, <1>2, <1>5 DEF TxnInv, ReservationInv
<1>8. StagedRecordExact' /\ PublicationSafe' /\ TeardownComplete'
  BY <1>1, <1>2, <1>3 DEF TxnInv, StagedRecordExact, PublicationSafe, NoPartialPublication,
     CommittedPastBoundary, TeardownComplete
<1> QED
  BY <1>2, <1>5, <1>6, <1>7, <1>8 DEF TxnInv

\* Everything but the loop's own bookkeeping, for an operation that succeeds.
LEMMA RunSucceedsKeepsRest ==
  ASSUME TxnInv, state = "Executing", NEW i \in 1..Len(plan.ops),
         RunSucceeds(i), UNCHANGED <<plan, held, publishVars>>,
         cursor' \in 1..(Len(plan.ops) + 1), LoopInv'
  PROVE  TxnInv'
<1>1. UNCHANGED <<plan, held, state, failure, published, publishedBytes, publishedOnce,
                  reserved, released, retired>>
  BY DEF RunSucceeds, publishVars
<1>2. /\ stagedWrites' = stagedWrites \cup StagedWrites(plan.ops[i])
      /\ staged' = staged \cup StagedWrites(plan.ops[i])
      /\ executed' = Append(executed, i)
      /\ completed' \subseteq completed \cup (CompletedEvents(plan.ops[i]) \cap events')
  BY DEF RunSucceeds, Stage
<1>3. /\ StagedWrites(plan.ops[i]) \subseteq Declared(plan)
      /\ CompletedEvents(plan.ops[i]) \subseteq AllEvents(plan)
  BY OperationOfPlan DEF TxnInv, TxnType
<1>4. /\ buffers' \subseteq Referenced(plan)
      /\ dispatched' \cup events' \subseteq AllEvents(plan)
      /\ events \subseteq events'
  BY DispatchInside DEF RunSucceeds
<1>5. executed' \in Seq(1..Len(plan.ops))
  BY <1>2 DEF TxnInv, TxnType
<1>6. TxnType'
  BY <1>1, <1>2, <1>3, <1>4, <1>5 DEF TxnInv, TxnType
<1>7. ReservationInv'
  BY <1>1, <1>4 DEF TxnInv, ReservationInv
<1>8. StagedRecordExact' /\ PublicationSafe' /\ TeardownComplete'
  BY <1>1, <1>2 DEF TxnInv, StagedRecordExact, PublicationSafe, NoPartialPublication,
     CommittedPastBoundary, TeardownComplete
<1>9. completed' \subseteq events'
  BY <1>2, <1>4 DEF TxnInv
<1> QED
  BY <1>6, <1>7, <1>8, <1>9 DEF TxnInv

\* One turn of the loop in execute.
LEMMA ExecuteNextKeepsInv == TxnInv /\ ExecuteNext => TxnInv'
<1> SUFFICES ASSUME TxnInv, ExecuteNext PROVE TxnInv'
  OBVIOUS
<1>1. /\ state = "Executing" /\ cursor <= Len(plan.ops) /\ cursor \in 1..Len(plan.ops)
      /\ Len(plan.ops) \in Nat
      /\ UNCHANGED <<plan, held, publishVars>>
  BY PrefixWrites DEF TxnInv, TxnType, ExecuteNext, Running, ExecuteOperation
<1>2. CASE RunFails(plan.ops[cursor])
  <2>1. cursor' = cursor
    BY <1>2 DEF RunFails, Fail, ExecuteNext
  <2> QED
    BY <1>1, <1>2, <2>1, RunFailsKeepsInv
<1>3. CASE StageFails(plan.ops[cursor])
  <2>1. cursor' = cursor
    BY <1>3 DEF StageFails, Fail, ExecuteNext
  <2> QED
    BY <1>1, <1>3, <2>1, StageFailsKeepsInv
<1>4. CASE RunSucceeds(cursor)
  <2>1. state' = "Executing" /\ plan' = plan /\ cursor' = cursor + 1
    BY <1>1, <1>4 DEF RunSucceeds, ExecuteNext
  <2>2. /\ stagedWrites' = stagedWrites \cup StagedWrites(plan.ops[cursor])
        /\ executed' = Append(executed, cursor)
    BY <1>4 DEF RunSucceeds, Stage
  <2>3. /\ stagedWrites = WritesOf(plan, cursor - 1) /\ Len(executed) = cursor - 1
        /\ \A k \in 1..(cursor - 1) : executed[k] = k
    BY <1>1 DEF TxnInv, LoopInv, Running
  <2>4. stagedWrites' = WritesOf(plan, cursor)
    <3>1. /\ cursor - 1 \in 0..(Len(plan.ops) - 1) /\ (cursor - 1) + 1 = cursor
          /\ plan \in Plans
      BY <1>1 DEF TxnInv, TxnType
    <3> QED
      BY <2>2, <2>3, <3>1, PrefixWrites
  <2>5. Len(executed') = cursor /\ \A k \in 1..cursor : executed'[k] = k
    BY <1>1, <2>2, <2>3 DEF TxnInv, TxnType
  <2>6. LoopInv'
    BY <1>1, <2>1, <2>4, <2>5 DEF LoopInv
  <2>7. cursor' \in 1..(Len(plan.ops) + 1)
    BY <1>1, <2>1
  <2> QED
    BY <1>1, <1>4, <2>6, <2>7, RunSucceedsKeepsRest
<1> QED
  BY <1>2, <1>3, <1>4 DEF ExecuteNext, ExecuteOperation

\* An operation named again after the loop: one with writes is refused by the
\* backend, so the staged writes stay the declared ones.
LEMMA ExecuteAgainKeepsInv ==
  ASSUME TxnInv, NEW i \in 1..Len(plan.ops), ExecuteAgain(i)
  PROVE  TxnInv'
<1>1. /\ state = "Executing" /\ ~Running /\ cursor' = cursor
      /\ UNCHANGED <<plan, held, publishVars, cursor>>
      /\ cursor \in 1..(Len(plan.ops) + 1) /\ Len(plan.ops) \in Nat
  BY PrefixWrites DEF TxnInv, TxnType, ExecuteAgain, ExecuteOperation
<1>2. CASE RunFails(plan.ops[i])
  BY <1>1, <1>2, RunFailsKeepsInv
<1>3. CASE StageFails(plan.ops[i])
  BY <1>1, <1>3, StageFailsKeepsInv
<1>4. CASE RunSucceeds(i)
  <2>1. state' = "Executing" /\ plan' = plan /\ cursor = Len(plan.ops) + 1
    BY <1>1, <1>4 DEF RunSucceeds, Running
  <2>2. stagedWrites = Declared(plan)
    <3>1. stagedWrites = WritesOf(plan, cursor - 1) /\ cursor - 1 = Len(plan.ops)
      BY <1>1, <2>1 DEF TxnInv, LoopInv
    <3> QED
      BY <3>1, PrefixWrites DEF TxnInv, TxnType
  <2>3. stagedWrites' = stagedWrites
    <3>1. StagedWrites(plan.ops[i]) \subseteq Declared(plan)
      BY OperationOfPlan DEF TxnInv, TxnType
    <3> QED
      BY <1>4, <2>2, <3>1 DEF RunSucceeds, Stage
  <2>4. /\ executed' = Append(executed, i) /\ executed \in Seq(1..Len(plan.ops))
        /\ cursor - 1 <= Len(executed) /\ \A k \in 1..(cursor - 1) : executed[k] = k
    BY <1>1, <1>4 DEF RunSucceeds, TxnInv, TxnType, LoopInv
  <2>5. /\ cursor - 1 <= Len(executed')
        /\ \A k \in 1..(cursor - 1) : executed'[k] = k
    BY <1>1, <2>4
  <2>6. LoopInv'
    BY <1>1, <2>1, <2>3, <2>5 DEF TxnInv, LoopInv, Running
  <2> QED
    BY <1>1, <1>4, <2>6, RunSucceedsKeepsRest
<1> QED
  BY <1>2, <1>3, <1>4 DEF ExecuteAgain, ExecuteOperation

LEMMA EventCompletesKeepsInv ==
  ASSUME TxnInv, NEW e \in AllEvents(plan), EventCompletes(e)
  PROVE  TxnInv'
<1>1. events' = events \cup {e}
  BY DEF EventCompletes
<1>2. UNCHANGED <<plan, state, failure, cursor, reserved, staged, executed, completed,
                  released, retired, held, buffers, stagedWrites, published,
                  publishedOnce, dispatched>>
  BY DEF EventCompletes, txnVars, publishVars
<1>3. TxnType' /\ LoopInv' /\ ReservationInv' /\ StagedRecordExact' /\ TeardownComplete'
  BY <1>1, <1>2 DEF TxnInv, TxnType, LoopInv, Running, ReservationInv, StagedRecordExact,
     TeardownComplete
<1>4. PublicationSafe'
  BY <1>1, <1>2 DEF TxnInv, PublicationSafe, NoPartialPublication, CommittedPastBoundary
<1> QED
  BY <1>1, <1>2, <1>3, <1>4 DEF TxnInv

\* A commit that finds the boundary open, or whose publication fails, only
\* refreshes the events it knows of.
LEMMA CommitRefusedKeepsInv ==
  ASSUME TxnInv, CommitNotReached \/ PublishFails
  PROVE  TxnInv'
<1>1. completed' \subseteq events
  BY DEF TxnInv, CommitNotReached, PublishFails, Refreshed
<1>2. /\ UNCHANGED <<plan, cursor, reserved, staged, executed, released, retired, held,
                     buffers, stagedWrites, published, publishedOnce, dispatched, events>>
      /\ state = "Executing" /\ ~Running
      /\ \/ state' = state /\ failure' = failure
         \/ state' = "Failed" /\ failure' = "publish"
  BY DEF CommitNotReached, PublishFails, Fail, publishVars
<1>3. TxnType'
  BY <1>1, <1>2 DEF TxnInv, TxnType, States, Failures
<1>4. LoopInv' /\ ReservationInv' /\ StagedRecordExact' /\ TeardownComplete'
  BY <1>2 DEF TxnInv, LoopInv, Running, ReservationInv, StagedRecordExact, TeardownComplete
<1>5. PublicationSafe'
  BY <1>2 DEF TxnInv, PublicationSafe, NoPartialPublication, CommittedPastBoundary
<1> QED
  BY <1>1, <1>2, <1>3, <1>4, <1>5 DEF TxnInv

\* commit runs after the loop, so what it publishes is the declared write set.
LEMMA CommitKeepsInv == TxnInv /\ Commit => TxnInv'
<1> SUFFICES ASSUME TxnInv, Commit PROVE TxnInv'
  OBVIOUS
<1>1. /\ UNCHANGED <<plan, failure, cursor, reserved, staged, executed, retired,
                     stagedWrites, dispatched, events>>
      /\ state = "Executing" /\ state' = "Committed" /\ published' = stagedWrites
      /\ publishedOnce' = TRUE /\ completed' = Refreshed
  BY DEF Commit
<1>2. cursor = Len(plan.ops) + 1 /\ Len(plan.ops) \in Nat /\ cursor - 1 = Len(plan.ops)
  BY PrefixWrites DEF TxnInv, TxnType, Commit, Running
<1>3. stagedWrites = Declared(plan)
  BY <1>1, <1>2, PrefixWrites DEF TxnInv, TxnType, LoopInv
<1>4. completed' \subseteq events
  BY <1>1 DEF TxnInv, Refreshed
<1>5. TxnType'
  <2>1. publishedOnce' \in BOOLEAN /\ (publishedOnce' <=> state' = "Committed")
    BY <1>1
  <2> QED
    BY <1>1, <1>4, <2>1 DEF TxnInv, TxnType, States
<1>6. LoopInv' /\ ReservationInv' /\ StagedRecordExact'
  BY <1>1 DEF TxnInv, LoopInv, ReservationInv, StagedRecordExact
<1>7. PublicationSafe'
  <2>1. BoundaryEvents(plan) \subseteq events
    BY <1>4, <1>1 DEF Commit, BoundaryReached
  <2>2. \A i \in 1..Len(plan.ops) : i <= Len(executed) /\ executed[i] = i
    BY <1>1, <1>2 DEF TxnInv, TxnType, LoopInv
  <2> QED
    BY <1>1, <1>3, <2>1, <2>2 DEF PublicationSafe, NoPartialPublication, CommittedPastBoundary
<1>8. TeardownComplete'
  BY <1>1 DEF TxnInv, ReservationInv, Commit, FreePartitions, TeardownComplete
<1> QED
  BY <1>1, <1>4, <1>5, <1>6, <1>7, <1>8 DEF TxnInv

\* abort retires the staged partitions, releases the others and withdraws
\* every staged write.
LEMMA AbortKeepsInv == TxnInv /\ Abort => TxnInv'
<1> SUFFICES ASSUME TxnInv, Abort PROVE TxnInv'
  OBVIOUS
<1> DEFINE parts == {w.part : w \in staged}
<1>1. /\ UNCHANGED <<plan, cursor, reserved, staged, executed, completed, published,
                     publishedOnce, dispatched, events>>
      /\ state \in {"New", "Prepared", "Executing", "Failed"} /\ state' = "Aborted"
      /\ failure' \in Failures
      /\ held' = held \ (parts \cup reserved) /\ buffers' = buffers \ (parts \cup reserved)
      /\ retired' = retired \cup parts /\ released' = released \cup (reserved \ parts)
  BY DEF Abort, Abortable, FreePartitions, publishVars, TxnInv, TxnType, Failures
<1>2. stagedWrites' = {}
  <2>1. staged = stagedWrites
    BY <1>1 DEF TxnInv, StagedRecordExact
  <2> QED
    BY <2>1 DEF Abort, Withdrawn
<1>3. TxnType'
  <2>1. publishedOnce' \in BOOLEAN /\ (publishedOnce' <=> state' = "Committed")
    BY <1>1 DEF TxnInv, TxnType
  <2> QED
    BY <1>1, <1>2, <2>1 DEF TxnInv, TxnType, States
<1>4. LoopInv' /\ ReservationInv' /\ StagedRecordExact' /\ PublicationSafe'
  BY <1>1 DEF TxnInv, LoopInv, ReservationInv, StagedRecordExact, PublicationSafe,
     NoPartialPublication, CommittedPastBoundary
<1>5. TeardownComplete'
  <2>1. CASE state = "New"
    BY <1>1, <2>1 DEF TxnInv, ReservationInv, TeardownComplete
  <2>2. CASE state # "New"
    <3>1. parts \subseteq reserved /\ held = reserved /\ buffers \subseteq reserved
          /\ released = {} /\ retired = {}
      BY <1>1, <2>2, WritesInside DEF TxnInv, TxnType, ReservationInv
    <3> QED
      BY <1>1, <1>2, <3>1 DEF TeardownComplete
  <2> QED
    BY <2>1, <2>2
<1> QED
  BY <1>1, <1>3, <1>4, <1>5 DEF TxnInv

LEMMA StepKeepsInv == TxnInv /\ [Next]_vars => TxnInv'
<1> SUFFICES ASSUME TxnInv, [Next]_vars PROVE TxnInv'
  OBVIOUS
<1>1. ASSUME UNCHANGED vars PROVE TxnInv'
  BY <1>1 DEF vars, txnVars, publishVars, TxnInv, TxnType, LoopInv, Running, ReservationInv,
     StagedRecordExact, PublicationSafe, NoPartialPublication, CommittedPastBoundary,
     TeardownComplete
<1> QED
  BY <1>1, PrepareKeepsInv, PrepareFailsKeepsInv, ExecuteKeepsInv, ExecuteNextKeepsInv,
     ExecuteAgainKeepsInv, EventCompletesKeepsInv, CommitRefusedKeepsInv, CommitKeepsInv,
     AbortKeepsInv DEF Next, Ended

LEMMA InvariantHolds == Spec => []TxnInv
  BY TxnInvInit, StepKeepsInv, PTL DEF Spec

\* The partitions of every record are those the plan refers to.
ReservedInside ==
    reserved \cup released \cup retired \cup held \cup buffers \subseteq Referenced(plan)

LEMMA ReservedHolds == Spec => []ReservedInside
<1>1. Init => ReservedInside
  BY DEF Init, ReservedInside
<1>2. ASSUME TxnInv, ReservedInside, [Next]_vars PROVE ReservedInside'
  <2>1. \A w \in staged : w.part \in Referenced(plan)
    BY <1>2, WritesInside DEF TxnInv, TxnType
  <2>2. ASSUME NEW i \in 1..Len(plan.ops), ExecuteOperation(i) PROVE ReservedInside'
    <3>1. plan.ops[i].parts \subseteq Referenced(plan)
      BY <1>2, OperationOfPlan DEF TxnInv, TxnType
    <3> QED
      BY <1>2, <2>2, <3>1 DEF ExecuteOperation, RunFails, StageFails, Dispatch, RunSucceeds,
         txnVars, ReservedInside
  <2>3. CASE ExecuteNext
    BY <1>2, <2>2, <2>3, PrefixWrites DEF ExecuteNext, Running, TxnInv, TxnType
  <2>4. ASSUME NEW i \in 1..Len(plan.ops), ExecuteAgain(i) PROVE ReservedInside'
    BY <2>2, <2>4 DEF ExecuteAgain
  <2>5. CASE Prepare \/ \E q \in Partitions : PrepareFails(q)
    BY <1>2, <2>5 DEF Prepare, PrepareFails, txnVars, ReservedInside
  <2>6. CASE Commit
    BY <1>2, <2>6 DEF Commit, FreePartitions, ReservedInside
  <2>7. CASE Abort
    BY <1>2, <2>1, <2>7 DEF Abort, FreePartitions, ReservedInside
  <2> QED
    BY <1>2, <2>3, <2>4, <2>5, <2>6, <2>7 DEF Next, Execute, EventCompletes,
       CommitNotReached, PublishFails, Ended, vars, txnVars, ReservedInside
<1> QED
  BY <1>1, <1>2, InvariantHolds, PTL DEF Spec

-----------------------------------------------------------------------------
(* The byte counters.                                                       *)

\* A plan declares finitely many writes.
LEMMA DeclaredFinite ==
  ASSUME plan \in Plans
  PROVE  Writes(Declared(plan))
<1>1. Len(plan.ops) \in Nat
  BY PlansAssumption
<1>2. ASSUME NEW op \in Ops(plan)
      PROVE  IsFiniteSet(StagedWrites(op)) /\ \A w \in StagedWrites(op) : w.bytes \in Nat
  <2> DEFINE f == [p \in op.to |-> [op |-> OperationRef(op), part |-> p, bytes |-> op.bytes]]
  <2>1. f \in Surjection(op.to, StagedWrites(op))
    BY DEF Surjection, StagedWrites
  <2>2. IsFiniteSet(op.to)
    BY PlansAssumption, FS_Subset
  <2>3. IsFiniteSet(StagedWrites(op))
    <3> HIDE DEF f
    <3> QED
      BY <2>1, <2>2, FS_Surjection
  <2>4. \A w \in StagedWrites(op) : w.bytes \in Nat
    BY PlansAssumption DEF StagedWrites
  <2> QED
    BY <2>3, <2>4
<1> DEFINE Sets == {StagedWrites(op) : op \in Ops(plan)}
           f == [i \in 1..Len(plan.ops) |-> StagedWrites(plan.ops[i])]
<1>3. f \in Surjection(1..Len(plan.ops), Sets)
  BY DEF Surjection, Ops
<1>4. IsFiniteSet(1..Len(plan.ops))
  BY <1>1, FS_Interval
<1>5. IsFiniteSet(Sets)
  <2> HIDE DEF f, Sets
  <2> QED
    BY <1>3, <1>4, FS_Surjection
<1>6. \A S \in Sets : IsFiniteSet(S)
  BY <1>2
<1>7. IsFiniteSet(UNION Sets)
  <2> HIDE DEF Sets
  <2> QED
    BY <1>5, <1>6, FS_UNION
<1>8. UNION Sets = Declared(plan)
  BY DEF Declared
<1>9. \A w \in Declared(plan) : w.bytes \in Nat
  BY <1>2 DEF Declared
<1> HIDE DEF Sets
<1> QED
  BY <1>7, <1>8, <1>9 DEF Writes

\* Staging adds exactly what was not staged before.
LEMMA StageCounts ==
  ASSUME TxnInv, BytesMatchWrites, NEW new \in SUBSET Declared(plan),
         new \cap stagedWrites = {}, Stage(new)
  PROVE  stagedBytes' = SumBytes(stagedWrites')
<1>1. Writes(stagedWrites) /\ Writes(new)
  BY DeclaredFinite, WritesSubset DEF TxnInv, TxnType
<1>2. SumBytes(stagedWrites \cup new) = SumBytes(stagedWrites) + SumBytes(new)
  BY <1>1, SumBytesUnion
<1> QED
  BY <1>2 DEF Stage, BytesMatchWrites

\* Every step keeps the counters equal to the sizes of the sets.
LEMMA StepKeepsBytes == TxnInv /\ BytesMatchWrites /\ [Next]_vars => BytesMatchWrites'
<1> SUFFICES ASSUME TxnInv, BytesMatchWrites, [Next]_vars PROVE BytesMatchWrites'
  OBVIOUS
<1>1. ASSUME UNCHANGED <<stagedWrites, stagedBytes, publishVars>> PROVE BytesMatchWrites'
  BY <1>1 DEF BytesMatchWrites, publishVars
<1>2. ASSUME NEW i \in 1..Len(plan.ops), ExecuteOperation(i) PROVE BytesMatchWrites'
  <2>1. UNCHANGED <<published, publishedBytes>>
    BY <1>2 DEF ExecuteOperation, publishVars
  <2>2. StagedWrites(plan.ops[i]) \subseteq Declared(plan)
    BY OperationOfPlan DEF TxnInv, TxnType
  <2>3. CASE RunFails(plan.ops[i])
    BY <2>1, <2>3 DEF RunFails, BytesMatchWrites
  <2>4. CASE StageFails(plan.ops[i])
    <3>1. PICK new \in SUBSET StagedWrites(plan.ops[i]) : new \cap stagedWrites = {} /\ Stage(new)
      BY <2>4 DEF StageFails
    <3> QED
      BY <2>1, <2>2, <3>1, StageCounts DEF BytesMatchWrites
  <2>5. CASE RunSucceeds(i)
    <3>1. /\ StagedWrites(plan.ops[i]) \cap stagedWrites = {}
          /\ Stage(StagedWrites(plan.ops[i]))
      BY <2>5 DEF RunSucceeds
    <3> QED
      BY <2>1, <2>2, <3>1, StageCounts DEF BytesMatchWrites
  <2> QED
    BY <1>2, <2>3, <2>4, <2>5 DEF ExecuteOperation
<1>3. CASE ExecuteNext
  BY <1>2, <1>3, PrefixWrites DEF ExecuteNext, Running, TxnInv, TxnType
<1>4. CASE Commit
  BY <1>4 DEF Commit, BytesMatchWrites
<1>5. CASE Abort
  <2> DEFINE gone == Withdrawn({w.part : w \in staged})
  <2>1. Writes(stagedWrites) /\ gone \in SUBSET stagedWrites
    BY DeclaredFinite, WritesSubset DEF TxnInv, TxnType, Withdrawn
  <2>2. stagedWrites' = stagedWrites \ gone /\ stagedBytes' = stagedBytes - SumBytes(gone)
        /\ UNCHANGED <<published, publishedBytes>>
    BY <1>5 DEF Abort, publishVars
  <2> HIDE DEF gone
  <2> QED
    BY <2>1, <2>2, SumBytesDifference DEF BytesMatchWrites
<1> QED
  BY <1>1, <1>2, <1>3, <1>4, <1>5 DEF Next, Prepare, PrepareFails, Execute, ExecuteAgain,
     EventCompletes, CommitNotReached, PublishFails, Ended, vars

-----------------------------------------------------------------------------
(* Theorems.                                                                *)

\* Readers see nothing of a transaction that has not committed and the whole
\* declared write set of one that has, which happens only past its boundary,
\* with every operation run in plan order: whichever backend call fails, for
\* every plan and however often operations are named again.
THEOREM PublicationIsSafe == Spec => []PublicationSafe
<1>1. TxnInv => PublicationSafe
  BY DEF TxnInv
<1> QED
  BY <1>1, InvariantHolds, PTL

\* Commit and abort of a transaction that prepared leave no reservation and no
\* device buffer behind, and account for every reserved partition once.
THEOREM TeardownIsComplete == Spec => []TeardownComplete
<1>1. TxnInv => TeardownComplete
  BY DEF TxnInv
<1> QED
  BY <1>1, InvariantHolds, PTL

\* Operations, failed ones too, touch only partitions prepare reserved.
THEOREM WorkStaysInside == Spec => []WorkInsideReservation
<1>1. ASSUME TxnInv PROVE WorkInsideReservation
  <2>1. \A w \in staged : w.part \in Referenced(plan)
    BY <1>1, WritesInside DEF TxnInv, TxnType
  <2> QED
    BY <1>1, <2>1 DEF TxnInv, ReservationInv, WorkInsideReservation
<1> QED
  BY <1>1, InvariantHolds, PTL

\* The transaction implements atomic publication: the decision is taken once,
\* commit makes the whole write set visible in one step and no other step
\* changes what readers see.
THEOREM RefinesAtomicPublication == Spec => ImplementsAtomicPublication
<1>1. Init => Abstract!Init
  BY DEF Init, Abstract!Init
<1>2. ASSUME TxnInv, TxnInv', [Next]_vars PROVE [Abstract!Next]_Abstract!vars
  <2>1. CASE Commit
    <3>1. /\ state = "Executing" /\ state' = "Committed" /\ plan' = plan
      BY <2>1 DEF Commit
    <3>2. published' = Declared(plan)
      BY <1>2, <3>1 DEF TxnInv, PublicationSafe, NoPartialPublication
    <3> QED
      BY <3>1, <3>2 DEF Abstract!Next, Abstract!Commit
  <2>2. CASE Abort
    <3>1. /\ state \in {"New", "Prepared", "Executing", "Failed"} /\ state' = "Aborted"
          /\ plan' = plan /\ published' = published
      BY <2>2 DEF Abort, Abortable, publishVars
    <3> QED
      BY <3>1 DEF Abstract!Next, Abstract!Abort
  <2>3. CASE ~Commit /\ ~Abort
    <3>1. /\ plan' = plan /\ published' = published
          /\ \/ state' = state
             \/ state \notin {"Committed", "Aborted"} /\ state' \notin {"Committed", "Aborted"}
      BY <1>2, <2>3 DEF Next, Prepare, PrepareFails, Execute, ExecuteNext, ExecuteAgain,
         ExecuteOperation, RunFails, StageFails, RunSucceeds, Fail, EventCompletes,
         CommitNotReached, PublishFails, Ended, vars, txnVars, publishVars
    <3> QED
      BY <3>1 DEF Abstract!vars
  <2> QED
    BY <2>1, <2>2, <2>3
<1> QED
  BY <1>1, <1>2, InvariantHolds, PTL DEF Spec, ImplementsAtomicPublication, Abstract!Spec

\* The transaction, the backend and the byte counters agree on what is staged
\* and published, also when a stage fails between two writes of an operation;
\* no counter goes below zero.
THEOREM StagingIsExact == Spec => []StagingExact
<1>1. Init => BytesMatchWrites
  BY SumBytesEmpty DEF Init, BytesMatchWrites
<1>2. Spec => []BytesMatchWrites
  BY <1>1, StepKeepsBytes, InvariantHolds, PTL DEF Spec
<1>3. ASSUME TxnInv, ReservedInside, BytesMatchWrites PROVE StagingExact
  <2>1. Writes(Declared(plan)) /\ Referenced(plan) \subseteq Partitions
    BY <1>3, DeclaredFinite, WritesInside DEF TxnInv, TxnType
  <2>2. published \subseteq Declared(plan) /\ stagedWrites \subseteq Declared(plan)
    BY <1>3 DEF TxnInv, TxnType, PublicationSafe, NoPartialPublication
  <2>3. stagedBytes \in Nat /\ publishedBytes \in Nat
    BY <1>3, <2>1, <2>2, WritesSubset, SumBytesNat DEF BytesMatchWrites
  <2>4. TypeOK
    BY <1>3, <2>1, <2>2, <2>3 DEF TxnInv, TxnType, TypeOK, ReservedInside
  <2> QED
    BY <1>3, <2>4 DEF StagingExact, TxnInv
<1> QED
  BY <1>2, <1>3, InvariantHolds, ReservedHolds, PTL
=============================================================================
