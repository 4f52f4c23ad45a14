----------------------- MODULE DistributedHostProofs ------------------------
(* Theorems about the distributed host, for any hardware, any requests,      *)
(* plans and images, any failing driver queries and any bound on epochs.    *)
EXTENDS DistributedHost, SequenceTheorems, FiniteSetTheorems, WellFoundedInduction, TLAPS

\* The snapshot is of the units its probe found, and no entry is of a
\* generation to come.  Once every change is observed, an entry of the current
\* generation means that the units found are those in place.
SnapshotSound ==
    /\ probe.backend \in Backends
    /\ probe.present \in Seq(DOMAIN Units) /\ DOMAIN snap = DOMAIN probe.present
    /\ DOMAIN snap # {}
    /\ \A i \in DOMAIN snap : snap[i].generation \in Nat /\ snap[i].generation <= epoch
    /\ observed /\ (\E i \in DOMAIN snap : snap[i].generation = epoch)
            => ToSet(probe.present) = ToSet(hw[probe.backend])

\* The inductive invariant of planning.
PlaceInv ==
    /\ hw \in [Backends -> Seq(DOMAIN Units)]
    /\ epoch \in Nat /\ epoch >= InitialGeneration
    /\ snap # NoSnapshot => SnapshotSound
    /\ AdmittedIsInPlace

\* Nothing that ranks or binds is on record.
Unplanned(l) == l.op \notin {"evaluate", "bind"}

LEMMA UnplannedInPlace ==
    ASSUME Unplanned(last)
    PROVE  AdmittedIsInPlace
BY DEF Unplanned, AdmittedIsInPlace, Ranked

\* Renumbering permutes the units in place.
LEMMA ReverseSameUnits ==
    ASSUME NEW S, NEW s \in Seq(S)
    PROVE  Reverse(s) \in Seq(S) /\ ToSet(Reverse(s)) = ToSet(s)
<1>1. PICK n \in Nat : n = Len(s) /\ DOMAIN s = 1..n /\ \A i \in 1..n : s[i] \in S
  BY LenProperties, ElementOfSeq
<1>2. Reverse(s) = [i \in 1..n |-> s[(n - i) + 1]]
  BY <1>1 DEF Reverse
<1>3. \A i \in 1..n : (n - i) + 1 \in 1..n /\ n - ((n - i) + 1) + 1 = i
  BY <1>1
<1>4. Reverse(s) \in Seq(S)
  BY <1>1, <1>2, <1>3, IsASeq
<1>5. DOMAIN Reverse(s) = 1..n /\ \A i \in 1..n : Reverse(s)[i] = s[(n - i) + 1]
  BY <1>2
<1>6. \A i \in 1..n : s[i] = Reverse(s)[(n - i) + 1]
  <2> TAKE i \in 1..n
  <2>1. PICK j \in 1..n : j = (n - i) + 1
    BY <1>3
  <2>2. (n - j) + 1 = i
    BY <2>1
  <2> QED
    BY <1>5, <2>1, <2>2
<1>7. \A x : x \in ToSet(Reverse(s)) <=> x \in ToSet(s)
  <2>1. \A x : x \in ToSet(s) <=> \E i \in 1..n : x = s[i]
    BY <1>1 DEF ToSet
  <2>2. \A x : x \in ToSet(Reverse(s)) <=> \E i \in 1..n : x = Reverse(s)[i]
    BY <1>5 DEF ToSet
  <2>3. \A i \in 1..n : (n - i) + 1 \in 1..n
    BY <1>3
  <2> QED
    BY <1>5, <1>6, <2>1, <2>2, <2>3, Zenon
<1> QED
  BY <1>4, <1>7

\* A stale snapshot ranks nothing.
LEMMA StaleRanksNothing ==
    ASSUME NEW req, NEW s, NEW current, SnapshotStale(s, current)
    PROVE  Evaluate(req, s, current).ranked = <<>>
BY DEF Evaluate

\* A stale snapshot binds nothing.
LEMMA StaleBindsNothing ==
    ASSUME NEW plan, NEW bindings, NEW set, NEW s, NEW current,
           BindError(plan, bindings, set, s, current) = "ok"
    PROVE  ~SnapshotStale(s, current)
<1> DEFINE stale == SnapshotStale(s, current)
<1> SUFFICES ASSUME stale PROVE FALSE
  OBVIOUS
<1> QED
  BY DEF BindError

\* A snapshot that is not stale was taken of the units in place.
LEMMA CurrentIsInPlace ==
    ASSUME PlaceInv, snap # NoSnapshot, observed, ~SnapshotStale(snap, epoch)
    PROVE  ToSet(probe.present) = ToSet(hw[probe.backend])
<1>1. PICK i \in DOMAIN snap : TRUE
  BY DEF PlaceInv, SnapshotSound
<1>2. snap[i].generation = epoch
  BY <1>1 DEF SnapshotStale, EntriesOf, IsStale
<1> QED
  BY <1>2 DEF PlaceInv, SnapshotSound

\* Nothing is planned at first.
LEMMA PlaceInit == Init => PlaceInv
<1> SUFFICES ASSUME Init PROVE PlaceInv
  OBVIOUS
<1>1. Unplanned(last)
  BY DEF Init, Unplanned, Nothing
<1> QED
  BY <1>1, UnplannedInPlace, HardwareAssumption DEF Init, PlaceInv, InitialGeneration

\* A change of the hardware or of the epoch.
LEMMA ChangeKeepsPlaceInv == ASSUME PlaceInv, Change PROVE PlaceInv'
<1>1. ASSUME NEW b \in Backends, NEW i \in DOMAIN hw[b], NEW u \in Spares[b], Replace(b, i, u)
      PROVE  PlaceInv'
  <2>1. /\ hw' = [hw EXCEPT ![b][i] = u] /\ observed' = FALSE /\ last' = Nothing
        /\ UNCHANGED <<epoch, snap, probe>>
    BY <1>1 DEF Replace
  <2>2. hw[b] \in Seq(DOMAIN Units) /\ u \in DOMAIN Units
    BY HardwareAssumption DEF PlaceInv
  <2>3. [hw[b] EXCEPT ![i] = u] \in Seq(DOMAIN Units)
    BY <2>2, ExceptSeq
  <2>4. hw' \in [Backends -> Seq(DOMAIN Units)]
    BY <2>1, <2>3 DEF PlaceInv
  <2>5. AdmittedIsInPlace'
    BY <2>1 DEF AdmittedIsInPlace
  <2>6. (snap # NoSnapshot => SnapshotSound)'
    BY <2>1 DEF PlaceInv, SnapshotSound, NoSnapshot
  <2> QED
    BY <2>1, <2>4, <2>5, <2>6 DEF PlaceInv, InitialGeneration
<1>2. ASSUME NEW b \in Backends, Renumber(b) PROVE PlaceInv'
  <2>1. /\ hw' = [hw EXCEPT ![b] = Reverse(@)] /\ last' = Nothing
        /\ UNCHANGED <<epoch, observed, snap, probe>>
    BY <1>2 DEF Renumber
  <2>2. hw[b] \in Seq(DOMAIN Units)
    BY DEF PlaceInv
  <2>3. Reverse(hw[b]) \in Seq(DOMAIN Units) /\ ToSet(Reverse(hw[b])) = ToSet(hw[b])
    BY <2>2, ReverseSameUnits
  <2>4. /\ hw' \in [Backends -> Seq(DOMAIN Units)]
        /\ \A c \in Backends : ToSet(hw'[c]) = ToSet(hw[c])
    BY <2>1, <2>3 DEF PlaceInv
  <2>5. AdmittedIsInPlace'
    BY <2>1 DEF AdmittedIsInPlace, Ranked, Nothing
  <2>6. (snap # NoSnapshot => SnapshotSound)'
    <3> SUFFICES ASSUME snap # NoSnapshot PROVE SnapshotSound'
      BY <2>1 DEF NoSnapshot
    <3>1. SnapshotSound
      BY DEF PlaceInv
    <3>2. ToSet(hw'[probe.backend]) = ToSet(hw[probe.backend])
      BY <2>4, <3>1 DEF SnapshotSound
    <3> QED
      BY <2>1, <3>1, <3>2 DEF SnapshotSound
  <2> QED
    BY <2>1, <2>4, <2>5, <2>6 DEF PlaceInv, InitialGeneration
<1>3. ASSUME Advance PROVE PlaceInv'
  <2>1. epoch' = epoch + 1 /\ observed' = TRUE /\ last' = Nothing /\ UNCHANGED <<hw, snap, probe>>
    BY <1>3 DEF Advance
  <2>2. AdmittedIsInPlace'
    BY <2>1 DEF AdmittedIsInPlace, Ranked, Nothing
  <2>3. (snap # NoSnapshot => SnapshotSound)'
    <3> SUFFICES ASSUME snap # NoSnapshot PROVE SnapshotSound'
      BY <2>1 DEF NoSnapshot
    <3>1. SnapshotSound /\ epoch \in Nat
      BY DEF PlaceInv
    <3>2. \A i \in DOMAIN snap : snap[i].generation \in Nat /\ snap[i].generation < epoch + 1
      BY <3>1 DEF SnapshotSound
    <3>3. \A i \in DOMAIN snap' : /\ snap'[i].generation \in Nat
                                  /\ snap'[i].generation <= epoch'
                                  /\ snap'[i].generation # epoch'
      BY <2>1, <3>1, <3>2
    <3> QED
      BY <2>1, <3>1, <3>3 DEF SnapshotSound
  <2> QED
    BY <2>1, <2>2, <2>3 DEF PlaceInv, InitialGeneration
<1> QED
  BY <1>1, <1>2, <1>3 DEF Change

\* A step that keeps what planning looks at, and records nothing ranked or
\* bound, or records what was there.
LEMMA OthersKeepPlaceInv ==
    ASSUME PlaceInv, UNCHANGED <<hw, epoch, observed>>,
           UNCHANGED <<snap, probe>> \/ snap' = NoSnapshot,
           Unplanned(last') \/ UNCHANGED <<snap, probe, last>>
    PROVE  PlaceInv'
<1>1. (snap # NoSnapshot => SnapshotSound)'
  <2>1. CASE snap' = NoSnapshot
    BY <2>1 DEF NoSnapshot
  <2>2. CASE UNCHANGED <<snap, probe>>
    BY <2>2 DEF PlaceInv, SnapshotSound, NoSnapshot
  <2> QED
    BY <2>1, <2>2
<1>2. AdmittedIsInPlace'
  <2>1. CASE Unplanned(last')
    BY <2>1 DEF Unplanned, AdmittedIsInPlace, Ranked
  <2>2. CASE UNCHANGED <<snap, probe, last>>
    BY <2>2 DEF PlaceInv, AdmittedIsInPlace, Ranked, HasBound
  <2> QED
    BY <2>1, <2>2
<1> QED
  BY <1>1, <1>2 DEF PlaceInv, InitialGeneration

\* A probe records the units in place, at a generation already reached.
LEMMA ProbeKeepsPlaceInv ==
    ASSUME PlaceInv, NEW b \in Backends, NEW g \in {InitialGeneration, epoch}, NEW f, Probe(b, g, f)
    PROVE  PlaceInv'
<1>1. /\ snap' = Enumerated(b, hw[b], f, g)
      /\ probe' = [backend |-> b, present |-> hw[b]]
      /\ last' = Nothing /\ UNCHANGED <<hw, epoch, observed>>
  BY DEF Probe
<1>2. probe'.backend = b /\ probe'.present = hw[b]
  BY <1>1
<1>3. DOMAIN snap' = DOMAIN hw[b]
  BY <1>1 DEF Enumerated
<1>4. \A i \in DOMAIN snap' : snap'[i].generation = g
  BY <1>1 DEF Enumerated, CudaEntry, MetalEntry, Entry
<1>5. g \in Nat /\ g <= epoch
  BY DEF PlaceInv, InitialGeneration
<1>6. snap' # NoSnapshot => DOMAIN snap' # {}
  <2> SUFFICES ASSUME DOMAIN snap' = {} PROVE snap' = <<>>
    BY DEF NoSnapshot
  <2>1. PICK s : s = snap'
    OBVIOUS
  <2>2. s = [i \in DOMAIN hw[b] |-> s[i]]
    BY <1>1, <2>1 DEF Enumerated
  <2>3. s \in Seq(DOMAIN Units) /\ Len(s) = 0
    BY <1>3, <2>1, <2>2
  <2> QED
    BY <2>1, <2>3, EmptySeq
<1>7. (snap # NoSnapshot => SnapshotSound)'
  <2> SUFFICES ASSUME snap' # NoSnapshot PROVE SnapshotSound'
    BY DEF NoSnapshot
  <2>1. hw[b] \in Seq(DOMAIN Units)
    BY DEF PlaceInv
  <2>2. \A i \in DOMAIN snap' : snap'[i].generation \in Nat /\ snap'[i].generation <= epoch'
    BY <1>1, <1>4, <1>5
  <2>3. ToSet(probe'.present) = ToSet(hw'[probe'.backend])
    BY <1>1, <1>2
  <2> QED
    BY <1>2, <1>3, <1>6, <2>1, <2>2, <2>3 DEF SnapshotSound
<1>8. AdmittedIsInPlace'
  BY <1>1 DEF AdmittedIsInPlace, Ranked, Nothing
<1> QED
  BY <1>1, <1>7, <1>8 DEF PlaceInv, InitialGeneration

\* Evaluation ranks plans on a current snapshot only.
LEMMA EvaluateKeepsPlaceInv ==
    ASSUME PlaceInv, NEW req, EvaluatePolicy(req)
    PROVE  PlaceInv'
<1>1. /\ snap # NoSnapshot
      /\ last' = [op |-> "evaluate", req |-> req, current |-> epoch,
                  outcome |-> Evaluate(req, snap, epoch)]
      /\ UNCHANGED <<hw, epoch, observed, snap, probe>>
  BY DEF EvaluatePolicy
<1>2. last'.op = "evaluate" /\ last'.outcome = Evaluate(req, snap, epoch)
  BY <1>1
<1>3. AdmittedIsInPlace'
  <2> SUFFICES ASSUME observed, Evaluate(req, snap, epoch).ranked # <<>>
               PROVE  ToSet(probe.present) = ToSet(hw[probe.backend])
    BY <1>1, <1>2 DEF AdmittedIsInPlace, Ranked, HasBound
  <2>1. ~SnapshotStale(snap, epoch)
    BY StaleRanksNothing
  <2> QED
    BY <1>1, <2>1, CurrentIsInPlace
<1>4. (snap # NoSnapshot => SnapshotSound)'
  BY <1>1 DEF PlaceInv, SnapshotSound, NoSnapshot
<1> QED
  BY <1>1, <1>3, <1>4 DEF PlaceInv, InitialGeneration

\* bind admits plans on a current snapshot only.
LEMMA BindKeepsPlaceInv ==
    ASSUME PlaceInv, NEW plan, NEW bindings, NEW set, BindDirect(plan, bindings, set)
    PROVE  PlaceInv'
<1> DEFINE error == BindError(plan, bindings, set, snap, epoch)
<1>1. /\ snap # NoSnapshot
      /\ last' = Bound("bind", error, BoundPlan(plan, bindings, set, snap), epoch)
      /\ UNCHANGED <<hw, epoch, observed, snap, probe>>
  BY DEF BindDirect
<1>2. last'.op = "bind" /\ ("bound" \in DOMAIN last' => error = "ok")
  <2> HIDE DEF error
  <2> QED
    BY <1>1 DEF Bound
<1>3. AdmittedIsInPlace'
  <2> SUFFICES ASSUME observed, "bound" \in DOMAIN last'
               PROVE  ToSet(probe.present) = ToSet(hw[probe.backend])
    BY <1>1, <1>2 DEF AdmittedIsInPlace, Ranked, HasBound
  <2>1. ~SnapshotStale(snap, epoch)
    BY <1>2, StaleBindsNothing
  <2> QED
    BY <1>1, <2>1, CurrentIsInPlace
<1>4. (snap # NoSnapshot => SnapshotSound)'
  BY <1>1 DEF PlaceInv, SnapshotSound, NoSnapshot
<1> QED
  BY <1>1, <1>3, <1>4 DEF PlaceInv, InitialGeneration

\* Planning calls.
LEMMA PlanKeepsPlaceInv == ASSUME PlaceInv, Plan PROVE PlaceInv'
<1>0. Unplanned(Nothing)
  BY DEF Unplanned, Nothing
<1>1. ASSUME NEW b, NEW f, ProbeFails(b, f) PROVE PlaceInv'
  <2>1. UNCHANGED <<hw, epoch, observed, snap, probe>> /\ Unplanned(last')
    BY <1>1 DEF ProbeFails, Unplanned
  <2> QED
    BY <2>1, OthersKeepPlaceInv
<1>2. ASSUME NEW d, NEW l, AdmitPartition(d, l) PROVE PlaceInv'
  <2>1. UNCHANGED <<hw, epoch, observed, snap, probe>> /\ Unplanned(last')
    BY <1>0, <1>2 DEF AdmitPartition
  <2> QED
    BY <2>1, OthersKeepPlaceInv
<1>3. ASSUME (\E f \in {"allocation_failed", "device_lost"} : FailPartition(f)) \/ TeardownPartition
      PROVE PlaceInv'
  <2>1. UNCHANGED <<hw, epoch, observed, snap, probe>> /\ Unplanned(last')
    BY <1>0, <1>3 DEF FailPartition, TeardownPartition
  <2> QED
    BY <2>1, OthersKeepPlaceInv
<1>4. ASSUME NEW w, NEW n, PrepareImage(w, n) PROVE PlaceInv'
  <2>1. UNCHANGED <<hw, epoch, observed, snap, probe>>
    BY <1>4 DEF PrepareImage
  <2>2. last'.op = "prepare"
    BY <1>4 DEF PrepareImage
  <2> QED
    BY <2>1, <2>2, OthersKeepPlaceInv DEF Unplanned
<1>5. ASSUME NEW sel, NEW req, NEW adm, NEW f, NEW g, OpenHost(sel, req, adm, f, g) PROVE PlaceInv'
  <2>1. UNCHANGED <<hw, epoch, observed, snap, probe>>
    BY <1>5 DEF OpenHost
  <2>2. \A e, b, c : Bound("open", e, b, c).op = "open"
    BY DEF Bound
  <2>3. \A found : ImplicitLocal(found).op = "open"
    BY <2>2, Zenon DEF ImplicitLocal
  <2>4. last'.op = "open"
    BY <1>5, <2>3 DEF OpenHost
  <2> QED
    BY <2>1, <2>4, OthersKeepPlaceInv DEF Unplanned
<1> QED
  BY <1>1, <1>2, <1>3, <1>4, <1>5, ProbeKeepsPlaceInv, EvaluateKeepsPlaceInv, BindKeepsPlaceInv,
     Zenon DEF Plan

\* Running a plan and moving bytes leave planning alone.
LEMMA RunKeepsPlaceInv == ASSUME PlaceInv, Run \/ Transfers PROVE PlaceInv'
<1>1. ASSUME NEW members, OpenBackend(members) PROVE PlaceInv'
  <2>1. /\ UNCHANGED <<hw, epoch, observed>>
        /\ UNCHANGED <<snap, probe>> \/ snap' = NoSnapshot
        /\ last' = Nothing \/ last' = [op |-> "backend", error |-> "E_INVALID_ARGS"]
    BY <1>1, Zenon DEF OpenBackend
  <2> QED
    BY <2>1, OthersKeepPlaceInv DEF Unplanned, Nothing
<1>2. ASSUME UNCHANGED <<hw, planning>> PROVE PlaceInv'
  BY <1>2, OthersKeepPlaceInv DEF planning
<1>3. ASSUME NEW c, CopyPeer(c) PROVE PlaceInv'
  BY <1>3, OthersKeepPlaceInv DEF CopyPeer, Unplanned
<1>4. ASSUME Reserve \/ (\E n \in 0 .. 2 : ReserveFails(n)) \/ CloseBackend
             \/ (\E p \in Partitions : FreePartition(p))
             \/ \E f, g : RunNext(f, g)
      PROVE  UNCHANGED <<hw, planning>>
  BY <1>4, Zenon DEF Reserve, ReserveFails, CloseBackend, FreePartition, RunNext
<1>5. ASSUME (\E c, o : CopyDirect(c, o)) \/ (\E m : Measure(m)) \/ (\E m : AdmitPair(m))
      PROVE  UNCHANGED <<hw, planning>>
  BY <1>5, Zenon DEF CopyDirect, Measure, AdmitPair
<1> QED
  BY <1>1, <1>2, <1>3, <1>4, <1>5, Zenon DEF Run, Transfers

\* Every step keeps the invariant.
LEMMA PlaceNext == PlaceInv /\ [Next]_vars => PlaceInv'
<1> SUFFICES ASSUME PlaceInv, [Next]_vars PROVE PlaceInv'
  OBVIOUS
<1>1. CASE UNCHANGED vars
  BY <1>1, OthersKeepPlaceInv DEF vars
<1>2. CASE Next
  BY <1>2, ChangeKeepsPlaceInv, PlanKeepsPlaceInv, RunKeepsPlaceInv DEF Next
<1> QED
  BY <1>1, <1>2

\* policy::evaluate and bind: once the caller's epoch accounts for every change
\* of hardware, whatever is ranked or bound under it names units in place, in
\* whatever order probes, replacements, renumberings and epochs came.
THEOREM AdmittedStaysInPlace == Spec => []AdmittedIsInPlace
<1>1. PlaceInv => AdmittedIsInPlace
  BY DEF PlaceInv
<1> QED
  BY <1>1, PlaceInit, PlaceNext, PTL DEF Spec

-----------------------------------------------------------------------------
(* Folds.  The folds of the model differ in what they add to what is there    *)
(* and in the element they take; that a fold of a finite set exists does not  *)
(* depend on either, so it is shown once for all of them.  The library's      *)
(* induction theorems are replaced by least counterexamples.                  *)

\* What a fold of each kind makes of element x and the fold of the others.
Step(kind, a, x, acc) ==
    CASE kind = "sum" -> a[x] + acc
      [] kind = "reserve" -> Saturated(acc + a[x])
      [] kind = "order" -> Inserted(a, x, acc)
      [] kind = "copies" ->
            IF acc.ok
            THEN HostStageCopy(acc, SpecOf(a.op, x), IF x = a.target THEN a.fault ELSE "none")
            ELSE acc

\* The element it takes first.
Taken(kind, s) == IF kind \in {"order", "copies"} THEN Max(s) ELSE CHOOSE x \in s : TRUE

\* What can be folded: the greatest element is only that of a set of naturals.
Foldable(kind, S) == IsFiniteSet(S) /\ (kind \in {"order", "copies"} => S \subseteq Nat)

\* The fold as a function on a family D of sets.
FoldEquation(kind, a, base, g, D) ==
    g = [s \in D |-> IF s = {} THEN base
                     ELSE Step(kind, a, Taken(kind, s), g[s \ {Taken(kind, s)}])]

\* A non-empty set of naturals has a least element.
LEMMA LeastNatural ==
    ASSUME NEW T \in SUBSET Nat, T # {}
    PROVE  \E m \in T : \A k \in T : m <= k
<1>1. PICK m \in T : \A k \in T : ~(<<k, m>> \in OpToRel(<, Nat))
  BY NatLessThanWellFounded, WFMin, Zenon
<1>2. \A k \in T : ~(k < m)
  BY <1>1 DEF OpToRel
<1> QED
  BY <1>2

\* Induction on the subsets of a finite set, for a family P of them.
LEMMA SubsetsOneByOne ==
    ASSUME NEW S, IsFiniteSet(S), NEW P,
           \A s \in SUBSET S : (s # {} => \A x \in s : s \ {x} \in P) => s \in P
    PROVE  SUBSET S \subseteq P
<1> DEFINE Bad == {s \in SUBSET S : s \notin P}
           Sizes == {Cardinality(s) : s \in Bad}
<1> SUFFICES ASSUME Bad # {} PROVE FALSE
  OBVIOUS
<1>1. \A s \in SUBSET S : IsFiniteSet(s) /\ Cardinality(s) \in Nat
  BY FS_Subset, FS_CardinalityType
<1>2. PICK n \in Sizes : \A k \in Sizes : n <= k
  <2>1. Sizes \in SUBSET Nat /\ Sizes # {}
    BY <1>1
  <2> HIDE DEF Sizes
  <2> QED
    BY <2>1, LeastNatural
<1>3. PICK s \in Bad : \A t \in Bad : Cardinality(s) <= Cardinality(t)
  BY <1>2
<1>4. ASSUME NEW x \in s PROVE s \ {x} \in P
  <2>1. s \ {x} \in SUBSET S /\ Cardinality(s \ {x}) = Cardinality(s) - 1
    BY <1>1, FS_RemoveElement
  <2>2. ~(Cardinality(s) <= Cardinality(s) - 1)
    BY <1>1
  <2> QED
    BY <1>3, <2>1, <2>2
<1> QED
  BY <1>4
\* A non-empty finite set of naturals has a greatest element, Max's.
LEMMA MaxOfFinite ==
    ASSUME NEW T \in SUBSET Nat, IsFiniteSet(T), T # {}
    PROVE  Max(T) \in T /\ \A k \in T : k <= Max(T)
<1> DEFINE P == {s \in SUBSET T : s = {} \/ \E m \in s : \A k \in s : k <= m}
<1>1. ASSUME NEW s \in SUBSET T, s # {} => \A x \in s : s \ {x} \in P
      PROVE  s \in P
  <2> SUFFICES ASSUME s # {} PROVE \E m \in s : \A k \in s : k <= m
    OBVIOUS
  <2>1. PICK x \in s : TRUE
    OBVIOUS
  <2>2. CASE s \ {x} = {}
    BY <2>1, <2>2
  <2>3. CASE s \ {x} # {}
    <3>1. PICK m \in s \ {x} : \A k \in s \ {x} : k <= m
      BY <1>1, <2>1, <2>3
    <3>2. x \in Nat /\ m \in Nat
      OBVIOUS
    <3>3. CASE x <= m
      BY <3>1, <3>3
    <3>4. CASE m <= x
      <4>1. \A k \in s \ {x} : k \in Nat /\ k <= x
        BY <3>1, <3>2, <3>4
      <4> QED
        BY <2>1, <3>2, <4>1
    <3> QED
      BY <3>2, <3>3, <3>4
  <2> QED
    BY <2>2, <2>3
<1>2. SUBSET T \subseteq P
  <2> HIDE DEF P
  <2> QED
    BY <1>1, SubsetsOneByOne
<1>3. \E m \in T : \A k \in T : k <= m
  BY <1>2
<1> QED
  BY <1>3 DEF Max

\* What a fold takes is in the set, and leaves one element fewer.
LEMMA TakenIn ==
    ASSUME NEW kind, NEW S, Foldable(kind, S), NEW s \in SUBSET S, s # {}
    PROVE  /\ Taken(kind, s) \in s
           /\ IsFiniteSet(s) /\ IsFiniteSet(s \ {Taken(kind, s)})
           /\ Cardinality(s) \in Nat /\ Cardinality(s \ {Taken(kind, s)}) \in Nat
           /\ Cardinality(s \ {Taken(kind, s)}) = Cardinality(s) - 1
<1>1. IsFiniteSet(s)
  BY FS_Subset DEF Foldable
<1>2. Taken(kind, s) \in s
  BY <1>1, MaxOfFinite DEF Taken, Foldable
<1> QED
  BY <1>1, <1>2, FS_RemoveElement, FS_CardinalityType

\* The fold of a finite set exists: a function for the subsets of at most n
\* elements extends to those of n + 1.
LEMMA FoldExists ==
    ASSUME NEW kind, NEW a, NEW base, NEW S, Foldable(kind, S)
    PROVE  \E g : FoldEquation(kind, a, base, g, SUBSET S)
<1> DEFINE D(n) == {s \in SUBSET S : Cardinality(s) <= n}
           E(g, s) == IF s = {} THEN base
                      ELSE Step(kind, a, Taken(kind, s), g[s \ {Taken(kind, s)}])
           Bad == {n \in Nat : ~\E g : FoldEquation(kind, a, base, g, D(n))}
<1>0. \A s \in SUBSET S : IsFiniteSet(s) /\ Cardinality(s) \in Nat
  BY FS_Subset, FS_CardinalityType DEF Foldable
<1>1. Bad = {}
  <2> SUFFICES ASSUME Bad # {} PROVE FALSE
    OBVIOUS
  <2>1. PICK m \in Bad : \A k \in Bad : m <= k
    <3>1. Bad \in SUBSET Nat
      OBVIOUS
    <3> QED
      BY <3>1, LeastNatural
  <2>2. m \in Nat /\ ~\E g : FoldEquation(kind, a, base, g, D(m))
    OBVIOUS
  <2>3. CASE m = 0
    <3> DEFINE g == [s \in D(0) |-> base]
    <3>1. \A s \in D(0) : s = {}
      <4> SUFFICES ASSUME NEW s \in D(0) PROVE s = {}
        OBVIOUS
      <4>1. IsFiniteSet(s) /\ Cardinality(s) = 0
        BY <1>0
      <4> QED
        BY <4>1, FS_EmptySet
    <3>2. g = [s \in D(0) |-> E(g, s)]
      BY <3>1
    <3>3. FoldEquation(kind, a, base, g, D(0))
      BY <3>2 DEF FoldEquation
    <3> QED
      BY <2>2, <2>3, <3>3
  <2>4. CASE m > 0
    <3>1. m - 1 \in Nat /\ m - 1 \notin Bad
      <4> HIDE DEF Bad
      <4> QED
        BY <2>1, <2>2, <2>4
    <3>2. PICK g : FoldEquation(kind, a, base, g, D(m - 1))
      BY <3>1
    <3> DEFINE h == [s \in D(m) |-> E(g, s)]
    <3>3. \A s \in D(m) : s # {} => s \ {Taken(kind, s)} \in D(m - 1)
                                    /\ s \ {Taken(kind, s)} \in D(m)
      <4> SUFFICES ASSUME NEW s \in D(m), s # {}
                   PROVE  s \ {Taken(kind, s)} \in D(m - 1) /\ s \ {Taken(kind, s)} \in D(m)
        OBVIOUS
      <4>1. Cardinality(s) \in Nat /\ Cardinality(s \ {Taken(kind, s)}) = Cardinality(s) - 1
        BY <1>0, TakenIn
      <4> QED
        BY <2>2, <4>1
    <3>4. \A s \in D(m) : s # {} => h[s \ {Taken(kind, s)}] = g[s \ {Taken(kind, s)}]
      <4> SUFFICES ASSUME NEW s \in D(m), s # {}
                   PROVE  h[s \ {Taken(kind, s)}] = g[s \ {Taken(kind, s)}]
        OBVIOUS
      <4> DEFINE t == s \ {Taken(kind, s)}
      <4>1. t \in D(m - 1) /\ t \in D(m)
        BY <3>3
      <4> HIDE DEF t
      <4>2. g[t] = E(g, t)
        BY <3>2, <4>1 DEF FoldEquation
      <4>3. h[t] = E(g, t)
        BY <4>1
      <4> QED
        BY <4>2, <4>3 DEF t
    <3>5. FoldEquation(kind, a, base, h, D(m))
      <4> DEFINE e == [s \in D(m) |-> E(h, s)]
      <4>1. \A s \in D(m) : h[s] = e[s]
        BY <3>4
      <4>2. h = e
        BY <4>1
      <4> QED
        BY <4>2 DEF FoldEquation
    <3> QED
      BY <2>2, <3>5
  <2> QED
    BY <2>2, <2>3, <2>4
<1>2. D(Cardinality(S)) = SUBSET S /\ Cardinality(S) \in Nat
  BY FS_Subset, FS_CardinalityType DEF Foldable
<1> QED
  BY <1>1, <1>2

-----------------------------------------------------------------------------
(* Sums of a function over a finite set.                                     *)

Pick(s) == CHOOSE x \in s : TRUE

SumTable(w, g, S) ==
    g = [s \in SUBSET S |-> IF s = {} THEN 0 ELSE w[Pick(s)] + g[s \ {Pick(s)}]]

\* A sum is tabulated over the subsets.
LEMMA SumExists ==
    ASSUME NEW w, NEW S, IsFiniteSet(S)
    PROVE  \E g : SumTable(w, g, S) /\ SumFunctionOnSet(w, S) = g[S]
<1>1. PICK h : FoldEquation("sum", w, 0, h, SUBSET S)
  BY FoldExists DEF Foldable
<1>2. \A s : Taken("sum", s) = Pick(s)
  BY DEF Taken, Pick
<1>3. \A x, acc : Step("sum", w, x, acc) = w[x] + acc
  BY DEF Step
<1>4. SumTable(w, h, S)
  <2> DEFINE e == [s \in SUBSET S |-> IF s = {} THEN 0 ELSE w[Pick(s)] + h[s \ {Pick(s)}]]
             f == [s \in SUBSET S |-> IF s = {} THEN 0
                        ELSE Step("sum", w, Taken("sum", s), h[s \ {Taken("sum", s)}])]
  <2>1. h = f
    BY <1>1 DEF FoldEquation
  <2>2. \A s \in SUBSET S : f[s] = e[s]
    BY <1>2, <1>3
  <2>3. f = e
    BY <2>2
  <2> QED
    BY <2>1, <2>3 DEF SumTable
<1> DEFINE g == CHOOSE f : SumTable(w, f, S)
<1>5. SumTable(w, g, S)
  BY <1>4
<1>6. SumFunctionOnSet(w, S) = g[S]
  BY DEF SumFunctionOnSet, FoldFunctionOnSet, MapThenFoldSet, SumTable, Pick
<1> QED
  BY <1>5, <1>6

\* Where weights agree, so do their sums.
LEMMA SumTablesAgree ==
    ASSUME NEW w, NEW v, NEW g, NEW h, NEW S, NEW T, IsFiniteSet(S),
           SumTable(w, g, S), SumTable(v, h, T), S \subseteq T, \A x \in S : w[x] = v[x]
    PROVE  \A s \in SUBSET S : g[s] = h[s]
<1> DEFINE P == {s \in SUBSET S : g[s] = h[s]}
<1>1. ASSUME NEW s \in SUBSET S, s # {} => \A x \in s : s \ {x} \in P
      PROVE  s \in P
  <2>1. /\ g[s] = IF s = {} THEN 0 ELSE w[Pick(s)] + g[s \ {Pick(s)}]
        /\ h[s] = IF s = {} THEN 0 ELSE v[Pick(s)] + h[s \ {Pick(s)}]
    BY DEF SumTable
  <2>2. CASE s = {}
    BY <2>1, <2>2
  <2>3. CASE s # {}
    <3>1. Pick(s) \in s
      BY <2>3 DEF Pick
    <3>2. g[s \ {Pick(s)}] = h[s \ {Pick(s)}]
      BY <1>1, <2>3, <3>1
    <3> QED
      BY <2>1, <2>3, <3>1, <3>2
  <2> QED
    BY <2>2, <2>3
<1>2. SUBSET S \subseteq P
  <2> HIDE DEF P
  <2> QED
    BY <1>1, SubsetsOneByOne
<1> QED
  BY <1>2

\* The sum depends on the weights in the set alone.
LEMMA SumsAgree ==
    ASSUME NEW w, NEW v, NEW S, IsFiniteSet(S), \A x \in S : w[x] = v[x]
    PROVE  SumFunctionOnSet(w, S) = SumFunctionOnSet(v, S)
<1>1. PICK g : SumTable(w, g, S) /\ SumFunctionOnSet(w, S) = g[S]
  BY SumExists
<1>2. PICK h : SumTable(v, h, S) /\ SumFunctionOnSet(v, S) = h[S]
  BY SumExists
<1> QED
  BY <1>1, <1>2, SumTablesAgree

\* A sum is that of its picked element and of the others.
LEMMA SumOfPick ==
    ASSUME NEW w, NEW S, IsFiniteSet(S)
    PROVE  SumFunctionOnSet(w, S)
             = IF S = {} THEN 0 ELSE w[Pick(S)] + SumFunctionOnSet(w, S \ {Pick(S)})
<1>1. PICK g : SumTable(w, g, S) /\ SumFunctionOnSet(w, S) = g[S]
  BY SumExists
<1>2. g[S] = IF S = {} THEN 0 ELSE w[Pick(S)] + g[S \ {Pick(S)}]
  BY <1>1 DEF SumTable
<1> DEFINE R == S \ {Pick(S)}
<1>3. IsFiniteSet(R) /\ R \subseteq S
  BY FS_Subset
<1> HIDE DEF R
<1>4. PICK h : SumTable(w, h, R) /\ SumFunctionOnSet(w, R) = h[R]
  BY <1>3, SumExists
<1>5. h[R] = g[R]
  BY <1>1, <1>3, <1>4, SumTablesAgree
<1> QED
  BY <1>1, <1>2, <1>4, <1>5 DEF R

Weights(w, S) == IsFiniteSet(S) /\ \A x \in S : w[x] \in Nat

\* A sum of naturals is one.
LEMMA SumIsNat ==
    ASSUME NEW w, NEW S, Weights(w, S)
    PROVE  SumFunctionOnSet(w, S) \in Nat
<1> DEFINE P == {s \in SUBSET S : SumFunctionOnSet(w, s) \in Nat}
<1>1. ASSUME NEW s \in SUBSET S, s # {} => \A x \in s : s \ {x} \in P
      PROVE  s \in P
  <2>1. SumFunctionOnSet(w, s)
          = IF s = {} THEN 0 ELSE w[Pick(s)] + SumFunctionOnSet(w, s \ {Pick(s)})
    BY SumOfPick, FS_Subset DEF Weights
  <2>2. s # {} => Pick(s) \in s
    BY DEF Pick
  <2> QED
    BY <1>1, <2>1, <2>2 DEF Weights
<1>2. SUBSET S \subseteq P
  <2> HIDE DEF P
  <2> QED
    BY <1>1, SubsetsOneByOne DEF Weights
<1> QED
  BY <1>2

\* The element taken first does not matter.
LEMMA SumOfAny ==
    ASSUME NEW w, NEW S, Weights(w, S), NEW x \in S
    PROVE  SumFunctionOnSet(w, S) = w[x] + SumFunctionOnSet(w, S \ {x})
<1> DEFINE Sum(s) == SumFunctionOnSet(w, s)
           P == {s \in SUBSET S : \A y \in s : Sum(s) = w[y] + Sum(s \ {y})}
<1>0. \A s \in SUBSET S : IsFiniteSet(s) /\ Sum(s) \in Nat
  BY SumIsNat, FS_Subset DEF Weights
<1>1. ASSUME NEW s \in SUBSET S, s # {} => \A y \in s : s \ {y} \in P
      PROVE  s \in P
  <2> SUFFICES ASSUME NEW y \in s PROVE Sum(s) = w[y] + Sum(s \ {y})
    OBVIOUS
  <2>1. PICK p \in s : p = Pick(s)
    BY DEF Pick
  <2>2. Sum(s) = w[p] + Sum(s \ {p})
    BY <1>0, <2>1, SumOfPick
  <2>3. CASE y = p
    BY <2>2, <2>3
  <2>4. CASE y # p
    <3>1. y \in s \ {p} /\ p \in s \ {y} /\ (s \ {p}) \ {y} = (s \ {y}) \ {p}
      BY <2>4
    <3>2. PICK r \in SUBSET S : r = (s \ {p}) \ {y} /\ r = (s \ {y}) \ {p}
      BY <3>1
    <3>3. Sum(s \ {p}) = w[y] + Sum(r) /\ Sum(s \ {y}) = w[p] + Sum(r)
      BY <1>1, <3>1, <3>2
    <3>4. w[y] \in Nat /\ w[p] \in Nat /\ Sum(r) \in Nat
      BY <1>0 DEF Weights
    <3> HIDE DEF Sum
    <3> QED
      BY <2>2, <3>3, <3>4
  <2> QED
    BY <2>3, <2>4
<1>2. SUBSET S \subseteq P
  <2> HIDE DEF P
  <2> QED
    BY <1>1, SubsetsOneByOne DEF Weights
<1> QED
  BY <1>2

\* Changing one weight changes the sum by as much.
LEMMA SumAfterUpdate ==
    ASSUME NEW w, NEW v, NEW S, Weights(w, S), Weights(v, S), NEW x \in S,
           \A y \in S \ {x} : v[y] = w[y]
    PROVE  SumFunctionOnSet(v, S) + w[x] = SumFunctionOnSet(w, S) + v[x]
<1>1. Weights(w, S \ {x}) /\ w[x] \in Nat /\ v[x] \in Nat
  BY FS_Subset DEF Weights
<1>2. SumFunctionOnSet(v, S \ {x}) = SumFunctionOnSet(w, S \ {x})
  BY <1>1, SumsAgree DEF Weights
<1>3. SumFunctionOnSet(w, S \ {x}) \in Nat
  BY <1>1, SumIsNat
<1> QED
  BY <1>1, <1>2, <1>3, SumOfAny

-----------------------------------------------------------------------------
(* The adapter.                                                              *)

\* t is s with e behind it.
OneMore(s, e, t) ==
    /\ t \in Seq(ToSet(t)) /\ ToSet(t) = ToSet(s) \cup {e}
    /\ IsFiniteSet(DOMAIN s) /\ IsFiniteSet(DOMAIN t)
    /\ Len(s) + 1 \notin DOMAIN s /\ DOMAIN t = DOMAIN s \cup {Len(s) + 1}
    /\ t[Len(s) + 1] = e /\ \A i \in DOMAIN s : t[i] = s[i]

\* Append adds one entry and leaves the others.
LEMMA AppendTo ==
    ASSUME NEW s, s \in Seq(ToSet(s)), NEW e
    PROVE  OneMore(s, e, Append(s, e))
<1>0. PICK t : t = Append(s, e)
  OBVIOUS
<1> DEFINE S == ToSet(s) \cup {e}
<1>1. s \in Seq(S) /\ e \in S
  BY SeqMonotonic
<1>2. /\ t \in Seq(S) /\ Len(t) = Len(s) + 1 /\ t[Len(s) + 1] = e
      /\ \A i \in 1 .. Len(s) : t[i] = s[i]
  <2> HIDE DEF S
  <2> QED
    BY <1>0, <1>1, AppendProperties
<1>3. Len(s) \in Nat /\ DOMAIN s = 1 .. Len(s) /\ DOMAIN t = 1 .. Len(t)
  <2> HIDE DEF S
  <2> QED
    BY <1>1, <1>2, LenProperties
<1>4. DOMAIN t = DOMAIN s \cup {Len(s) + 1} /\ Len(s) + 1 \notin DOMAIN s
  BY <1>2, <1>3
<1>5. IsFiniteSet(DOMAIN s) /\ IsFiniteSet(DOMAIN t)
  BY <1>2, <1>3, FS_Interval
<1>6. ToSet(t) = S
  <2>1. ToSet(t) = {t[i] : i \in DOMAIN t} /\ ToSet(s) = {s[i] : i \in DOMAIN s}
    BY DEF ToSet
  <2> QED
    BY <1>2, <1>3, <1>4, <2>1
<1> QED
  BY <1>0, <1>2, <1>3, <1>4, <1>5, <1>6 DEF OneMore

\* Saturating each addition or the total comes to the same.
LEMMA Saturation ==
    ASSUME NEW m \in Nat, NEW n \in Nat
    PROVE  /\ Saturated(m) \in 0 .. ByteMax
           /\ Saturated(Saturated(m) + n) = Saturated(m + n)
BY ByteMaxAssumption DEF Saturated

\* A quotient is a natural no greater than what is divided.
LEMMA Quotients ==
    ASSUME NEW m \in Nat, NEW n \in Nat, n > 0
    PROVE  m \div n \in Nat /\ m \div n <= m
<1>1. /\ m \div n \in Int /\ m % n \in 0 .. n - 1
      /\ m = n * (m \div n) + (m % n)
  OBVIOUS
<1>2. PICK q \in Int, r \in 0 .. n - 1 : q = m \div n /\ m = n * q + r
  BY <1>1
<1>3. q \in Nat
  <2>1. SUFFICES ASSUME q <= 0 - 1 PROVE FALSE
    BY <1>2
  <2>2. n * q <= n * (0 - 1)
    BY <1>2, <2>1
  <2> QED
    BY <1>2, <2>2
<1>4. q <= m
  <2>1. 1 * q <= n * q
    BY <1>3
  <2> QED
    BY <1>2, <1>3, <2>1
<1> QED
  BY <1>2, <1>3, <1>4

\* The expected time of a copy is a natural.
LEMMA ExpectedTimeIsNat ==
    ASSUME NEW bytes \in Nat, NEW rate \in 0 .. ByteMax
    PROVE  ExpectedTime(bytes, rate) \in Nat
<1>1. bytes * Scale \in Nat
  BY TransportAssumption
<1>2. PICK m \in Nat : m = Saturated(bytes * Scale)
  BY <1>1, Saturation
<1>3. (IF rate = 0 THEN 0 ELSE m \div rate) \in Nat
  BY <1>2, Quotients
<1>4. PICK q \in Nat : q = IF rate = 0 THEN 0 ELSE Saturated(bytes * Scale) \div rate
  BY <1>2, <1>3
<1>5. PICK f \in Nat : f = IF bytes <= SmallCopy THEN SmallLatency ELSE LargeLatency
  BY TransportAssumption
<1>6. ExpectedTime(bytes, rate) = Saturated(f + q)
  BY <1>4, <1>5 DEF ExpectedTime
<1>7. PICK n \in Nat : n = f + q
  OBVIOUS
<1>8. Saturated(n) \in 0 .. ByteMax
  BY Saturation
<1> QED
  BY <1>6, <1>7, <1>8, ByteMaxAssumption

TrFields == {"usedBytes", "usedTime", "rates", "nextBuffer", "active", "records", "observations"}

\* What the records add up to.
Recorded(records, field) == SumFunction([i \in DOMAIN records |-> records[i][field]])

\* The records of copies that landed.
Refs(ad) == {r.ref : r \in ToSet(ad.records)}

AdapterInv(ad) ==
    /\ DOMAIN ad = TrFields
    /\ ad.usedBytes \in 0 .. Budget.bytes /\ ad.usedTime \in 0 .. Budget.time
    /\ ad.rates \in [Directions -> 0 .. ByteMax]
    /\ ad.active = {}
    /\ ad.records \in Seq(ToSet(ad.records))
    /\ \A r \in ToSet(ad.records) : r.bytes \in Nat /\ r.expected \in Nat
    /\ ad.usedBytes = Saturated(Recorded(ad.records, "bytes"))
    /\ ad.usedTime = Saturated(Recorded(ad.records, "expected"))

\* A record more adds its field.
LEMMA RecordedAppend ==
    ASSUME NEW s, s \in Seq(ToSet(s)), NEW e, NEW field, e[field] \in Nat,
           \A r \in ToSet(s) : r[field] \in Nat
    PROVE  /\ Recorded(s, field) \in Nat
           /\ Recorded(Append(s, e), field) = Recorded(s, field) + e[field]
<1>0. s \in Seq(ToSet(s))
  OBVIOUS
<1>1. PICK t : t = Append(s, e)
  OBVIOUS
<1> DEFINE w == [i \in DOMAIN s |-> s[i][field]]
           v == [i \in DOMAIN t |-> t[i][field]]
           n == Len(s) + 1
<1>2. /\ IsFiniteSet(DOMAIN s) /\ IsFiniteSet(DOMAIN t)
      /\ n \notin DOMAIN s /\ DOMAIN t = DOMAIN s \cup {n}
      /\ t[n] = e /\ \A i \in DOMAIN s : t[i] = s[i]
  <2>1. /\ IsFiniteSet(DOMAIN s) /\ IsFiniteSet(DOMAIN t)
        /\ Len(s) + 1 \notin DOMAIN s /\ DOMAIN t = DOMAIN s \cup {Len(s) + 1}
        /\ t[Len(s) + 1] = e /\ \A i \in DOMAIN s : t[i] = s[i]
    BY <1>0, <1>1, AppendTo DEF OneMore
  <2> QED
    BY <2>1
<1>3. \A i \in DOMAIN s : s[i][field] \in Nat
  BY DEF ToSet
<1>4. Weights(w, DOMAIN s) /\ Weights(v, DOMAIN t) /\ v[n] = e[field]
      /\ \A i \in DOMAIN s : v[i] = w[i]
  BY <1>2, <1>3 DEF Weights
<1>5. Recorded(s, field) = SumFunctionOnSet(w, DOMAIN s)
  BY DEF Recorded, SumFunction
<1>6. Recorded(t, field) = SumFunctionOnSet(v, DOMAIN t)
  BY DEF Recorded, SumFunction
<1>7. n \in DOMAIN t /\ DOMAIN t \ {n} = DOMAIN s
  BY <1>2
<1> HIDE DEF w, v, n
<1>8. SumFunctionOnSet(v, DOMAIN t) = v[n] + SumFunctionOnSet(v, DOMAIN s)
  BY <1>4, <1>7, SumOfAny
<1>9. SumFunctionOnSet(v, DOMAIN s) = SumFunctionOnSet(w, DOMAIN s)
  BY <1>2, <1>4, SumsAgree
<1>10. SumFunctionOnSet(w, DOMAIN s) \in Nat
  BY <1>4, SumIsNat
<1> QED
  BY <1>1, <1>4, <1>5, <1>6, <1>8, <1>9, <1>10

\* Staging a buffer and giving it back leaves what counts as it was.
LEMMA StagedCopyKeeps ==
    ASSUME NEW ad, AdapterInv(ad), NEW outcome, NEW b, b = RunStagedCopy(ad, outcome)
    PROVE  /\ AdapterInv(b) /\ Refs(b) = Refs(ad)
           /\ b.usedBytes = ad.usedBytes /\ b.usedTime = ad.usedTime
           /\ b.rates = ad.rates /\ b.records = ad.records
<1>1. PICK a : a = Stage(ad)
  OBVIOUS
<1>2. /\ DOMAIN a = TrFields /\ a.active = {ad.nextBuffer + 1} /\ a.nextBuffer = ad.nextBuffer + 1
      /\ a.usedBytes = ad.usedBytes /\ a.usedTime = ad.usedTime
      /\ a.rates = ad.rates /\ a.records = ad.records
  BY <1>1 DEF Stage, AdapterInv, TrFields
<1>3. b = [a EXCEPT !.active = a.active \ {a.nextBuffer}]
  BY <1>1 DEF RunStagedCopy, Unstage
<1>4. /\ DOMAIN b = TrFields /\ b.active = {}
      /\ b.usedBytes = ad.usedBytes /\ b.usedTime = ad.usedTime
      /\ b.rates = ad.rates /\ b.records = ad.records
  BY <1>2, <1>3 DEF TrFields
<1> QED
  BY <1>4 DEF AdapterInv, Refs

\* A charge within the budget is recorded as it is counted.
LEMMA ChargeKeeps ==
    ASSUME NEW ad, AdapterInv(ad), NEW spec, spec.length \in Nat, spec.direction \in Directions,
           WithinBudget(ad, spec), NEW b, b = Charge(ad, spec)
    PROVE  AdapterInv(b) /\ Refs(b) = Refs(ad) \cup {spec.ref}
<1>1. PICK expected \in Nat : expected = ExpectedTime(spec.length, ad.rates[spec.direction])
  <2>1. ad.rates[spec.direction] \in 0 .. ByteMax
    BY DEF AdapterInv
  <2> QED
    BY <2>1, ExpectedTimeIsNat
<1>2. PICK e : e = [ref |-> spec.ref, staging |-> ad.nextBuffer,
                    engine |-> Len(ad.records) + 1, event |-> Len(ad.records) + 1,
                    bytes |-> spec.length, expected |-> expected,
                    destination |-> spec.destination]
  OBVIOUS
<1>3. b = [ad EXCEPT !.usedBytes = Saturated(ad.usedBytes + spec.length),
                     !.usedTime = Saturated(ad.usedTime + expected),
                     !.records = Append(ad.records, e)]
  BY <1>1, <1>2 DEF Charge
<1>4. PICK rs : rs = Append(ad.records, e)
  OBVIOUS
<1>5. /\ DOMAIN b = TrFields /\ b.active = {} /\ b.rates = ad.rates /\ b.records = rs
      /\ b.usedBytes = Saturated(ad.usedBytes + spec.length)
      /\ b.usedTime = Saturated(ad.usedTime + expected)
  BY <1>3, <1>4 DEF AdapterInv, TrFields
<1>6. ad.records \in Seq(ToSet(ad.records))
  BY DEF AdapterInv
<1>7. rs \in Seq(ToSet(rs)) /\ ToSet(rs) = ToSet(ad.records) \cup {e}
  BY <1>4, <1>6, AppendTo DEF OneMore
<1>8. e.bytes = spec.length /\ e.expected = expected /\ e.ref = spec.ref
  BY <1>2
<1>9. \A r \in ToSet(ad.records) : r.bytes \in Nat /\ r.expected \in Nat
  BY DEF AdapterInv
<1>10. /\ Recorded(ad.records, "bytes") \in Nat
       /\ Recorded(rs, "bytes") = Recorded(ad.records, "bytes") + spec.length
  BY <1>4, <1>6, <1>8, <1>9, RecordedAppend
<1>11. /\ Recorded(ad.records, "expected") \in Nat
       /\ Recorded(rs, "expected") = Recorded(ad.records, "expected") + expected
  BY <1>4, <1>6, <1>8, <1>9, RecordedAppend
<1>12. /\ b.usedBytes = Saturated(Recorded(rs, "bytes"))
       /\ b.usedTime = Saturated(Recorded(rs, "expected"))
  BY <1>5, <1>10, <1>11, Saturation DEF AdapterInv
<1>13. b.usedBytes \in 0 .. Budget.bytes /\ b.usedTime \in 0 .. Budget.time
  <2>1. b.usedBytes <= Budget.bytes /\ b.usedTime <= Budget.time
    BY <1>1, <1>5 DEF WithinBudget
  <2>2. Recorded(rs, "bytes") \in Nat /\ Recorded(rs, "expected") \in Nat
    BY <1>10, <1>11
  <2>3. b.usedBytes \in 0 .. ByteMax /\ b.usedTime \in 0 .. ByteMax
    BY <1>12, <2>2, Saturation
  <2> QED
    BY <2>1, <2>3, ByteMaxAssumption, TransportAssumption
<1>14. \A r \in ToSet(rs) : r.bytes \in Nat /\ r.expected \in Nat
  BY <1>7, <1>8, <1>9
<1>15. ad.rates \in [Directions -> 0 .. ByteMax]
  BY DEF AdapterInv
<1>16. Refs(b) = Refs(ad) \cup {spec.ref}
  BY <1>5, <1>7, <1>8 DEF Refs
<1> QED
  BY <1>5, <1>7, <1>12, <1>13, <1>14, <1>15, <1>16 DEF AdapterInv

\* A copy keeps the adapter's books, and only a finished one is recorded.
LEMMA CopiedKeeps ==
    ASSUME NEW ad, AdapterInv(ad), NEW spec, spec.length \in Nat, spec.direction \in Directions,
           NEW source, NEW destination, NEW outcome \in {"ok", "failed", "timeout"},
           NEW b, b = Copied(ad, spec, source, destination, outcome),
           NEW result, result = CopyResult(ad, spec, source, destination, outcome)
    PROVE  /\ AdapterInv(b)
           /\ Refs(b) = IF result = "ok" THEN Refs(ad) \cup {spec.ref} ELSE Refs(ad)
<1>1. result \in {"rejected", "budget", "ok", "failed", "timeout"}
  BY DEF CopyResult
<1>2. CASE result \in {"rejected", "budget"}
  BY <1>2 DEF Copied
<1>3. CASE result \in {"failed", "timeout"}
  <2>1. b = RunStagedCopy(ad, result)
    BY <1>3 DEF Copied
  <2> QED
    BY <1>3, <2>1, StagedCopyKeeps
<1>4. CASE result = "ok"
  <2>1. WithinBudget(ad, spec)
    BY <1>4 DEF CopyResult
  <2>2. PICK a : a = RunStagedCopy(ad, result)
    OBVIOUS
  <2>3. b = Charge(a, spec)
    BY <1>4, <2>2 DEF Copied
  <2>4. /\ AdapterInv(a) /\ Refs(a) = Refs(ad)
        /\ a.usedBytes = ad.usedBytes /\ a.usedTime = ad.usedTime /\ a.rates = ad.rates
    BY <2>2, StagedCopyKeeps
  <2>5. WithinBudget(a, spec)
    BY <2>1, <2>4 DEF WithinBudget
  <2> QED
    BY <1>4, <2>3, <2>4, <2>5, ChargeKeeps
<1> QED
  BY <1>1, <1>2, <1>3, <1>4

\* A measurement changes a rate only.
LEMMA MeasuredKeeps ==
    ASSUME NEW ad, AdapterInv(ad), NEW direction \in Directions, NEW bytes \in Nat,
           NEW elapsed \in Nat, NEW b, b = Measured(ad, direction, bytes, elapsed)
    PROVE  AdapterInv(b)
<1>1. CASE elapsed = 0
  BY <1>1 DEF Measured
<1>2. CASE elapsed > 0
  <2>1. bytes * Scale \in Nat
    BY TransportAssumption
  <2>2. PICK m \in 0 .. ByteMax : m = Saturated(bytes * Scale)
    BY <2>1, Saturation
  <2>3. m \div elapsed \in Nat /\ m \div elapsed <= m
    BY <1>2, <2>2, Quotients, ByteMaxAssumption
  <2>4. PICK rate \in 0 .. ByteMax : rate = Saturated(bytes * Scale) \div elapsed
    BY <2>2, <2>3, ByteMaxAssumption
  <2>5. b = [ad EXCEPT !.observations = @ + 1, !.rates[direction] = rate]
    BY <1>2, <2>4 DEF Measured
  <2>6. /\ DOMAIN b = TrFields /\ b.rates = [ad.rates EXCEPT ![direction] = rate]
        /\ b.usedBytes = ad.usedBytes /\ b.usedTime = ad.usedTime
        /\ b.active = ad.active /\ b.records = ad.records
    BY <2>5 DEF AdapterInv, TrFields
  <2>7. b.rates \in [Directions -> 0 .. ByteMax]
    BY <2>6 DEF AdapterInv
  <2> QED
    BY <2>6, <2>7 DEF AdapterInv
<1> QED
  BY <1>1, <1>2

\* An adapter starts with nothing on its books.
LEMMA NewAdapterSound == AdapterInv(NewAdapter) /\ Refs(NewAdapter) = {}
<1>1. PICK ad : ad = NewAdapter
  OBVIOUS
<1>2. /\ DOMAIN ad = TrFields /\ ad.usedBytes = 0 /\ ad.usedTime = 0 /\ ad.rates = T1Rates
      /\ ad.active = {} /\ ad.records = <<>>
  BY <1>1 DEF NewAdapter, TrFields
<1>3. ToSet(ad.records) = {} /\ ad.records \in Seq(ToSet(ad.records)) /\ DOMAIN ad.records = {}
  BY <1>2 DEF ToSet
<1>4. Recorded(ad.records, "bytes") = 0 /\ Recorded(ad.records, "expected") = 0
  <2>1. ASSUME NEW field PROVE Recorded(ad.records, field) = 0
    <3> DEFINE w == [i \in DOMAIN ad.records |-> ad.records[i][field]]
    <3>1. DOMAIN w = {} /\ IsFiniteSet({})
      BY <1>3, FS_EmptySet
    <3>2. Recorded(ad.records, field) = SumFunctionOnSet(w, DOMAIN w)
      BY DEF Recorded, SumFunction
    <3> HIDE DEF w
    <3> QED
      BY <3>1, <3>2, SumOfPick
  <2> QED
    BY <2>1
<1>5. Saturated(0) = 0
  BY ByteMaxAssumption DEF Saturated
<1>6. AdapterInv(ad)
  BY <1>2, <1>3, <1>4, <1>5, TransportAssumption DEF AdapterInv
<1>7. Refs(ad) = {}
  BY <1>3 DEF Refs
<1> QED
  BY <1>1, <1>6, <1>7

-----------------------------------------------------------------------------
(* The device backend.                                                       *)

RtFields == {"state", "txn", "directions", "devices", "at", "held", "res", "live", "modules",
             "events"}

\* The partitions on a device.
Residents(r, d) == {p \in DOMAIN r.devices : r.devices[p] = d}

\* Each live buffer of a device is tracked under one of its partitions.
Tracked(r) ==
    /\ DOMAIN r = RtFields
    /\ IsFiniteSet(DOMAIN r.devices)
    /\ \A p \in DOMAIN r.devices : r.devices[p] \in DOMAIN r.live
    /\ r.res \in [DOMAIN r.devices -> Nat]
    /\ \A d \in DOMAIN r.live : r.live[d] = SumFunctionOnSet(r.res, Residents(r, d))

\* The run of the plan is where it was.
SameRun(r, q) ==
    /\ q.state = r.state /\ q.txn = r.txn /\ q.directions = r.directions
    /\ q.devices = r.devices /\ q.at = r.at /\ q.held = r.held /\ q.events = r.events

\* Buffers come and go under a partition.
LEMMA TrackedChange ==
    ASSUME NEW r, Tracked(r), NEW p \in DOMAIN r.devices, NEW m \in Nat,
           NEW q, DOMAIN q = RtFields, q.devices = r.devices,
           q.res = [r.res EXCEPT ![p] = m],
           q.live = [r.live EXCEPT ![r.devices[p]] = r.live[r.devices[p]] + m - r.res[p]]
    PROVE  Tracked(q)
<1>1. /\ IsFiniteSet(DOMAIN r.devices) /\ r.devices[p] \in DOMAIN r.live
      /\ r.res \in [DOMAIN r.devices -> Nat] /\ q.res \in [DOMAIN r.devices -> Nat]
      /\ DOMAIN q.live = DOMAIN r.live
  BY DEF Tracked
<1>2. ASSUME NEW d \in DOMAIN r.live
      PROVE  q.live[d] = SumFunctionOnSet(q.res, Residents(q, d))
  <2>0. PICK w, v : w = r.res /\ v = q.res
    OBVIOUS
  <2>1. PICK S : S = Residents(r, d)
    OBVIOUS
  <2>2. Residents(q, d) = S /\ S \subseteq DOMAIN r.devices
    BY <2>1 DEF Residents
  <2>3. Weights(w, S) /\ Weights(v, S)
    BY <1>1, <2>0, <2>2, FS_Subset DEF Weights
  <2>4. r.live[d] = SumFunctionOnSet(w, S)
    BY <2>0, <2>1 DEF Tracked
  <2>5. CASE d = r.devices[p]
    <3>1. p \in S
      BY <2>1, <2>5 DEF Residents
    <3>2. \A x \in S \ {p} : v[x] = w[x]
      BY <1>1, <2>0, <2>2
    <3>3. SumFunctionOnSet(v, S) + w[p] = SumFunctionOnSet(w, S) + v[p]
      BY <2>3, <3>1, <3>2, SumAfterUpdate
    <3>4. SumFunctionOnSet(v, S) \in Nat /\ SumFunctionOnSet(w, S) \in Nat
      BY <2>3, SumIsNat
    <3>5. v[p] = m /\ w[p] \in Nat /\ w[p] = r.res[p]
      BY <1>1, <2>0
    <3>6. q.live[d] = r.live[d] + m - r.res[p]
      BY <1>1, <2>5
    <3> QED
      BY <2>0, <2>2, <2>4, <3>3, <3>4, <3>5, <3>6
  <2>6. CASE d # r.devices[p]
    <3>1. \A x \in S : v[x] = w[x]
      BY <1>1, <2>0, <2>1, <2>6 DEF Residents
    <3>2. SumFunctionOnSet(v, S) = SumFunctionOnSet(w, S)
      BY <2>3, <3>1, SumsAgree DEF Weights
    <3>3. q.live[d] = r.live[d]
      BY <1>1, <2>6
    <3> QED
      BY <2>0, <2>2, <2>4, <3>2, <3>3
  <2> QED
    BY <2>5, <2>6
<1> QED
  BY <1>1, <1>2 DEF Tracked

\* An allocation is counted to the device of its partition.
LEMMA AllocKeeps ==
    ASSUME NEW r, Tracked(r), NEW p \in DOMAIN r.devices, NEW n \in Nat,
           NEW q, q = Alloc(r, p, n)
    PROVE  Tracked(q) /\ SameRun(r, q)
<1>1. q = [r EXCEPT !.res[p] = r.res[p] + n,
                    !.live[r.devices[p]] = r.live[r.devices[p]] + n]
  BY DEF Alloc
<1>2. /\ DOMAIN q = RtFields /\ SameRun(r, q)
      /\ q.res = [r.res EXCEPT ![p] = r.res[p] + n]
      /\ q.live = [r.live EXCEPT ![r.devices[p]] = r.live[r.devices[p]] + n]
  BY <1>1 DEF Tracked, RtFields, SameRun
<1>3. r.res[p] \in Nat /\ r.devices[p] \in DOMAIN r.live
  BY DEF Tracked
<1>4. PICK l \in Nat : l = r.live[r.devices[p]]
  <2>1. Weights(r.res, Residents(r, r.devices[p]))
    BY FS_Subset DEF Tracked, Weights, Residents
  <2> QED
    BY <1>3, <2>1, SumIsNat DEF Tracked
<1>5. PICK m \in Nat : m = r.res[p] + n
  BY <1>3
<1>6. l + n = l + m - r.res[p]
  BY <1>3, <1>5
<1>7. q.live = [r.live EXCEPT ![r.devices[p]] = r.live[r.devices[p]] + m - r.res[p]]
  BY <1>2, <1>4, <1>6
<1>8. q.res = [r.res EXCEPT ![p] = m] /\ q.devices = r.devices
  BY <1>2, <1>5 DEF SameRun
<1> QED
  BY <1>2, <1>7, <1>8, TrackedChange

\* A step that changes neither buffers nor the devices of partitions.
LEMMA TrackedSame ==
    ASSUME NEW r, Tracked(r), NEW q, DOMAIN q = RtFields,
           q.devices = r.devices, q.res = r.res, q.live = r.live
    PROVE  Tracked(q)
BY DEF Tracked, Residents

-----------------------------------------------------------------------------
(* Running an operation.                                                     *)

CtxSound(c) ==
    DOMAIN c = {"rt", "tr", "ok"} /\ Tracked(c.rt) /\ AdapterInv(c.tr) /\ c.ok \in BOOLEAN

\* d comes of c by copies of refs only, and by all of them if it is ok.
Landed(c, d, refs) ==
    /\ CtxSound(d) /\ SameRun(c.rt, d.rt)
    /\ Refs(c.tr) \subseteq Refs(d.tr) /\ Refs(d.tr) \subseteq Refs(c.tr) \cup refs
    /\ d.ok => refs \subseteq Refs(d.tr)

\* Nothing done is a run of no copies.
LEMMA NothingLands ==
    ASSUME NEW c, CtxSound(c)
    PROVE  Landed(c, c, {})
BY DEF Landed, SameRun

\* Copies after copies.
LEMMA MoreLands ==
    ASSUME NEW c, NEW e, NEW d, NEW A, NEW B, Landed(c, e, A), e.ok, Landed(e, d, B)
    PROVE  Landed(c, d, A \cup B)
BY DEF Landed, SameRun

\* After a failure no further copy lands.
LEMMA FailedStays ==
    ASSUME NEW c, NEW e, NEW A, NEW B, Landed(c, e, A), ~e.ok
    PROVE  Landed(c, e, A \cup B)
BY DEF Landed

\* A copy of the plan puts its reference on record, if it succeeds.
LEMMA CopyLands ==
    ASSUME NEW c, CtxSound(c), c.ok, NEW spec, NEW fault,
           spec.owner \in DOMAIN c.rt.devices, spec.destination \in DOMAIN c.rt.devices,
           spec.length \in Nat, spec.direction \in Directions,
           NEW d, d = HostStageCopy(c, spec, fault)
    PROVE  Landed(c, d, {spec.ref})
<1>1. PICK source : source = [owner |-> spec.owner, dtype |-> spec.dtype, layout |-> spec.layout,
                              generation |-> spec.generation, length |-> spec.length]
  OBVIOUS
<1>2. PICK outcome \in {"ok", "failed", "timeout"} :
        outcome = IF fault \in {"failed", "timeout"} THEN fault ELSE "ok"
  OBVIOUS
<1>3. PICK result : result = CopyResult(c.tr, spec, source, spec.destination, outcome)
  OBVIOUS
<1>4. PICK after : after = Copied(c.tr, spec, source, spec.destination, outcome)
  OBVIOUS
<1>5. PICK one : one = Alloc(c.rt, spec.owner, 1)
  OBVIOUS
<1>6. PICK two : two = Alloc(one, spec.destination, 1)
  OBVIOUS
<1>7. d = CASE fault = "alloc1" -> [c EXCEPT !.ok = FALSE]
            [] fault = "src" -> [c EXCEPT !.rt = one, !.ok = FALSE]
            [] result # "ok" \/ fault = "alloc2" -> [rt |-> one, tr |-> after, ok |-> FALSE]
            [] fault = "dst" -> [rt |-> two, tr |-> after, ok |-> FALSE]
            [] OTHER -> [rt |-> two, tr |-> after, ok |-> TRUE]
  BY <1>1, <1>2, <1>3, <1>4, <1>5, <1>6 DEF HostStageCopy
<1>8. Tracked(c.rt) /\ AdapterInv(c.tr) /\ DOMAIN c = {"rt", "tr", "ok"}
  BY DEF CtxSound
<1>9. AdapterInv(after) /\ Refs(after) = IF result = "ok" THEN Refs(c.tr) \cup {spec.ref}
                                         ELSE Refs(c.tr)
  BY <1>3, <1>4, <1>8, CopiedKeeps
<1>10. Tracked(one) /\ SameRun(c.rt, one)
  BY <1>5, <1>8, AllocKeeps
<1>11. Tracked(two) /\ SameRun(one, two)
  <2>1. spec.destination \in DOMAIN one.devices
    BY <1>10 DEF SameRun
  <2> QED
    BY <1>6, <1>10, <2>1, AllocKeeps
<1>12. SameRun(c.rt, c.rt) /\ SameRun(c.rt, two)
  BY <1>10, <1>11 DEF SameRun
<1>13. /\ DOMAIN d = {"rt", "tr", "ok"} /\ d.rt \in {c.rt, one, two} /\ d.tr \in {c.tr, after}
       /\ d.ok \in BOOLEAN /\ (d.ok => result = "ok" /\ d.tr = after)
  BY <1>7, <1>8
<1>14. CtxSound(d) /\ SameRun(c.rt, d.rt)
  <2>1. Tracked(d.rt) /\ SameRun(c.rt, d.rt)
    BY <1>8, <1>10, <1>11, <1>12, <1>13
  <2>2. AdapterInv(d.tr)
    BY <1>8, <1>9, <1>13
  <2> QED
    BY <1>13, <2>1, <2>2 DEF CtxSound
<1>15. /\ Refs(c.tr) \subseteq Refs(d.tr) /\ Refs(d.tr) \subseteq Refs(c.tr) \cup {spec.ref}
       /\ d.ok => {spec.ref} \subseteq Refs(d.tr)
  BY <1>9, <1>13
<1> QED
  BY <1>14, <1>15 DEF Landed

\* RunCopies as a table: the context after the copies to each set of
\* destinations, the greatest of them last.
CopyTable(c, op, fault, target, g) ==
    g = [s \in SUBSET op.to |->
            IF s = {} THEN c
            ELSE IF g[s \ {Max(s)}].ok
                 THEN HostStageCopy(g[s \ {Max(s)}], SpecOf(op, Max(s)),
                                    IF Max(s) = target THEN fault ELSE "none")
                 ELSE g[s \ {Max(s)}]]

\* The copies of an operation follow such a table.
LEMMA RunCopiesFolds ==
    ASSUME NEW c, NEW op, NEW fault, NEW target, IsFiniteSet(op.to), op.to \subseteq Nat
    PROVE  \E g : CopyTable(c, op, fault, target, g) /\ RunCopies(c, op, fault, target) = g[op.to]
<1>0. PICK a : a = [op |-> op, fault |-> fault, target |-> target]
  OBVIOUS
<1>1. PICK h : FoldEquation("copies", a, c, h, SUBSET op.to)
  <2>1. Foldable("copies", op.to)
    BY DEF Foldable
  <2> QED
    BY <2>1, FoldExists
<1>2. \A s : Taken("copies", s) = Max(s)
  BY DEF Taken
<1>3. \A x, acc : Step("copies", a, x, acc)
                    = IF acc.ok
                      THEN HostStageCopy(acc, SpecOf(op, x), IF x = target THEN fault ELSE "none")
                      ELSE acc
  BY <1>0 DEF Step
<1>4. CopyTable(c, op, fault, target, h)
  <2> DEFINE E(s) == IF s = {} THEN c
                     ELSE Step("copies", a, Taken("copies", s), h[s \ {Taken("copies", s)}])
             F(s) == IF s = {} THEN c
                     ELSE IF h[s \ {Max(s)}].ok
                          THEN HostStageCopy(h[s \ {Max(s)}], SpecOf(op, Max(s)),
                                             IF Max(s) = target THEN fault ELSE "none")
                          ELSE h[s \ {Max(s)}]
  <2>1. h = [s \in SUBSET op.to |-> E(s)]
    BY <1>1 DEF FoldEquation
  <2>2. \A s \in SUBSET op.to : E(s) = F(s)
    BY <1>2, <1>3
  <2>3. h = [s \in SUBSET op.to |-> F(s)]
    <3> HIDE DEF E, F
    <3> QED
      BY <2>1, <2>2
  <2> QED
    BY <2>3 DEF CopyTable
<1> DEFINE g == CHOOSE f : CopyTable(c, op, fault, target, f)
<1>5. CopyTable(c, op, fault, target, g)
  BY <1>4
<1>6. RunCopies(c, op, fault, target) = g[op.to]
  BY DEF RunCopies, MapThenFoldSet, CopyTable
<1> QED
  BY <1>5, <1>6

-----------------------------------------------------------------------------
(* Operations.                                                               *)

Kinds == {"launch", "transfer", "broadcast", "barrier"}

\* An operation that the devices can run.
Runnable(op, devices, directions) ==
    /\ op.kind \in Kinds
    /\ op.parts \subseteq DOMAIN devices /\ op.parts \subseteq Nat /\ IsFiniteSet(op.parts)
    /\ op.kind # "barrier" => op.src \in op.parts
    /\ op.to \subseteq op.parts
    /\ op.kind \in {"transfer", "broadcast"} => op.bytes \in Nat
    /\ op.kind = "transfer" => directions[op.ref] \in Directions

\* The records of its copies.
RefsTo(op, parts) == {<<OperationRef(op), x>> : x \in parts}
CopyRefs(op) == IF op.kind \in {"transfer", "broadcast"} THEN RefsTo(op, op.to) ELSE {}

\* A transfer or a broadcast puts all its references on record, or fails.
LEMMA CopiesLand ==
    ASSUME NEW c, CtxSound(c), c.ok, NEW op, Runnable(op, c.rt.devices, rt.directions),
           op.kind \in {"transfer", "broadcast"}, NEW fault, NEW target,
           NEW d, d = RunCopies(c, op, fault, target)
    PROVE  Landed(c, d, CopyRefs(op))
<1>1. /\ IsFiniteSet(op.to) /\ op.to \subseteq Nat /\ op.to \subseteq DOMAIN c.rt.devices
      /\ op.src \in DOMAIN c.rt.devices /\ op.bytes \in Nat
  BY FS_Subset DEF Runnable
<1>2. PICK g : CopyTable(c, op, fault, target, g) /\ d = g[op.to]
  BY <1>1, RunCopiesFolds
<1> DEFINE P == {s \in SUBSET op.to : Landed(c, g[s], RefsTo(op, s))}
<1>3. ASSUME NEW s \in SUBSET op.to, s # {} => \A x \in s : s \ {x} \in P
      PROVE  Landed(c, g[s], RefsTo(op, s))
  <2>1. CASE s = {}
    <3>1. g[s] = c /\ RefsTo(op, s) = {}
      BY <1>2, <2>1 DEF CopyTable, RefsTo
    <3> QED
      BY <3>1, NothingLands
  <2>2. CASE s # {}
    <3>0. IsFiniteSet(s) /\ s \in SUBSET Nat
      BY <1>1, FS_Subset
    <3>1. PICK x \in s : x = Max(s)
      BY <2>2, <3>0, MaxOfFinite
    <3>2. PICK e : e = g[s \ {x}]
      OBVIOUS
    <3>3. PICK f : f = g[s]
      OBVIOUS
    <3>4. PICK spec : spec = SpecOf(op, x)
      OBVIOUS
    <3>5. PICK fa : fa = IF x = target THEN fault ELSE "none"
      OBVIOUS
    <3>6. f = IF e.ok THEN HostStageCopy(e, spec, fa) ELSE e
      <4>1. g[s] = IF g[s \ {Max(s)}].ok
                   THEN HostStageCopy(g[s \ {Max(s)}], SpecOf(op, Max(s)),
                                      IF Max(s) = target THEN fault ELSE "none")
                   ELSE g[s \ {Max(s)}]
        BY <1>2, <2>2 DEF CopyTable
      <4> QED
        BY <4>1, <3>1, <3>2, <3>3, <3>4, <3>5
    <3>7. Landed(c, e, RefsTo(op, s \ {x}))
      BY <1>3, <2>2, <3>2
    <3>8. RefsTo(op, s) = RefsTo(op, s \ {x}) \cup {<<OperationRef(op), x>>}
      BY DEF RefsTo
    <3>9. CASE e.ok
      <4>1. /\ spec.ref = <<OperationRef(op), x>> /\ spec.owner = op.src /\ spec.destination = x
            /\ spec.length = op.bytes
        BY <3>4 DEF SpecOf
      <4>2. spec.direction \in Directions
        BY <3>4 DEF SpecOf, Runnable, Directions
      <4>3. CtxSound(e) /\ e.rt.devices = c.rt.devices
        BY <3>7 DEF Landed, SameRun
      <4>4. /\ spec.owner \in DOMAIN e.rt.devices /\ spec.destination \in DOMAIN e.rt.devices
            /\ spec.length \in Nat
        BY <1>1, <4>1, <4>3
      <4>5. f = HostStageCopy(e, spec, fa)
        BY <3>6, <3>9
      <4>6. Landed(e, f, {spec.ref})
        BY <3>9, <4>2, <4>3, <4>4, <4>5, CopyLands
      <4>7. Landed(c, f, RefsTo(op, s \ {x}) \cup {spec.ref})
        BY <3>7, <3>9, <4>6, MoreLands
      <4> QED
        BY <3>3, <3>8, <4>1, <4>7
    <3>10. CASE ~e.ok
      <4>1. f = e
        BY <3>6, <3>10
      <4>2. Landed(c, f, RefsTo(op, s \ {x}) \cup {<<OperationRef(op), x>>})
        BY <3>7, <3>10, <4>1, FailedStays
      <4> QED
        BY <3>3, <3>8, <4>2
    <3> QED
      BY <3>9, <3>10
  <2> QED
    BY <2>1, <2>2
<1>4. SUBSET op.to \subseteq P
  <2>1. \A s \in SUBSET op.to : (s # {} => \A x \in s : s \ {x} \in P) => s \in P
    BY <1>3
  <2> HIDE DEF P
  <2>2. PICK T : T = op.to
    OBVIOUS
  <2>3. IsFiniteSet(T) /\ \A s \in SUBSET T : (s # {} => \A x \in s : s \ {x} \in P) => s \in P
    BY <1>1, <2>1, <2>2
  <2>4. SUBSET T \subseteq P
    BY <2>3, SubsetsOneByOne
  <2> QED
    BY <2>2, <2>4
<1>5. Landed(c, d, RefsTo(op, op.to))
  BY <1>2, <1>4
<1> QED
  BY <1>5 DEF CopyRefs

\* A launch allocates, and moves nothing.
LEMMA LaunchLands ==
    ASSUME NEW c, CtxSound(c), c.ok, NEW op, op.src \in DOMAIN c.rt.devices, NEW fault,
           NEW d, d = RunLaunch(c, op, fault)
    PROVE  Landed(c, d, {})
<1>0. Tracked(c.rt) /\ AdapterInv(c.tr) /\ DOMAIN c = {"rt", "tr", "ok"} /\ c.ok \in BOOLEAN
  BY DEF CtxSound
<1>1. PICK loaded : loaded = [c.rt EXCEPT !.modules = @ \cup {c.rt.devices[op.src]}]
  OBVIOUS
<1>2. Tracked(loaded) /\ SameRun(c.rt, loaded) /\ op.src \in DOMAIN loaded.devices
  <2>1. /\ DOMAIN loaded = RtFields /\ SameRun(c.rt, loaded)
        /\ loaded.res = c.rt.res /\ loaded.live = c.rt.live
    BY <1>0, <1>1 DEF Tracked, RtFields, SameRun
  <2>2. loaded.devices = c.rt.devices
    BY <2>1 DEF SameRun
  <2> QED
    BY <1>0, <2>1, <2>2, TrackedSame
<1>3. PICK one : one = Alloc(loaded, op.src, 1)
  OBVIOUS
<1>4. PICK two : two = Alloc(loaded, op.src, 2)
  OBVIOUS
<1>5. Tracked(one) /\ SameRun(loaded, one)
  BY <1>2, <1>3, AllocKeeps
<1>6. Tracked(two) /\ SameRun(loaded, two)
  BY <1>2, <1>4, AllocKeeps
<1>7. d = CASE op.bytes = 0 -> c
            [] fault = "module" /\ c.rt.devices[op.src] \notin c.rt.modules ->
                    [rt |-> c.rt, tr |-> c.tr, ok |-> FALSE]
            [] fault = "alloc1" -> [rt |-> loaded, tr |-> c.tr, ok |-> FALSE]
            [] fault = "alloc2" -> [rt |-> one, tr |-> c.tr, ok |-> FALSE]
            [] fault = "device" -> [rt |-> two, tr |-> c.tr, ok |-> FALSE]
            [] OTHER -> [rt |-> two, tr |-> c.tr, ok |-> TRUE]
  BY <1>1, <1>3, <1>4 DEF RunLaunch
<1>8. /\ DOMAIN d = {"rt", "tr", "ok"} /\ d.rt \in {c.rt, loaded, one, two} /\ d.tr = c.tr
      /\ d.ok \in BOOLEAN
  <2>1. PICK r0, t0, m0 : /\ r0 = c.rt /\ t0 = c.tr
                          /\ m0 = (c.rt.devices[op.src] \notin c.rt.modules)
    OBVIOUS
  <2>2. d = CASE op.bytes = 0 -> c
              [] fault = "module" /\ m0 -> [rt |-> r0, tr |-> t0, ok |-> FALSE]
              [] fault = "alloc1" -> [rt |-> loaded, tr |-> t0, ok |-> FALSE]
              [] fault = "alloc2" -> [rt |-> one, tr |-> t0, ok |-> FALSE]
              [] fault = "device" -> [rt |-> two, tr |-> t0, ok |-> FALSE]
              [] OTHER -> [rt |-> two, tr |-> t0, ok |-> TRUE]
    BY <1>7, <2>1
  <2>3. \/ d = c
        \/ d = [rt |-> r0, tr |-> t0, ok |-> FALSE]
        \/ d = [rt |-> loaded, tr |-> t0, ok |-> FALSE]
        \/ d = [rt |-> one, tr |-> t0, ok |-> FALSE]
        \/ d = [rt |-> two, tr |-> t0, ok |-> FALSE]
        \/ d = [rt |-> two, tr |-> t0, ok |-> TRUE]
    BY <2>2
  <2>4. CASE d = c
    BY <1>0, <2>4
  <2>5. CASE d # c
    <3>1. PICK r \in {r0, loaded, one, two}, ok \in BOOLEAN : d = [rt |-> r, tr |-> t0, ok |-> ok]
      BY <2>3, <2>5
    <3> QED
      BY <2>1, <3>1
  <2> QED
    BY <2>4, <2>5
<1>9. SameRun(c.rt, c.rt) /\ SameRun(c.rt, one) /\ SameRun(c.rt, two)
  BY <1>2, <1>5, <1>6 DEF SameRun
<1>10. Tracked(d.rt) /\ SameRun(c.rt, d.rt)
  BY <1>0, <1>2, <1>5, <1>6, <1>8, <1>9
<1> QED
  BY <1>0, <1>8, <1>10 DEF Landed, CtxSound

\* A barrier changes nothing.
LEMMA BarrierLands ==
    ASSUME NEW c, CtxSound(c), NEW fault, NEW d, d = [c EXCEPT !.ok = fault # "sync"]
    PROVE  Landed(c, d, {})
<1>1. DOMAIN d = {"rt", "tr", "ok"} /\ d.rt = c.rt /\ d.tr = c.tr /\ d.ok \in BOOLEAN
  BY DEF CtxSound
<1> QED
  BY <1>1 DEF Landed, CtxSound, SameRun

\* An operation lands its copies and nothing else.
LEMMA OperationLands ==
    ASSUME Tracked(rt), AdapterInv(tr), NEW op, Runnable(op, rt.devices, rt.directions),
           NEW fault, NEW target, NEW d, d = RunOperation(op, fault, target)
    PROVE  Landed([rt |-> rt, tr |-> tr, ok |-> TRUE], d, CopyRefs(op))
<1>1. PICK c : c = [rt |-> rt, tr |-> tr, ok |-> TRUE]
  OBVIOUS
<1>2. CtxSound(c) /\ c.ok /\ c.rt = rt /\ c.tr = tr
  BY <1>1 DEF CtxSound
<1>3. d = CASE op.kind = "launch" -> RunLaunch(c, op, fault)
            [] op.kind \in {"transfer", "broadcast"} -> RunCopies(c, op, fault, target)
            [] op.kind = "barrier" -> [c EXCEPT !.ok = fault # "sync"]
  BY <1>1 DEF RunOperation
<1>4. op.kind \in {"launch", "transfer", "broadcast", "barrier"}
  BY DEF Runnable, Kinds
<1>5. CASE op.kind = "launch"
  <2>1. d = RunLaunch(c, op, fault) /\ CopyRefs(op) = {} /\ op.src \in DOMAIN c.rt.devices
    BY <1>2, <1>3, <1>5 DEF CopyRefs, Runnable
  <2>2. Landed(c, d, {})
    BY <1>2, <2>1, LaunchLands
  <2> QED
    BY <1>1, <2>1, <2>2
<1>6. CASE op.kind \in {"transfer", "broadcast"}
  <2>1. d = RunCopies(c, op, fault, target) /\ Runnable(op, c.rt.devices, rt.directions)
    BY <1>2, <1>3, <1>6
  <2>2. Landed(c, d, CopyRefs(op))
    BY <1>2, <1>6, <2>1, CopiesLand
  <2> QED
    BY <1>1, <2>2
<1>7. CASE op.kind = "barrier"
  <2>1. d = [c EXCEPT !.ok = fault # "sync"] /\ CopyRefs(op) = {}
    BY <1>3, <1>7 DEF CopyRefs
  <2>2. Landed(c, d, {})
    BY <1>2, <2>1, BarrierLands
  <2> QED
    BY <1>1, <2>1, <2>2
<1> QED
  BY <1>4, <1>5, <1>6, <1>7

-----------------------------------------------------------------------------
(* A running plan.                                                           *)

\* Its operations are distinct and run on its partitions.
PlanSound(r) ==
    /\ r.txn.ops \in Seq(ToSet(r.txn.ops))
    /\ \A i \in DOMAIN r.txn.ops : Runnable(r.txn.ops[i], r.devices, r.directions)
    /\ \A i, k \in DOMAIN r.txn.ops :
            OperationRef(r.txn.ops[i]) = OperationRef(r.txn.ops[k]) => i = k

\* The events and the copies of the operations below n.
EventsBelow(r, n) == UNION {CompletedEvents(r.txn.ops[i]) : i \in {j \in DOMAIN r.txn.ops : j < n}}
CopiesBelow(r, n) == UNION {CopyRefs(r.txn.ops[i]) : i \in {j \in DOMAIN r.txn.ops : j < n}}

\* refs, the copies that landed, are those of the operations behind the run
\* and, once it failed, some of the one it failed in.
Progress(r, refs) ==
    /\ r.at \in 1 .. Len(r.txn.ops) + 1
    /\ r.state \in {"preparing", "running", "done", "failed"}
    /\ r.state = "preparing" => r.at = 1
    /\ r.state = "running" => r.at <= Len(r.txn.ops)
    /\ r.events = EventsBelow(r, r.at)
    /\ CopiesBelow(r, r.at) \subseteq refs
    /\ refs \subseteq CopiesBelow(r, r.at) \/ (r.state = "failed" /\ refs \subseteq CopiesBelow(r, r.at + 1))

RunInv == rt # Closed => Tracked(rt) /\ PlanSound(rt) /\ Progress(rt, Refs(tr))

\* What the operations of a sound plan are.
LEMMA PlanFacts ==
    ASSUME NEW r, PlanSound(r)
    PROVE  /\ Len(r.txn.ops) \in Nat /\ DOMAIN r.txn.ops = 1 .. Len(r.txn.ops)
           /\ \A i \in DOMAIN r.txn.ops :
                /\ r.txn.ops[i].parts \subseteq DOMAIN r.devices
                /\ r.txn.ops[i].parts \subseteq Nat
<1>1. PICK s : s = r.txn.ops
  OBVIOUS
<1>2. s \in Seq(ToSet(s))
  BY <1>1 DEF PlanSound
<1>3. Len(s) \in Nat /\ DOMAIN s = 1 .. Len(s)
  BY <1>2, LenProperties
<1> QED
  BY <1>1, <1>3 DEF PlanSound, Runnable

\* Below an operation and the one behind it.
LEMMA BelowNext ==
    ASSUME NEW r, NEW n \in DOMAIN r.txn.ops, DOMAIN r.txn.ops \subseteq Nat
    PROVE  /\ EventsBelow(r, n + 1) = EventsBelow(r, n) \cup CompletedEvents(r.txn.ops[n])
           /\ CopiesBelow(r, n + 1) = CopiesBelow(r, n) \cup CopyRefs(r.txn.ops[n])
<1>1. PICK D : D = DOMAIN r.txn.ops /\ D \subseteq Nat /\ n \in D
  OBVIOUS
<1>2. {j \in D : j < n + 1} = {j \in D : j < n} \cup {n}
  BY <1>1
<1> QED
  BY <1>1, <1>2 DEF EventsBelow, CopiesBelow

\* What lies below an operation depends on the plan alone.
LEMMA BelowSame ==
    ASSUME NEW r, NEW q, q.txn = r.txn, NEW n
    PROVE  EventsBelow(q, n) = EventsBelow(r, n) /\ CopiesBelow(q, n) = CopiesBelow(r, n)
BY DEF EventsBelow, CopiesBelow

\* Below the first operation there is nothing.
LEMMA NothingBelow ==
    ASSUME NEW r, DOMAIN r.txn.ops \subseteq Nat \ {0}
    PROVE  EventsBelow(r, 1) = {} /\ CopiesBelow(r, 1) = {}
<1>1. {j \in DOMAIN r.txn.ops : j < 1} = {}
  OBVIOUS
<1> QED
  BY <1>1 DEF EventsBelow, CopiesBelow

\* A step of the run that leaves its position and the adapter alone.
LEMMA SamePlace ==
    ASSUME NEW r, NEW q, NEW refs, PlanSound(r), Progress(r, refs),
           q.txn = r.txn, q.devices = r.devices, q.directions = r.directions,
           q.at = r.at, q.events = r.events,
           \/ q.state = r.state
           \/ q.state = "failed"
           \/ r.state = "preparing" /\ q.state = IF r.txn.ops = <<>> THEN "done" ELSE "running"
    PROVE  PlanSound(q) /\ Progress(q, refs)
<1>1. PlanSound(q)
  BY DEF PlanSound
<1>2. EventsBelow(q, r.at) = EventsBelow(r, r.at) /\ CopiesBelow(q, r.at) = CopiesBelow(r, r.at)
      /\ CopiesBelow(q, r.at + 1) = CopiesBelow(r, r.at + 1)
  BY BelowSame
<1>3. q.state \in {"preparing", "running", "done", "failed"}
  BY DEF Progress
<1>4. q.state = "preparing" => q.at = 1
  BY DEF Progress
<1>5. q.state = "running" => q.at <= Len(q.txn.ops)
  <2>1. CASE r.state = "running"
    BY <2>1 DEF Progress
  <2>2. CASE r.state # "running" /\ q.state = "running"
    <3>1. r.state = "preparing" /\ r.txn.ops # <<>> /\ r.at = 1
      BY <2>2 DEF Progress
    <3>2. PICK s : s = r.txn.ops
      OBVIOUS
    <3>3. s \in Seq(ToSet(s)) /\ s # <<>>
      BY <3>1, <3>2 DEF PlanSound
    <3>4. Len(s) \in Nat /\ Len(s) # 0
      BY <3>3, EmptySeq, LenProperties
    <3> QED
      BY <3>1, <3>2, <3>4
  <2> QED
    BY <2>1, <2>2
<1>6. q.events = EventsBelow(q, q.at) /\ CopiesBelow(q, q.at) \subseteq refs
  BY <1>2 DEF Progress
<1>7. refs \subseteq CopiesBelow(q, q.at)
      \/ (q.state = "failed" /\ refs \subseteq CopiesBelow(q, q.at + 1))
  BY <1>2 DEF Progress
<1>8. q.at \in 1 .. Len(q.txn.ops) + 1
  BY DEF Progress
<1> QED
  BY <1>1, <1>3, <1>4, <1>5, <1>6, <1>7, <1>8 DEF Progress

\* An operation that ran to its end moves the run on.
LEMMA MovesOn ==
    ASSUME NEW r, NEW q, NEW old, NEW new, PlanSound(r), Progress(r, old), r.state = "running",
           old \subseteq new, new \subseteq old \cup CopyRefs(r.txn.ops[r.at]),
           CopyRefs(r.txn.ops[r.at]) \subseteq new,
           q.txn = r.txn, q.devices = r.devices, q.directions = r.directions,
           q.at = r.at + 1, q.events = r.events \cup CompletedEvents(r.txn.ops[r.at]),
           q.state = IF r.at = Len(r.txn.ops) THEN "done" ELSE "running"
    PROVE  PlanSound(q) /\ Progress(q, new)
<1>1. PlanSound(q)
  BY DEF PlanSound
<1>2. PICK n \in Nat, l \in Nat : n = r.at /\ l = Len(r.txn.ops) /\ n \in 1 .. l
                                  /\ DOMAIN r.txn.ops = 1 .. l
  BY PlanFacts DEF Progress
<1>3. /\ EventsBelow(r, n + 1) = EventsBelow(r, n) \cup CompletedEvents(r.txn.ops[n])
      /\ CopiesBelow(r, n + 1) = CopiesBelow(r, n) \cup CopyRefs(r.txn.ops[n])
  BY <1>2, BelowNext
<1>4. EventsBelow(q, n + 1) = EventsBelow(r, n + 1) /\ CopiesBelow(q, n + 1) = CopiesBelow(r, n + 1)
  BY BelowSame
<1>5. r.events = EventsBelow(r, n) /\ CopiesBelow(r, n) \subseteq old /\ old \subseteq CopiesBelow(r, n)
  BY <1>2 DEF Progress
<1>6. q.events = EventsBelow(q, q.at) /\ CopiesBelow(q, q.at) \subseteq new
      /\ new \subseteq CopiesBelow(q, q.at)
  BY <1>2, <1>3, <1>4, <1>5
<1>7. q.at \in 1 .. Len(q.txn.ops) + 1 /\ (q.state = "running" => q.at <= Len(q.txn.ops))
  BY <1>2
<1> QED
  BY <1>1, <1>6, <1>7 DEF Progress

\* An operation that failed leaves it where it was.
LEMMA StaysThere ==
    ASSUME NEW r, NEW q, NEW old, NEW new, PlanSound(r), Progress(r, old), r.state = "running",
           old \subseteq new, new \subseteq old \cup CopyRefs(r.txn.ops[r.at]),
           q.txn = r.txn, q.devices = r.devices, q.directions = r.directions,
           q.at = r.at, q.events = r.events, q.state = "failed"
    PROVE  PlanSound(q) /\ Progress(q, new)
<1>1. PlanSound(q)
  BY DEF PlanSound
<1>2. PICK n \in Nat, l \in Nat : n = r.at /\ l = Len(r.txn.ops) /\ n \in 1 .. l
                                  /\ DOMAIN r.txn.ops = 1 .. l
  BY PlanFacts DEF Progress
<1>3. CopiesBelow(r, n + 1) = CopiesBelow(r, n) \cup CopyRefs(r.txn.ops[n])
  BY <1>2, BelowNext
<1>4. /\ EventsBelow(q, n) = EventsBelow(r, n) /\ CopiesBelow(q, n) = CopiesBelow(r, n)
      /\ CopiesBelow(q, n + 1) = CopiesBelow(r, n + 1)
  BY BelowSame
<1>5. r.events = EventsBelow(r, n) /\ CopiesBelow(r, n) \subseteq old /\ old \subseteq CopiesBelow(r, n)
  BY <1>2 DEF Progress
<1>6. q.events = EventsBelow(q, q.at) /\ CopiesBelow(q, q.at) \subseteq new
      /\ new \subseteq CopiesBelow(q, q.at + 1)
  BY <1>2, <1>3, <1>4, <1>5
<1>7. q.at \in 1 .. Len(q.txn.ops) + 1
  BY <1>2
<1> QED
  BY <1>1, <1>6, <1>7 DEF Progress

\* What landed and what is complete agree.
LEMMA RunInvFollows ==
    ASSUME RunInv
    PROVE  EventsFollowCopies
<1> SUFFICES ASSUME rt # Closed PROVE EventsFollowCopies
  BY DEF EventsFollowCopies
<1>1. PlanSound(rt) /\ Progress(rt, Refs(tr))
  BY DEF RunInv
<1>2. PICK n \in Nat : n = rt.at
  BY PlanFacts, <1>1 DEF Progress
<1>3. DOMAIN rt.txn.ops \subseteq Nat
  BY PlanFacts, <1>1
<1> DEFINE landed(i) == {d \in rt.txn.ops[i].to : \E r \in ToSet(tr.records) :
                            r.ref = <<OperationRef(rt.txn.ops[i]), d>>}
<1>4. ASSUME NEW i \in DOMAIN rt.txn.ops, NEW m, NEW d,
             <<OperationRef(rt.txn.ops[i]), d>> \in CopiesBelow(rt, m)
      PROVE  i < m
  <2>1. PICK j \in DOMAIN rt.txn.ops : j < m /\ <<OperationRef(rt.txn.ops[i]), d>> \in CopyRefs(rt.txn.ops[j])
    BY <1>4 DEF CopiesBelow
  <2>2. OperationRef(rt.txn.ops[i]) = OperationRef(rt.txn.ops[j])
    BY <2>1 DEF CopyRefs, RefsTo
  <2> QED
    BY <1>1, <2>1, <2>2 DEF PlanSound
<1>5. ASSUME NEW i \in DOMAIN rt.txn.ops, NEW p,
             <<OperationRef(rt.txn.ops[i]), p>> \in EventsBelow(rt, n)
      PROVE  i < n
  <2>1. PICK j \in DOMAIN rt.txn.ops : j < n /\ <<OperationRef(rt.txn.ops[i]), p>> \in CompletedEvents(rt.txn.ops[j])
    BY <1>5 DEF EventsBelow
  <2>2. OperationRef(rt.txn.ops[i]) = OperationRef(rt.txn.ops[j])
    BY <2>1 DEF CompletedEvents
  <2> QED
    BY <1>1, <2>1, <2>2 DEF PlanSound
<1>6. ASSUME NEW i \in DOMAIN rt.txn.ops, rt.txn.ops[i].kind \in {"transfer", "broadcast"}
      PROVE  /\ CompletedEvents(rt.txn.ops[i]) \subseteq rt.events <=> i < rt.at
             /\ i < rt.at => landed(i) = rt.txn.ops[i].to
             /\ i = rt.at /\ landed(i) # {} => rt.state = "failed"
             /\ i > rt.at => landed(i) = {}
  <2>1. rt.events = EventsBelow(rt, n)
    BY <1>1, <1>2 DEF Progress
  <2>2. <<OperationRef(rt.txn.ops[i]), rt.txn.ops[i].src>> \in CompletedEvents(rt.txn.ops[i])
    BY <1>1, <1>6 DEF PlanSound, Runnable, CompletedEvents
  <2>3. CompletedEvents(rt.txn.ops[i]) \subseteq rt.events => i < n
    BY <1>5, <2>1, <2>2
  <2>4. i < n => CompletedEvents(rt.txn.ops[i]) \subseteq rt.events
    BY <2>1 DEF EventsBelow
  <2>5. \A d : d \in landed(i) <=> d \in rt.txn.ops[i].to
                                   /\ <<OperationRef(rt.txn.ops[i]), d>> \in Refs(tr)
    BY DEF Refs
  <2>6. CopyRefs(rt.txn.ops[i]) = {<<OperationRef(rt.txn.ops[i]), d>> : d \in rt.txn.ops[i].to}
    BY <1>6 DEF CopyRefs, RefsTo
  <2>7. i < n => landed(i) = rt.txn.ops[i].to
    <3> SUFFICES ASSUME i < n PROVE landed(i) = rt.txn.ops[i].to
      OBVIOUS
    <3>1. CopyRefs(rt.txn.ops[i]) \subseteq Refs(tr)
      BY <1>1, <1>2 DEF Progress, CopiesBelow
    <3> HIDE DEF landed
    <3> QED
      BY <2>5, <2>6, <3>1
  <2>8. ASSUME NEW d \in landed(i)
        PROVE  i < n \/ (i < n + 1 /\ rt.state = "failed")
    <3>1. <<OperationRef(rt.txn.ops[i]), d>> \in Refs(tr)
      BY <2>5
    <3>2. \/ <<OperationRef(rt.txn.ops[i]), d>> \in CopiesBelow(rt, n)
          \/ rt.state = "failed" /\ <<OperationRef(rt.txn.ops[i]), d>> \in CopiesBelow(rt, n + 1)
      BY <1>1, <1>2, <3>1 DEF Progress
    <3> QED
      BY <1>4, <3>2
  <2>9. i \in Nat
    BY <1>3
  <2> HIDE DEF landed
  <2>10. (i = n /\ landed(i) # {} => rt.state = "failed") /\ (i > n => landed(i) = {})
    BY <2>8, <2>9
  <2> QED
    BY <1>2, <2>3, <2>4, <2>7, <2>10
<1> QED
  BY <1>6 DEF EventsFollowCopies

-----------------------------------------------------------------------------
(* The steps of the run.                                                     *)

TransferInv == AdapterInv(tr) /\ RunInv

\* What a prepared image is known to satisfy.
Prepared == last.op = "prepare" /\ "bound" \in DOMAIN last
PreparedSound ==
    Prepared =>
        /\ last.wire \in Wires
        /\ DOMAIN last.bound.bindings = ToSet(last.wire.partitions)
        /\ Admitted(TransactionOf(last.wire, last.bound.bindings))

\* A step that changes neither the backend nor the adapter keeps it.
LEMMA TransferInvStays ==
    ASSUME TransferInv, UNCHANGED <<rt, tr>>
    PROVE  TransferInv'
BY DEF TransferInv, RunInv, Progress, Closed

\* The sum of zeros.
LEMMA SumOfZeros ==
    ASSUME NEW w, NEW S, IsFiniteSet(S), \A x \in S : w[x] = 0
    PROVE  SumFunctionOnSet(w, S) = 0
<1> DEFINE P == {s \in SUBSET S : SumFunctionOnSet(w, s) = 0}
<1>1. ASSUME NEW s \in SUBSET S, s # {} => \A x \in s : s \ {x} \in P
      PROVE  SumFunctionOnSet(w, s) = 0
  <2>1. SumFunctionOnSet(w, s)
          = IF s = {} THEN 0 ELSE w[Pick(s)] + SumFunctionOnSet(w, s \ {Pick(s)})
    BY SumOfPick, FS_Subset
  <2>2. s # {} => Pick(s) \in s
    BY DEF Pick
  <2> QED
    BY <1>1, <2>1, <2>2
<1>2. SUBSET S \subseteq P
  <2>1. \A s \in SUBSET S : (s # {} => \A x \in s : s \ {x} \in P) => s \in P
    BY <1>1
  <2> HIDE DEF P
  <2> QED
    BY <2>1, SubsetsOneByOne
<1> QED
  BY <1>2

\* A translated operation can be run on the partitions its image is bound to.
LEMMA TranslatedRunnable ==
    ASSUME NEW wire \in Wires, NEW o \in ToSet(wire.ops), NEW op, op = TranslateOperation(wire, o),
           NEW devices, op.parts \subseteq DOMAIN devices
    PROVE  Runnable(op, devices, wire.directions) /\ OperationRef(op) = OperationRef(o)
<1>1. /\ o = Operation(o.kind, o.ref, o.src, o.to, o.parts, o.bytes)
      /\ o.kind \in {"launch", "transfer", "broadcast", "barrier"}
      /\ o.bytes \in Nat /\ o.parts \subseteq Nat /\ IsFiniteSet(o.parts)
      /\ o.kind # "barrier" => o.src \in o.parts
      /\ o.to \subseteq o.parts
      /\ o.kind = "transfer" => wire.directions[o.ref] \in Directions
  BY ImagesAssumption
<1>2. PICK b : op = IF o.kind = "launch" THEN [o EXCEPT !.bytes = b] ELSE o
  BY DEF TranslateOperation
<1>3. DOMAIN o = {"kind", "ref", "src", "to", "parts", "bytes"}
  <2>1. DOMAIN Operation(o.kind, o.ref, o.src, o.to, o.parts, o.bytes)
          = {"kind", "ref", "src", "to", "parts", "bytes"}
    BY DEF Operation
  <2> QED
    BY <1>1, <2>1
<1>4. /\ op.kind = o.kind /\ op.ref = o.ref /\ op.src = o.src /\ op.to = o.to
      /\ op.parts = o.parts /\ (o.kind # "launch" => op.bytes = o.bytes)
  <2> HIDE <1>1
  <2> QED
    BY <1>2, <1>3
<1> QED
  BY <1>1, <1>4 DEF Runnable, OperationRef, Kinds

\* A backend that opens on a prepared image.
LEMMA OpensSound ==
    ASSUME NEW wire \in Wires, NEW bindings, DOMAIN bindings = ToSet(wire.partitions),
           Admitted(TransactionOf(wire, bindings)), NEW members, BoundDevices(bindings) \subseteq members,
           NEW r,
           r = [state |-> "preparing", txn |-> TransactionOf(wire, bindings),
                directions |-> wire.directions,
                devices |-> [p \in DOMAIN bindings |-> bindings[p].device],
                at |-> 1, held |-> {}, res |-> [p \in DOMAIN bindings |-> 0],
                live |-> [d \in members |-> 0], modules |-> {}, events |-> {}]
    PROVE  Tracked(r) /\ PlanSound(r) /\ Progress(r, {})
<1>1. PICK T, ops, D : /\ T = TransactionOf(wire, bindings) /\ ops = TranslatedOperations(wire)
                       /\ D = DOMAIN bindings
  OBVIOUS
<1>2. /\ DOMAIN r = RtFields /\ r.state = "preparing" /\ r.txn = T /\ r.directions = wire.directions
      /\ r.devices = [p \in D |-> bindings[p].device]
      /\ r.at = 1 /\ r.res = [p \in D |-> 0]
      /\ r.live = [d \in members |-> 0] /\ r.events = {}
  BY <1>1 DEF RtFields
<1>3. T.ops = ops /\ DOMAIN T.ledger = D
  BY <1>1 DEF TransactionOf
<1>4. wire.partitions \in Seq(Nat) /\ wire.ops \in Seq(ToSet(wire.ops))
  BY ImagesAssumption
<1>5. IsFiniteSet(D)
  <2>1. PICK s : s = wire.partitions
    OBVIOUS
  <2>2. s \in Seq(Nat) /\ DOMAIN s = 1 .. Len(s) /\ Len(s) \in Nat
    BY <1>4, <2>1, LenProperties
  <2>3. IsFiniteSet(DOMAIN s)
    BY <2>2, FS_Interval
  <2>4. s \in Surjection(DOMAIN s, D)
    BY <1>1, <2>1, <2>2 DEF ToSet, Surjection
  <2> QED
    BY <2>3, <2>4, FS_Surjection
<1>6. Tracked(r)
  <2>1. r.res \in [DOMAIN r.devices -> Nat] /\ IsFiniteSet(DOMAIN r.devices)
    BY <1>2, <1>5
  <2>2. \A p \in DOMAIN r.devices : r.devices[p] \in DOMAIN r.live
    BY <1>1, <1>2 DEF BoundDevices
  <2>3. ASSUME NEW d \in DOMAIN r.live PROVE r.live[d] = SumFunctionOnSet(r.res, Residents(r, d))
    <3>1. PICK w, S : w = r.res /\ S = Residents(r, d)
      OBVIOUS
    <3>2. S \subseteq D
      BY <1>2, <3>1 DEF Residents
    <3>3. IsFiniteSet(S)
      BY <1>5, <3>2, FS_Subset
    <3>4. \A x \in S : w[x] = 0
      BY <1>2, <3>1, <3>2
    <3>5. SumFunctionOnSet(w, S) = 0
      BY <3>3, <3>4, SumOfZeros
    <3> QED
      BY <1>2, <3>1, <3>5
  <2> QED
    BY <1>2, <2>1, <2>2, <2>3 DEF Tracked
<1>7. PICK l \in Nat : /\ DOMAIN wire.ops = 1 .. l /\ l = Len(wire.ops)
                       /\ \A i \in 1 .. l : wire.ops[i] \in ToSet(wire.ops)
  <2>1. PICK s : s = wire.ops
    OBVIOUS
  <2>2. s \in Seq(ToSet(s))
    BY <1>4, <2>1
  <2>3. DOMAIN s = 1 .. Len(s) /\ Len(s) \in Nat
    BY <2>2, LenProperties
  <2> QED
    BY <2>1, <2>3 DEF ToSet
<1>8. DOMAIN ops = 1 .. l /\ \A i \in 1 .. l : ops[i] = TranslateOperation(wire, wire.ops[i])
  BY <1>1, <1>7 DEF TranslatedOperations
<1>9. ops \in Seq(ToSet(ops)) /\ Len(ops) = l
  <2>1. ops = [i \in 1 .. l |-> ops[i]]
    BY <1>1, <1>7 DEF TranslatedOperations
  <2>2. \A i \in 1 .. l : ops[i] \in ToSet(ops)
    BY <1>8 DEF ToSet
  <2>3. [i \in 1 .. l |-> ops[i]] \in Seq(ToSet(ops))
    BY <2>2, IsASeq
  <2>4. ops \in Seq(ToSet(ops))
    BY <2>1, <2>3
  <2> QED
    BY <1>8, <2>4, LenProperties
<1>10. /\ \A i, k \in 1 .. l : OperationRef(ops[i]) = OperationRef(ops[k]) => i = k
       /\ \A i \in 1 .. l : ops[i].parts \subseteq D
  <2>1. Admitted(T)
    BY <1>1
  <2> QED
    BY <1>3, <1>9, <2>1 DEF Admitted, Referenced, Ops
<1>11. PlanSound(r)
  <2>1. \A i \in 1 .. l : Runnable(ops[i], r.devices, wire.directions)
    <3> TAKE i \in 1 .. l
    <3>1. PICK o : o = wire.ops[i]
      OBVIOUS
    <3>2. o \in ToSet(wire.ops) /\ ops[i] = TranslateOperation(wire, o)
      BY <1>7, <1>8, <3>1
    <3>3. ops[i].parts \subseteq DOMAIN r.devices
      BY <1>2, <1>10
    <3> QED
      BY <3>2, <3>3, TranslatedRunnable
  <2> QED
    BY <1>2, <1>3, <1>8, <1>9, <1>10, <2>1 DEF PlanSound
<1>12. Progress(r, {})
  <2>1. DOMAIN r.txn.ops \subseteq Nat \ {0} /\ Len(r.txn.ops) = l
    BY <1>2, <1>3, <1>8, <1>9
  <2>2. EventsBelow(r, 1) = {} /\ CopiesBelow(r, 1) = {}
    BY <2>1, NothingBelow
  <2> QED
    BY <1>2, <2>1, <2>2 DEF Progress
<1> QED
  BY <1>6, <1>11, <1>12

\* A partition to reserve next is one of the plan's.
LEMMA NextReservedIn ==
    ASSUME PlanSound(rt), ~(Referenced(rt.txn) \subseteq rt.held)
    PROVE  NextReserved \in Partitions
<1> DEFINE T == Referenced(rt.txn) \ rt.held
<1>1. T \subseteq Nat /\ T \subseteq DOMAIN rt.devices /\ T # {}
  BY PlanFacts DEF Referenced, Ops
<1>2. \E m \in T : \A k \in T : m <= k
  <2> HIDE DEF T
  <2> QED
    BY <1>1, LeastNatural
<1>3. NextReserved \in T
  BY <1>2 DEF NextReserved, Min
<1> QED
  BY <1>1, <1>3 DEF Partitions

\* A prepared image opens a backend with sound operations and a new adapter.
LEMMA OpenBackendKeeps ==
    ASSUME TransferInv, PreparedSound, NEW members, OpenBackend(members)
    PROVE  TransferInv'
<1>1. CASE members # {} /\ BoundDevices(last.bound.bindings) \subseteq members
  <2>1. PICK wire, bindings : wire = last.wire /\ bindings = last.bound.bindings
    OBVIOUS
  <2>2. /\ rt' = [state |-> "preparing", txn |-> TransactionOf(wire, bindings),
                  directions |-> wire.directions,
                  devices |-> [p \in DOMAIN bindings |-> bindings[p].device],
                  at |-> 1, held |-> {}, res |-> [p \in DOMAIN bindings |-> 0],
                  live |-> [d \in members |-> 0], modules |-> {}, events |-> {}]
        /\ tr = NewAdapter /\ tr' = tr
    BY <1>1, <2>1 DEF OpenBackend, Planning
  <2>3. /\ wire \in Wires /\ DOMAIN bindings = ToSet(wire.partitions)
        /\ Admitted(TransactionOf(wire, bindings)) /\ BoundDevices(bindings) \subseteq members
    BY <1>1, <2>1 DEF OpenBackend, PreparedSound, Prepared
  <2>4. Tracked(rt') /\ PlanSound(rt') /\ Progress(rt', {})
    BY <2>2, <2>3, OpensSound
  <2>5. AdapterInv(tr') /\ Refs(tr') = {}
    BY <2>2, NewAdapterSound
  <2> QED
    BY <2>4, <2>5 DEF TransferInv, RunInv
<1>2. CASE ~(members # {} /\ BoundDevices(last.bound.bindings) \subseteq members)
  <2>1. UNCHANGED <<rt, tr>>
    BY <1>2 DEF OpenBackend
  <2> QED
    BY <2>1, TransferInvStays
<1> QED
  BY <1>1, <1>2

\* A closed backend has no other state.
LEMMA StateIsOpen ==
    ASSUME rt.state # "closed"
    PROVE  rt # Closed
BY DEF Closed

\* Reserving allocates to each device what its partitions hold.
LEMMA ReserveKeeps ==
    ASSUME TransferInv, Reserve
    PROVE  TransferInv'
<1>1. rt.state = "preparing" /\ tr' = tr
  BY DEF Reserve
<1>2. Tracked(rt) /\ PlanSound(rt) /\ Progress(rt, Refs(tr)) /\ AdapterInv(tr)
  BY <1>1, StateIsOpen DEF TransferInv, RunInv
<1>3. CASE Referenced(rt.txn) \subseteq rt.held
  <2>1. rt' = [rt EXCEPT !.state = IF rt.txn.ops = <<>> THEN "done" ELSE "running"]
    BY <1>3 DEF Reserve
  <2>2. /\ DOMAIN rt' = RtFields /\ rt'.devices = rt.devices /\ rt'.res = rt.res /\ rt'.live = rt.live
        /\ rt'.txn = rt.txn /\ rt'.directions = rt.directions /\ rt'.at = rt.at /\ rt'.events = rt.events
        /\ rt'.state = IF rt.txn.ops = <<>> THEN "done" ELSE "running"
    BY <1>2, <2>1 DEF Tracked, RtFields
  <2>3. Tracked(rt')
    BY <1>2, <2>2, TrackedSame
  <2>4. PlanSound(rt') /\ Progress(rt', Refs(tr))
    BY <1>1, <1>2, <2>2, SamePlace
  <2> QED
    BY <1>1, <1>2, <2>3, <2>4 DEF TransferInv, RunInv
<1>4. CASE ~(Referenced(rt.txn) \subseteq rt.held)
  <2>1. PICK p \in DOMAIN rt.devices : p = NextReserved
    BY <1>2, <1>4, NextReservedIn DEF Partitions
  <2>2. PICK n \in Nat : n = ReserveCount(p)
    <3>1. IsFiniteSet({"outputs", "staging", "scratch"})
      <4>1. IsFiniteSet({} \cup {"outputs"})
        BY FS_EmptySet, FS_AddElement
      <4>2. IsFiniteSet(({} \cup {"outputs"}) \cup {"staging"})
        BY <4>1, FS_AddElement
      <4>3. IsFiniteSet((({} \cup {"outputs"}) \cup {"staging"}) \cup {"scratch"})
        BY <4>2, FS_AddElement
      <4>4. (({} \cup {"outputs"}) \cup {"staging"}) \cup {"scratch"}
              = {"outputs", "staging", "scratch"}
        OBVIOUS
      <4> QED
        BY <4>3, <4>4
    <3>2. IsFiniteSet({c \in {"outputs", "staging", "scratch"} :
            CASE c = "outputs" -> OutputBytes(rt.txn, p) > 0
              [] c = "staging" -> StagingBytes(rt.txn, p) > 0
              [] c = "scratch" -> TRUE})
      BY <3>1, FS_Subset
    <3> QED
      BY <3>2, FS_CardinalityType DEF ReserveCount
  <2>3. PICK q : q = Alloc(rt, p, n)
    OBVIOUS
  <2>4. rt' = [q EXCEPT !.held = q.held \cup {p}]
    BY <1>4, <2>1, <2>2, <2>3 DEF Reserve
  <2>5. Tracked(q) /\ SameRun(rt, q)
    BY <1>2, <2>1, <2>2, <2>3, AllocKeeps
  <2>6. /\ DOMAIN rt' = RtFields /\ rt'.devices = q.devices /\ rt'.res = q.res /\ rt'.live = q.live
        /\ rt'.txn = q.txn /\ rt'.directions = q.directions /\ rt'.at = q.at /\ rt'.events = q.events
        /\ rt'.state = q.state
    BY <2>4, <2>5 DEF Tracked, RtFields
  <2>7. Tracked(rt')
    BY <2>5, <2>6, TrackedSame
  <2>8. /\ rt'.txn = rt.txn /\ rt'.devices = rt.devices /\ rt'.directions = rt.directions
        /\ rt'.at = rt.at /\ rt'.events = rt.events /\ rt'.state = rt.state
    BY <2>5, <2>6 DEF SameRun
  <2>9. PlanSound(rt') /\ Progress(rt', Refs(tr))
    BY <1>2, <2>8, SamePlace
  <2> QED
    BY <1>1, <1>2, <2>7, <2>9 DEF TransferInv, RunInv
<1> QED
  BY <1>3, <1>4

\* A failing reservation releases what it had reserved.
LEMMA ReserveFailsKeeps ==
    ASSUME TransferInv, NEW n \in Nat, ReserveFails(n)
    PROVE  TransferInv'
<1>1. rt.state = "preparing" /\ tr' = tr /\ ~(Referenced(rt.txn) \subseteq rt.held)
  BY DEF ReserveFails
<1>2. Tracked(rt) /\ PlanSound(rt) /\ Progress(rt, Refs(tr)) /\ AdapterInv(tr)
  BY <1>1, StateIsOpen DEF TransferInv, RunInv
<1>3. PICK p \in DOMAIN rt.devices : p = NextReserved
  BY <1>1, <1>2, NextReservedIn DEF Partitions
<1>4. PICK q : q = Alloc(rt, p, n)
  OBVIOUS
<1>5. rt' = [q EXCEPT !.state = "failed"]
  BY <1>3, <1>4 DEF ReserveFails
<1>6. Tracked(q) /\ SameRun(rt, q)
  BY <1>2, <1>3, <1>4, AllocKeeps
<1>7. /\ DOMAIN rt' = RtFields /\ rt'.devices = q.devices /\ rt'.res = q.res /\ rt'.live = q.live
      /\ rt'.txn = q.txn /\ rt'.directions = q.directions /\ rt'.at = q.at /\ rt'.events = q.events
      /\ rt'.state = "failed"
  BY <1>5, <1>6 DEF Tracked, RtFields
<1>8. Tracked(rt')
  BY <1>6, <1>7, TrackedSame
<1>9. /\ rt'.txn = rt.txn /\ rt'.devices = rt.devices /\ rt'.directions = rt.directions
      /\ rt'.at = rt.at /\ rt'.events = rt.events /\ rt'.state = "failed"
  BY <1>6, <1>7 DEF SameRun
<1>10. PlanSound(rt') /\ Progress(rt', Refs(tr))
  BY <1>2, <1>9, SamePlace
<1> QED
  BY <1>1, <1>2, <1>8, <1>10 DEF TransferInv, RunInv

\* Releasing a partition takes its bytes from its device.
LEMMA FreePartitionKeeps ==
    ASSUME TransferInv, rt # Closed, NEW p \in Partitions, FreePartition(p)
    PROVE  TransferInv'
<1>1. /\ tr' = tr
      /\ rt' = [rt EXCEPT !.live[rt.devices[p]] = @ - rt.res[p], !.res[p] = 0, !.held = @ \ {p}]
  BY DEF FreePartition
<1>2. Tracked(rt) /\ PlanSound(rt) /\ Progress(rt, Refs(tr)) /\ AdapterInv(tr)
  BY DEF TransferInv, RunInv
<1>3. /\ DOMAIN rt' = RtFields /\ rt'.devices = rt.devices
      /\ rt'.res = [rt.res EXCEPT ![p] = 0]
      /\ rt'.live = [rt.live EXCEPT ![rt.devices[p]] = rt.live[rt.devices[p]] - rt.res[p]]
      /\ rt'.txn = rt.txn /\ rt'.directions = rt.directions
      /\ rt'.at = rt.at /\ rt'.events = rt.events /\ rt'.state = rt.state
  BY <1>1, <1>2 DEF Tracked, RtFields
<1>4. PICK l \in Nat : l = rt.live[rt.devices[p]]
  <2>1. Weights(rt.res, Residents(rt, rt.devices[p])) /\ rt.devices[p] \in DOMAIN rt.live
    BY <1>2, FS_Subset DEF Tracked, Weights, Residents, Partitions
  <2> QED
    BY <1>2, <2>1, SumIsNat DEF Tracked
<1>5. rt.res[p] \in Nat
  BY <1>2 DEF Tracked, Partitions
<1>6. l - rt.res[p] = l + 0 - rt.res[p]
  BY <1>5
<1>7. rt'.live = [rt.live EXCEPT ![rt.devices[p]] = rt.live[rt.devices[p]] + 0 - rt.res[p]]
  BY <1>3, <1>4, <1>6
<1>8. Tracked(rt')
  BY <1>2, <1>3, <1>7, TrackedChange DEF Partitions
<1>9. PlanSound(rt') /\ Progress(rt', Refs(tr))
  BY <1>2, <1>3, SamePlace
<1> QED
  BY <1>1, <1>2, <1>8, <1>9 DEF TransferInv, RunInv

\* An operation puts its event and its copies on record, or neither is due.
LEMMA RunNextKeeps ==
    ASSUME TransferInv, rt # Closed, NEW fault, NEW target, RunNext(fault, target)
    PROVE  TransferInv'
<1>1. Tracked(rt) /\ PlanSound(rt) /\ Progress(rt, Refs(tr)) /\ AdapterInv(tr)
  BY DEF TransferInv, RunInv
<1>2. PICK op : op = rt.txn.ops[rt.at]
  OBVIOUS
<1>3. PICK d : d = RunOperation(op, fault, target)
  OBVIOUS
<1>4. /\ rt.state = "running" /\ tr' = d.tr
      /\ rt' = IF d.ok
               THEN [d.rt EXCEPT !.at = @ + 1, !.events = @ \cup CompletedEvents(op),
                                 !.state = IF rt.at = Len(rt.txn.ops) THEN "done" ELSE @]
               ELSE [d.rt EXCEPT !.state = "failed"]
  BY <1>2, <1>3 DEF RunNext, CurrentOp
<1>5. Runnable(op, rt.devices, rt.directions)
  <2>1. rt.at \in DOMAIN rt.txn.ops
    BY <1>1, <1>4, PlanFacts DEF Progress
  <2> QED
    BY <1>1, <1>2, <2>1 DEF PlanSound
<1>6. PICK c : c = [rt |-> rt, tr |-> tr, ok |-> TRUE]
  OBVIOUS
<1>7. c.rt = rt /\ c.tr = tr
  BY <1>6
<1>8. Landed(c, d, CopyRefs(op))
  BY <1>1, <1>3, <1>5, <1>6, OperationLands
<1>9. PICK r, t, ok : r = d.rt /\ t = d.tr /\ ok = d.ok
  OBVIOUS
<1>10. Tracked(r) /\ AdapterInv(t) /\ SameRun(rt, r)
  BY <1>7, <1>8, <1>9 DEF Landed, CtxSound
<1>11. Refs(tr) \subseteq Refs(t) /\ Refs(t) \subseteq Refs(tr) \cup CopyRefs(op)
       /\ (ok => CopyRefs(op) \subseteq Refs(t))
  BY <1>7, <1>8, <1>9 DEF Landed
<1>12. /\ r.txn = rt.txn /\ r.devices = rt.devices /\ r.directions = rt.directions
       /\ r.at = rt.at /\ r.events = rt.events /\ r.state = "running"
  BY <1>4, <1>10 DEF SameRun
<1>13. DOMAIN r = RtFields
  BY <1>10 DEF Tracked
<1>14. CASE ok
  <2>1. rt' = [r EXCEPT !.at = r.at + 1, !.events = r.events \cup CompletedEvents(op),
                        !.state = IF rt.at = Len(rt.txn.ops) THEN "done" ELSE r.state]
    BY <1>4, <1>9, <1>14
  <2>2. /\ DOMAIN rt' = RtFields /\ rt'.devices = r.devices /\ rt'.res = r.res /\ rt'.live = r.live
        /\ rt'.txn = r.txn /\ rt'.directions = r.directions
        /\ rt'.at = r.at + 1 /\ rt'.events = r.events \cup CompletedEvents(op)
        /\ rt'.state = IF rt.at = Len(rt.txn.ops) THEN "done" ELSE r.state
    BY <1>13, <2>1 DEF RtFields
  <2>3. Tracked(rt')
    BY <1>10, <2>2, TrackedSame
  <2>4. /\ rt'.txn = rt.txn /\ rt'.devices = rt.devices /\ rt'.directions = rt.directions
        /\ rt'.at = rt.at + 1 /\ rt'.events = rt.events \cup CompletedEvents(rt.txn.ops[rt.at])
        /\ rt'.state = IF rt.at = Len(rt.txn.ops) THEN "done" ELSE "running"
    BY <1>2, <1>12, <2>2
  <2>5. /\ Refs(tr) \subseteq Refs(t) /\ Refs(t) \subseteq Refs(tr) \cup CopyRefs(rt.txn.ops[rt.at])
        /\ CopyRefs(rt.txn.ops[rt.at]) \subseteq Refs(t)
    BY <1>2, <1>11, <1>14
  <2>6. PlanSound(rt') /\ Progress(rt', Refs(t))
    <3>1. PICK before, q, old, new : /\ before = rt /\ q = rt'
                                     /\ old = Refs(tr) /\ new = Refs(t)
      OBVIOUS
    <3>2. PlanSound(before) /\ Progress(before, old) /\ before.state = "running"
      BY <1>1, <1>4, <3>1
    <3>3. old \subseteq new /\ new \subseteq old \cup CopyRefs(before.txn.ops[before.at])
          /\ CopyRefs(before.txn.ops[before.at]) \subseteq new
      BY <2>5, <3>1
    <3>4. /\ q.txn = before.txn /\ q.devices = before.devices /\ q.directions = before.directions
          /\ q.at = before.at + 1
          /\ q.events = before.events \cup CompletedEvents(before.txn.ops[before.at])
          /\ q.state = IF before.at = Len(before.txn.ops) THEN "done" ELSE "running"
      BY <2>4, <3>1
    <3>5. PlanSound(q) /\ Progress(q, new)
      BY <3>2, <3>3, <3>4, MovesOn
    <3> QED
      BY <3>1, <3>5
  <2> QED
    BY <1>4, <1>9, <1>10, <2>3, <2>6 DEF TransferInv, RunInv
<1>15. CASE ~ok
  <2>1. rt' = [r EXCEPT !.state = "failed"]
    BY <1>4, <1>9, <1>15
  <2>2. /\ DOMAIN rt' = RtFields /\ rt'.devices = r.devices /\ rt'.res = r.res /\ rt'.live = r.live
        /\ rt'.txn = r.txn /\ rt'.directions = r.directions
        /\ rt'.at = r.at /\ rt'.events = r.events /\ rt'.state = "failed"
    BY <1>13, <2>1 DEF RtFields
  <2>3. Tracked(rt')
    BY <1>10, <2>2, TrackedSame
  <2>4. /\ rt'.txn = rt.txn /\ rt'.devices = rt.devices /\ rt'.directions = rt.directions
        /\ rt'.at = rt.at /\ rt'.events = rt.events /\ rt'.state = "failed"
    BY <1>12, <2>2
  <2>5. Refs(tr) \subseteq Refs(t) /\ Refs(t) \subseteq Refs(tr) \cup CopyRefs(rt.txn.ops[rt.at])
    BY <1>2, <1>11
  <2>6. PlanSound(rt') /\ Progress(rt', Refs(t))
    <3>1. PICK before, q, old, new : /\ before = rt /\ q = rt'
                                     /\ old = Refs(tr) /\ new = Refs(t)
      OBVIOUS
    <3>2. PlanSound(before) /\ Progress(before, old) /\ before.state = "running"
      BY <1>1, <1>4, <3>1
    <3>3. old \subseteq new /\ new \subseteq old \cup CopyRefs(before.txn.ops[before.at])
      BY <2>5, <3>1
    <3>4. /\ q.txn = before.txn /\ q.devices = before.devices /\ q.directions = before.directions
          /\ q.at = before.at /\ q.events = before.events /\ q.state = "failed"
      BY <2>4, <3>1
    <3>5. PlanSound(q) /\ Progress(q, new)
      BY <3>2, <3>3, <3>4, StaysThere
    <3> QED
      BY <3>1, <3>5
  <2> QED
    BY <1>4, <1>9, <1>10, <2>3, <2>6 DEF TransferInv, RunInv
<1> QED
  BY <1>14, <1>15

\* Dropping the backend, and a lone adapter.
LEMMA AdapterKeeps ==
    ASSUME TransferInv, rt' = Closed, AdapterInv(tr')
    PROVE  TransferInv'
BY DEF TransferInv, RunInv, Closed

\* A caller's own copy is no copy of the plan.
LEMMA CopyDirectKeeps ==
    ASSUME TransferInv, NEW c \in Copies, NEW outcome \in {"ok", "failed", "timeout"},
           CopyDirect(c, outcome)
    PROVE  TransferInv'
<1>1. PICK spec, source, destination :
            spec = c.spec /\ source = c.source /\ destination = c.destination
  OBVIOUS
<1>2. rt' = Closed /\ tr' = Copied(tr, spec, source, destination, outcome)
  BY <1>1 DEF CopyDirect, AdapterOnly
<1>3. spec.length \in Nat /\ spec.direction \in Directions /\ AdapterInv(tr)
  BY <1>1, CopiesAssumption DEF TransferInv
<1>4. AdapterInv(tr')
  BY <1>2, <1>3, CopiedKeeps
<1> QED
  BY <1>2, <1>4, AdapterKeeps

\* A measurement leaves the records alone.
LEMMA MeasureKeeps ==
    ASSUME TransferInv, NEW s \in Samples, Measure(s)
    PROVE  TransferInv'
<1>1. PICK direction, bytes, elapsed :
            direction = s.direction /\ bytes = s.bytes /\ elapsed = s.elapsed
  OBVIOUS
<1>2. rt' = Closed /\ tr' = Measured(tr, direction, bytes, elapsed)
  BY <1>1 DEF Measure, AdapterOnly
<1>3. direction \in Directions /\ bytes \in Nat /\ elapsed \in Nat /\ AdapterInv(tr)
  BY <1>1, CopiesAssumption DEF TransferInv
<1>4. AdapterInv(tr')
  BY <1>2, <1>3, MeasuredKeeps
<1> QED
  BY <1>2, <1>4, AdapterKeeps

-----------------------------------------------------------------------------
(* Ranking.                                                                  *)

\* The total of a ledger is that of its classes, added without any width.
LEMMA LedgerSum ==
    ASSUME NEW ledger, ledger \in Seq(Nat)
    PROVE  /\ FoldSeq(+, 0, ledger) \in Nat
           /\ LedgerTotal(ledger) = IF FoldSeq(+, 0, ledger) > ByteMax THEN ByteMax + 1
                                    ELSE FoldSeq(+, 0, ledger)
<1>1. FoldSeq(+, 0, ledger) = SumFunctionOnSet(ledger, DOMAIN ledger)
  BY DEF FoldSeq, FoldFunction, SumFunctionOnSet
<1>2. Weights(ledger, DOMAIN ledger)
  <2>1. Len(ledger) \in Nat /\ DOMAIN ledger = 1 .. Len(ledger)
        /\ \A i \in 1 .. Len(ledger) : ledger[i] \in Nat
    BY LenProperties, ElementOfSeq
  <2> QED
    BY <2>1, FS_Interval DEF Weights
<1>3. SumFunctionOnSet(ledger, DOMAIN ledger) \in Nat
  BY <1>2, SumIsNat
<1> QED
  BY <1>1, <1>3 DEF LedgerTotal, Overflow

\* A saturating sum of naturals, in any order, is a u64.
ReserveTable(w, g, S) ==
    g = [s \in SUBSET S |-> IF s = {} THEN 0 ELSE Saturated(g[s \ {Pick(s)}] + w[Pick(s)])]

\* The capacity reserve is tabulated over the directions of a budget.
LEMMA ReserveTableExists ==
    ASSUME NEW w, NEW S, IsFiniteSet(S)
    PROVE  \E g : ReserveTable(w, g, S)
<1>1. PICK h : FoldEquation("reserve", w, 0, h, SUBSET S)
  BY FoldExists DEF Foldable
<1>2. \A s : Taken("reserve", s) = Pick(s)
  BY DEF Taken, Pick
<1>3. \A x, acc : Step("reserve", w, x, acc) = Saturated(acc + w[x])
  BY DEF Step
<1>4. ReserveTable(w, h, S)
  <2> DEFINE E(s) == IF s = {} THEN 0 ELSE Saturated(h[s \ {Pick(s)}] + w[Pick(s)])
             F(s) == IF s = {} THEN 0
                     ELSE Step("reserve", w, Taken("reserve", s), h[s \ {Taken("reserve", s)}])
  <2>1. h = [s \in SUBSET S |-> F(s)]
    BY <1>1 DEF FoldEquation
  <2>2. \A s \in SUBSET S : F(s) = E(s)
    BY <1>2, <1>3
  <2>3. h = [s \in SUBSET S |-> E(s)]
    <3> HIDE DEF E, F
    <3> QED
      BY <2>1, <2>2
  <2> QED
    BY <2>3 DEF ReserveTable
<1> QED
  BY <1>4

\* A reserve saturates.
LEMMA ReserveTableBounded ==
    ASSUME NEW w, NEW S, Weights(w, S), NEW g, ReserveTable(w, g, S)
    PROVE  g[S] \in 0 .. ByteMax
<1> DEFINE P == {s \in SUBSET S : g[s] \in 0 .. ByteMax}
<1>1. ASSUME NEW s \in SUBSET S, s # {} => \A x \in s : s \ {x} \in P
      PROVE  g[s] \in 0 .. ByteMax
  <2>1. g[s] = IF s = {} THEN 0 ELSE Saturated(g[s \ {Pick(s)}] + w[Pick(s)])
    BY DEF ReserveTable
  <2>2. s # {} => Pick(s) \in s
    BY DEF Pick
  <2>3. CASE s # {}
    <3>1. g[s \ {Pick(s)}] \in Nat /\ w[Pick(s)] \in Nat
      BY <1>1, <2>2, <2>3, ByteMaxAssumption DEF Weights
    <3>2. PICK m \in Nat : m = g[s \ {Pick(s)}] + w[Pick(s)]
      BY <3>1
    <3>3. Saturated(m) \in 0 .. ByteMax
      BY Saturation
    <3> QED
      BY <2>1, <2>3, <3>2, <3>3
  <2> QED
    BY <2>1, <2>3, ByteMaxAssumption
<1>2. SUBSET S \subseteq P
  <2>1. \A s \in SUBSET S : (s # {} => \A x \in s : s \ {x} \in P) => s \in P
    BY <1>1
  <2> HIDE DEF P
  <2> QED
    BY <2>1, SubsetsOneByOne DEF Weights
<1> QED
  BY <1>2

\* The capacity reserve of a plan fits in 64 bits.
LEMMA ReserveIsBounded ==
    ASSUME NEW req \in Requests, NEW plan \in ToSet(req.plans)
    PROVE  CapacityReserve(plan, req.budget) \in 0 .. ByteMax
<1> DEFINE headroom(a) == IF a.device \in DOMAIN req.budget /\ LedgerTotal(a.ledger) # Overflow
                          THEN Remaining(req.budget[a.device], LedgerTotal(a.ledger)) ELSE 0
<1>1. plan.assigns \in Seq(Assigned(plan)) /\ \A a \in Assigned(plan) : a.ledger \in Seq(Nat)
  BY RequestsAssumption
<1>2. \A d \in DOMAIN req.budget : req.budget[d] \in 0 .. ByteMax
  BY RequestsAssumption
<1>3. ASSUME NEW a \in Assigned(plan) PROVE headroom(a) \in Nat
  <2>1. a.ledger \in Seq(Nat)
    BY <1>1
  <2>2. LedgerTotal(a.ledger) \in Nat
    <3>1. PICK n \in Nat : LedgerTotal(a.ledger) = IF n > ByteMax THEN ByteMax + 1 ELSE n
      BY <2>1, LedgerSum
    <3> QED
      BY <3>1, ByteMaxAssumption
  <2>3. CASE a.device \in DOMAIN req.budget
    <3>1. req.budget[a.device] \in Nat
      BY <1>2, <2>3, ByteMaxAssumption
    <3> QED
      BY <2>2, <3>1 DEF Remaining
  <2> QED
    BY <2>3
<1>4. PICK s : s = plan.assigns
  OBVIOUS
<1>5. /\ IsFiniteSet(DOMAIN s) /\ \A i \in DOMAIN s : s[i] \in Assigned(plan)
  <2>1. s \in Seq(Assigned(plan))
    BY <1>1, <1>4
  <2>2. Len(s) \in Nat /\ DOMAIN s = 1 .. Len(s) /\ \A i \in 1 .. Len(s) : s[i] \in Assigned(plan)
    BY <2>1, LenProperties, ElementOfSeq
  <2> QED
    BY <2>2, FS_Interval
<1> DEFINE w == [i \in DOMAIN s |-> headroom(s[i])]
<1>6. Weights(w, DOMAIN s)
  <2> HIDE DEF headroom
  <2> QED
    BY <1>3, <1>5 DEF Weights
<1> DEFINE table(f) == f = [t \in SUBSET DOMAIN s |-> IF t = {} THEN 0
                              ELSE Saturated(f[t \ {Pick(t)}] + headroom(s[Pick(t)]))]
           g == CHOOSE f : table(f)
<1>7. \A f : ReserveTable(w, f, DOMAIN s) <=> table(f)
  <2> SUFFICES ASSUME NEW f PROVE ReserveTable(w, f, DOMAIN s) <=> table(f)
    OBVIOUS
  <2> DEFINE E(t) == IF t = {} THEN 0 ELSE Saturated(f[t \ {Pick(t)}] + w[Pick(t)])
             F(t) == IF t = {} THEN 0 ELSE Saturated(f[t \ {Pick(t)}] + headroom(s[Pick(t)]))
  <2>1. ASSUME NEW t \in SUBSET DOMAIN s PROVE E(t) = F(t)
    <3>1. t # {} => Pick(t) \in DOMAIN s
      BY DEF Pick
    <3> HIDE DEF headroom
    <3> QED
      BY <3>1
  <2>2. [t \in SUBSET DOMAIN s |-> E(t)] = [t \in SUBSET DOMAIN s |-> F(t)]
    <3> HIDE DEF E, F
    <3> QED
      BY <2>1
  <2> QED
    BY <2>2 DEF ReserveTable
<1>8. ReserveTable(w, g, DOMAIN s)
  <2>1. \E f : ReserveTable(w, f, DOMAIN s)
    <3> HIDE DEF w
    <3> QED
      BY <1>5, ReserveTableExists
  <2>2. \E f : table(f)
    <3> HIDE DEF table, w
    <3> QED
      BY <1>7, <2>1
  <2>3. table(g)
    <3> HIDE DEF table
    <3> QED
      BY <2>2
  <2> HIDE DEF table, w, g
  <2> QED
    BY <1>7, <2>3
<1>9. CapacityReserve(plan, req.budget) = g[DOMAIN s]
  BY <1>4 DEF CapacityReserve, FoldSeq, FoldFunction, FoldFunctionOnSet, MapThenFoldSet, Pick
<1>10. g[DOMAIN s] \in 0 .. ByteMax
  <2> HIDE DEF w, g
  <2> QED
    BY <1>6, <1>8, ReserveTableBounded
<1> QED
  BY <1>9, <1>10

\* Every score of a plan fits in 64 bits.
LEMMA ScoresBounded ==
    ASSUME NEW req \in Requests, NEW plan \in ToSet(req.plans), NEW k \in DOMAIN req.objectives
    PROVE  Scores(plan, req)[k] \in 0 .. ByteMax
<1>1. PICK o : o = req.objectives[k]
  OBVIOUS
<1>2. Scores(plan, req)[k] = ObjectiveValue(plan, o, req.budget)
  BY <1>1 DEF Scores
<1>3. CapacityReserve(plan, req.budget) \in 0 .. ByteMax
  BY ReserveIsBounded
<1>4. \A f \in DOMAIN plan.facts : plan.facts[f] \in 0 .. ByteMax
  BY RequestsAssumption
<1>5. ByteMax \in 0 .. ByteMax /\ 0 \in 0 .. ByteMax
  BY ByteMaxAssumption
<1> QED
  BY <1>2, <1>3, <1>4, <1>5 DEF ObjectiveValue

\* The stable sort orders what passed the gates.
LEMMA InsertedIn ==
    ASSUME NEW S, NEW req, NEW i \in S, NEW order, order \in Seq(S)
    PROVE  Inserted(req, i, order) \in Seq(S)
<1> DEFINE K == {n \in DOMAIN order : RanksBefore(req.plans, order[n], i, req)}
<1>1. Len(order) \in Nat /\ DOMAIN order = 1 .. Len(order)
      /\ \A n \in 1 .. Len(order) : order[n] \in S
  BY LenProperties, ElementOfSeq
<1>2. IsFiniteSet(1 .. Len(order)) /\ Cardinality(1 .. Len(order)) = Len(order)
  <2>1. PICK l \in Nat : l = Len(order)
    BY <1>1
  <2>2. IsFiniteSet(1 .. l) /\ Cardinality(1 .. l) = IF 1 <= l THEN (l - 1) + 1 ELSE 0
    BY FS_Interval
  <2> QED
    BY <2>1, <2>2
<1>3. PICK k \in 0 .. Len(order) : k = Cardinality(K)
  <2>1. K \subseteq 1 .. Len(order)
    BY <1>1
  <2> HIDE DEF K
  <2>2. IsFiniteSet(K) /\ Cardinality(K) <= Cardinality(1 .. Len(order))
    BY <1>2, <2>1, FS_Subset
  <2>3. Cardinality(K) \in Nat
    BY <2>2, FS_CardinalityType
  <2> QED
    BY <1>1, <1>2, <2>2, <2>3
<1>4. SubSeq(order, 1, k) \in Seq(S)
  <2>0. PICK l \in Nat : l = Len(order) /\ k \in 0 .. l /\ \A n \in 1 .. l : order[n] \in S
    BY <1>1
  <2>1. k \in Int /\ \A j \in 1 .. k : order[j] \in S
    BY <2>0
  <2> QED
    BY <2>1, SubSeqProperties
<1>5. SubSeq(order, k + 1, Len(order)) \in Seq(S)
  <2>0. PICK l \in Nat : l = Len(order) /\ k \in 0 .. l /\ \A n \in 1 .. l : order[n] \in S
    BY <1>1
  <2>1. PICK m \in Nat : m = k + 1
    BY <2>0
  <2>2. m \in Int /\ l \in Int /\ \A j \in m .. l : order[j] \in S
    BY <2>0, <2>1
  <2>3. SubSeq(order, m, l) \in Seq(S)
    BY <2>2, SubSeqProperties
  <2> QED
    BY <2>0, <2>1, <2>3
<1>6. <<i>> \in Seq(S)
  OBVIOUS
<1>7. SubSeq(order, 1, k) \o <<i>> \in Seq(S)
  BY <1>4, <1>6, ConcatProperties
<1>8. SubSeq(order, 1, k) \o <<i>> \o SubSeq(order, k + 1, Len(order)) \in Seq(S)
  BY <1>5, <1>7, ConcatProperties
<1> QED
  BY <1>3, <1>8 DEF Inserted

OrderTable(req, S, g) ==
    g = [s \in SUBSET S |-> IF s = {} THEN <<>> ELSE Inserted(req, Max(s), g[s \ {Max(s)}])]

\* The order of the plans follows such a table.
LEMMA OrderFolds ==
    ASSUME NEW req, NEW S, IsFiniteSet(S), S \subseteq Nat
    PROVE  \E g : OrderTable(req, S, g) /\ Order(req, S) = g[S]
<1>1. PICK h : FoldEquation("order", req, <<>>, h, SUBSET S)
  BY FoldExists DEF Foldable
<1>2. \A s : Taken("order", s) = Max(s)
  BY DEF Taken
<1>3. \A x, acc : Step("order", req, x, acc) = Inserted(req, x, acc)
  BY DEF Step
<1>4. OrderTable(req, S, h)
  <2> DEFINE E(s) == IF s = {} THEN <<>> ELSE Inserted(req, Max(s), h[s \ {Max(s)}])
             F(s) == IF s = {} THEN <<>>
                     ELSE Step("order", req, Taken("order", s), h[s \ {Taken("order", s)}])
  <2>1. h = [s \in SUBSET S |-> F(s)]
    BY <1>1 DEF FoldEquation
  <2>2. \A s \in SUBSET S : F(s) = E(s)
    BY <1>2, <1>3
  <2>3. h = [s \in SUBSET S |-> E(s)]
    <3> HIDE DEF E, F
    <3> QED
      BY <2>1, <2>2
  <2> QED
    BY <2>3 DEF OrderTable
<1> DEFINE g == CHOOSE f : OrderTable(req, S, f)
<1>5. OrderTable(req, S, g)
  BY <1>4
<1>6. Order(req, S) = g[S]
  BY DEF Order, MapThenFoldSet, OrderTable
<1> QED
  BY <1>5, <1>6

\* The order lists plans that passed.
LEMMA OrderIn ==
    ASSUME NEW req, NEW S, IsFiniteSet(S), S \subseteq Nat
    PROVE  Order(req, S) \in Seq(S)
<1>1. PICK g : OrderTable(req, S, g) /\ Order(req, S) = g[S]
  BY OrderFolds
<1> DEFINE P == {s \in SUBSET S : g[s] \in Seq(S)}
<1>2. ASSUME NEW s \in SUBSET S, s # {} => \A x \in s : s \ {x} \in P
      PROVE  g[s] \in Seq(S)
  <2>1. g[s] = IF s = {} THEN <<>> ELSE Inserted(req, Max(s), g[s \ {Max(s)}])
    BY <1>1 DEF OrderTable
  <2>2. CASE s = {}
    BY <2>1, <2>2
  <2>3. CASE s # {}
    <3>1. IsFiniteSet(s) /\ s \in SUBSET Nat
      BY FS_Subset
    <3>2. PICK x \in s : x = Max(s)
      BY <2>3, <3>1, MaxOfFinite
    <3>3. PICK order : order = g[s \ {x}]
      OBVIOUS
    <3>4. order \in Seq(S) /\ x \in S
      BY <1>2, <2>3, <3>3
    <3>5. Inserted(req, x, order) \in Seq(S)
      BY <3>4, InsertedIn
    <3> QED
      BY <2>1, <2>3, <3>2, <3>3, <3>5
  <2> QED
    BY <2>2, <2>3
<1>3. SUBSET S \subseteq P
  <2>1. \A s \in SUBSET S : (s # {} => \A x \in s : s \ {x} \in P) => s \in P
    BY <1>2
  <2> HIDE DEF P
  <2> QED
    BY <2>1, SubsetsOneByOne
<1> QED
  BY <1>1, <1>3

\* A ranked entry is a candidate that passed every gate, with its scores.
CameThrough(req, gates, entry) ==
    \E i \in DOMAIN req.plans :
        /\ gates[i] = {} /\ req.plans[i] \in ToSet(req.plans)
        /\ entry.plan = req.plans[i] /\ entry.scores = Scores(req.plans[i], req)

\* Every ranked plan came through the gates.
LEMMA RankedPassed ==
    ASSUME NEW req \in Requests, NEW gates, NEW ranked, ranked = Ranking(req, gates).ranked
    PROVE  \A r \in DOMAIN ranked : CameThrough(req, gates, ranked[r])
<1> SUFFICES ASSUME NEW r \in DOMAIN ranked PROVE CameThrough(req, gates, ranked[r])
  OBVIOUS
<1>1. PICK S : S = {i \in DOMAIN req.plans : gates[i] = {}}
  OBVIOUS
<1>2. IsFiniteSet(S) /\ S \subseteq Nat
  <2>1. PICK s : s = req.plans
    OBVIOUS
  <2>2. s \in Seq(ToSet(s))
    BY <2>1, RequestsAssumption
  <2>3. Len(s) \in Nat /\ DOMAIN s = 1 .. Len(s)
    BY <2>2, LenProperties
  <2>4. IsFiniteSet(DOMAIN s)
    BY <2>3, FS_Interval
  <2> QED
    BY <1>1, <2>1, <2>3, <2>4, FS_Subset
<1>3. PICK order \in Seq(S) : order = Order(req, S)
  BY <1>2, OrderIn
<1>4. ranked = [n \in DOMAIN order |->
            [plan |-> req.plans[order[n]], scores |-> Scores(req.plans[order[n]], req)]]
  BY <1>1, <1>3 DEF Ranking
<1>5. order[r] \in S
  <2>1. r \in DOMAIN order
    BY <1>4
  <2> QED
    BY <1>3, <2>1, LenProperties, ElementOfSeq
<1>6. req.plans[order[r]] \in ToSet(req.plans)
  BY <1>1, <1>5 DEF ToSet
<1>7. /\ ranked[r].plan = req.plans[order[r]] /\ ranked[r].scores = Scores(req.plans[order[r]], req)
  BY <1>4
<1> QED
  BY <1>1, <1>5, <1>6, <1>7 DEF CameThrough

\* The declared budgets are below the counters' limit, where a saturated count
\* could not be told from an exact one.
BudgetsBelowMax == Budget.bytes < ByteMax /\ Budget.time < ByteMax

\* What is on the ranked list came through the gates of the latest snapshot.
RankedSound ==
    last.op = "evaluate" =>
        /\ last.req \in Requests /\ snap # NoSnapshot
        /\ \A r \in DOMAIN last.outcome.ranked :
            \E plan \in ToSet(last.req.plans) :
                /\ last.outcome.ranked[r].plan = plan
                /\ last.outcome.ranked[r].scores = Scores(plan, last.req)
                /\ GateCompatibility(plan, snap) /\ GateMemory(plan, last.req.budget, last.req.total)

PartStates == {"active", "allocation_failed", "device_lost", "torn_down"}

\* The caller's own variables.
CallerSound ==
    /\ epoch \in InitialGeneration .. MaxEpoch /\ observed \in BOOLEAN
    /\ part = NoPartition \/ part.state \in PartStates

\* The inductive invariant of the host.
HostInv == PlaceInv /\ CallerSound /\ RankedSound /\ PreparedSound /\ TransferInv

\* Evaluation ranks plans that came through the gates of the snapshot.
LEMMA EvaluateSound ==
    ASSUME NEW req \in Requests, EvaluatePolicy(req)
    PROVE  RankedSound'
<1>1. /\ last' = [op |-> "evaluate", req |-> req, current |-> epoch,
                  outcome |-> Evaluate(req, snap, epoch)]
      /\ snap # NoSnapshot /\ snap' = snap
  BY DEF EvaluatePolicy
<1>2. PICK ranked : ranked = Evaluate(req, snap, epoch).ranked
  OBVIOUS
<1>3. last'.req = req /\ last'.outcome.ranked = ranked
  BY <1>1, <1>2
<1>4. ASSUME NEW r \in DOMAIN ranked
      PROVE  \E plan \in ToSet(req.plans) :
                /\ ranked[r].plan = plan /\ ranked[r].scores = Scores(plan, req)
                /\ GateCompatibility(plan, snap) /\ GateMemory(plan, req.budget, req.total)
  <2>1. PICK gates : gates = [i \in DOMAIN req.plans |->
            Violations(req.plans[i], Resolved(snap, epoch, req.sel), snap, req)]
    OBVIOUS
  <2>2. CASE SnapshotStale(snap, epoch) \/ ~Resolves(snap, epoch, req.sel)
    <3>1. ranked = <<>>
      BY <1>2, <2>2 DEF Evaluate
    <3> QED
      BY <3>1
  <2>3. CASE ~(SnapshotStale(snap, epoch) \/ ~Resolves(snap, epoch, req.sel))
    <3>1. ranked = Ranking(req, gates).ranked
      BY <1>2, <2>1, <2>3 DEF Evaluate
    <3>2. PICK i \in DOMAIN req.plans :
            /\ gates[i] = {} /\ req.plans[i] \in ToSet(req.plans)
            /\ ranked[r].plan = req.plans[i] /\ ranked[r].scores = Scores(req.plans[i], req)
      <4>1. CameThrough(req, gates, ranked[r])
        BY <3>1, RankedPassed
      <4> QED
        BY <4>1 DEF CameThrough
    <3>3. Violations(req.plans[i], Resolved(snap, epoch, req.sel), snap, req) = {}
      BY <2>1, <3>2
    <3>4. /\ GateCompatibility(req.plans[i], snap)
          /\ GateMemory(req.plans[i], req.budget, req.total)
      BY <3>3 DEF Violations
    <3> QED
      BY <3>2, <3>4
  <2> QED
    BY <2>2, <2>3
<1> QED
  BY <1>1, <1>3, <1>4 DEF RankedSound

\* A prepared image is one of the wires, bound to current devices.
LEMMA PrepareSound ==
    ASSUME NEW wire \in Wires, NEW count, PrepareImage(wire, count)
    PROVE  PreparedSound'
<1> DEFINE policy == BindPolicy(Len(wire.partitions), count)
           bindings == TranslatedBindings(wire, policy, snap)
           error == PrepareError(wire, count)
<1>1. /\ last' = IF error # "ok" THEN [op |-> "prepare", error |-> error]
                 ELSE [op |-> "prepare", current |-> InitialGeneration,
                       bound |-> BoundPlan(TranslatedPlan(wire, <<>>), bindings,
                                           ClaimedDevices(policy, snap), snap),
                       wire |-> wire, count |-> count]
  BY DEF PrepareImage
<1>2. CASE error # "ok"
  <2>1. DOMAIN last' = {"op", "error"}
    <3> HIDE DEF error, bindings, policy
    <3> QED
      BY <1>1, <1>2
  <2> QED
    BY <2>1 DEF PreparedSound, Prepared
<1>3. CASE error = "ok"
  <2>1. Admitted(TransactionOf(wire, bindings))
    BY <1>3 DEF PrepareError
  <2>2. last'.wire = wire
        /\ last'.bound = BoundPlan(TranslatedPlan(wire, <<>>), bindings, ClaimedDevices(policy, snap), snap)
    <3> HIDE DEF error, bindings, policy
    <3> QED
      BY <1>1, <1>3
  <2>3. last'.bound.bindings = bindings
    BY <2>2 DEF BoundPlan
  <2>4. DOMAIN bindings = ToSet(wire.partitions)
    BY DEF TranslatedBindings
  <2> QED
    BY <2>1, <2>2, <2>3, <2>4 DEF PreparedSound
<1> QED
  BY <1>2, <1>3

\* A step that keeps the record and the snapshot, or leaves one that is
\* neither a ranking nor a prepared image.
Unremarkable(l) == l.op \notin {"evaluate", "prepare"}

\* No other step leaves a ranking or a prepared image on record.
LEMMA OthersKeepRecords ==
    ASSUME RankedSound, PreparedSound, Unremarkable(last') \/ UNCHANGED <<last, snap>>
    PROVE  RankedSound' /\ PreparedSound'
<1>1. CASE Unremarkable(last')
  BY <1>1 DEF Unremarkable, RankedSound, PreparedSound, Prepared
<1>2. CASE UNCHANGED <<last, snap>>
  BY <1>2 DEF RankedSound, PreparedSound, Prepared, NoSnapshot
<1> QED
  BY <1>1, <1>2

\* A step that leaves the epoch and opens no partition keeps it.
LEMMA OthersKeepCaller ==
    ASSUME CallerSound, UNCHANGED <<epoch, observed>>, part' = part \/ part' = NoPartition
    PROVE  CallerSound'
BY DEF CallerSound, InitialGeneration

\* A change of hardware or of the caller's epoch keeps it.
LEMMA ChangeKeepsHost ==
    ASSUME HostInv, Change
    PROVE  CallerSound' /\ RankedSound' /\ PreparedSound' /\ TransferInv'
<1>1. last' = Nothing /\ UNCHANGED <<part, rt, tr>>
  BY DEF Change, Replace, Renumber, Advance
<1>2. /\ epoch' = epoch \/ (epoch < MaxEpoch /\ epoch' = epoch + 1)
      /\ observed' \in {TRUE, FALSE, observed}
  BY DEF Change, Replace, Renumber, Advance
<1>3. CallerSound'
  <2>1. epoch \in Nat /\ epoch >= 1 /\ epoch <= MaxEpoch /\ MaxEpoch \in Nat
    BY EpochAssumption DEF HostInv, CallerSound, InitialGeneration
  <2>2. epoch' \in InitialGeneration .. MaxEpoch
    BY <1>2, <2>1 DEF InitialGeneration
  <2>3. observed' \in BOOLEAN
    BY <1>2 DEF HostInv, CallerSound
  <2> QED
    BY <1>1, <2>2, <2>3 DEF HostInv, CallerSound, InitialGeneration
<1>4. RankedSound' /\ PreparedSound'
  BY <1>1, OthersKeepRecords DEF HostInv, Unremarkable, Nothing
<1> QED
  BY <1>1, <1>3, <1>4, TransferInvStays DEF HostInv

\* Probing, ranking, binding, preparing and partitions keep it.
LEMMA PlanKeepsHost ==
    ASSUME HostInv, Plan
    PROVE  CallerSound' /\ RankedSound' /\ PreparedSound' /\ TransferInv'
<1> DEFINE Goal == CallerSound' /\ RankedSound' /\ PreparedSound' /\ TransferInv'
<1>0. /\ CallerSound /\ RankedSound /\ PreparedSound /\ TransferInv
      /\ Unremarkable(Nothing)
  BY DEF HostInv, Unremarkable, Nothing
<1>1. ASSUME UNCHANGED <<epoch, observed, part, rt, tr>>, Unremarkable(last') PROVE Goal
  BY <1>0, <1>1, OthersKeepRecords, OthersKeepCaller, TransferInvStays
<1>2. ASSUME NEW b, NEW g, NEW f, Probe(b, g, f) \/ ProbeFails(b, f) PROVE Goal
  <2>1. UNCHANGED <<epoch, observed, part, rt, tr>> /\ Unremarkable(last')
    BY <1>0, <1>2 DEF Probe, ProbeFails, Unremarkable
  <2> QED
    BY <1>1, <2>1
<1>3. ASSUME NEW req \in Requests, EvaluatePolicy(req) PROVE Goal
  <2>1. UNCHANGED <<epoch, observed, part, rt, tr>> /\ last'.op = "evaluate"
    BY <1>3 DEF EvaluatePolicy
  <2>2. RankedSound' /\ PreparedSound'
    BY <1>3, <2>1, EvaluateSound DEF PreparedSound, Prepared
  <2> QED
    BY <1>0, <2>1, <2>2, OthersKeepCaller, TransferInvStays
<1>4. ASSUME NEW d, NEW l, AdmitPartition(d, l) PROVE Goal
  <2>1. UNCHANGED <<epoch, observed, rt, tr>> /\ last' = Nothing
    BY <1>4 DEF AdmitPartition
  <2>2. part' = NoPartition \/ part'.state = "active"
    BY <1>4 DEF AdmitPartition, VirtualPartition
  <2>3. CallerSound'
    BY <1>0, <2>1, <2>2 DEF CallerSound, PartStates, InitialGeneration
  <2> QED
    BY <1>0, <2>1, <2>3, OthersKeepRecords, TransferInvStays
<1>5. ASSUME NEW f \in {"allocation_failed", "device_lost"}, FailPartition(f) PROVE Goal
  <2>1. /\ UNCHANGED <<epoch, observed, rt, tr>> /\ last' = Nothing
        /\ part # NoPartition /\ part' = RecordFailure(part, f)
    BY <1>5 DEF FailPartition
  <2>2. part' = [part EXCEPT !.state = IF part.state = "active" THEN f ELSE part.state]
    BY <2>1 DEF RecordFailure
  <2>3. part' = part \/ part'.state \in PartStates
    BY <1>0, <2>1, <2>2 DEF CallerSound, PartStates
  <2>4. CallerSound'
    BY <1>0, <2>1, <2>3 DEF CallerSound, PartStates, InitialGeneration
  <2> QED
    BY <1>0, <2>1, <2>4, OthersKeepRecords, TransferInvStays
<1>6. ASSUME TeardownPartition PROVE Goal
  <2>1. /\ UNCHANGED <<epoch, observed, rt, tr>> /\ last' = Nothing
        /\ part # NoPartition /\ part' = [part EXCEPT !.state = "torn_down"]
    BY <1>6 DEF TeardownPartition, Teardown
  <2>2. part' = part \/ part'.state \in PartStates
    BY <2>1 DEF PartStates
  <2>3. CallerSound'
    BY <1>0, <2>1, <2>2 DEF CallerSound, PartStates, InitialGeneration
  <2> QED
    BY <1>0, <2>1, <2>3, OthersKeepRecords, TransferInvStays
<1>7. ASSUME NEW plan, NEW bindings, NEW set, BindDirect(plan, bindings, set) PROVE Goal
  <2>1. \A e, b, c : Bound("bind", e, b, c).op = "bind"
    BY DEF Bound
  <2>2. UNCHANGED <<epoch, observed, part, rt, tr>> /\ last'.op = "bind"
    BY <1>7, <2>1 DEF BindDirect
  <2> QED
    BY <1>1, <2>2 DEF Unremarkable
<1>8. ASSUME NEW w \in Wires, NEW n, PrepareImage(w, n) PROVE Goal
  <2>1. UNCHANGED <<epoch, observed, part, rt, tr>>
    BY <1>8 DEF PrepareImage
  <2>2. last'.op = "prepare"
    BY <1>8 DEF PrepareImage
  <2>3. RankedSound' /\ PreparedSound'
    BY <1>8, <2>2, PrepareSound DEF RankedSound
  <2> QED
    BY <1>0, <2>1, <2>3, OthersKeepCaller, TransferInvStays
<1>9. ASSUME NEW sel, NEW req, NEW adm, NEW f, NEW g, OpenHost(sel, req, adm, f, g) PROVE Goal
  <2>1. UNCHANGED <<epoch, observed, part, rt, tr>>
    BY <1>9 DEF OpenHost
  <2>2. \A e, b, c : Bound("open", e, b, c).op = "open"
    BY DEF Bound
  <2>3. \A found : ImplicitLocal(found).op = "open"
    BY <2>2, Zenon DEF ImplicitLocal
  <2>4. last'.op = "open"
    BY <1>9, <2>3 DEF OpenHost
  <2> QED
    BY <1>1, <2>1, <2>4 DEF Unremarkable
<1> HIDE DEF Goal
<1> QED
  <2>1. Goal
    BY <1>2, <1>3, <1>4, <1>5, <1>6, <1>7, <1>8, <1>9, Zenon DEF Plan
  <2> QED
    BY <2>1 DEF Goal

\* Running a plan and moving bytes keep it.
LEMMA RunKeepsHost ==
    ASSUME HostInv, Run \/ Transfers
    PROVE  CallerSound' /\ RankedSound' /\ PreparedSound' /\ TransferInv'
<1> DEFINE Others == CallerSound' /\ RankedSound' /\ PreparedSound'
           Goal == CallerSound' /\ RankedSound' /\ PreparedSound' /\ TransferInv'
<1>0. CallerSound /\ RankedSound /\ PreparedSound /\ TransferInv
  BY DEF HostInv
<1>1. ASSUME UNCHANGED planning PROVE Others
  BY <1>0, <1>1, OthersKeepRecords, OthersKeepCaller DEF planning
<1>2. ASSUME NEW members, OpenBackend(members) PROVE Goal
  <2>1. /\ UNCHANGED <<epoch, observed>>
        /\ \/ last' = Nothing /\ part' = NoPartition
           \/ last' = [op |-> "backend", error |-> "E_INVALID_ARGS"] /\ part' = part
    BY <1>2, Zenon DEF OpenBackend
  <2>2. Unremarkable(last') /\ (part' = part \/ part' = NoPartition)
    BY <2>1 DEF Unremarkable, Nothing
  <2>3. Others
    BY <1>0, <2>1, <2>2, OthersKeepRecords, OthersKeepCaller
  <2>4. TransferInv'
    BY <1>0, <1>2, OpenBackendKeeps
  <2> QED
    BY <2>3, <2>4
<1>3. ASSUME Reserve PROVE Goal
  BY <1>0, <1>1, <1>3, ReserveKeeps DEF Reserve
<1>4. ASSUME NEW n \in 0 .. 2, ReserveFails(n) PROVE Goal
  <2>1. TransferInv'
    BY <1>0, <1>4, ReserveFailsKeeps
  <2> QED
    BY <1>1, <1>4, <2>1 DEF ReserveFails
<1>5. ASSUME CloseBackend PROVE Goal
  <2>1. rt' = Closed /\ tr' = NewAdapter /\ UNCHANGED planning
    BY <1>5 DEF CloseBackend
  <2>2. AdapterInv(tr')
    BY <2>1, NewAdapterSound
  <2> QED
    BY <1>0, <1>1, <2>1, <2>2, AdapterKeeps
<1>6. ASSUME rt # Closed, NEW p \in Partitions, FreePartition(p) PROVE Goal
  <2>1. TransferInv'
    BY <1>0, <1>6, FreePartitionKeeps
  <2> QED
    BY <1>1, <1>6, <2>1 DEF FreePartition
<1>7. ASSUME rt # Closed, NEW f, NEW g, RunNext(f, g) PROVE Goal
  <2>1. TransferInv'
    BY <1>0, <1>7, RunNextKeeps
  <2> QED
    BY <1>1, <1>7, <2>1 DEF RunNext
<1>8. ASSUME NEW c \in Copies, NEW o \in {"ok", "failed", "timeout"}, CopyDirect(c, o) PROVE Goal
  <2>1. TransferInv'
    BY <1>0, <1>8, CopyDirectKeeps
  <2> QED
    BY <1>1, <1>8, <2>1 DEF CopyDirect
<1>9. ASSUME NEW s \in Samples, Measure(s) PROVE Goal
  <2>1. TransferInv'
    BY <1>0, <1>9, MeasureKeeps
  <2> QED
    BY <1>1, <1>9, <2>1 DEF Measure
<1>10. ASSUME NEW m, AdmitPair(m) PROVE Goal
  <2>1. UNCHANGED planning /\ UNCHANGED <<rt, tr>>
    BY <1>10 DEF AdmitPair
  <2> QED
    BY <1>0, <1>1, <2>1, TransferInvStays
<1>11. ASSUME NEW c, CopyPeer(c) PROVE Goal
  <2>1. UNCHANGED <<epoch, observed, part>> /\ UNCHANGED <<rt, tr>> /\ last'.op = "peer"
    BY <1>11 DEF CopyPeer
  <2>2. Others
    BY <1>0, <2>1, OthersKeepRecords, OthersKeepCaller DEF Unremarkable
  <2> QED
    BY <1>0, <2>1, <2>2, TransferInvStays
<1> HIDE DEF Goal
<1> QED
  <2>1. Goal
    BY <1>2, <1>3, <1>4, <1>5, <1>6, <1>7, <1>8, <1>9, <1>10, <1>11, Zenon DEF Run, Transfers
  <2> QED
    BY <2>1 DEF Goal

\* It holds initially.
LEMMA HostInit == Init => HostInv
<1> SUFFICES ASSUME Init PROVE HostInv
  OBVIOUS
<1>1. PlaceInv
  BY PlaceInit
<1>2. CallerSound
  BY EpochAssumption DEF Init, CallerSound, InitialGeneration
<1>3. RankedSound /\ PreparedSound
  BY DEF Init, Nothing, RankedSound, PreparedSound, Prepared
<1>4. TransferInv
  BY NewAdapterSound DEF Init, TransferInv, RunInv
<1> QED
  BY <1>1, <1>2, <1>3, <1>4 DEF HostInv

\* Every step keeps it.
LEMMA HostNext == HostInv /\ [Next]_vars => HostInv'
<1> SUFFICES ASSUME HostInv, [Next]_vars PROVE HostInv'
  OBVIOUS
<1>1. PlaceInv'
  BY PlaceNext DEF HostInv
<1>2. CallerSound' /\ RankedSound' /\ PreparedSound' /\ TransferInv'
  <2>1. CASE UNCHANGED vars
    <3>1. UNCHANGED <<epoch, observed, part>> /\ UNCHANGED <<last, snap>> /\ UNCHANGED <<rt, tr>>
      BY <2>1 DEF vars
    <3> QED
      BY <3>1, OthersKeepCaller, OthersKeepRecords, TransferInvStays DEF HostInv
  <2>2. CASE Next
    BY <2>2, ChangeKeepsHost, PlanKeepsHost, RunKeepsHost DEF Next
  <2> QED
    BY <2>1, <2>2
<1> QED
  BY <1>1, <1>2 DEF HostInv

\* It implies the types.
LEMMA HostTypes ==
    ASSUME HostInv
    PROVE  TypeOK
<1>1. hw \in [Backends -> Seq(DOMAIN Units)]
  BY DEF HostInv, PlaceInv
<1>2. snap # NoSnapshot => probe.backend \in Backends /\ DOMAIN snap = DOMAIN probe.present
  BY DEF HostInv, PlaceInv, SnapshotSound
<1>3. \A r \in DOMAIN Ranked : \A k \in DOMAIN last.req.objectives :
            Ranked[r].scores[k] \in 0 .. ByteMax
  <2>1. CASE last.op = "evaluate"
    <3> SUFFICES ASSUME NEW r \in DOMAIN last.outcome.ranked, NEW k \in DOMAIN last.req.objectives
                 PROVE  last.outcome.ranked[r].scores[k] \in 0 .. ByteMax
      BY <2>1 DEF Ranked
    <3>1. last.req \in Requests
      BY <2>1 DEF HostInv, RankedSound
    <3>2. PICK plan \in ToSet(last.req.plans) :
            last.outcome.ranked[r].scores = Scores(plan, last.req)
      BY <2>1 DEF HostInv, RankedSound
    <3>3. Scores(plan, last.req)[k] \in 0 .. ByteMax
      BY <3>1, ScoresBounded
    <3> QED
      BY <3>2, <3>3
  <2>2. CASE last.op # "evaluate"
    BY <2>2 DEF Ranked
  <2> QED
    BY <2>1, <2>2
<1>4. /\ tr.usedBytes \in 0 .. ByteMax /\ tr.usedTime \in 0 .. ByteMax
      /\ \A d \in Directions : tr.rates[d] \in 0 .. ByteMax
  <2>1. AdapterInv(tr)
    BY DEF HostInv, TransferInv
  <2>2. Budget.bytes \in 0 .. ByteMax /\ Budget.time \in 0 .. ByteMax
    BY TransportAssumption
  <2> QED
    BY <2>1, <2>2, ByteMaxAssumption DEF AdapterInv
<1>5. rt = Closed \/ (rt.at \in 1 .. Len(rt.txn.ops) + 1 /\ \A p \in Partitions : rt.res[p] \in Nat)
  <2> SUFFICES ASSUME rt # Closed
               PROVE  rt.at \in 1 .. Len(rt.txn.ops) + 1 /\ \A p \in Partitions : rt.res[p] \in Nat
    OBVIOUS
  <2>1. Tracked(rt) /\ Progress(rt, Refs(tr))
    BY DEF HostInv, TransferInv, RunInv
  <2> QED
    BY <2>1 DEF Tracked, Progress, Partitions
<1> QED
  BY <1>1, <1>2, <1>3, <1>4, <1>5 DEF TypeOK, HostInv, CallerSound, PartStates

\* Below the limit of the counters, what is counted is what is on record.
LEMMA HostTransfers ==
    ASSUME BudgetsBelowMax, HostInv
    PROVE  TransfersExact
<1>1. AdapterInv(tr) /\ RunInv
  BY DEF HostInv, TransferInv
<1>2. BudgetExact
  <2>1. /\ tr.usedBytes \in 0 .. Budget.bytes /\ tr.usedTime \in 0 .. Budget.time /\ tr.active = {}
        /\ tr.usedBytes = Saturated(Recorded(tr.records, "bytes"))
        /\ tr.usedTime = Saturated(Recorded(tr.records, "expected"))
    BY <1>1 DEF AdapterInv
  <2>2. /\ tr.usedBytes = Recorded(tr.records, "bytes")
        /\ tr.usedTime = Recorded(tr.records, "expected")
    BY <2>1, ByteMaxAssumption, TransportAssumption DEF Saturated, BudgetsBelowMax
  <2> QED
    BY <2>1, <2>2, TransportAssumption, ByteMaxAssumption DEF BudgetExact, Recorded
<1>3. AllBuffersTracked
  BY <1>1 DEF AllBuffersTracked, RunInv, Tracked, Residents, Partitions
<1>4. EventsFollowCopies
  BY <1>1, RunInvFollows
<1> QED
  BY <1>2, <1>3, <1>4, HostTypes DEF TransfersExact

\* transport.rs and transaction_backend.rs: the adapter's running totals are those
\* of the copies on its record and within the declared budget, no staging buffer
\* outlives its copy, every device's allocated bytes are those of its partitions,
\* an operation's completion is on record exactly once the plan is past it with all
\* of its copies made, and copies of any other are those of the one that failed
\* part way, through faults, timeouts, early releases and a caller's own copies.
THEOREM TransfersStayExact == BudgetsBelowMax => (Spec => []TransfersExact)
<1> SUFFICES ASSUME BudgetsBelowMax PROVE Spec => []TransfersExact
  OBVIOUS
<1>1. HostInv => TransfersExact
  BY HostTransfers
<1> QED
  BY <1>1, HostInit, HostNext, PTL DEF Spec

-----------------------------------------------------------------------------
(* What a snapshot says of the units it was read from.                       *)

\* A reading of a fact is the fact or 0, entries have identities of their own,
\* and none has that of a fabricated rank.
ReadFrom(s, present) ==
    /\ present \in Seq(DOMAIN Units) /\ s \in Seq(ToSet(s)) /\ DOMAIN s = DOMAIN present
    /\ \A i \in DOMAIN s :
        /\ s[i].mem \in {0, Units[present[i]].mem} /\ s[i].sms \in {0, Units[present[i]].sms}
        /\ s[i].threads \in {0, Units[present[i]].threads}
        /\ s[i].shared \in {0, Units[present[i]].shared}
        /\ \A n \in Nat : s[i].id # Fabricated(n)
    /\ \A i, k \in DOMAIN s : s[i].id = s[k].id => i = k

\* No two ordinals share a row of nvidia-smi.
LEMMA RowsApart ==
    ASSUME NEW present, NEW failing, NEW i, NEW k, NEW u,
           u \in SmiRow(present, i, failing), u \in SmiRow(present, k, failing)
    PROVE  i = k /\ u \in DOMAIN Units
<1>1. PICK m \in DOMAIN SmiOrder :
        /\ u = SmiOrder[m]
        /\ Cardinality({n \in 1 .. m : SmiOrder[n] \in ToSet(present)}) = i
  BY DEF SmiRow
<1>2. PICK l \in DOMAIN SmiOrder :
        /\ u = SmiOrder[l]
        /\ Cardinality({n \in 1 .. l : SmiOrder[n] \in ToSet(present)}) = k
  BY DEF SmiRow
<1>3. m = l
  BY <1>1, <1>2, UnitsAssumption DEF IsInjective
<1>4. u \in DOMAIN Units
  BY <1>1, UnitsAssumption, ElementOfSeq
<1> QED
  BY <1>1, <1>2, <1>3, <1>4

\* A CUDA identity is of the unit in its row, if there is one, and of the unit
\* itself, if its uuid was read.
LEMMA CudaIdentityOf ==
    ASSUME NEW present \in Seq(DOMAIN Units), NEW i \in DOMAIN present, NEW failing
    PROVE  \E pci, driver :
            /\ CudaIdentity(present, i, failing) = <<0, pci, driver>>
            /\ driver = (IF "uuid" \in failing THEN 0 ELSE Units[present[i]].uuid)
            /\ \/ pci = driver
               \/ \E u \in SmiRow(present, i, failing) : pci = Units[u].uuid
            /\ pci \in Nat /\ pci < 1000
<1> DEFINE row == SmiRow(present, i, failing)
           driver == Reads(failing, "uuid", Units[present[i]].uuid)
           chosen == CHOOSE u \in row : TRUE
           pci == IF row = {} THEN driver ELSE Units[chosen].uuid
<1>1. CudaIdentity(present, i, failing) = <<0, pci, driver>>
  BY DEF CudaIdentity, CudaId
<1>2. driver = (IF "uuid" \in failing THEN 0 ELSE Units[present[i]].uuid)
  BY DEF Reads
<1>3. driver \in Nat /\ driver < 1000
  <2>1. present[i] \in DOMAIN Units
    BY ElementOfSeq, LenProperties
  <2> QED
    BY <1>2, <2>1, UnitsAssumption, BudgetAssumption
<1>4. row # {} => chosen \in row
  OBVIOUS
<1>5. row # {} => Units[chosen].uuid \in Nat /\ Units[chosen].uuid < 1000
  BY <1>4, RowsApart, UnitsAssumption, BudgetAssumption
<1> HIDE DEF row, driver, chosen
<1>6. pci = driver \/ \E u \in row : pci = Units[u].uuid
  BY <1>4
<1>7. pci \in Nat /\ pci < 1000
  BY <1>3, <1>5
<1> QED
  BY <1>1, <1>2, <1>6, <1>7 DEF row

\* Units in different slots are identified apart.
LEMMA CudaIdentitiesApart ==
    ASSUME NEW present \in Seq(DOMAIN Units), IsInjective(present), NEW failing,
           NEW i \in DOMAIN present, NEW k \in DOMAIN present,
           CudaIdentity(present, i, failing)[2] # 0,
           CudaIdentity(present, i, failing) = CudaIdentity(present, k, failing)
    PROVE  i = k
<1> DEFINE driver(j) == IF "uuid" \in failing THEN 0 ELSE Units[present[j]].uuid
           Named(j, p) == p = driver(j) \/ \E u \in SmiRow(present, j, failing) : p = Units[u].uuid
<1>0. ASSUME NEW j \in DOMAIN present
      PROVE  \E p : CudaIdentity(present, j, failing) = <<0, p, driver(j)>> /\ Named(j, p)
  <2>1. PICK p, d : /\ CudaIdentity(present, j, failing) = <<0, p, d>>
                    /\ d = (IF "uuid" \in failing THEN 0 ELSE Units[present[j]].uuid)
                    /\ p = d \/ \E u \in SmiRow(present, j, failing) : p = Units[u].uuid
    BY CudaIdentityOf
  <2> QED
    BY <2>1
<1>1. PICK p : CudaIdentity(present, i, failing) = <<0, p, driver(i)>> /\ Named(i, p)
  BY <1>0
<1>2. PICK q : CudaIdentity(present, k, failing) = <<0, q, driver(k)>> /\ Named(k, q)
  BY <1>0
<1>3. p # 0 /\ p = q /\ driver(i) = driver(k)
  <2>1. PICK x, y : x = driver(i) /\ y = driver(k)
    OBVIOUS
  <2>2. <<0, p, x>> = <<0, q, y>> /\ <<0, p, x>>[2] # 0
    BY <1>1, <1>2, <2>1, Zenon
  <2>3. p = q /\ x = y /\ p # 0
    BY <2>2
  <2> QED
    BY <2>1, <2>3
<1>4. present[i] \in DOMAIN Units /\ present[k] \in DOMAIN Units
  BY ElementOfSeq, LenProperties
<1>5. CASE "uuid" \in failing
  <2>1. PICK u \in SmiRow(present, i, failing) : p = Units[u].uuid
    BY <1>1, <1>3, <1>5
  <2>2. PICK v \in SmiRow(present, k, failing) : q = Units[v].uuid
    BY <1>2, <1>3, <1>5
  <2>3. u \in DOMAIN Units /\ v \in DOMAIN Units
    BY RowsApart
  <2>4. u = v
    BY <1>3, <2>1, <2>2, <2>3, UnitsAssumption
  <2> QED
    BY <2>1, <2>2, <2>4, RowsApart
<1>6. CASE "uuid" \notin failing
  <2>1. present[i] = present[k]
    BY <1>1, <1>2, <1>3, <1>4, <1>6, UnitsAssumption
  <2> QED
    BY <2>1 DEF IsInjective
<1> QED
  BY <1>5, <1>6

\* A successful enumeration reads the units present.
LEMMA EnumeratedReads ==
    ASSUME NEW present \in Seq(DOMAIN Units), IsInjective(present), NEW backend, NEW failing,
           NEW generation, Enumerates(backend, present, failing),
           NEW s, s = Enumerated(backend, present, failing, generation)
    PROVE  ReadFrom(s, present)
<1>1. DOMAIN s = DOMAIN present
  BY DEF Enumerated
<1>2. s \in Seq(ToSet(s))
  <2>1. Len(present) \in Nat /\ DOMAIN present = 1 .. Len(present)
    BY LenProperties
  <2>2. \A i \in 1 .. Len(present) : s[i] \in ToSet(s)
    BY <1>1, <2>1 DEF ToSet
  <2>3. s = [i \in 1 .. Len(present) |-> s[i]]
    BY <2>1 DEF Enumerated
  <2> QED
    BY <2>1, <2>2, <2>3, IsASeq
<1>3. CASE backend = "cuda"
  <2>1. \A i \in DOMAIN s : s[i] = CudaEntry(CudaIdentity(present, i, failing), present[i], failing, generation)
    BY <1>1, <1>3 DEF Enumerated
  <2>2. \A i \in DOMAIN s : s[i].id = CudaIdentity(present, i, failing)
    BY <2>1 DEF CudaEntry, Entry
  <2>3. ASSUME NEW i \in DOMAIN s
        PROVE  /\ s[i].mem \in {0, Units[present[i]].mem} /\ s[i].sms \in {0, Units[present[i]].sms}
               /\ s[i].threads \in {0, Units[present[i]].threads}
               /\ s[i].shared \in {0, Units[present[i]].shared}
    BY <2>1 DEF CudaEntry, Entry, Reads
  <2>4. ASSUME NEW i \in DOMAIN s, NEW n \in Nat PROVE s[i].id # Fabricated(n)
    <3>1. PICK p, d : CudaIdentity(present, i, failing) = <<0, p, d>> /\ p \in Nat /\ p < 1000
      BY <1>1, CudaIdentityOf
    <3> QED
      BY <2>2, <3>1 DEF Fabricated, CudaId
  <2>5. ASSUME NEW i \in DOMAIN s, NEW k \in DOMAIN s, s[i].id = s[k].id PROVE i = k
    <3>1. CudaIdentity(present, i, failing)[2] # 0
      BY <1>1, <1>3 DEF Enumerates
    <3> QED
      BY <1>1, <2>2, <2>5, <3>1, CudaIdentitiesApart
  <2> QED
    BY <1>1, <1>2, <2>3, <2>4, <2>5 DEF ReadFrom
<1>4. CASE backend # "cuda"
  <2>1. \A i \in DOMAIN s : s[i] = MetalEntry(present[i], generation)
    BY <1>1, <1>4 DEF Enumerated
  <2>2. \A i \in DOMAIN s : s[i].id = <<1, Units[present[i]].uuid, 0>>
    BY <2>1 DEF MetalEntry, Entry, MetalId
  <2>3. ASSUME NEW i \in DOMAIN s
        PROVE  /\ s[i].mem \in {0, Units[present[i]].mem} /\ s[i].sms \in {0, Units[present[i]].sms}
               /\ s[i].threads \in {0, Units[present[i]].threads}
               /\ s[i].shared \in {0, Units[present[i]].shared}
    BY <2>1 DEF MetalEntry, Entry
  <2>4. ASSUME NEW i \in DOMAIN s, NEW n \in Nat PROVE s[i].id # Fabricated(n)
    BY <2>2 DEF Fabricated, CudaId
  <2>5. ASSUME NEW i \in DOMAIN s, NEW k \in DOMAIN s, s[i].id = s[k].id PROVE i = k
    <3>1. present[i] \in DOMAIN Units /\ present[k] \in DOMAIN Units
      BY <1>1, ElementOfSeq, LenProperties
    <3>2. Units[present[i]].uuid = Units[present[k]].uuid
      BY <2>2, <2>5
    <3> QED
      BY <1>1, <3>1, <3>2, UnitsAssumption DEF IsInjective
  <2> QED
    BY <1>1, <1>2, <2>3, <2>4, <2>5 DEF ReadFrom
<1> QED
  BY <1>3, <1>4

\* The entry of an identity is the only one.
LEMMA EntryOf ==
    ASSUME NEW s, NEW present, ReadFrom(s, present), NEW i \in DOMAIN s
    PROVE  FindEntry(s, s[i].id) = s[i] /\ Min({k \in DOMAIN s : s[k].id = s[i].id}) = i
<1>1. i \in Nat
  BY LenProperties DEF ReadFrom
<1>2. {k \in DOMAIN s : s[k].id = s[i].id} = {i}
  BY DEF ReadFrom
<1>3. Min({i}) = i
  BY <1>1 DEF Min
<1> QED
  BY <1>2, <1>3 DEF FindEntry

\* What an entry of the caller's snapshot says of the unit it was read from.
LEMMA EntryMeasures ==
    ASSUME ReadFrom(snap, probe.present), NEW d \in IdsOf(snap), NEW e, e = FindEntry(snap, d),
           NEW u, u = Units[UnitOf(d)]
    PROVE  /\ e.id = d
           /\ e.mem \in {0, u.mem} /\ e.sms \in {0, u.sms}
           /\ e.threads \in {0, u.threads} /\ e.shared \in {0, u.shared}
           /\ u.mem \in Nat /\ u.sms \in Nat /\ u.threads \in Nat /\ u.shared \in Nat
           /\ u.mem <= ByteMax
<1>1. PICK i \in DOMAIN snap : d = snap[i].id
  BY DEF IdsOf
<1>2. e = snap[i] /\ UnitOf(d) = probe.present[i]
  BY <1>1, EntryOf DEF UnitOf
<1>3. probe.present[i] \in DOMAIN Units
  BY ElementOfSeq, LenProperties DEF ReadFrom
<1> QED
  BY <1>1, <1>2, <1>3, UnitsAssumption, BudgetAssumption DEF ReadFrom

-----------------------------------------------------------------------------
(* Ledgers.                                                                  *)

\* The headroom policy leaves at least a tenth.
LEMMA HeadroomFits ==
    ASSUME NEW t \in Nat
    PROVE  Headroom(t) \in Nat /\ Headroom(t) * 10 <= t * 9 /\ Headroom(t) <= t
<1>1. PICK q \in Nat, r \in 0 .. 9 : q = t \div 10 /\ r = t % 10 /\ t = 10 * q + r
  OBVIOUS
<1>2. PICK h \in Nat : h = (r * 9) \div 10 /\ h * 10 <= r * 9
  BY <1>1
<1>3. Headroom(t) = q * 9 + h
  BY <1>1, <1>2 DEF Headroom
<1> QED
  BY <1>1, <1>2, <1>3

\* An admitted ledger fits its device, added without any width: the limit is
\* below 2^64, so a total that passes it did not overflow.
LEMMA AdmittedFits ==
    ASSUME ReadFrom(snap, probe.present), NEW d \in IdsOf(snap), NEW ledger, ledger \in Seq(Nat),
           NEW limit, limit = Headroom(FindEntry(snap, d).mem), Admits(ledger, limit)
    PROVE  /\ FoldSeq(+, 0, ledger) <= limit
           /\ FoldSeq(+, 0, ledger) * 10 <= Units[UnitOf(d)].mem * 9
<1>1. PICK sum \in Nat : sum = FoldSeq(+, 0, ledger)
            /\ LedgerTotal(ledger) = IF sum > ByteMax THEN ByteMax + 1 ELSE sum
  <2>1. /\ FoldSeq(+, 0, ledger) \in Nat
        /\ LedgerTotal(ledger) = IF FoldSeq(+, 0, ledger) > ByteMax THEN ByteMax + 1
                                 ELSE FoldSeq(+, 0, ledger)
    BY LedgerSum
  <2> QED
    BY <2>1
<1>2. PICK mem, t : mem = Units[UnitOf(d)].mem /\ t = FindEntry(snap, d).mem
  OBVIOUS
<1>3. mem \in Nat /\ mem <= ByteMax /\ t \in {0, mem}
  BY <1>2, EntryMeasures
<1>4. limit \in Nat /\ limit * 10 <= t * 9 /\ limit <= t
  BY <1>2, <1>3, HeadroomFits
<1>5. LedgerTotal(ledger) <= limit
  BY DEF Admits
<1>6. sum <= limit
  <2>1. limit <= ByteMax
    BY <1>3, <1>4, ByteMaxAssumption
  <2>2. PICK total : total = LedgerTotal(ledger)
    OBVIOUS
  <2>3. total = (IF sum > ByteMax THEN ByteMax + 1 ELSE sum) /\ total <= limit
    BY <1>1, <1>5, <2>2, Zenon
  <2>4. limit \in Nat
    BY <1>4
  <2> QED
    BY <2>1, <2>3, <2>4, ByteMaxAssumption
<1>7. sum * 10 <= mem * 9
  BY <1>3, <1>4, <1>6
<1> QED
  BY <1>1, <1>2, <1>6, <1>7

\* The admission of every partition succeeds only when each does.
LEMMA AdmissionAdmits ==
    ASSUME NEW B, \A p \in DOMAIN B : B[p].vp.id \in Nat, NEW s, AdmissionErrors(B, s) = "ok",
           NEW p \in DOMAIN B
    PROVE  B[p].device \in IdsOf(s) /\ Admits(B[p].vp.ledger, B[p].vp.limit)
<1> DEFINE error(b) == CASE b.device \notin IdsOf(s) -> "TopologyMismatch"
                         [] ~Admits(b.vp.ledger, b.vp.limit) -> "BudgetExceeded"
                         [] OTHER -> "ok"
           refused == {b \in {B[q] : q \in DOMAIN B} : error(b) # "ok"}
           first == CHOOSE b \in refused : \A c \in refused : b.vp.id <= c.vp.id
<1>1. AdmissionErrors(B, s) = IF refused = {} THEN "ok" ELSE error(first)
  BY DEF AdmissionErrors
<1>2. refused = {}
  <2> SUFFICES ASSUME refused # {} PROVE FALSE
    OBVIOUS
  <2> DEFINE ids == {b.vp.id : b \in refused}
  <2>1. ids \in SUBSET Nat /\ ids # {}
    OBVIOUS
  <2>2. \E m \in ids : \A k \in ids : m <= k
    <3> HIDE DEF ids
    <3> QED
      BY <2>1, LeastNatural
  <2>3. \E b \in refused : \A c \in refused : b.vp.id <= c.vp.id
    <3> HIDE DEF refused
    <3> QED
      BY <2>2
  <2>4. first \in refused
    <3> HIDE DEF refused
    <3> QED
      BY <2>3
  <2>5. error(first) # "ok"
    <3> HIDE DEF first, error
    <3> QED
      BY <2>4
  <2> HIDE DEF refused, first, error
  <2> QED
    BY <1>1, <2>5
<1>3. error(B[p]) = "ok"
  <2> HIDE DEF error
  <2> QED
    BY <1>2
<1> QED
  BY <1>3

\* The ledger of a translated partition is unsigned.
LEMMA TranslatedLedger ==
    ASSUME NEW wire \in Wires, NEW p
    PROVE  PartitionLedger(PartitionBudget(wire, p)) \in Seq(Nat)
<1> DEFINE declared == {i \in DOMAIN wire.budgets : wire.budgets[i].partition = p}
<1>1. PICK n \in Nat : DOMAIN wire.budgets = 1 .. n
  BY ImagesAssumption, LenProperties
<1>2. declared \in SUBSET Nat /\ IsFiniteSet(declared)
  <2>1. IsFiniteSet(1 .. n)
    BY FS_Interval
  <2> QED
    BY <1>1, <2>1, FS_Subset
<1>3. declared # {} => Max(declared) \in DOMAIN wire.budgets
  <2>1. declared # {} => Max(declared) \in declared
    <3> HIDE DEF declared
    <3> QED
      BY <1>2, MaxOfFinite
  <2> QED
    BY <2>1
<1>4. PICK b \in Nat : b = PartitionBudget(wire, p)
  BY <1>3, ImagesAssumption, BudgetAssumption DEF PartitionBudget
<1>5. b \div 4 \in Nat
  BY <1>4
<1> QED
  BY <1>4, <1>5 DEF PartitionLedger

\* Each partition of an image is bound at its place in plan order.
LEMMA BoundAt ==
    ASSUME NEW wire \in Wires, NEW policy, NEW s, NEW k \in DOMAIN wire.partitions,
           NEW B, B = TranslatedBindings(wire, policy, s),
           NEW d, d = PolicyDevice(policy, s, Len(wire.partitions), k - 1)
    PROVE  /\ wire.partitions[k] \in DOMAIN B /\ B[wire.partitions[k]].device = d
           /\ B[wire.partitions[k]].vp =
                VirtualPartition(k, d, PartitionLedger(PartitionBudget(wire, wire.partitions[k])),
                                 IF d \in IdsOf(s) THEN Headroom(FindEntry(s, d).mem) ELSE 0)
<1>1. k \in Nat /\ (k - 1) + 1 = k
  BY ImagesAssumption, LenProperties
<1>2. (CHOOSE j \in DOMAIN wire.partitions : wire.partitions[j] = wire.partitions[k]) = k
  BY ImagesAssumption DEF IsInjective
<1>3. wire.partitions[k] \in ToSet(wire.partitions)
  BY DEF ToSet
<1> QED
  BY <1>1, <1>2, <1>3 DEF TranslatedBindings

-----------------------------------------------------------------------------
(* Layout.                                                                   *)

\* A quotient by the multiples around its dividend.
LEMMA QuotientIs ==
    ASSUME NEW x \in Nat, NEW c \in Nat, c > 0, NEW j \in Nat
    PROVE  x \div c = j <=> (c * j <= x /\ x < c * j + c)
<1>1. PICK q \in Nat, r \in 0 .. c - 1 : q = x \div c /\ x = c * q + r
  <2>1. /\ x \div c \in Nat /\ x % c \in 0 .. c - 1
        /\ x = c * (x \div c) + (x % c)
    BY Quotients
  <2> QED
    BY <2>1
<1>2. PICK y \in Nat, z \in Nat : y = c * q /\ z = c * j
  OBVIOUS
<1>3. ASSUME q < j PROVE y + c <= z
  <2>1. c * (q + 1) <= c * j
    BY <1>3
  <2> QED
    BY <1>2, <2>1
<1>4. ASSUME j < q PROVE z + c <= y
  <2>1. c * (j + 1) <= c * q
    BY <1>4
  <2> QED
    BY <1>2, <2>1
<1>5. q = j => y = z
  BY <1>2
<1>6. q = j <=> (z <= x /\ x < z + c)
  BY <1>1, <1>2, <1>3, <1>4, <1>5
<1> QED
  BY <1>1, <1>2, <1>6

\* n places in runs of c, on m members.
Slots(n, c, m, slot) ==
    /\ slot \in [1 .. n -> 1 .. m]
    /\ \A j \in 1 .. m : Cardinality({k \in 1 .. n : slot[k] = j}) = c
    /\ \A i, k \in 1 .. n : i <= k => slot[i] <= slot[k]

\* Dividing by c deals the places out in runs of c.
LEMMA RunsOf ==
    ASSUME NEW c \in Nat, c > 0, NEW m \in Nat, NEW n \in Nat, n = c * m,
           NEW slot, slot = [k \in 1 .. n |-> ((k - 1) \div c) + 1]
    PROVE  Slots(n, c, m, slot)
<1>1. ASSUME NEW k \in 1 .. n, NEW j \in Nat
      PROVE  slot[k] = j + 1 <=> (c * j < k /\ k <= c * j + c)
  <2>1. k - 1 \in Nat /\ c * j \in Nat
    OBVIOUS
  <2>2. (k - 1) \div c = j <=> (c * j <= k - 1 /\ k - 1 < c * j + c)
    BY <2>1, QuotientIs
  <2>3. PICK z \in Nat, q \in Nat : z = c * j /\ q = (k - 1) \div c
    BY <2>1, Quotients
  <2>4. q = j <=> (z <= k - 1 /\ k - 1 < z + c)
    BY <2>2, <2>3
  <2>5. slot[k] = q + 1
    BY <2>3
  <2>6. slot[k] = j + 1 <=> (z < k /\ k <= z + c)
    BY <2>3, <2>4, <2>5
  <2> QED
    BY <2>3, <2>6
<1>2. ASSUME NEW k \in 1 .. n PROVE slot[k] \in 1 .. m
  <2>1. PICK q \in Nat : q = (k - 1) \div c /\ slot[k] = q + 1
    BY Quotients
  <2>2. c * q < k
    BY <1>1, <2>1
  <2>3. ASSUME q >= m PROVE FALSE
    <3>1. c * m <= c * q
      BY <2>3
    <3>2. PICK a \in Nat, b \in Nat : a = c * m /\ b = c * q
      OBVIOUS
    <3>3. a <= b /\ b < k /\ n = a
      BY <2>2, <3>1, <3>2, Zenon
    <3> QED
      BY <3>3
  <2> QED
    BY <2>1, <2>3
<1>3. ASSUME NEW j \in 1 .. m PROVE Cardinality({k \in 1 .. n : slot[k] = j}) = c
  <2>1. PICK z \in Nat : z = c * (j - 1)
    OBVIOUS
  <2>2. \A k \in 1 .. n : slot[k] = j <=> (z < k /\ k <= z + c)
    <3>1. j - 1 \in Nat /\ (j - 1) + 1 = j
      OBVIOUS
    <3> QED
      BY <1>1, <2>1, <3>1
  <2>3. z + c <= n
    <3>1. c * ((j - 1) + 1) <= c * m
      OBVIOUS
    <3>2. c * ((j - 1) + 1) = z + c
      BY <2>1
    <3> QED
      BY <3>1, <3>2
  <2>4. {k \in 1 .. n : slot[k] = j} = (z + 1) .. (z + c)
    <3> HIDE DEF Slots
    <3>1. \A k : k \in (z + 1) .. (z + c) <=> (k \in 1 .. n /\ z < k /\ k <= z + c)
      BY <2>3
    <3> QED
      BY <2>2, <3>1
  <2>5. Cardinality((z + 1) .. (z + c)) = c
    <3>1. PICK a \in Int, b \in Int : a = z + 1 /\ b = z + c /\ ~(a > b) /\ b - a + 1 = c
      OBVIOUS
    <3>2. Cardinality(a .. b) = b - a + 1
      BY <3>1, FS_Interval
    <3> QED
      BY <3>1, <3>2
  <2> QED
    BY <2>4, <2>5, Zenon
<1>4. ASSUME NEW i \in 1 .. n, NEW k \in 1 .. n, i <= k PROVE slot[i] <= slot[k]
  <2>1. PICK q \in Nat, r \in Nat : /\ q = (i - 1) \div c /\ slot[i] = q + 1
                                    /\ r = (k - 1) \div c /\ slot[k] = r + 1
    BY Quotients
  <2>2. c * q < i /\ k <= c * r + c
    BY <1>1, <2>1
  <2>3. ASSUME r < q PROVE FALSE
    <3>1. c * (r + 1) <= c * q
      BY <2>3
    <3>2. PICK a \in Nat, b \in Nat : a = c * r /\ b = c * q
      OBVIOUS
    <3>3. a + c <= b
      BY <3>1, <3>2
    <3> QED
      BY <1>4, <2>2, <3>2, <3>3
  <2> QED
    BY <2>1, <2>3
<1>5. slot \in [1 .. n -> 1 .. m]
  <2> HIDE DEF Slots
  <2> QED
    BY <1>2
<1> QED
  BY <1>3, <1>4, <1>5 DEF Slots

\* Members in different slots are different.
LEMMA MembersCounted ==
    ASSUME NEW s, NEW present, ReadFrom(s, present), NEW m \in Nat, 1 .. m \subseteq DOMAIN s
    PROVE  Cardinality({s[j].id : j \in 1 .. m}) = m
<1> DEFINE f == [j \in 1 .. m |-> s[j].id]
           T == {s[j].id : j \in 1 .. m}
<1>1. f \in Surjection(1 .. m, T)
  BY DEF Surjection
<1>2. f \in Injection(1 .. m, T)
  BY DEF Injection, IsInjective, ReadFrom
<1>3. IsFiniteSet(1 .. m) /\ Cardinality(1 .. m) = m
  BY FS_Interval
<1>4. Cardinality(T) = Cardinality(1 .. m)
  <2> HIDE DEF f, T
  <2> QED
    BY <1>1, <1>2, <1>3, FS_Surjection
<1> QED
  BY <1>3, <1>4

\* The partitions of an order, bound in runs to the first members of a
\* snapshot.
RunsAs(order, B, s, devices, count, n, c, slot) ==
    /\ n = Len(order) /\ c * count = n /\ Slots(n, c, count, slot)
    /\ 1 .. count \subseteq DOMAIN s /\ devices = {s[j].id : j \in 1 .. count}
    /\ \A k \in 1 .. n : B[order[k]].device = s[slot[k]].id
InRuns(order, B, s, devices, count) ==
    \E n \in Nat, c \in Nat : \E slot : RunsAs(order, B, s, devices, count, n, c, slot)

\* What a successful preparation of n partitions found.
PreparedAs(n, count, policy, B, s) ==
    /\ n \in Nat /\ n > 0 /\ count > 0
    /\ \/ policy = "colocate" /\ count = 1
       \/ policy = "one_each" /\ count = n
       \/ policy = "split" /\ count < n /\ n % count = 0 /\ Len(s) = count
    /\ AdmissionErrors(B, s) = "ok"
    /\ BoundDevices(B) = ClaimedDevices(policy, s)

\* A preparation that succeeds chose a policy, admitted and bound.
LEMMA PreparedFacts ==
    ASSUME NEW wire \in Wires, NEW count \in Nat, PrepareError(wire, count) = "ok",
           snap # NoSnapshot, NEW n, n = Len(wire.partitions),
           NEW policy, policy = BindPolicy(n, count),
           NEW B, B = TranslatedBindings(wire, policy, snap)
    PROVE  PreparedAs(n, count, policy, B, snap)
<1> DEFINE plan == TranslatedPlan(wire, <<>>)
<1>1. n \in Nat /\ DOMAIN wire.partitions = 1 .. n
  BY ImagesAssumption, LenProperties
<1>2. /\ policy # "unsupported"
      /\ TranslatedBindError(wire, policy, count, snap, <<>>) = "ok"
  BY DEF PrepareError
<1>3. \/ policy = "colocate" /\ count = 1
      \/ policy = "one_each" /\ count = n
      \/ policy = "split" /\ count < n /\ n % count = 0
  BY <1>2 DEF BindPolicy
<1>4. count > 0
  BY <1>3, <1>2 DEF BindPolicy
<1>5. /\ ~(policy = "split" /\ Len(snap) # count)
      /\ AdmissionErrors(B, snap) = "ok" /\ LogicalPlanAdmitted(plan)
      /\ BindError(plan, B, ClaimedDevices(policy, snap), snap, InitialGeneration) = "ok"
  BY <1>2 DEF TranslatedBindError
<1>6. BoundDevices(B) = ClaimedDevices(policy, snap)
  <2> HIDE DEF plan
  <2> QED
    BY <1>5 DEF BindError
<1>7. n > 0
  <2>1. ToSet(wire.partitions) # {}
    BY <1>5 DEF LogicalPlanAdmitted, TranslatedPlan
  <2> QED
    BY <1>1, <2>1 DEF ToSet
<1> QED
  BY <1>1, <1>3, <1>4, <1>5, <1>6, <1>7, Zenon DEF PreparedAs

\* Every partition's device is one of the snapshot.
LEMMA PreparedDevices ==
    ASSUME NEW wire \in Wires, NEW policy, NEW s,
           NEW B, B = TranslatedBindings(wire, policy, s), AdmissionErrors(B, s) = "ok",
           NEW k \in DOMAIN wire.partitions
    PROVE  /\ B[wire.partitions[k]].device \in IdsOf(s)
           /\ Admits(B[wire.partitions[k]].vp.ledger, B[wire.partitions[k]].vp.limit)
<1>1. DOMAIN B = ToSet(wire.partitions)
  BY DEF TranslatedBindings
<1>2. ASSUME NEW p \in DOMAIN B PROVE B[p].vp.id \in Nat
  <2>1. PICK j \in DOMAIN wire.partitions : p = wire.partitions[j]
    BY <1>1 DEF ToSet
  <2>2. PICK d : d = PolicyDevice(policy, s, Len(wire.partitions), j - 1)
    OBVIOUS
  <2>3. B[p].vp = VirtualPartition(j, d, PartitionLedger(PartitionBudget(wire, p)),
                                   IF d \in IdsOf(s) THEN Headroom(FindEntry(s, d).mem) ELSE 0)
    BY <2>1, <2>2, BoundAt
  <2>4. B[p].vp.id = j
    BY <2>3 DEF VirtualPartition
  <2> QED
    BY <2>4, ImagesAssumption, LenProperties
<1>3. wire.partitions[k] \in DOMAIN B
  BY <1>1 DEF ToSet
<1> QED
  BY <1>2, <1>3, AdmissionAdmits

\* A prepared plan is laid out in runs, whatever the policy: one run on one
\* device, runs of one, or runs of equal length.
LEMMA PreparedInRuns ==
    ASSUME NEW wire \in Wires, NEW count \in Nat, PrepareError(wire, count) = "ok",
           snap # NoSnapshot, ReadFrom(snap, probe.present), DOMAIN snap # {},
           NEW policy, policy = BindPolicy(Len(wire.partitions), count),
           NEW B, B = TranslatedBindings(wire, policy, snap)
    PROVE  InRuns(wire.partitions, B, snap, ClaimedDevices(policy, snap), count)
<1>1. PICK n \in Nat : n = Len(wire.partitions) /\ DOMAIN wire.partitions = 1 .. n
  BY ImagesAssumption, LenProperties
<1>2. /\ n > 0 /\ count > 0
      /\ \/ policy = "colocate" /\ count = 1
         \/ policy = "one_each" /\ count = n
         \/ policy = "split" /\ count < n /\ n % count = 0 /\ Len(snap) = count
      /\ AdmissionErrors(B, snap) = "ok"
      /\ BoundDevices(B) = ClaimedDevices(policy, snap)
  <2>1. policy = BindPolicy(n, count)
    BY <1>1
  <2>2. PreparedAs(n, count, policy, B, snap)
    BY <1>1, <2>1, PreparedFacts
  <2> QED
    BY <2>2 DEF PreparedAs
<1>3. PICK l \in Nat : l = Len(snap) /\ DOMAIN snap = 1 .. l /\ l > 0
  BY LenProperties DEF ReadFrom
<1>4. \A k \in 1 .. n : /\ B[wire.partitions[k]].device = PolicyDevice(policy, snap, n, k - 1)
                        /\ B[wire.partitions[k]].device \in IdsOf(snap)
  BY <1>1, <1>2, BoundAt, PreparedDevices
<1> DEFINE Fit(c, slot) ==
        /\ slot = [k \in 1 .. n |-> ((k - 1) \div c) + 1] /\ c > 0 /\ n = c * count
        /\ 1 .. count \subseteq DOMAIN snap
        /\ ClaimedDevices(policy, snap) = {snap[j].id : j \in 1 .. count}
        /\ \A k \in 1 .. n : PolicyDevice(policy, snap, n, k - 1) = snap[slot[k]].id
<1>5. ASSUME NEW c \in Nat, NEW slot, Fit(c, slot)
      PROVE  InRuns(wire.partitions, B, snap, ClaimedDevices(policy, snap), count)
  <2>1. Slots(n, c, count, slot)
    BY <1>2, <1>5, RunsOf
  <2>2. c * count = n
    BY <1>5
  <2>3. \A k \in 1 .. n : B[wire.partitions[k]].device = snap[slot[k]].id
    BY <1>4, <1>5
  <2>4. /\ 1 .. count \subseteq DOMAIN snap
        /\ ClaimedDevices(policy, snap) = {snap[j].id : j \in 1 .. count}
    BY <1>5
  <2>5. RunsAs(wire.partitions, B, snap, ClaimedDevices(policy, snap), count, n, c, slot)
    <3> HIDE DEF Fit
    <3> QED
      BY <1>1, <2>1, <2>2, <2>3, <2>4, Zenon DEF RunsAs
  <2> HIDE DEF Fit
  <2> QED
    BY <2>5 DEF InRuns
<1>6. CASE policy = "colocate"
  <2>1. count = 1
    BY <1>2, <1>6
  <2>2. ASSUME NEW k \in 1 .. n PROVE ((k - 1) \div n) + 1 = 1
    <3>1. (k - 1) \div n = 0
      BY <1>2, QuotientIs
    <3> QED
      BY <3>1
  <2>3. ClaimedDevices(policy, snap) = {snap[1].id}
    BY <1>6 DEF ClaimedDevices
  <2>4. {snap[j].id : j \in 1 .. 1} = {snap[1].id}
    OBVIOUS
  <2>5. \A k \in 1 .. n : PolicyDevice(policy, snap, n, k - 1) = snap[1].id
    <3>1. \A i : PolicyDevice(policy, snap, n, i) = snap[1].id
      BY <1>6, Zenon DEF PolicyDevice
    <3> QED
      BY <3>1
  <2>6. PICK slot : slot = [k \in 1 .. n |-> ((k - 1) \div n) + 1]
    OBVIOUS
  <2>7. \A k \in 1 .. n : slot[k] = 1
    BY <2>2, <2>6
  <2>8. n > 0 /\ n = n * count /\ 1 .. count \subseteq DOMAIN snap
    BY <1>2, <1>3, <2>1
  <2>9. ClaimedDevices(policy, snap) = {snap[j].id : j \in 1 .. count}
    BY <2>1, <2>3, <2>4
  <2>10. \A k \in 1 .. n : PolicyDevice(policy, snap, n, k - 1) = snap[slot[k]].id
    BY <2>5, <2>7, Zenon
  <2>11. Fit(n, slot)
    BY <2>6, <2>8, <2>9, <2>10, Zenon
  <2> HIDE DEF Fit
  <2> QED
    BY <1>5, <2>11
<1>7. CASE policy = "one_each"
  <2>1. count = n
    BY <1>2, <1>7
  <2>2. ASSUME NEW k \in 1 .. n
        PROVE  k <= l /\ PolicyDevice(policy, snap, n, k - 1) = snap[k].id /\ ((k - 1) \div 1) + 1 = k
    <3>1. k - 1 \in Nat /\ (k - 1) + 1 = k
      OBVIOUS
    <3>2. PolicyDevice(policy, snap, n, k - 1)
            = IF k - 1 < l THEN snap[k].id ELSE Fabricated(k - 1)
      BY <1>3, <1>7, <3>1 DEF PolicyDevice
    <3>3. PolicyDevice(policy, snap, n, k - 1) \in IdsOf(snap)
      BY <1>4
    <3>4. Fabricated(k - 1) \notin IdsOf(snap)
      BY <3>1 DEF IdsOf, ReadFrom
    <3>5. k - 1 < l
      BY <3>2, <3>3, <3>4
    <3>6. (k - 1) \div 1 = k - 1
      BY <3>1, QuotientIs
    <3> QED
      BY <3>1, <3>2, <3>5, <3>6
  <2>3. ClaimedDevices(policy, snap) = IdsOf(snap)
    BY <1>7 DEF ClaimedDevices
  <2>4. n <= l
    <3>1. n \in 1 .. n
      BY <1>2
    <3> QED
      BY <2>2, <3>1
  <2>5. \A j \in 1 .. l : j <= n
    <3> TAKE j \in 1 .. l
    <3>1. snap[j].id \in BoundDevices(B)
      BY <1>2, <1>3, <2>3 DEF IdsOf
    <3>2. PICK p \in DOMAIN B : snap[j].id = B[p].device
      BY <3>1 DEF BoundDevices
    <3>3. PICK k \in 1 .. n : p = wire.partitions[k]
      BY <1>1, <3>2 DEF TranslatedBindings, ToSet
    <3>4. snap[j].id = snap[k].id
      BY <1>4, <2>2, <3>2, <3>3
    <3>5. k \in DOMAIN snap /\ j \in DOMAIN snap
      BY <1>3, <2>2
    <3>6. j = k
      BY <3>4, <3>5 DEF ReadFrom
    <3> QED
      BY <3>6
  <2>6. n = l
    <3>1. l \in 1 .. l
      BY <1>3
    <3> QED
      BY <2>4, <2>5, <3>1
  <2>7. ClaimedDevices(policy, snap) = {snap[j].id : j \in 1 .. n}
    BY <1>3, <2>3, <2>6 DEF IdsOf
  <2>8. PICK slot : slot = [k \in 1 .. n |-> ((k - 1) \div 1) + 1]
    OBVIOUS
  <2>9. \A k \in 1 .. n : slot[k] = k
    BY <2>2, <2>8
  <2>10. 1 > 0 /\ n = 1 * count /\ 1 .. count \subseteq DOMAIN snap
    BY <1>3, <2>1, <2>6
  <2>11. ClaimedDevices(policy, snap) = {snap[j].id : j \in 1 .. count}
    BY <2>1, <2>7
  <2>12. \A k \in 1 .. n : PolicyDevice(policy, snap, n, k - 1) = snap[slot[k]].id
    BY <2>2, <2>9, Zenon
  <2>13. Fit(1, slot)
    BY <2>8, <2>10, <2>11, <2>12, Zenon
  <2> HIDE DEF Fit
  <2> QED
    BY <1>5, <2>13
<1>8. CASE policy = "split"
  <2>1. count = l /\ n % count = 0 /\ count < n
    BY <1>2, <1>3, <1>8
  <2>2. PICK c \in Nat : c = n \div count /\ n = count * c
    <3>1. /\ n \div count \in Nat /\ n % count \in 0 .. count - 1
          /\ n = count * (n \div count) + (n % count)
      BY <1>2, Quotients
    <3> QED
      BY <2>1, <3>1
  <2>3. c > 0 /\ n = c * count
    BY <1>2, <2>2
  <2>4. ClaimedDevices(policy, snap) = {snap[j].id : j \in 1 .. count}
    BY <1>3, <1>8, <2>1 DEF ClaimedDevices, IdsOf
  <2>5. \A k \in 1 .. n : PolicyDevice(policy, snap, n, k - 1) = snap[((k - 1) \div c) + 1].id
    BY <1>3, <1>8, <2>1, <2>2 DEF PolicyDevice, Chunk
  <2>6. PICK slot : slot = [k \in 1 .. n |-> ((k - 1) \div c) + 1]
    OBVIOUS
  <2>7. 1 .. count \subseteq DOMAIN snap
    BY <1>3, <2>1
  <2>8. \A k \in 1 .. n : PolicyDevice(policy, snap, n, k - 1) = snap[slot[k]].id
    <3> TAKE k \in 1 .. n
    <3>1. slot[k] = ((k - 1) \div c) + 1
      BY <2>6
    <3> QED
      BY <2>5, <3>1, Zenon
  <2>9. Fit(c, slot)
    BY <2>3, <2>4, <2>6, <2>7, <2>8, Zenon
  <2> HIDE DEF Fit
  <2> QED
    BY <1>5, <2>9
<1> QED
  BY <1>2, <1>6, <1>7, <1>8

\* LaidOutInRuns of an order and its bindings.
LaidOut(order, B, devices, count) ==
    /\ Cardinality(devices) = count
    /\ \A d \in devices :
            Cardinality({k \in DOMAIN order : B[order[k]].device = d}) * count = Len(order)
    /\ \A i, j \in DOMAIN order :
            i <= j /\ B[order[i]].device = B[order[j]].device =>
                \A k \in i .. j : B[order[k]].device = B[order[i]].device

\* Places in runs are laid out so.
LEMMA RunsLaidOut ==
    ASSUME NEW S, NEW order \in Seq(S), NEW B, NEW s, NEW present, ReadFrom(s, present),
           NEW devices, NEW count \in Nat, InRuns(order, B, s, devices, count)
    PROVE  LaidOut(order, B, devices, count)
<1>0. PICK n \in Nat, c \in Nat : \E slot : RunsAs(order, B, s, devices, count, n, c, slot)
  BY DEF InRuns
<1>1. PICK slot : RunsAs(order, B, s, devices, count, n, c, slot)
  BY <1>0
<1>2. /\ n = Len(order) /\ c * count = n /\ Slots(n, c, count, slot)
      /\ 1 .. count \subseteq DOMAIN s /\ devices = {s[j].id : j \in 1 .. count}
      /\ \A k \in 1 .. n : B[order[k]].device = s[slot[k]].id
  BY <1>1 DEF RunsAs
<1>3. DOMAIN order = 1 .. n
  BY <1>2, LenProperties
<1>4. /\ \A k \in 1 .. n : slot[k] \in 1 .. count /\ slot[k] \in Nat
      /\ \A j \in 1 .. count : Cardinality({k \in 1 .. n : slot[k] = j}) = c
      /\ \A i, k \in 1 .. n : i <= k => slot[i] <= slot[k]
  <2>1. /\ slot \in [1 .. n -> 1 .. count]
        /\ \A j \in 1 .. count : Cardinality({k \in 1 .. n : slot[k] = j}) = c
        /\ \A i, k \in 1 .. n : i <= k => slot[i] <= slot[k]
    BY <1>2, Zenon DEF Slots
  <2>2. \A k \in 1 .. n : slot[k] \in 1 .. count /\ slot[k] \in Nat
    BY <2>1
  <2> QED
    BY <2>1, <2>2, Zenon
<1>5. \A k \in 1 .. n, j \in 1 .. count : B[order[k]].device = s[j].id <=> slot[k] = j
  BY <1>2, <1>4 DEF ReadFrom
<1>6. Cardinality(devices) = count
  BY <1>2, MembersCounted
<1>7. ASSUME NEW d \in devices
      PROVE  Cardinality({k \in DOMAIN order : B[order[k]].device = d}) * count = Len(order)
  <2>1. PICK j \in 1 .. count : d = s[j].id
    BY <1>2
  <2>2. {k \in DOMAIN order : B[order[k]].device = d} = {k \in 1 .. n : slot[k] = j}
    BY <1>3, <1>5, <2>1
  <2>3. Cardinality({k \in DOMAIN order : B[order[k]].device = d}) = c
    BY <1>4, <2>2
  <2> QED
    BY <1>2, <2>3
<1>8. ASSUME NEW i \in DOMAIN order, NEW j \in DOMAIN order, i <= j,
             B[order[i]].device = B[order[j]].device, NEW k \in i .. j
      PROVE  B[order[k]].device = B[order[i]].device
  <2>1. i \in 1 .. n /\ j \in 1 .. n /\ k \in 1 .. n /\ i <= k /\ k <= j
    BY <1>3, <1>8
  <2>2. B[order[j]].device = s[slot[j]].id
    BY <1>2, <2>1
  <2>3. slot[i] = slot[j]
    BY <1>4, <1>5, <1>8, <2>1, <2>2
  <2>4. slot[i] <= slot[k] /\ slot[k] <= slot[j]
    BY <1>4, <2>1
  <2>5. slot[k] = slot[i]
    BY <1>4, <2>1, <2>3, <2>4
  <2> QED
    BY <1>2, <2>1, <2>5
<1> QED
  BY <1>6, <1>7, <1>8 DEF LaidOut

-----------------------------------------------------------------------------
(* The invariant of what was admitted, bound and prepared.                   *)

\* Units occupy one slot each, and the snapshot is a reading of its probe.
HwDistinct == \A b \in Backends : IsInjective(hw[b])
SnapRead == snap # NoSnapshot => ReadFrom(snap, probe.present)

\* The classes of a ledger, added without any width.
Exact(ledger) == FoldSeq(+, 0, ledger)

PartFits ==
    part # NoPartition =>
        /\ DOMAIN part = {"id", "device", "ledger", "limit", "state"}
        /\ Exact(part.ledger) <= part.limit

\* A direct binding carries the caller's partition or none.
BindFits ==
    last.op = "bind" /\ HasBound =>
        /\ \A p \in DOMAIN last.bound.bindings : last.bound.bindings[p].vp \in {NoPartition, part}
        /\ \A d \in BoundDevices(last.bound.bindings) :
            /\ last.bound.plan.demand.threads <= Units[UnitOf(d)].threads
            /\ last.bound.plan.demand.shared <= Units[UnitOf(d)].shared
PrepareFits ==
    last.op = "prepare" /\ HasBound =>
        \A p \in DOMAIN last.bound.bindings : \A d :
            d = last.bound.bindings[p].vp.device =>
                Exact(last.bound.bindings[p].vp.ledger) * 10 <= Units[UnitOf(d)].mem * 9

LayoutFits ==
    last.op = "prepare" /\ HasBound =>
        LaidOut(last.wire.partitions, last.bound.bindings, last.bound.devices, last.count)

FitInv == HwDistinct /\ SnapRead /\ PartFits /\ BindFits /\ PrepareFits /\ LayoutFits

\* A step that leaves no binding on record, or leaves what it speaks of.
LEMMA OthersKeepFits ==
    ASSUME BindFits, PrepareFits, LayoutFits,
           last'.op \notin {"bind", "prepare"} \/ UNCHANGED <<last, snap, probe, part>>
    PROVE  BindFits' /\ PrepareFits' /\ LayoutFits'
<1>1. CASE last'.op \notin {"bind", "prepare"}
  BY <1>1 DEF BindFits, PrepareFits, LayoutFits
<1>2. CASE UNCHANGED <<last, snap, probe, part>>
  <2>1. last' = last /\ part' = part /\ \A d : UnitOf(d)' = UnitOf(d)
    BY <1>2 DEF UnitOf
  <2>2. HasBound' = HasBound
    BY <2>1 DEF HasBound
  <2>3. BindFits'
    BY <2>1, <2>2 DEF BindFits
  <2>4. PrepareFits'
    BY <2>1, <2>2 DEF PrepareFits
  <2>5. LayoutFits'
    BY <2>1, <2>2 DEF LayoutFits
  <2> QED
    BY <2>3, <2>4, <2>5
<1> QED
  BY <1>1, <1>2

\* A direct bind.
LEMMA BindFitsNow ==
    ASSUME HostInv, SnapRead, NEW plan \in LogicalPlans, NEW bindings \in Bindings(plan), NEW set,
           BindDirect(plan, bindings, set)
    PROVE  BindFits'
<1> DEFINE error == BindError(plan, bindings, set, snap, epoch)
           bound == BoundPlan(plan, bindings, set, snap)
<1>1. /\ last' = Bound("bind", error, bound, epoch)
      /\ snap # NoSnapshot /\ UNCHANGED <<snap, probe, part>>
  BY DEF BindDirect
<1>2. CASE error # "ok"
  <2>1. DOMAIN last' = {"op", "error"}
    <3> HIDE DEF error, bound
    <3> QED
      BY <1>1, <1>2 DEF Bound
  <2> QED
    BY <2>1 DEF BindFits, HasBound
<1>3. CASE error = "ok"
  <2>1. last'.bound = bound
    <3> HIDE DEF error, bound
    <3> QED
      BY <1>1, <1>3 DEF Bound
  <2>2. last'.bound.bindings = bindings /\ last'.bound.plan = plan
    BY <2>1 DEF BoundPlan
  <2>3. /\ \A d \in set : CurrentMember(snap, epoch, d)
        /\ BoundDevices(bindings) = set
        /\ LaunchFits(plan.demand, BoundDevices(bindings), snap)
    BY <1>3 DEF BindError
  <2>4. \A p \in DOMAIN bindings : bindings[p].vp \in {NoPartition, part}
    BY DEF Bindings
  <2>5. ASSUME NEW d \in BoundDevices(bindings)
        PROVE  plan.demand.threads <= Units[UnitOf(d)].threads
               /\ plan.demand.shared <= Units[UnitOf(d)].shared
    <3>1. d \in IdsOf(snap)
      BY <2>3, <2>5 DEF CurrentMember
    <3>2. PICK e, u : e = FindEntry(snap, d) /\ u = Units[UnitOf(d)]
      OBVIOUS
    <3>3. /\ e.threads \in {0, u.threads} /\ e.shared \in {0, u.shared}
          /\ u.threads \in Nat /\ u.shared \in Nat
      BY <1>1, <3>1, <3>2, EntryMeasures DEF SnapRead
    <3>4. WithinLimit(plan.demand.threads, e.threads) /\ WithinLimit(plan.demand.shared, e.shared)
      BY <2>3, <2>5, <3>2 DEF LaunchFits
    <3>5. plan.demand.threads \in Nat /\ plan.demand.shared \in Nat
      BY CallersAssumption
    <3> QED
      BY <3>2, <3>3, <3>4, <3>5 DEF WithinLimit
  <2>6. \A d : UnitOf(d)' = UnitOf(d)
    BY <1>1 DEF UnitOf
  <2> HIDE DEF error, bound
  <2> QED
    BY <1>1, <2>2, <2>4, <2>5, <2>6 DEF BindFits
<1> QED
  BY <1>2, <1>3

\* A prepared image.
LEMMA PrepareFitsNow ==
    ASSUME HostInv, SnapRead, NEW wire \in Wires, NEW count \in BindCounts,
           PrepareImage(wire, count)
    PROVE  PrepareFits' /\ LayoutFits'
<1> DEFINE policy == BindPolicy(Len(wire.partitions), count)
           B == TranslatedBindings(wire, policy, snap)
           error == PrepareError(wire, count)
           claimed == ClaimedDevices(policy, snap)
           bound == BoundPlan(TranslatedPlan(wire, <<>>), B, claimed, snap)
<1>1. /\ last' = IF error # "ok" THEN [op |-> "prepare", error |-> error]
                 ELSE [op |-> "prepare", current |-> InitialGeneration, bound |-> bound,
                       wire |-> wire, count |-> count]
      /\ snap # NoSnapshot /\ UNCHANGED <<snap, probe, part>>
  BY DEF PrepareImage
<1>2. CASE error # "ok"
  <2>1. DOMAIN last' = {"op", "error"}
    <3> HIDE DEF error, bound
    <3> QED
      BY <1>1, <1>2
  <2> QED
    BY <2>1 DEF PrepareFits, LayoutFits, HasBound
<1>3. CASE error = "ok"
  <2>1. last'.bound = bound /\ last'.wire = wire /\ last'.count = count
    <3> HIDE DEF error, bound
    <3> QED
      BY <1>1, <1>3
  <2>2. last'.bound.bindings = B /\ last'.bound.devices = claimed
    BY <2>1 DEF BoundPlan
  <2>3. count \in Nat /\ ReadFrom(snap, probe.present) /\ DOMAIN snap # {}
    BY <1>1, CallersAssumption DEF SnapRead, HostInv, PlaceInv, SnapshotSound
  <2>4. InRuns(wire.partitions, B, snap, claimed, count)
    <3>1. PrepareError(wire, count) = "ok"
      BY <1>3
    <3> QED
      BY <1>1, <2>3, <3>1, PreparedInRuns
  <2>5. LaidOut(wire.partitions, B, claimed, count)
    <3>1. wire.partitions \in Seq(Nat)
      BY ImagesAssumption
    <3> HIDE DEF B, claimed
    <3> QED
      BY <2>3, <2>4, <3>1, RunsLaidOut
  <2>6. ASSUME NEW p \in DOMAIN B
        PROVE  Exact(B[p].vp.ledger) * 10 <= Units[UnitOf(B[p].vp.device)].mem * 9
    <3>1. PICK k \in DOMAIN wire.partitions : p = wire.partitions[k]
      BY DEF TranslatedBindings, ToSet
    <3>2. AdmissionErrors(B, snap) = "ok"
      <4>1. PICK n : n = Len(wire.partitions)
        OBVIOUS
      <4>2. policy = BindPolicy(n, count) /\ PrepareError(wire, count) = "ok"
        BY <1>3, <4>1
      <4>3. PreparedAs(n, count, policy, B, snap)
        BY <1>1, <2>3, <4>1, <4>2, PreparedFacts
      <4> QED
        BY <4>3 DEF PreparedAs
    <3>3. B[p].device \in IdsOf(snap) /\ Admits(B[p].vp.ledger, B[p].vp.limit)
      BY <3>1, <3>2, PreparedDevices
    <3>4. PICK d, ledger : /\ d = PolicyDevice(policy, snap, Len(wire.partitions), k - 1)
                           /\ ledger = PartitionLedger(PartitionBudget(wire, p))
      OBVIOUS
    <3>5. /\ B[p].device = d
          /\ B[p].vp = VirtualPartition(k, d, ledger,
                            IF d \in IdsOf(snap) THEN Headroom(FindEntry(snap, d).mem) ELSE 0)
      BY <3>1, <3>4, BoundAt
    <3>6. /\ d \in IdsOf(snap) /\ B[p].vp.device = d /\ B[p].vp.ledger = ledger
          /\ B[p].vp.limit = Headroom(FindEntry(snap, d).mem)
      BY <3>3, <3>5 DEF VirtualPartition
    <3>7. ledger \in Seq(Nat)
      BY <3>4, TranslatedLedger
    <3>8. Admits(ledger, Headroom(FindEntry(snap, d).mem))
      BY <3>3, <3>6
    <3>9. FoldSeq(+, 0, ledger) * 10 <= Units[UnitOf(d)].mem * 9
      BY <2>3, <3>6, <3>7, <3>8, AdmittedFits
    <3> HIDE DEF B
    <3> QED
      BY <3>6, <3>9 DEF Exact
  <2>7. \A d : UnitOf(d)' = UnitOf(d)
    BY <1>1 DEF UnitOf
  <2>8. PrepareFits'
    <3> HIDE DEF B, claimed, bound, error, policy
    <3> QED
      BY <2>2, <2>6, <2>7 DEF PrepareFits
  <2>9. LayoutFits'
    <3> HIDE DEF B, claimed, bound, error, policy
    <3> QED
      BY <2>1, <2>2, <2>5 DEF LayoutFits
  <2> QED
    BY <2>8, <2>9
<1> QED
  BY <1>2, <1>3

\* A partition of the caller fits when it is admitted.
LEMMA AdmitFits ==
    ASSUME ReadFrom(snap, probe.present), NEW d \in IdsOf(snap), NEW l \in Ledgers,
           AdmitPartition(d, l)
    PROVE  PartFits'
<1> DEFINE limit == Headroom(FindEntry(snap, d).mem)
<1>1. part' = NoPartition \/ (Admits(l, limit) /\ part' = VirtualPartition(1, d, l, limit))
  BY DEF AdmitPartition
<1>2. CASE part' = NoPartition
  BY <1>2 DEF PartFits
<1>3. CASE Admits(l, limit) /\ part' = VirtualPartition(1, d, l, limit)
  <2>1. l \in Seq(Nat)
    BY CallersAssumption
  <2>2. FoldSeq(+, 0, l) <= limit
    BY <1>3, <2>1, AdmittedFits
  <2>3. /\ DOMAIN part' = {"id", "device", "ledger", "limit", "state"}
        /\ part'.ledger = l /\ part'.limit = limit
    <3> HIDE DEF limit
    <3> QED
      BY <1>3 DEF VirtualPartition
  <2>4. Exact(part'.ledger) <= part'.limit
    BY <2>2, <2>3 DEF Exact
  <2> QED
    BY <2>3, <2>4 DEF PartFits
<1> QED
  BY <1>1, <1>2, <1>3

\* A partition that fails or is torn down keeps its ledger.
LEMMA PartFitsStays ==
    ASSUME PartFits, NEW state, part' = [part EXCEPT !.state = state], part # NoPartition
    PROVE  PartFits'
<1>1. /\ DOMAIN part = {"id", "device", "ledger", "limit", "state"}
      /\ Exact(part.ledger) <= part.limit
  BY DEF PartFits
<1>2. part'.ledger = part.ledger /\ part'.limit = part.limit /\ DOMAIN part' = DOMAIN part
  BY <1>1
<1> QED
  BY <1>1, <1>2 DEF PartFits

\* Replacing a unit by one that is in no slot, or reversing the slots.
LEMMA ChangeDistinct ==
    ASSUME hw \in [Backends -> Seq(DOMAIN Units)], HwDistinct, Change
    PROVE  HwDistinct'
<1>1. ASSUME NEW b \in Backends, NEW i \in DOMAIN hw[b], NEW u \in Spares[b], Replace(b, i, u)
      PROVE  HwDistinct'
  <2>1. hw' = [hw EXCEPT ![b] = [hw[b] EXCEPT ![i] = u]] /\ u \notin ToSet(hw[b])
    BY <1>1 DEF Replace
  <2>2. \A k \in DOMAIN hw[b] : hw[b][k] # u
    BY <2>1 DEF ToSet
  <2>3. IsInjective(hw[b])
    BY DEF HwDistinct
  <2>4. IsInjective([hw[b] EXCEPT ![i] = u])
    BY <2>2, <2>3 DEF IsInjective
  <2>5. \A c \in Backends : hw'[c] = IF c = b THEN [hw[b] EXCEPT ![i] = u] ELSE hw[c]
    BY <2>1
  <2> QED
    BY <2>4, <2>5 DEF HwDistinct
<1>2. ASSUME NEW b \in Backends, Renumber(b) PROVE HwDistinct'
  <2>1. hw' = [hw EXCEPT ![b] = Reverse(hw[b])]
    BY <1>2 DEF Renumber
  <2>2. PICK s : s = hw[b] /\ s \in Seq(DOMAIN Units) /\ IsInjective(s)
    BY DEF HwDistinct
  <2>3. PICK n \in Nat : n = Len(s) /\ DOMAIN s = 1 .. n
    BY <2>2, LenProperties
  <2>4. Reverse(s) = [k \in 1 .. n |-> s[(n - k) + 1]]
    BY <2>3 DEF Reverse
  <2>5. IsInjective(Reverse(s))
    <3>1. ASSUME NEW k \in 1 .. n, NEW l \in 1 .. n, s[(n - k) + 1] = s[(n - l) + 1]
          PROVE  k = l
      <4>1. PICK a \in 1 .. n, c \in 1 .. n : a = (n - k) + 1 /\ c = (n - l) + 1
        OBVIOUS
      <4>2. a = c
        BY <2>2, <2>3, <3>1, <4>1 DEF IsInjective
      <4> QED
        BY <4>1, <4>2
    <3>2. DOMAIN Reverse(s) = 1 .. n /\ \A k \in 1 .. n : Reverse(s)[k] = s[(n - k) + 1]
      BY <2>4
    <3> QED
      BY <3>1, <3>2 DEF IsInjective
  <2>6. \A c \in Backends : hw'[c] = IF c = b THEN Reverse(s) ELSE hw[c]
    BY <2>1, <2>2
  <2> QED
    BY <2>5, <2>6 DEF HwDistinct
<1>3. ASSUME Advance PROVE HwDistinct'
  BY <1>3 DEF Advance, HwDistinct
<1> QED
  BY <1>1, <1>2, <1>3 DEF Change

\* A step that leaves the hardware alone, plans nothing, and at most forgets
\* the snapshot or the partition.
LEMMA FitStays ==
    ASSUME FitInv, hw' = hw, UNCHANGED <<snap, probe>> \/ snap' = NoSnapshot,
           part' = part \/ part' = NoPartition,
           last'.op \notin {"bind", "prepare"} \/ UNCHANGED <<last, snap, probe, part>>
    PROVE  FitInv'
<1>1. HwDistinct'
  BY DEF FitInv, HwDistinct
<1>2. SnapRead'
  BY DEF FitInv, SnapRead, NoSnapshot
<1>3. PartFits'
  BY DEF FitInv, PartFits
<1>4. BindFits' /\ PrepareFits' /\ LayoutFits'
  BY OthersKeepFits DEF FitInv
<1> QED
  BY <1>1, <1>2, <1>3, <1>4 DEF FitInv

\* A change of the hardware or of the epoch.
LEMMA ChangeKeepsFit == ASSUME HostInv, FitInv, Change PROVE FitInv'
<1>1. last' = Nothing /\ UNCHANGED <<snap, probe, part>>
  BY DEF Change, Replace, Renumber, Advance
<1>2. HwDistinct'
  BY ChangeDistinct DEF HostInv, PlaceInv, FitInv
<1>3. SnapRead' /\ PartFits'
  BY <1>1 DEF FitInv, SnapRead, PartFits
<1>4. BindFits' /\ PrepareFits' /\ LayoutFits'
  BY <1>1, OthersKeepFits DEF FitInv, Nothing
<1> QED
  BY <1>2, <1>3, <1>4 DEF FitInv

\* Probing, ranking, binding, preparing and partitions.
LEMMA PlanKeepsFit == ASSUME HostInv, FitInv, Plan PROVE FitInv'
<1>0. /\ HwDistinct /\ SnapRead /\ PartFits /\ BindFits /\ PrepareFits /\ LayoutFits
      /\ hw \in [Backends -> Seq(DOMAIN Units)]
  BY DEF FitInv, HostInv, PlaceInv
<1>1. ASSUME hw' = hw, UNCHANGED <<snap, probe, part>>, last'.op \notin {"bind", "prepare"}
      PROVE  FitInv'
  BY <1>1, FitStays
<1>2. ASSUME NEW b \in Backends, NEW g, NEW f, Probe(b, g, f) PROVE FitInv'
  <2>1. /\ Enumerates(b, hw[b], f) /\ snap' = Enumerated(b, hw[b], f, g)
        /\ probe' = [backend |-> b, present |-> hw[b]] /\ last' = Nothing
        /\ hw' = hw /\ part' = part
    BY <1>2 DEF Probe
  <2>2. hw[b] \in Seq(DOMAIN Units) /\ IsInjective(hw[b])
    BY <1>0 DEF HwDistinct
  <2>3. ReadFrom(snap', hw[b])
    BY <2>1, <2>2, EnumeratedReads
  <2>4. SnapRead'
    BY <2>1, <2>3 DEF SnapRead
  <2>5. HwDistinct' /\ PartFits'
    BY <1>0, <2>1 DEF HwDistinct, PartFits
  <2>6. BindFits' /\ PrepareFits' /\ LayoutFits'
    BY <1>0, <2>1, OthersKeepFits DEF Nothing
  <2> QED
    BY <2>4, <2>5, <2>6 DEF FitInv
<1>3. ASSUME NEW b, NEW f, ProbeFails(b, f) PROVE FitInv'
  <2>1. hw' = hw /\ UNCHANGED <<snap, probe, part>> /\ last'.op = "probe_failed"
    BY <1>3 DEF ProbeFails
  <2> QED
    BY <1>1, <2>1
<1>4. ASSUME NEW req, EvaluatePolicy(req) PROVE FitInv'
  <2>1. hw' = hw /\ UNCHANGED <<snap, probe, part>> /\ last'.op = "evaluate"
    BY <1>4 DEF EvaluatePolicy
  <2> QED
    BY <1>1, <2>1
<1>5. ASSUME NEW d \in IdsOf(snap), NEW l \in Ledgers, AdmitPartition(d, l) PROVE FitInv'
  <2>1. hw' = hw /\ UNCHANGED <<snap, probe>> /\ last' = Nothing
    BY <1>5 DEF AdmitPartition
  <2>2. snap # NoSnapshot
    BY DEF IdsOf, NoSnapshot
  <2>3. PartFits'
    BY <1>0, <1>5, <2>2, AdmitFits DEF SnapRead
  <2>4. HwDistinct' /\ SnapRead'
    BY <1>0, <2>1 DEF HwDistinct, SnapRead
  <2>5. BindFits' /\ PrepareFits' /\ LayoutFits'
    BY <1>0, <2>1, OthersKeepFits DEF Nothing
  <2> QED
    BY <2>3, <2>4, <2>5 DEF FitInv
<1>6. ASSUME NEW state, part # NoPartition, part' = [part EXCEPT !.state = state],
             hw' = hw, UNCHANGED <<snap, probe>>, last' = Nothing
      PROVE  FitInv'
  <2>1. PartFits'
    BY <1>0, <1>6, PartFitsStays
  <2>2. HwDistinct' /\ SnapRead'
    BY <1>0, <1>6 DEF HwDistinct, SnapRead
  <2>3. BindFits' /\ PrepareFits' /\ LayoutFits'
    BY <1>0, <1>6, OthersKeepFits DEF Nothing
  <2> QED
    BY <2>1, <2>2, <2>3 DEF FitInv
<1>7. ASSUME NEW f, FailPartition(f) PROVE FitInv'
  <2>1. /\ hw' = hw /\ UNCHANGED <<snap, probe>> /\ last' = Nothing
        /\ part # NoPartition
        /\ part' = [part EXCEPT !.state = IF part.state = "active" THEN f ELSE part.state]
    BY <1>7 DEF FailPartition, RecordFailure
  <2> QED
    BY <1>6, <2>1
<1>8. ASSUME TeardownPartition PROVE FitInv'
  <2>1. /\ hw' = hw /\ UNCHANGED <<snap, probe>> /\ last' = Nothing
        /\ part # NoPartition /\ part' = [part EXCEPT !.state = "torn_down"]
    BY <1>8 DEF TeardownPartition, Teardown
  <2> QED
    BY <1>6, <2>1
<1>9. ASSUME NEW plan \in LogicalPlans, NEW bindings \in Bindings(plan), NEW set,
             BindDirect(plan, bindings, set)
      PROVE  FitInv'
  <2>1. \A e, b, c : Bound("bind", e, b, c).op = "bind"
    BY DEF Bound
  <2>2. hw' = hw /\ UNCHANGED <<snap, probe, part>> /\ last'.op = "bind"
    BY <1>9, <2>1 DEF BindDirect
  <2>3. BindFits'
    BY <1>0, <1>9, BindFitsNow
  <2>4. HwDistinct' /\ SnapRead' /\ PartFits' /\ PrepareFits' /\ LayoutFits'
    BY <1>0, <2>2 DEF HwDistinct, SnapRead, PartFits, PrepareFits, LayoutFits
  <2> QED
    BY <2>3, <2>4 DEF FitInv
<1>10. ASSUME NEW w \in Wires, NEW n \in BindCounts, PrepareImage(w, n) PROVE FitInv'
  <2>1. hw' = hw /\ UNCHANGED <<snap, probe, part>>
    BY <1>10 DEF PrepareImage
  <2>2. last'.op = "prepare"
    BY <1>10 DEF PrepareImage
  <2>3. PrepareFits' /\ LayoutFits'
    BY <1>0, <1>10, PrepareFitsNow
  <2>4. HwDistinct' /\ SnapRead' /\ PartFits' /\ BindFits'
    BY <1>0, <2>1, <2>2 DEF HwDistinct, SnapRead, PartFits, BindFits
  <2> QED
    BY <2>3, <2>4 DEF FitInv
<1>11. ASSUME NEW sel, NEW req, NEW adm, NEW f, NEW g, OpenHost(sel, req, adm, f, g) PROVE FitInv'
  <2>1. hw' = hw /\ UNCHANGED <<snap, probe, part>>
    BY <1>11 DEF OpenHost
  <2>2. \A e, b, c : Bound("open", e, b, c).op = "open"
    BY DEF Bound
  <2>3. \A found : ImplicitLocal(found).op = "open"
    BY <2>2, Zenon DEF ImplicitLocal
  <2>4. last'.op = "open"
    BY <1>11, <2>3 DEF OpenHost
  <2> QED
    BY <1>1, <2>1, <2>4
<1> QED
  BY <1>2, <1>3, <1>4, <1>5, <1>7, <1>8, <1>9, <1>10, <1>11, Zenon DEF Plan

\* Running a plan and moving bytes.
LEMMA RunKeepsFit == ASSUME FitInv, Run \/ Transfers PROVE FitInv'
<1>1. ASSUME NEW members, OpenBackend(members) PROVE FitInv'
  <2>1. /\ hw' = hw
        /\ \/ last' = Nothing /\ snap' = NoSnapshot /\ part' = NoPartition
           \/ /\ last' = [op |-> "backend", error |-> "E_INVALID_ARGS"]
              /\ UNCHANGED <<snap, probe, part>>
    BY <1>1, Zenon DEF OpenBackend
  <2> QED
    BY <2>1, FitStays DEF Nothing
<1>2. ASSUME UNCHANGED <<hw, planning>> PROVE FitInv'
  BY <1>2, FitStays DEF planning
<1>3. ASSUME NEW c, CopyPeer(c) PROVE FitInv'
  <2>1. hw' = hw /\ UNCHANGED <<snap, probe, part>> /\ last'.op = "peer"
    BY <1>3 DEF CopyPeer
  <2> QED
    BY <2>1, FitStays
<1>4. ASSUME Reserve \/ (\E n \in 0 .. 2 : ReserveFails(n)) \/ CloseBackend
             \/ (\E p \in Partitions : FreePartition(p))
             \/ \E f, g : RunNext(f, g)
      PROVE  UNCHANGED <<hw, planning>>
  BY <1>4, Zenon DEF Reserve, ReserveFails, CloseBackend, FreePartition, RunNext
<1>5. ASSUME (\E c, o : CopyDirect(c, o)) \/ (\E m : Measure(m)) \/ (\E m : AdmitPair(m))
      PROVE  UNCHANGED <<hw, planning>>
  BY <1>5, Zenon DEF CopyDirect, Measure, AdmitPair
<1> QED
  BY <1>1, <1>2, <1>3, <1>4, <1>5, Zenon DEF Run, Transfers

\* It holds initially.
LEMMA FitInit == Init => FitInv
<1> SUFFICES ASSUME Init PROVE FitInv
  OBVIOUS
<1>1. HwDistinct
  BY HardwareAssumption DEF Init, HwDistinct
<1>2. SnapRead /\ PartFits
  BY DEF Init, SnapRead, PartFits
<1>3. BindFits /\ PrepareFits /\ LayoutFits
  BY DEF Init, Nothing, BindFits, PrepareFits, LayoutFits
<1> QED
  BY <1>1, <1>2, <1>3 DEF FitInv

\* Every step keeps it.
LEMMA FitNext == HostInv /\ FitInv /\ [Next]_vars => FitInv'
<1> SUFFICES ASSUME HostInv, FitInv, [Next]_vars PROVE FitInv'
  OBVIOUS
<1>1. CASE UNCHANGED vars
  BY <1>1, FitStays DEF vars
<1>2. CASE Next
  BY <1>2, ChangeKeepsFit, PlanKeepsFit, RunKeepsFit DEF Next
<1> QED
  BY <1>1, <1>2

\* The devices of a ranked plan meet its demands, and the budgets its ledgers.
LEMMA RankedFits ==
    ASSUME HostInv, FitInv, NEW r \in DOMAIN Ranked, NEW a \in Assigned(Ranked[r].plan)
    PROVE  /\ a.sms <= Units[UnitOf(a.device)].sms
           /\ a.threads <= Units[UnitOf(a.device)].threads
           /\ a.shared <= Units[UnitOf(a.device)].shared
           /\ Exact(a.ledger) <= last.req.budget[a.device]
<1>1. last.op = "evaluate" /\ Ranked = last.outcome.ranked
  BY DEF Ranked
<1>2. /\ last.req \in Requests /\ snap # NoSnapshot
      /\ \A i \in DOMAIN last.outcome.ranked :
            \E plan \in ToSet(last.req.plans) :
                /\ last.outcome.ranked[i].plan = plan
                /\ last.outcome.ranked[i].scores = Scores(plan, last.req)
                /\ GateCompatibility(plan, snap)
                /\ GateMemory(plan, last.req.budget, last.req.total)
  BY <1>1 DEF HostInv, RankedSound
<1>3. PICK plan \in ToSet(last.req.plans) :
        /\ Ranked[r].plan = plan /\ GateCompatibility(plan, snap)
        /\ GateMemory(plan, last.req.budget, last.req.total)
  BY <1>1, <1>2
<1>4. a \in Assigned(plan)
  BY <1>3
<1>5. PICK e, u : e = FindEntry(snap, a.device) /\ u = Units[UnitOf(a.device)]
  OBVIOUS
<1>6. a.device \in IdsOf(snap) /\ Compatible(e, a)
  BY <1>3, <1>4, <1>5 DEF GateCompatibility
<1>7. /\ e.sms \in {0, u.sms} /\ e.threads \in {0, u.threads} /\ e.shared \in {0, u.shared}
      /\ u.sms \in Nat /\ u.threads \in Nat /\ u.shared \in Nat
  BY <1>2, <1>5, <1>6, EntryMeasures DEF FitInv, SnapRead
<1>8. /\ a.ledger \in Seq(Nat) /\ a.sms \in Nat /\ a.threads \in Nat /\ a.shared \in Nat
  BY <1>2, <1>3, <1>4, RequestsAssumption
<1>9. a.sms <= u.sms /\ a.threads <= u.threads /\ a.shared <= u.shared
  BY <1>6, <1>7, <1>8 DEF Compatible, EnoughSms, WithinLimit
<1>10. Exact(a.ledger) <= last.req.budget[a.device]
  <2>1. PICK limit \in 0 .. ByteMax :
            limit = last.req.budget[a.device] /\ LedgerTotal(a.ledger) <= limit
    <3>1. a.device \in DOMAIN last.req.budget /\ LedgerTotal(a.ledger) <= last.req.budget[a.device]
      BY <1>3, <1>4 DEF GateMemory
    <3>2. last.req.budget[a.device] \in 0 .. ByteMax
      BY <1>2, <3>1, RequestsAssumption
    <3> QED
      BY <3>1, <3>2
  <2>2. /\ FoldSeq(+, 0, a.ledger) \in Nat
        /\ LedgerTotal(a.ledger) = IF FoldSeq(+, 0, a.ledger) > ByteMax THEN ByteMax + 1
                                   ELSE FoldSeq(+, 0, a.ledger)
    BY <1>8, LedgerSum
  <2>3. PICK sum \in Nat : sum = FoldSeq(+, 0, a.ledger)
    BY <2>2
  <2>4. PICK total : total = LedgerTotal(a.ledger)
    OBVIOUS
  <2>5. total = (IF sum > ByteMax THEN ByteMax + 1 ELSE sum) /\ total <= limit
    BY <2>1, <2>2, <2>3, <2>4, Zenon
  <2>6. sum <= limit
    <3>1. limit <= ByteMax /\ limit \in Nat /\ ByteMax \in Nat
      BY ByteMaxAssumption
    <3> QED
      BY <2>5, <3>1
  <2> QED
    BY <2>1, <2>3, <2>6, Zenon DEF Exact
<1> QED
  BY <1>5, <1>9, <1>10

\* It implies that what was admitted fits.
LEMMA FitSound == HostInv /\ FitInv => PlacementFits
<1> SUFFICES ASSUME HostInv, FitInv PROVE PlacementFits
  OBVIOUS
<1>1. DemandsMet
  BY RankedFits DEF DemandsMet, FitInv, BindFits
<1>2. LedgersFit
  <2>1. ASSUME last.op \in {"bind", "prepare"}, HasBound, NEW p \in DOMAIN last.bound.bindings,
               last.bound.bindings[p].vp # NoPartition, last.bound.bindings[p].vp # part
        PROVE  Exact(last.bound.bindings[p].vp.ledger) * 10
                 <= Units[UnitOf(last.bound.bindings[p].vp.device)].mem * 9
    <3>1. last.op = "prepare"
      BY <2>1 DEF FitInv, BindFits
    <3> QED
      BY <2>1, <3>1 DEF FitInv, PrepareFits
  <2>2. part # NoPartition => Exact(part.ledger) <= part.limit
    BY DEF FitInv, PartFits
  <2>3. \A r \in DOMAIN Ranked : \A a \in Assigned(Ranked[r].plan) :
            Exact(a.ledger) <= last.req.budget[a.device]
    BY RankedFits
  <2> QED
    BY <2>1, <2>2, <2>3, Zenon DEF LedgersFit, Exact
<1>3. LaidOutInRuns
  BY Zenon DEF LaidOutInRuns, FitInv, LayoutFits, LaidOut
<1> QED
  BY <1>1, <1>2, <1>3 DEF PlacementFits

\* policy.rs, partition.rs, bound_plan.rs and distributed_translate.rs: every
\* device of a ranked or bound plan really meets the launch resources it demands,
\* whichever driver queries failed; every admitted ledger, added without any
\* width, fits nine tenths of the memory of the unit it is placed on, and every
\* ranked one its budget; and a translated image fills the declared number of
\* devices in runs of equal length, on units that were replaced or renumbered in
\* any order before and after the probe.
THEOREM PlacementAlwaysFits == Spec => []PlacementFits
<1> QED
  BY HostInit, HostNext, FitInit, FitNext, FitSound, PTL DEF Spec
=============================================================================
