--------------------------- MODULE WasmHostProofs ---------------------------
(***************************************************************************)
(* Theorems about the Wasm product host, for every set of packages, texts   *)
(* and bounds: why linking may fail, that generators keep their yields      *)
(* apart, and that a handle keeps its meaning.                              *)
(***************************************************************************)
EXTENDS WasmHost, FiniteSetTheorems, SequenceTheorems, WellFoundedInduction, TLAPS

-----------------------------------------------------------------------------
(* Numbers and sequences.                                                   *)

\* A non-empty set of naturals has a least element.
LEMMA LeastNatural ==
  ASSUME NEW T \in SUBSET Nat, T # {}
  PROVE  \E m \in T : \A k \in T : m <= k
<1>1. PICK m \in T : \A k \in T : ~(<<k, m>> \in OpToRel(<, Nat))
  BY NatLessThanWellFounded, WFMin, Zenon
<1>2. \A k \in T : ~(k < m)
  BY <1>1 DEF OpToRel
<1> QED
  BY <1>2

IsSeq(s) == s \in Seq(Range(s))

LEMMA SeqIsSeq == ASSUME NEW S, NEW s \in Seq(S) PROVE IsSeq(s)
  BY DEF IsSeq, Range

LEMMA IsSeqFacts ==
  ASSUME NEW s, IsSeq(s)
  PROVE  Len(s) \in Nat /\ DOMAIN s = 1 .. Len(s)
  BY DEF IsSeq

LEMMA EmptyIsSeq == IsSeq(<<>>) /\ Len(<<>>) = 0
  BY DEF IsSeq

LEMMA IsSeqMono == ASSUME NEW s, IsSeq(s), NEW e PROVE s \in Seq(Range(s) \cup {e})
  BY DEF IsSeq

LEMMA AppendIsSeq ==
  ASSUME NEW s, IsSeq(s), NEW e
  PROVE  /\ IsSeq(Append(s, e)) /\ Len(Append(s, e)) = Len(s) + 1
         /\ Append(s, e)[Len(s) + 1] = e
         /\ \A i \in 1 .. Len(s) : Append(s, e)[i] = s[i]
<1>1. s \in Seq(Range(s) \cup {e})
  BY IsSeqMono
<1>2. Append(s, e) \in Seq(Range(s) \cup {e})
  BY <1>1
<1>3. IsSeq(Append(s, e))
  BY <1>2, SeqIsSeq, Zenon
<1> QED
  BY <1>1, <1>3

LEMMA FrontIsSeq ==
  ASSUME NEW s, IsSeq(s), s # <<>>
  PROVE  /\ IsSeq(Front(s)) /\ Len(Front(s)) = Len(s) - 1 /\ Len(s) - 1 \in Nat
         /\ \A i \in 1 .. (Len(s) - 1) : Front(s)[i] = s[i]
<1>1. Len(s) \in Nat /\ Len(s) # 0
  BY DEF IsSeq
<1>2. Front(s) = [i \in 1 .. (Len(s) - 1) |-> s[i]]
  BY <1>1 DEF IsSeq, Front
<1>3. Front(s) \in Seq(Range(s))
  BY <1>1, <1>2 DEF IsSeq
<1>4. IsSeq(Front(s))
  BY <1>3, SeqIsSeq, Zenon
<1> QED
  BY <1>1, <1>2, <1>4

LEMMA ExceptIsSeq ==
  ASSUME NEW s, IsSeq(s), NEW i \in 1 .. Len(s), NEW e
  PROVE  IsSeq([s EXCEPT ![i] = e]) /\ Len([s EXCEPT ![i] = e]) = Len(s)
<1>1. Len(s) \in Nat
  BY DEF IsSeq
<1>2. [s EXCEPT ![i] = e] \in Seq(Range(s) \cup {e})
  <2>1. s \in Seq(Range(s) \cup {e})
    BY IsSeqMono
  <2> QED
    BY <2>1
<1>3. IsSeq([s EXCEPT ![i] = e])
  BY <1>2, SeqIsSeq, Zenon
<1> QED
  BY <1>1, <1>2, <1>3 DEF IsSeq

-----------------------------------------------------------------------------
(* Linking.                                                                 *)

\* The modules of a package, in the order of instantiation.
CountOf(p) == Len(p.siblings) + 1
ModuleOf(p, k) == IF k = CountOf(p) THEN p.entry ELSE p.siblings[k]

LEMMA PackageFacts ==
  ASSUME package \in Packages
  PROVE  /\ Count \in Nat /\ Count >= 1 /\ Count = CountOf(package)
         /\ \A k : Module(k) = ModuleOf(package, k)
         /\ \A k \in 1 .. Count : IsSeq(Module(k).literals)
<1>1. package.siblings \in Seq(Range(package.siblings))
  BY PackagesAssumption
<1>2. \A m \in {package.entry} \cup Range(package.siblings) : m.literals \in Seq(Range(m.literals))
  BY PackagesAssumption
<1>3. \A k \in 1 .. Count : Module(k) \in {package.entry} \cup Range(package.siblings)
  BY <1>1 DEF Module, Count, Range
<1>4. \A k \in 1 .. Count : IsSeq(Module(k).literals)
  BY <1>2, <1>3 DEF IsSeq
<1> QED
  BY <1>1, <1>4 DEF Count, CountOf, Module, ModuleOf

\* Once preflight has passed, every external of every module is exported by
\* some other sibling; and a link only fails with a module left to link.
LinkInv ==
    /\ package \in Packages
    /\ linked \in 0 .. Count
    /\ outcome \notin {"Preflight", "ValidationFailed", "ImportRejected"} =>
          \A k \in 1 .. Count : \A symbol \in Module(k).externals : Resolvable(k, symbol)
    /\ outcome = "LinkFailed" => linked < Count

\* The steps of a run after linking: they leave the package alone, and end in
\* an outcome of their own.
RunStep ==
    /\ outcome = "Running"
    /\ UNCHANGED <<package, linked, bindings>>
    /\ outcome' \in {"Running", "RuntimeFailure", "Panicked", "EntryTrapped", "Success"}

-----------------------------------------------------------------------------
(* What an import may do to the host state.                                 *)

Fields == {"rows", "texts", "octets", "regexes", "next", "dynamic", "yields", "words",
           "stdout", "stderr"}
Host(s) == DOMAIN s = Fields /\ s.next \in Nat

\* An import leaves the literal rows, their texts and the yield buffers alone,
\* and what it allocates gets the next handles.
Evolves(s, t) ==
    /\ Host(t)
    /\ t.rows = s.rows /\ t.texts = s.texts /\ t.yields = s.yields
    /\ s.next <= t.next
    /\ DOMAIN t.dynamic \subseteq DOMAIN s.dynamic \cup s.next .. (t.next - 1)

LEMMA EvolvesSelf == ASSUME NEW s, Host(s) PROVE Evolves(s, s)
  BY DEF Evolves, Host

LEMMA EvolvesTrans ==
  ASSUME NEW s, NEW t, NEW u, Host(s), Evolves(s, t), Evolves(t, u)
  PROVE  Evolves(s, u)
  BY DEF Evolves, Host

LEMMA ResultStates ==
  /\ \A s, ret : Ok(s, ret).st = s
  /\ \A s : Refused(s).st = s
  /\ \A s : Panicked(s).st = s
  BY DEF Ok, Refused, Panicked

LEMMA KeepEvolves ==
  ASSUME NEW s, Host(s)
  PROVE  /\ \A ret : Evolves(s, Ok(s, ret).st)
         /\ Evolves(s, Refused(s).st)
         /\ Evolves(s, Panicked(s).st)
  BY ResultStates, EvolvesSelf

LEMMA AllocEvolves ==
  ASSUME NEW s, Host(s), NEW value
  PROVE  Evolves(s, AllocDynamic(s, value).st)
<1> DEFINE d == [h \in DOMAIN s.dynamic \cup {s.next} |->
                    IF h = s.next THEN value ELSE s.dynamic[h]]
           t == [s EXCEPT !.next = @ + 1, !.dynamic = d]
<1>1. AllocDynamic(s, value).st = t
  BY ResultStates DEF AllocDynamic
<1>2. DOMAIN d = DOMAIN s.dynamic \cup {s.next}
  OBVIOUS
<1> HIDE DEF d
<1>3. Evolves(s, t)
  BY <1>2 DEF Evolves, Host, Fields
<1> QED
  BY <1>1, <1>3

LEMMA AllocEachEvolves ==
  ASSUME NEW s, Host(s), NEW values, Len(values) \in Nat
  PROVE  Evolves(s, AllocEach(s, values))
<1> DEFINE end == s.next + Len(values)
           d == [h \in DOMAIN s.dynamic \cup s.next .. (end - 1) |->
                    IF h >= s.next THEN values[h - s.next + 1] ELSE s.dynamic[h]]
           t == [s EXCEPT !.next = end, !.dynamic = d]
<1>1. AllocEach(s, values) = t
  BY DEF AllocEach
<1>2. DOMAIN d = DOMAIN s.dynamic \cup s.next .. (end - 1)
  OBVIOUS
<1> HIDE DEF d
<1>3. Evolves(s, t)
  BY <1>2 DEF Evolves, Host, Fields
<1> QED
  BY <1>1, <1>3

\* A value is changed in place.
LEMMA WriteEvolves ==
  ASSUME NEW s, Host(s), NEW d, DOMAIN d = DOMAIN s.dynamic
  PROVE  Evolves(s, [s EXCEPT !.dynamic = d])
  BY DEF Evolves, Host, Fields

LEMMA WithValuesEvolves ==
  ASSUME NEW s, Host(s), NEW h, NEW values
  PROVE  Evolves(s, WithValues(s, h, values))
<1> DEFINE d == [s.dynamic EXCEPT ![h].values = values]
<1>1. WithValues(s, h, values) = [s EXCEPT !.dynamic = d]
  BY DEF WithValues
<1>2. DOMAIN d = DOMAIN s.dynamic
  OBVIOUS
<1> HIDE DEF d
<1> QED
  BY <1>1, <1>2, WriteEvolves

\* Fields that no handle resolution reads.
LEMMA AsideEvolves ==
  ASSUME NEW s, Host(s), NEW v
  PROVE  /\ Evolves(s, [s EXCEPT !.octets = v])
         /\ Evolves(s, [s EXCEPT !.words = v])
         /\ Evolves(s, [s EXCEPT !.stdout = v])
         /\ Evolves(s, [s EXCEPT !.stderr = v])
  BY DEF Evolves, Host, Fields

LEMMA OptionResultEvolves ==
  ASSUME NEW s, Host(s), NEW kind, NEW payload
  PROVE  Evolves(s, OptionResult(s, kind, payload).st)
  BY AllocEvolves, KeepEvolves DEF OptionResult

LEMMA WriteLineEvolves ==
  ASSUME NEW s, Host(s), NEW text
  PROVE  Evolves(s, WriteLine(s, text).st) /\ Evolves(s, WriteStderrLine(s, text).st)
<1> DEFINE out == [s EXCEPT !.stdout = Capped(@, text)]
           err == [s EXCEPT !.stderr = Capped(@, text)]
<1>1. WriteLine(s, text) \in {Panicked(s), Ok(out, 0)}
  BY DEF WriteLine
<1>2. WriteStderrLine(s, text) \in {Panicked(s), Ok(err, 0)}
  BY DEF WriteStderrLine
<1>3. Evolves(s, out) /\ Evolves(s, err)
  BY AsideEvolves, Zenon
<1> HIDE DEF out, err
<1> QED
  BY <1>1, <1>2, <1>3, KeepEvolves, ResultStates

-----------------------------------------------------------------------------
(* The imports, one by one.                                               *)

LEMMA OkEvolves ==
  ASSUME NEW s, NEW t, Evolves(s, t), NEW ret
  PROVE  Evolves(s, Ok(t, ret).st)
  BY ResultStates

LEMMA OkWithValues ==
  ASSUME NEW s, Host(s), NEW h, NEW values, NEW ret
  PROVE  Evolves(s, Ok(WithValues(s, h, values), ret).st)
  BY WithValuesEvolves, OkEvolves

\* A removing read: the rest stays, the payload becomes an option.
LEMMA TakenEvolves ==
  ASSUME NEW s, Host(s), NEW h, NEW rest, NEW kind, NEW payload
  PROVE  Evolves(s, OptionResult(WithValues(s, h, rest), kind, payload).st)
<1>1. Evolves(s, WithValues(s, h, rest))
  BY WithValuesEvolves
<1>2. Host(WithValues(s, h, rest))
  BY <1>1 DEF Evolves
<1>3. Evolves(WithValues(s, h, rest), OptionResult(WithValues(s, h, rest), kind, payload).st)
  BY <1>2, OptionResultEvolves
<1> QED
  BY <1>1, <1>3, EvolvesTrans

LEMMA TextOpsEvolve ==
  ASSUME NEW s, Host(s)
  PROVE  /\ \A a, b : Evolves(s, TextConcat(s, a, b).st)
         /\ \A h : Evolves(s, TextLength(s, h).st)
         /\ \A h, i, j : Evolves(s, TextSlice(s, h, i, j).st)
         /\ \A n : Evolves(s, AssertCondition(s, n).st)
         /\ \A h : Evolves(s, TextTruthy(s, h).st)
         /\ Evolves(s, ReadLine(s).st)
         /\ \A hs : Evolves(s, SetDisplayTokens(s, hs).st)
<1>1. \A a, b : Evolves(s, TextConcat(s, a, b).st)
  BY AllocEvolves, KeepEvolves DEF TextConcat, AllocText
<1>2. \A h : Evolves(s, TextLength(s, h).st)
  BY AllocEvolves, KeepEvolves DEF TextLength
<1>3. \A h, i, j : Evolves(s, TextSlice(s, h, i, j).st)
  BY AllocEvolves, KeepEvolves DEF TextSlice, AllocText
<1>4. \A n : Evolves(s, AssertCondition(s, n).st)
  BY AllocEvolves, KeepEvolves DEF AssertCondition
<1>5. \A h : Evolves(s, TextTruthy(s, h).st)
  BY AllocEvolves, KeepEvolves DEF TextTruthy
<1>6. Evolves(s, ReadLine(s).st)
  BY AllocEvolves, KeepEvolves DEF ReadLine
<1>7. \A hs : Evolves(s, SetDisplayTokens(s, hs).st)
  <2> SUFFICES ASSUME NEW hs
               PROVE  Evolves(s, SetDisplayTokens(s, hs).st)
    OBVIOUS
  <2> DEFINE t == [s EXCEPT !.words = TRUE]
  <2>1. SetDisplayTokens(s, hs) \in {Ok(t, 0), Refused(s)}
    BY DEF SetDisplayTokens
  <2>2. Evolves(s, t)
    BY AsideEvolves, Zenon
  <2> HIDE DEF t
  <2> QED
    BY <2>1, <2>2, OkEvolves, KeepEvolves
<1> QED
  BY <1>1, <1>2, <1>3, <1>4, <1>5, <1>6, <1>7

LEMMA ArrayOpsEvolve ==
  ASSUME NEW s, Host(s)
  PROVE  /\ \A k : Evolves(s, ArrayNew(s, k).st)
         /\ \A h, x : Evolves(s, ArrayPush(s, h, x).st)
         /\ \A a, b : Evolves(s, ArrayExtend(s, a, b).st)
         /\ \A h : Evolves(s, ArrayLength(s, h).st)
         /\ \A h, i : Evolves(s, ArrayGet(s, h, i).st)
         /\ \A h, i : Evolves(s, ArrayOption(s, h, i).st)
         /\ \A h, x : Evolves(s, ArrayContains(s, h, x).st)
         /\ \A h : Evolves(s, ArrayIsEmpty(s, h).st)
         /\ \A h : Evolves(s, ArrayReverse(s, h).st)
         /\ \A h : Evolves(s, ArraySort(s, h).st)
         /\ \A h : Evolves(s, ArraySum(s, h).st)
<1>1. \A k : Evolves(s, ArrayNew(s, k).st)
  BY AllocEvolves, KeepEvolves DEF ArrayNew
<1>2. \A h, x : Evolves(s, ArrayPush(s, h, x).st)
  <2> SUFFICES ASSUME NEW h, NEW x
               PROVE  Evolves(s, ArrayPush(s, h, x).st)
    OBVIOUS
  <2> DEFINE v == [s.octets EXCEPT ![Arena(s, h)] = Append(@, x % 256)]
             t == [s EXCEPT !.octets = v]
             w == Append(Values(s, h), ValueFromI64(ElementKind(s, h), x))
  <2>1. ArrayPush(s, h, x) \in {Ok(WithValues(s, h, w), h), Ok(t, h), Refused(s)}
    BY DEF ArrayPush
  <2>2. Evolves(s, t)
    BY AsideEvolves, Zenon
  <2> HIDE DEF t, w
  <2> QED
    BY <2>1, <2>2, OkEvolves, OkWithValues, KeepEvolves
<1>3. \A a, b : Evolves(s, ArrayExtend(s, a, b).st)
  BY OkWithValues, KeepEvolves DEF ArrayExtend
<1>4. \A h : Evolves(s, ArrayLength(s, h).st)
  BY AllocEvolves, KeepEvolves DEF ArrayLength
<1>5. \A h, i : Evolves(s, ArrayGet(s, h, i).st)
  BY AllocEvolves, KeepEvolves DEF ArrayGet
<1>6. \A h, i : Evolves(s, ArrayOption(s, h, i).st)
  BY TakenEvolves, OptionResultEvolves, KeepEvolves DEF ArrayOption
<1>7. \A h, x : Evolves(s, ArrayContains(s, h, x).st)
  BY AllocEvolves, KeepEvolves DEF ArrayContains
<1>8. \A h : Evolves(s, ArrayIsEmpty(s, h).st)
  BY AllocEvolves, KeepEvolves DEF ArrayIsEmpty
<1>9. \A h : Evolves(s, ArrayReverse(s, h).st)
  BY OkWithValues, KeepEvolves DEF ArrayReverse
<1>10. \A h : Evolves(s, ArraySort(s, h).st)
  BY OkWithValues, KeepEvolves, Zenon DEF ArraySort
<1>11. \A h : Evolves(s, ArraySum(s, h).st)
  BY AllocEvolves, KeepEvolves DEF ArraySum
<1> QED
  BY <1>1, <1>2, <1>3, <1>4, <1>5, <1>6, <1>7, <1>8, <1>9, <1>10, <1>11

LEMMA MapOpsEvolve ==
  ASSUME NEW s, Host(s)
  PROVE  /\ \A k, v : Evolves(s, MapNew(s, k, v).st)
         /\ \A h, k, v : Evolves(s, MapPut(s, h, k, v).st)
         /\ \A h, k : Evolves(s, MapDelete(s, h, k).st)
         /\ \A h : Evolves(s, MapKeys(s, h).st)
         /\ \A h : Evolves(s, MapValues(s, h).st)
<1>1. \A k, v : Evolves(s, MapNew(s, k, v).st)
  BY AllocEvolves, KeepEvolves DEF MapNew
<1>2. \A h, k, v : Evolves(s, MapPut(s, h, k, v).st)
  <2> SUFFICES ASSUME NEW h, NEW k, NEW v
               PROVE  Evolves(s, MapPut(s, h, k, v).st)
    OBVIOUS
  <2> DEFINE d == [s.dynamic EXCEPT ![h].entries =
                      PutEntry(@, KeyOf(s.dynamic[h], k),
                               ValueFromI64(s.dynamic[h].valueKind, v))]
             t == [s EXCEPT !.dynamic = d]
  <2>1. MapPut(s, h, k, v) \in {Ok(t, 0), Refused(s)}
    BY DEF MapPut
  <2>2. DOMAIN d = DOMAIN s.dynamic
    OBVIOUS
  <2> HIDE DEF d
  <2>3. Evolves(s, t)
    BY <2>2, WriteEvolves, Zenon
  <2> HIDE DEF t
  <2> QED
    BY <2>1, <2>3, OkEvolves, KeepEvolves
<1>3. \A h, k : Evolves(s, MapDelete(s, h, k).st)
  <2> SUFFICES ASSUME NEW h, NEW k
               PROVE  Evolves(s, MapDelete(s, h, k).st)
    OBVIOUS
  <2>1. CASE IsMap(s, h)
    <3>1. PICK kept, ret :
             MapDelete(s, h, k) = Ok([s EXCEPT !.dynamic[h].entries = kept], ret)
      BY <2>1, Zenon DEF MapDelete
    <3> DEFINE d == [s.dynamic EXCEPT ![h].entries = kept]
               t == [s EXCEPT !.dynamic = d]
    <3>2. MapDelete(s, h, k) = Ok(t, ret)
      BY <3>1
    <3>3. DOMAIN d = DOMAIN s.dynamic
      OBVIOUS
    <3> HIDE DEF d
    <3>4. Evolves(s, t)
      BY <3>3, WriteEvolves, Zenon
    <3> HIDE DEF t
    <3> QED
      BY <3>2, <3>4, OkEvolves
  <2>2. CASE ~IsMap(s, h) /\ IsCollection(s, h) /\ ElementKind(s, h) \in Kinds
    <3>1. PICK kept, ret : MapDelete(s, h, k) = Ok(WithValues(s, h, kept), ret)
      BY <2>2, Zenon DEF MapDelete
    <3> QED
      BY <3>1, OkWithValues
  <2>3. CASE ~IsMap(s, h) /\ ~(IsCollection(s, h) /\ ElementKind(s, h) \in Kinds)
    <3>1. MapDelete(s, h, k) = Refused(s)
      BY <2>3, Zenon DEF MapDelete
    <3> QED
      BY <3>1, KeepEvolves
  <2> QED
    BY <2>1, <2>2, <2>3
<1>4. \A h : Evolves(s, MapKeys(s, h).st)
  BY AllocEvolves, KeepEvolves DEF MapKeys
<1>5. \A h : Evolves(s, MapValues(s, h).st)
  BY AllocEvolves, KeepEvolves DEF MapValues
<1> QED
  BY <1>1, <1>2, <1>3, <1>4, <1>5

LEMMA SetOpsEvolve ==
  ASSUME NEW s, Host(s)
  PROVE  /\ \A k : Evolves(s, SetNew(s, k).st)
         /\ \A h : Evolves(s, SetFromArray(s, h).st)
         /\ \A h : Evolves(s, ArrayFromSet(s, h).st)
         /\ \A a, b : Evolves(s, SetUnion(s, a, b).st)
         /\ \A a, b : Evolves(s, SetIntersection(s, a, b).st)
         /\ \A a, b : Evolves(s, SetDifference(s, a, b).st)
         /\ \A a, b : Evolves(s, SetSymmetricDifference(s, a, b).st)
         /\ \A a, b : Evolves(s, SetIsSubset(s, a, b).st)
         /\ \A a, b : Evolves(s, SetIsSuperset(s, a, b).st)
<1>1. \A k : Evolves(s, SetNew(s, k).st)
  BY AllocEvolves, KeepEvolves DEF SetNew
<1>2. \A h : Evolves(s, SetFromArray(s, h).st)
  BY AllocEvolves, KeepEvolves DEF SetFromArray
<1>3. \A h : Evolves(s, ArrayFromSet(s, h).st)
  BY AllocEvolves, KeepEvolves DEF ArrayFromSet
<1>4. \A a, b : Evolves(s, SetUnion(s, a, b).st)
  BY AllocEvolves, KeepEvolves DEF SetUnion, SetAlgebra
<1>5. \A a, b : Evolves(s, SetIntersection(s, a, b).st)
  BY AllocEvolves, KeepEvolves DEF SetIntersection, SetAlgebra
<1>6. \A a, b : Evolves(s, SetDifference(s, a, b).st)
  BY AllocEvolves, KeepEvolves DEF SetDifference, SetAlgebra
<1>7. \A a, b : Evolves(s, SetSymmetricDifference(s, a, b).st)
  BY AllocEvolves, KeepEvolves DEF SetSymmetricDifference, SetAlgebra
<1>8. \A a, b : Evolves(s, SetIsSubset(s, a, b).st)
  BY AllocEvolves, KeepEvolves DEF SetIsSubset
<1>9. \A a, b : Evolves(s, SetIsSuperset(s, a, b).st)
  BY AllocEvolves, KeepEvolves DEF SetIsSuperset
<1> QED
  BY <1>1, <1>2, <1>3, <1>4, <1>5, <1>6, <1>7, <1>8, <1>9

LEMMA OptionOpsEvolve ==
  ASSUME NEW s, Host(s)
  PROVE  /\ \A k : Evolves(s, OptionNone(s, k).st)
         /\ \A x, k : Evolves(s, OptionSome(s, x, k).st)
         /\ \A h : Evolves(s, OptionGet(s, h).st)
         /\ \A h, x : Evolves(s, OptionGetOr(s, h, x).st)
         /\ \A h : Evolves(s, OptionIsPresent(s, h).st)
<1>1. \A k : Evolves(s, OptionNone(s, k).st)
  BY AllocEvolves, KeepEvolves DEF OptionNone
<1>2. \A x, k : Evolves(s, OptionSome(s, x, k).st)
  BY AllocEvolves, KeepEvolves DEF OptionSome
<1>3. \A h : Evolves(s, OptionGet(s, h).st)
  BY AllocEvolves, KeepEvolves DEF OptionGet
<1>4. \A h, x : Evolves(s, OptionGetOr(s, h, x).st)
  BY AllocEvolves, KeepEvolves DEF OptionGetOr
<1>5. \A h : Evolves(s, OptionIsPresent(s, h).st)
  BY AllocEvolves, KeepEvolves DEF OptionIsPresent
<1> QED
  BY <1>1, <1>2, <1>3, <1>4, <1>5

LEMMA TensorOpsEvolve ==
  ASSUME NEW s, Host(s)
  PROVE  /\ \A k : Evolves(s, TensorNew(s, k).st)
         /\ \A a, x, b : Evolves(s, TensorCreate(s, a, x, b).st)
         /\ \A a, b, c : Evolves(s, TensorFromFlat(s, a, b, c).st)
         /\ \A h : Evolves(s, TensorRank(s, h).st)
         /\ \A h : Evolves(s, TensorShape(s, h).st)
         /\ \A a, b : Evolves(s, TensorReshape(s, a, b).st)
         /\ \A a, b : Evolves(s, TensorGet(s, a, b).st)
         /\ \A a, b, x : Evolves(s, TensorSet(s, a, b, x).st)
         /\ \A h, x : Evolves(s, TensorFill(s, h, x).st)
         /\ \A h : Evolves(s, TensorFlatten(s, h).st)
         /\ \A h : Evolves(s, TensorMaterialize(s, h).st)
         /\ \A h, i, j : Evolves(s, TensorSlice(s, h, i, j).st)
         /\ \A a, b : Evolves(s, TensorMatmul(s, a, b).st)
         /\ \A h : Evolves(s, TensorSum(s, h).st)
         /\ \A h : Evolves(s, TensorMean(s, h).st)
         /\ \A h, k, l : Evolves(s, TensorConvert(s, h, k, l).st)
         /\ \A f, a, b : Evolves(s, TensorBinary(s, f, a, b).st)
<1>1. \A k : Evolves(s, TensorNew(s, k).st)
  BY AllocEvolves, KeepEvolves DEF TensorNew
<1>2. \A a, x, b : Evolves(s, TensorCreate(s, a, x, b).st)
  BY AllocEvolves, KeepEvolves DEF TensorCreate
<1>3. \A a, b, c : Evolves(s, TensorFromFlat(s, a, b, c).st)
  BY AllocEvolves, KeepEvolves DEF TensorFromFlat
<1>4. \A h : Evolves(s, TensorRank(s, h).st)
  BY AllocEvolves, KeepEvolves DEF TensorRank
<1>5. \A h : Evolves(s, TensorShape(s, h).st)
  BY AllocEvolves, KeepEvolves DEF TensorShape
<1>6. \A a, b : Evolves(s, TensorReshape(s, a, b).st)
  BY AllocEvolves, KeepEvolves DEF TensorReshape
<1>7. \A a, b : Evolves(s, TensorGet(s, a, b).st)
  BY OptionResultEvolves, KeepEvolves DEF TensorGet
<1>8. \A a, b, x : Evolves(s, TensorSet(s, a, b, x).st)
  <2> SUFFICES ASSUME NEW a, NEW b, NEW x
               PROVE  Evolves(s, TensorSet(s, a, b, x).st)
    OBVIOUS
  <2> DEFINE at == FlatOffset(s.dynamic[a].shape, IndexVector(s, b))
             d == [s.dynamic EXCEPT ![a].values[at + 1] = F64(x)]
             t == [s EXCEPT !.dynamic = d]
  <2>1. TensorSet(s, a, b, x) \in {Ok(t, 0), Ok(s, 0), Refused(s)}
    BY DEF TensorSet
  <2>2. DOMAIN d = DOMAIN s.dynamic
    OBVIOUS
  <2> HIDE DEF d
  <2>3. Evolves(s, t)
    BY <2>2, WriteEvolves, Zenon
  <2> HIDE DEF t
  <2> QED
    BY <2>1, <2>3, OkEvolves, KeepEvolves
<1>9. \A h, x : Evolves(s, TensorFill(s, h, x).st)
  <2> SUFFICES ASSUME NEW h, NEW x
               PROVE  Evolves(s, TensorFill(s, h, x).st)
    OBVIOUS
  <2> DEFINE d == [s.dynamic EXCEPT ![h].values =
                      [i \in 1 .. ShapeCount(s.dynamic[h].shape) |-> F64(x)]]
             t == [s EXCEPT !.dynamic = d]
  <2>1. TensorFill(s, h, x) \in {Ok(t, h), Refused(s)}
    BY DEF TensorFill
  <2>2. DOMAIN d = DOMAIN s.dynamic
    OBVIOUS
  <2> HIDE DEF d
  <2>3. Evolves(s, t)
    BY <2>2, WriteEvolves, Zenon
  <2> HIDE DEF t
  <2> QED
    BY <2>1, <2>3, OkEvolves, KeepEvolves
<1>10. \A h : Evolves(s, TensorFlatten(s, h).st)
  BY AllocEvolves, KeepEvolves DEF TensorFlatten
<1>11. \A h : Evolves(s, TensorMaterialize(s, h).st)
  BY AllocEvolves, KeepEvolves DEF TensorMaterialize
<1>12. \A h, i, j : Evolves(s, TensorSlice(s, h, i, j).st)
  BY AllocEvolves, KeepEvolves DEF TensorSlice
<1>13. \A a, b : Evolves(s, TensorMatmul(s, a, b).st)
  BY AllocEvolves, KeepEvolves DEF TensorMatmul
<1>14. \A h : Evolves(s, TensorSum(s, h).st)
  BY AllocEvolves, KeepEvolves DEF TensorSum
<1>15. \A h : Evolves(s, TensorMean(s, h).st)
  BY AllocEvolves, KeepEvolves DEF TensorMean
<1>16. \A h, k, l : Evolves(s, TensorConvert(s, h, k, l).st)
  BY AllocEvolves, KeepEvolves DEF TensorConvert
<1>17. \A f, a, b : Evolves(s, TensorBinary(s, f, a, b).st)
  BY AllocEvolves, KeepEvolves DEF TensorBinary
<1> QED
  BY <1>1, <1>2, <1>3, <1>4, <1>5, <1>6, <1>7, <1>8, <1>9, <1>10, <1>11, <1>12, <1>13, <1>14, <1>15, <1>16, <1>17

-----------------------------------------------------------------------------
(* The imports whose result is one of several.                            *)

AllEvolve(s, results) == \A r \in results : Evolves(s, r.st)

LEMMA AnyEvolve ==
  ASSUME NEW s, Host(s)
  PROVE  /\ AllEvolve(s, AnyText(s))
         /\ AllEvolve(s, AnyTruth(s))
         /\ AllEvolve(s, {Refused(s)})
  BY AllocEvolves, KeepEvolves DEF AllEvolve, AnyText, AnyTruth, AllocText

LEMMA DiagnosticOpsEvolve ==
  ASSUME NEW s, Host(s)
  PROVE  /\ AllEvolve(s, NotaScalar(s))
         /\ \A f, h : AllEvolve(s, Nota(s, f, h))
         /\ \A f, h : AllEvolve(s, Mone(s, f, h))
  BY WriteLineEvolves, AnyEvolve DEF AllEvolve, NotaScalar, Nota, Mone

LEMMA FormatOpsEvolve ==
  ASSUME NEW s, Host(s)
  PROVE  /\ \A t : AllEvolve(s, FormatResult(s, t))
         /\ \A f, t, hs : AllEvolve(s, Format(s, f, t, hs))
  BY AnyEvolve DEF FormatResult, Format

LEMMA TextSetsEvolve ==
  ASSUME NEW s, Host(s)
  PROVE  /\ \A f, hs : AllEvolve(s, TextPredicate(s, f, hs))
         /\ \A f, hs : AllEvolve(s, TextTransform(s, f, hs))
         /\ AllEvolve(s, TextOfScalar(s))
         /\ \A h, x : AllEvolve(s, TextParse(s, h, x))
<1>1. \A f, hs : AllEvolve(s, TextPredicate(s, f, hs))
  BY AnyEvolve DEF TextPredicate
<1>2. \A f, hs : AllEvolve(s, TextTransform(s, f, hs))
  BY AnyEvolve DEF TextTransform
<1>3. AllEvolve(s, TextOfScalar(s))
  BY AnyEvolve DEF TextOfScalar
<1>4. \A h, x : AllEvolve(s, TextParse(s, h, x))
  BY KeepEvolves DEF TextParse, AllEvolve
<1> QED
  BY <1>1, <1>2, <1>3, <1>4

\* find_all and split: the pieces, then the list of them.
LEMMA ListOfEvolves ==
  ASSUME NEW s, Host(s), NEW kind, NEW values, Len(values) \in Nat
  PROVE  Evolves(s, ListOf(s, kind, values).st)
<1> DEFINE t == AllocEach(s, values)
           c == Collection(FALSE, kind, [i \in DOMAIN values |-> Handle(s.next + i - 1)])
<1>1. ListOf(s, kind, values) = AllocDynamic(t, c)
  BY DEF ListOf
<1>2. Evolves(s, t)
  BY AllocEachEvolves
<1>3. Host(t)
  BY <1>2 DEF Evolves
<1> HIDE DEF t, c
<1>4. Evolves(t, AllocDynamic(t, c).st)
  BY <1>3, AllocEvolves
<1> QED
  BY <1>1, <1>2, <1>4, EvolvesTrans

LEMMA RegexSetsEvolve ==
  ASSUME NEW s, Host(s)
  PROVE  /\ \A h : AllEvolve(s, RegexFromText(s, h))
         /\ \A a, b, c : AllEvolve(s, RegexReplaceEach(s, a, b, c))
         /\ \A f, hs : f \in DOMAIN RegexImports => AllEvolve(s, Regex(s, f, hs))
         /\ \A f, hs : AllEvolve(s, MatchRow(s, f, hs))
<1>1. \A h : AllEvolve(s, RegexFromText(s, h))
  BY AllocEvolves, KeepEvolves DEF RegexFromText, AllocRegex, AllEvolve
<1>2. \A a, b, c : AllEvolve(s, RegexReplaceEach(s, a, b, c))
  BY AnyEvolve DEF RegexReplaceEach, AllEvolve
<1>3. AllEvolve(s, RegexFind(s))
  <2>1. Evolves(s, OptionResult(s, "PTR", NoValue).st)
    BY OptionResultEvolves
  <2> DEFINE t == AllocMatch(s).st
             v == Handle(AllocMatch(s).ret)
  <2>2. Evolves(s, t)
    BY AllocEvolves DEF AllocMatch
  <2>3. RegexFind(s) = {OptionResult(s, "PTR", NoValue), OptionResult(t, "PTR", v)}
    BY DEF RegexFind
  <2> HIDE DEF t, v
  <2>4. Evolves(t, OptionResult(t, "PTR", v).st)
    BY <2>2, OptionResultEvolves DEF Evolves
  <2>5. Evolves(s, OptionResult(t, "PTR", v).st)
    BY <2>2, <2>4, EvolvesTrans
  <2> QED
    BY <2>1, <2>3, <2>5 DEF AllEvolve
<1>4. AllEvolve(s, RegexFindAll(s))
  <2> SUFFICES ASSUME NEW n \in 0 .. MaxMatches
               PROVE  Evolves(s, ListOf(s, "PTR", [i \in 1 .. n |-> [t |-> "Match"]]).st)
    BY DEF AllEvolve, RegexFindAll
  <2> DEFINE values == [i \in 1 .. n |-> [t |-> "Match"]]
  <2>1. values \in Seq({[t |-> "Match"]})
    BY DEF MaxMatches
  <2>2. Len(values) \in Nat
    BY <2>1
  <2> HIDE DEF values
  <2>3. Evolves(s, ListOf(s, "PTR", values).st)
    BY <2>2, ListOfEvolves
  <2> QED
    BY <2>3 DEF values
<1>5. \A h : AllEvolve(s, RegexSplit(s, h))
  <2> SUFFICES ASSUME NEW n \in 1 .. MaxMatches
               PROVE  Evolves(s, ListOf(s, "TEXT",
                          [i \in 1 .. n |-> [t |-> "Text", text |-> <<1>>]]).st)
    BY DEF AllEvolve, RegexSplit
  <2> DEFINE values == [i \in 1 .. n |-> [t |-> "Text", text |-> <<1>>]]
  <2>1. values \in Seq({[t |-> "Text", text |-> <<1>>]})
    BY DEF MaxMatches
  <2>2. Len(values) \in Nat
    BY <2>1
  <2> HIDE DEF values
  <2>3. Evolves(s, ListOf(s, "TEXT", values).st)
    BY <2>2, ListOfEvolves
  <2> QED
    BY <2>3 DEF values
<1>6. ASSUME NEW f \in DOMAIN RegexImports, NEW hs
      PROVE  AllEvolve(s, Regex(s, f, hs))
  <2>1. f \in {"regex_matches", "regex_find", "regex_find_all", "regex_split", "regex_replace"}
    BY DEF RegexImports
  <2>2. Regex(s, f, hs) \in {{Refused(s)}, AnyTruth(s), RegexFind(s), RegexFindAll(s),
                             RegexSplit(s, hs[2]), AnyText(s)}
    BY <2>1 DEF Regex
  <2> QED
    BY <1>3, <1>4, <1>5, <2>2, AnyEvolve
<1>7. AllEvolve(s, OptionalText(s))
  <2>1. Evolves(s, OptionResult(s, "TEXT", NoValue).st)
    BY OptionResultEvolves
  <2>2. ASSUME NEW r \in AnyText(s) PROVE Evolves(s, OptionResult(r.st, "TEXT", Handle(r.ret)).st)
    <3>1. Evolves(s, r.st)
      BY AnyEvolve DEF AllEvolve
    <3>2. Evolves(r.st, OptionResult(r.st, "TEXT", Handle(r.ret)).st)
      BY <3>1, OptionResultEvolves DEF Evolves
    <3> QED
      BY <3>1, <3>2, EvolvesTrans
  <2> QED
    BY <2>1, <2>2 DEF AllEvolve, OptionalText
<1>8. \A f, hs : AllEvolve(s, MatchRow(s, f, hs))
  <2> SUFFICES ASSUME NEW f, NEW hs PROVE AllEvolve(s, MatchRow(s, f, hs))
    OBVIOUS
  <2>1. MatchRow(s, f, hs) \in {{Refused(s)}, {Ok(s, 0), Ok(s, 1)}, OptionalText(s), AnyText(s)}
    BY DEF MatchRow
  <2>2. AllEvolve(s, {Ok(s, 0), Ok(s, 1)})
    BY KeepEvolves DEF AllEvolve
  <2> QED
    BY <1>7, <2>1, <2>2, AnyEvolve
<1> QED
  BY <1>1, <1>2, <1>6, <1>8

-----------------------------------------------------------------------------
(* Every call of an import.                                               *)

LEMMA DiagnosticResultsEvolve ==
  ASSUME Host(st), NEW f
  PROVE  AllEvolve(st, DiagnosticResults(f))
  BY DiagnosticOpsEvolve DEF DiagnosticResults, AllEvolve

LEMMA FormatResultsEvolve ==
  ASSUME Host(st), NEW f
  PROVE  AllEvolve(st, FormatResults(f))
  BY FormatOpsEvolve DEF FormatResults, AllEvolve

LEMMA TextResultsEvolve ==
  ASSUME Host(st), NEW f
  PROVE  AllEvolve(st, TextResults(f))
  BY TextOpsEvolve, TextSetsEvolve DEF TextResults, AllEvolve

LEMMA RegexResultsEvolve ==
  ASSUME Host(st), NEW f
  PROVE  AllEvolve(st, RegexResults(f))
  BY RegexSetsEvolve DEF RegexResults, AllEvolve

LEMMA ScalarResultsEvolve ==
  ASSUME Host(st), NEW f
  PROVE  AllEvolve(st, ScalarResults(f))
  BY TextOpsEvolve, TextSetsEvolve DEF ScalarResults, AllEvolve

LEMMA ArrayResultsEvolve ==
  ASSUME Host(st), NEW f \in {"array_new", "array_push", "array_extend", "array_length",
                "array_get", "array_option", "array_contains", "array_is_empty",
                "array_reverse", "array_sort", "array_sum"}
  PROVE  AllEvolve(st, ArrayResults(f))
  BY ArrayOpsEvolve DEF ArrayResults, AllEvolve

LEMMA MapResultsEvolve ==
  ASSUME Host(st), NEW f \in {"map_new", "map_put", "map_delete", "map_keys", "map_values"}
  PROVE  AllEvolve(st, MapResults(f))
  BY MapOpsEvolve DEF MapResults, AllEvolve

LEMMA SetResultsEvolve ==
  ASSUME Host(st), NEW f \in {"set_new", "set_from_array", "array_from_set", "set_union",
                "set_intersection", "set_difference", "set_symmetric_difference",
                "set_is_subset", "set_is_superset"}
  PROVE  AllEvolve(st, SetResults(f))
  BY SetOpsEvolve DEF SetResults, AllEvolve

LEMMA OptionResultsEvolve ==
  ASSUME Host(st), NEW f \in {"option_none", "option_some", "option_get", "option_get_or",
                "option_is_present"}
  PROVE  AllEvolve(st, OptionResults(f))
  BY OptionOpsEvolve DEF OptionResults, AllEvolve

LEMMA TensorResultsEvolve ==
  ASSUME Host(st), NEW f
  PROVE  AllEvolve(st, TensorResults(f))
  BY TensorOpsEvolve DEF TensorResults, AllEvolve

\* A call of an import returns, refuses or panics with one of its results.
ImportStep ==
    /\ outcome = "Running" /\ Running.calls # <<>>
    /\ \E r : Evolves(st, r.st) /\ Returned(r)

LEMMA CallIsImport ==
  ASSUME Host(st),
         \/ DiagnosticCall \/ UnsupportedCall \/ FormatCall \/ TextCall \/ RegexCall
         \/ ScalarCall \/ ArrayCall \/ MapCall \/ SetCall \/ OptionCall \/ TensorCall
  PROVE  ImportStep
<1>1. CASE DiagnosticCall
  BY <1>1, DiagnosticResultsEvolve DEF DiagnosticCall, Call, Calling, ImportStep, AllEvolve
<1>2. CASE FormatCall
  BY <1>2, FormatResultsEvolve DEF FormatCall, Call, Calling, ImportStep, AllEvolve
<1>3. CASE TextCall
  BY <1>3, TextResultsEvolve DEF TextCall, Call, Calling, ImportStep, AllEvolve
<1>4. CASE RegexCall
  BY <1>4, RegexResultsEvolve DEF RegexCall, Call, Calling, ImportStep, AllEvolve
<1>5. CASE ScalarCall
  BY <1>5, ScalarResultsEvolve DEF ScalarCall, Call, Calling, ImportStep, AllEvolve
<1>6. CASE ArrayCall
  BY <1>6, ArrayResultsEvolve DEF ArrayCall, Call, Calling, ImportStep, AllEvolve
<1>7. CASE MapCall
  BY <1>7, MapResultsEvolve DEF MapCall, Call, Calling, ImportStep, AllEvolve
<1>8. CASE SetCall
  BY <1>8, SetResultsEvolve DEF SetCall, Call, Calling, ImportStep, AllEvolve
<1>9. CASE OptionCall
  BY <1>9, OptionResultsEvolve DEF OptionCall, Call, Calling, ImportStep, AllEvolve
<1>10. CASE TensorCall
  BY <1>10, TensorResultsEvolve DEF TensorCall, Call, Calling, ImportStep, AllEvolve
<1>11. CASE UnsupportedCall
  BY <1>11, KeepEvolves DEF UnsupportedCall, Call, Calling, ImportStep
<1> QED
  BY <1>1, <1>2, <1>3, <1>4, <1>5, <1>6, <1>7, <1>8, <1>9, <1>10, <1>11

-----------------------------------------------------------------------------
(* The stack of activations and the yield buffers.                         *)

Frames(s) ==
    /\ IsSeq(s)
    /\ \A i \in 1 .. Len(s) : /\ {"calls", "generator", "ceded"} \subseteq DOMAIN s[i]
                              /\ s[i].generator \in BOOLEAN

\* The generators of a stack, and which buffer is whose.
GeneratorsOf(s) == {i \in DOMAIN s : s[i].generator}
DepthIn(s, i) == Cardinality({j \in GeneratorsOf(s) : j <= i})

\* Each generator of the stack s has one of the buffers y, and its values are
\* what was ceded to it.
Match(s, y) ==
    /\ Frames(s) /\ IsSeq(y)
    /\ Len(y) = Cardinality(GeneratorsOf(s))
    /\ \A i \in GeneratorsOf(s) : y[DepthIn(s, i)].values = s[i].ceded

LEMMA GeneratorsFinite ==
  ASSUME NEW s, Frames(s)
  PROVE  /\ GeneratorsOf(s) \subseteq 1 .. Len(s) /\ Len(s) \in Nat
         /\ IsFiniteSet(GeneratorsOf(s)) /\ Cardinality(GeneratorsOf(s)) \in Nat
<1>1. GeneratorsOf(s) \subseteq 1 .. Len(s) /\ Len(s) \in Nat
  BY IsSeqFacts DEF Frames, GeneratorsOf
<1>2. IsFiniteSet(1 .. Len(s))
  BY <1>1, FS_Interval
<1>3. IsFiniteSet(GeneratorsOf(s))
  BY <1>1, <1>2, FS_Subset
<1> QED
  BY <1>1, <1>3, FS_CardinalityType

LEMMA DepthFacts ==
  ASSUME NEW s, Frames(s), NEW i \in GeneratorsOf(s)
  PROVE  /\ DepthIn(s, i) \in 1 .. Cardinality(GeneratorsOf(s))
         /\ \A k \in GeneratorsOf(s) : i < k => DepthIn(s, i) < Cardinality(GeneratorsOf(s))
         /\ (\A k \in GeneratorsOf(s) : k <= i) => DepthIn(s, i) = Cardinality(GeneratorsOf(s))
<1> DEFINE G == GeneratorsOf(s)
           B == {j \in G : j <= i}
<1>1. G \subseteq Nat /\ IsFiniteSet(G) /\ Cardinality(G) \in Nat
  BY GeneratorsFinite
<1>2. IsFiniteSet(B) /\ Cardinality(B) \in Nat /\ Cardinality(B) <= Cardinality(G)
  <2> HIDE DEF G
  <2> QED
    BY <1>1, FS_Subset, FS_CardinalityType
<1>3. i \in B
  BY <1>1
<1>4. Cardinality(B) # 0
  BY <1>2, <1>3, FS_EmptySet
<1>5. ASSUME NEW k \in G, i < k PROVE Cardinality(B) < Cardinality(G)
  <2>1. B \subseteq G \ {k}
    BY <1>1, <1>5
  <2>2. IsFiniteSet(G \ {k}) /\ Cardinality(G \ {k}) = Cardinality(G) - 1
    BY <1>1, FS_RemoveElement
  <2>3. Cardinality(B) <= Cardinality(G \ {k})
    BY <2>1, <2>2, FS_Subset
  <2> QED
    BY <1>1, <1>2, <2>2, <2>3
<1>6. ASSUME \A k \in G : k <= i PROVE B = G
  BY <1>6
<1> HIDE DEF G, B
<1>7. DepthIn(s, i) = Cardinality(B)
  BY DEF DepthIn, G, B
<1>8. (\A k \in G : k <= i) => Cardinality(B) = Cardinality(G)
  BY <1>6
<1>9. \A k \in G : i < k => Cardinality(B) < Cardinality(G)
  BY <1>5
<1>10. Cardinality(B) \in 1 .. Cardinality(G)
  BY <1>1, <1>2, <1>4
<1> QED
  BY <1>7, <1>8, <1>9, <1>10 DEF G

\* A non-empty set of positions has a last one.
LEMMA LastPosition ==
  ASSUME NEW n \in Nat, NEW S, S \subseteq 0 .. n, S # {}
  PROVE  Max(S) \in S /\ \A k \in S : k <= Max(S)
<1> DEFINE T == {n - k : k \in S}
<1>0. \A k \in S : k \in Nat /\ k <= n
  OBVIOUS
<1>1. T \in SUBSET Nat /\ T # {}
  <2>1. PICK k \in S : TRUE
    OBVIOUS
  <2>2. n - k \in T
    OBVIOUS
  <2>3. \A x \in T : x \in Nat
    BY <1>0
  <2> QED
    BY <2>2, <2>3
<1>2. PICK m \in T : \A k \in T : m <= k
  BY <1>1, LeastNatural
<1>3. PICK x \in S : m = n - x
  BY <1>2
<1>4. \A k \in S : x >= k
  BY <1>2, <1>3
<1>5. \E y \in S : \A k \in S : y >= k
  BY <1>4
<1>6. Max(S) \in S /\ \A k \in S : Max(S) >= k
  BY <1>5, Zenon DEF Max
<1> QED
  BY <1>6

\* A stack with the same generators has the same buffers.
LEMMA SameGenerators ==
  ASSUME NEW s, NEW t, Frames(s), Frames(t), Len(s) = Len(t),
         \A i \in 1 .. Len(s) : s[i].generator = t[i].generator
  PROVE  GeneratorsOf(t) = GeneratorsOf(s) /\ \A i : DepthIn(t, i) = DepthIn(s, i)
<1>1. DOMAIN s = 1 .. Len(s) /\ DOMAIN t = 1 .. Len(s)
  BY IsSeqFacts DEF Frames
<1>2. GeneratorsOf(t) = GeneratorsOf(s)
  BY <1>1 DEF GeneratorsOf
<1> QED
  BY <1>2 DEF DepthIn

\* The guest's next instruction.
LEMMA ProceedKeeps ==
  ASSUME NEW s, Frames(s), s # <<>>
  PROVE  /\ Frames(Proceed(s)) /\ Len(Proceed(s)) = Len(s) /\ Proceed(s) # <<>>
         /\ \A i \in 1 .. Len(s) : /\ Proceed(s)[i].generator = s[i].generator
                                   /\ Proceed(s)[i].ceded = s[i].ceded
<1> DEFINE n == Len(s)
           f == [s[n] EXCEPT !.calls = Tail(@)]
           t == [s EXCEPT ![n] = f]
<1>1. n \in Nat /\ n # 0 /\ DOMAIN s = 1 .. n
  BY IsSeqFacts DEF Frames, IsSeq
<1>2. Proceed(s) = t
  BY DEF Proceed
<1>3. /\ DOMAIN f = DOMAIN s[n]
      /\ f.generator = s[n].generator /\ f.ceded = s[n].ceded
  BY <1>1 DEF Frames
<1> HIDE DEF f
<1>4. IsSeq(t) /\ Len(t) = n
  <2>1. IsSeq(s) /\ n \in 1 .. Len(s)
    BY <1>1 DEF Frames
  <2> QED
    BY <2>1, ExceptIsSeq, Zenon
<1>5. \A i \in 1 .. n : t[i] = IF i = n THEN f ELSE s[i]
  BY <1>1
<1> HIDE DEF t
<1>6. Frames(t)
  BY <1>1, <1>3, <1>4, <1>5 DEF Frames
<1>7. t # <<>>
  BY <1>1, <1>4
<1> QED
  BY <1>2, <1>3, <1>4, <1>5, <1>6, <1>7

LEMMA MatchProceed ==
  ASSUME NEW s, NEW y, Match(s, y), s # <<>>
  PROVE  Match(Proceed(s), y)
<1>1. Frames(s) /\ Frames(Proceed(s))
  BY ProceedKeeps DEF Match
<1>2. GeneratorsOf(Proceed(s)) = GeneratorsOf(s) /\ \A i : DepthIn(Proceed(s), i) = DepthIn(s, i)
  BY <1>1, ProceedKeeps, SameGenerators
<1>3. \A i \in GeneratorsOf(s) : i \in 1 .. Len(s)
  BY <1>1, GeneratorsFinite
<1> QED
  BY <1>1, <1>2, <1>3, ProceedKeeps DEF Match

\* An activation is entered.
LEMMA PushKeeps ==
  ASSUME NEW s, Frames(s), NEW f, {"calls", "generator", "ceded"} \subseteq DOMAIN f,
         f.generator \in BOOLEAN
  PROVE  LET t == Append(s, f) IN
         /\ Frames(t) /\ t # <<>>
         /\ f.generator => GeneratorsOf(t) = GeneratorsOf(s) \cup {Len(s) + 1}
         /\ ~f.generator => GeneratorsOf(t) = GeneratorsOf(s)
         /\ \A i \in GeneratorsOf(s) : DepthIn(t, i) = DepthIn(s, i) /\ t[i] = s[i]
         /\ t[Len(s) + 1] = f
<1> DEFINE t == Append(s, f)
<1>2. /\ IsSeq(t) /\ Len(t) = Len(s) + 1 /\ t[Len(s) + 1] = f
      /\ \A i \in 1 .. Len(s) : t[i] = s[i]
  BY AppendIsSeq DEF Frames
<1>3. Len(s) \in Nat /\ DOMAIN s = 1 .. Len(s) /\ DOMAIN t = 1 .. (Len(s) + 1)
  BY <1>2, IsSeqFacts DEF Frames
<1> HIDE DEF t
<1>4. Frames(t)
  BY <1>2, <1>3 DEF Frames
<1>5. /\ f.generator => GeneratorsOf(t) = GeneratorsOf(s) \cup {Len(s) + 1}
      /\ ~f.generator => GeneratorsOf(t) = GeneratorsOf(s)
  BY <1>2, <1>3 DEF GeneratorsOf
<1>6. ASSUME NEW i \in GeneratorsOf(s) PROVE DepthIn(t, i) = DepthIn(s, i) /\ t[i] = s[i]
  <2>1. i \in 1 .. Len(s)
    BY <1>3 DEF GeneratorsOf
  <2>2. {j \in GeneratorsOf(t) : j <= i} = {j \in GeneratorsOf(s) : j <= i}
    BY <1>3, <1>5, <2>1
  <2> QED
    BY <1>2, <2>1, <2>2 DEF DepthIn
<1>7. t # <<>>
  BY <1>2, <1>3
<1> QED
  BY <1>2, <1>4, <1>5, <1>6, <1>7 DEF t

LEMMA FrameFacts ==
  ASSUME NEW k, NEW calls, NEW generator
  PROVE  /\ {"calls", "generator", "ceded"} \subseteq DOMAIN Frame(k, calls, generator)
         /\ Frame(k, calls, generator).generator = generator
         /\ Frame(k, calls, generator).ceded = <<>>
  BY DEF Frame

LEMMA MatchPush ==
  ASSUME NEW s, NEW y, Match(s, y), NEW k, NEW calls
  PROVE  Match(Append(s, Frame(k, calls, FALSE)), y)
<1> DEFINE f == Frame(k, calls, FALSE)
           t == Append(s, f)
<1>0. {"calls", "generator", "ceded"} \subseteq DOMAIN f /\ f.generator = FALSE
  BY FrameFacts
<1> HIDE DEF f
<1>1. /\ Frames(t) /\ GeneratorsOf(t) = GeneratorsOf(s)
      /\ \A i \in GeneratorsOf(s) : DepthIn(t, i) = DepthIn(s, i) /\ t[i] = s[i]
  BY <1>0, PushKeeps DEF Match
<1> HIDE DEF t
<1>2. Match(t, y)
  BY <1>1 DEF Match
<1> QED
  BY <1>2 DEF t, f

\* A generator is entered with an empty buffer of its own.
LEMMA MatchPushGenerator ==
  ASSUME NEW s, NEW y, Match(s, y), NEW k, NEW calls
  PROVE  Match(Append(s, Frame(k, calls, TRUE)), Append(y, EmptyBuffer))
<1> DEFINE f == Frame(k, calls, TRUE)
           t == Append(s, f)
           z == Append(y, EmptyBuffer)
           n == Len(s) + 1
           G == GeneratorsOf(s)
<1>0. {"calls", "generator", "ceded"} \subseteq DOMAIN f
  BY DEF Frame
<1>a. f.generator /\ f.generator \in BOOLEAN
  BY DEF Frame
<1>b. f.ceded = <<>> /\ EmptyBuffer.values = <<>>
  BY DEF Frame, EmptyBuffer
<1>c. Frames(s)
  BY DEF Match
<1> HIDE DEF f
<1>1. /\ Frames(t) /\ GeneratorsOf(t) = G \cup {n} /\ t[n] = f
      /\ \A i \in G : DepthIn(t, i) = DepthIn(s, i) /\ t[i] = s[i]
  BY <1>0, <1>a, <1>c, PushKeeps
<1> HIDE DEF t
<1>3. /\ G \subseteq 1 .. Len(s) /\ Len(s) \in Nat
      /\ IsFiniteSet(G) /\ Cardinality(G) \in Nat
  BY GeneratorsFinite DEF Match
<1>4. /\ IsSeq(z) /\ Len(z) = Len(y) + 1 /\ z[Len(y) + 1] = EmptyBuffer
      /\ \A i \in 1 .. Len(y) : z[i] = y[i]
  BY AppendIsSeq DEF Match
<1>5. Cardinality(GeneratorsOf(t)) = Cardinality(G) + 1
  <2>1. n \notin G
    BY <1>3
  <2> HIDE DEF G, n
  <2> QED
    BY <1>1, <1>3, <2>1, FS_AddElement
<1>6. DepthIn(t, n) = Cardinality(G) + 1
  <2>1. n \in GeneratorsOf(t) /\ \A i \in GeneratorsOf(t) : i <= n
    BY <1>1, <1>3
  <2> QED
    BY <1>1, <1>5, <2>1, DepthFacts
<1>7. Len(y) = Cardinality(G) /\ \A i \in G : y[DepthIn(s, i)].values = s[i].ceded
  BY DEF Match
<1>8. \A i \in G : DepthIn(s, i) \in 1 .. Len(y)
  BY <1>7, DepthFacts DEF Match
<1> HIDE DEF z, n, G
<1>9. \A i \in GeneratorsOf(t) : z[DepthIn(t, i)].values = t[i].ceded
  BY <1>b, <1>1, <1>4, <1>6, <1>7, <1>8
<1>10. Match(t, z)
  BY <1>1, <1>4, <1>5, <1>7, <1>9 DEF Match
<1> QED
  BY <1>10 DEF t, z, f

\* A yield goes to the buffer of the innermost generator.
LEMMA MatchCede ==
  ASSUME NEW s, NEW y, Match(s, y), y # <<>>, NEW kind, NEW value
  PROVE  Match([s EXCEPT ![Max({0} \cup GeneratorsOf(s))].ceded = Append(@, value)],
               [y EXCEPT ![Len(y)] = Yielded(@, kind, value)])
<1> DEFINE G == GeneratorsOf(s)
           n == Max({0} \cup G)
           f == [s[n] EXCEPT !.ceded = Append(@, value)]
           t == [s EXCEPT ![n] = f]
           b == Yielded(y[Len(y)], kind, value)
           z == [y EXCEPT ![Len(y)] = b]
<1>1. /\ G \subseteq 1 .. Len(s) /\ Len(s) \in Nat
      /\ IsFiniteSet(G) /\ Cardinality(G) \in Nat
  BY GeneratorsFinite DEF Match
<1>2. Len(y) = Cardinality(G) /\ Len(y) # 0 /\ Len(y) \in Nat
  BY <1>1 DEF Match, IsSeq
<1>3. G # {}
  BY <1>1, <1>2, FS_EmptySet
<1>4. n \in {0} \cup G /\ \A k \in {0} \cup G : k <= n
  <2> HIDE DEF G
  <2>1. {0} \cup G \subseteq 0 .. Len(s)
    BY <1>1
  <2> QED
    BY <1>1, <2>1, LastPosition
<1> HIDE DEF n
<1>5. n \in G /\ \A k \in G : k <= n
  BY <1>1, <1>3, <1>4
<1>6. n \in 1 .. Len(s) /\ s[n].generator
  BY <1>1, <1>5 DEF GeneratorsOf
<1>7. /\ DOMAIN f = DOMAIN s[n] /\ f.generator = s[n].generator
      /\ f.ceded = Append(s[n].ceded, value)
  BY <1>6 DEF Match, Frames
<1> HIDE DEF f
<1>8. IsSeq(t) /\ Len(t) = Len(s)
  <2>1. IsSeq(s)
    BY DEF Match, Frames
  <2> QED
    BY <1>6, <2>1, ExceptIsSeq, Zenon
<1>9. \A i \in 1 .. Len(s) : t[i] = IF i = n THEN f ELSE s[i]
  BY IsSeqFacts DEF Match, Frames
<1> HIDE DEF t
<1>10. Frames(t)
  BY <1>6, <1>7, <1>8, <1>9 DEF Frames, Match
<1>11. GeneratorsOf(t) = G /\ \A i : DepthIn(t, i) = DepthIn(s, i)
  <2>1. \A i \in 1 .. Len(s) : s[i].generator = t[i].generator
    BY <1>7, <1>9
  <2> QED
    BY <1>8, <1>10, <2>1, SameGenerators DEF Match
<1>12. b.values = Append(y[Len(y)].values, value)
  BY DEF Yielded
<1> HIDE DEF b
<1>13. IsSeq(z) /\ Len(z) = Len(y)
  <2>1. IsSeq(y) /\ Len(y) \in 1 .. Len(y)
    BY <1>2 DEF Match
  <2> QED
    BY <2>1, ExceptIsSeq, Zenon
<1>14. \A i \in 1 .. Len(y) : z[i] = IF i = Len(y) THEN b ELSE y[i]
  BY IsSeqFacts DEF Match
<1> HIDE DEF z
<1>15. \A i \in G : y[DepthIn(s, i)].values = s[i].ceded
  BY DEF Match
<1>16. DepthIn(s, n) = Len(y)
  BY <1>2, <1>5, DepthFacts DEF Match
<1>17. \A i \in G : i # n => DepthIn(s, i) \in 1 .. Len(y) /\ DepthIn(s, i) # Len(y)
  <2> SUFFICES ASSUME NEW i \in G, i # n
               PROVE  DepthIn(s, i) \in 1 .. Len(y) /\ DepthIn(s, i) # Len(y)
    OBVIOUS
  <2>1. i < n
    BY <1>1, <1>5
  <2>2. Frames(s)
    BY DEF Match
  <2>3. DepthIn(s, i) \in 1 .. Cardinality(G)
    BY <2>2, DepthFacts
  <2>4. DepthIn(s, i) < Cardinality(G)
    BY <1>5, <2>1, <2>2, DepthFacts
  <2> QED
    BY <1>1, <1>2, <2>3, <2>4
<1>18. ASSUME NEW i \in G PROVE z[DepthIn(s, i)].values = t[i].ceded
  <2>1. CASE i = n
    <3>1. z[DepthIn(s, i)] = b
      BY <1>2, <1>14, <1>16, <2>1
    <3>2. t[i] = f
      BY <1>6, <1>9, <2>1
    <3>3. y[Len(y)].values = s[n].ceded
      BY <1>5, <1>15, <1>16
    <3> QED
      BY <1>7, <1>12, <3>1, <3>2, <3>3
  <2>2. CASE i # n
    BY <1>1, <1>9, <1>14, <1>15, <1>17, <2>2
  <2> QED
    BY <2>1, <2>2
<1>19. Match(t, z)
  BY <1>2, <1>10, <1>11, <1>13, <1>18 DEF Match
<1> QED
  BY <1>19 DEF t, z, b, f, n

\* An activation is left; a generator takes its buffer with it.
LEMMA MatchPop ==
  ASSUME NEW s, NEW y, Match(s, y), s # <<>>
  PROVE  Match(Front(s), IF s[Len(s)].generator THEN Front(y) ELSE y)
<1> DEFINE t == Front(s)
           n == Len(s)
           G == GeneratorsOf(s)
           z == IF s[n].generator THEN Front(y) ELSE y
<1>1. /\ IsSeq(t) /\ Len(t) = n - 1 /\ n - 1 \in Nat
      /\ \A i \in 1 .. (n - 1) : t[i] = s[i]
  BY FrontIsSeq DEF Match, Frames
<1>2. n \in Nat /\ DOMAIN s = 1 .. n /\ DOMAIN t = 1 .. (n - 1)
  BY <1>1, IsSeqFacts DEF Match, Frames
<1> HIDE DEF t
<1>3. Frames(t)
  BY <1>1, <1>2 DEF Frames, Match
<1>4. GeneratorsOf(t) = G \ {n}
  BY <1>1, <1>2 DEF GeneratorsOf
<1>5. G \subseteq 1 .. n /\ IsFiniteSet(G) /\ Cardinality(G) \in Nat
  BY GeneratorsFinite DEF Match
<1>6. n \in G <=> s[n].generator
  BY <1>1, <1>2 DEF GeneratorsOf
<1>7. Len(y) = Cardinality(G) /\ \A i \in G : y[DepthIn(s, i)].values = s[i].ceded
  BY DEF Match
<1>8. ASSUME NEW i \in G \ {n}
      PROVE  /\ DepthIn(t, i) = DepthIn(s, i) /\ t[i] = s[i]
             /\ DepthIn(s, i) \in 1 .. Cardinality(G)
             /\ n \in G => DepthIn(s, i) < Cardinality(G)
  <2>0. n \in Nat /\ i \in 1 .. n /\ i # n
    BY <1>2, <1>5
  <2>1. i \in 1 .. (n - 1)
    BY <2>0
  <2>2. {j \in GeneratorsOf(t) : j <= i} = {j \in G : j <= i}
    <3> HIDE DEF G, n
    <3> QED
      BY <1>2, <1>4, <1>5, <2>1
  <2>3. DepthIn(t, i) = DepthIn(s, i)
    BY <2>2 DEF DepthIn
  <2>4. Frames(s)
    BY DEF Match
  <2>5. DepthIn(s, i) \in 1 .. Cardinality(G)
    BY <2>4, DepthFacts
  <2>6. \A k \in G : i < k => DepthIn(s, i) < Cardinality(G)
    BY <2>4, DepthFacts
  <2>7. n \in G => DepthIn(s, i) < Cardinality(G)
    <3>1. i < n
      BY <2>0
    <3> HIDE DEF G, n
    <3> QED
      BY <2>6, <3>1
  <2> QED
    BY <1>1, <2>1, <2>3, <2>5, <2>7
<1>9. CASE n \in G
  <2>1. Cardinality(GeneratorsOf(t)) = Cardinality(G) - 1 /\ Cardinality(G) # 0
    BY <1>4, <1>5, <1>9, FS_RemoveElement, FS_EmptySet
  <2>2. y # <<>>
    BY <1>7, <2>1
  <2>3. /\ IsSeq(Front(y)) /\ Len(Front(y)) = Len(y) - 1
        /\ \A i \in 1 .. (Len(y) - 1) : Front(y)[i] = y[i]
    BY <2>2, FrontIsSeq DEF Match
  <2>4. \A i \in GeneratorsOf(t) : Front(y)[DepthIn(t, i)].values = t[i].ceded
    BY <1>4, <1>5, <1>7, <1>8, <1>9, <2>3
  <2>5. Match(t, Front(y))
    BY <1>3, <1>7, <2>1, <2>3, <2>4 DEF Match
  <2> QED
    BY <1>6, <1>9, <2>5 DEF t
<1>10. CASE n \notin G
  <2>1. GeneratorsOf(t) = G
    BY <1>4, <1>10
  <2>2. \A i \in GeneratorsOf(t) : y[DepthIn(t, i)].values = t[i].ceded
    BY <1>7, <1>8, <1>10, <2>1
  <2>3. Match(t, y)
    BY <1>3, <1>7, <2>1, <2>2 DEF Match
  <2> QED
    BY <1>6, <1>10, <2>3 DEF t
<1> QED
  BY <1>9, <1>10

-----------------------------------------------------------------------------
(* Interning a literal table.                                              *)

Arenas(s) == DOMAIN s = Fields /\ IsSeq(s.rows) /\ IsSeq(s.texts)

\* The row r resolves to the raw row, given the texts of the arena.
RowIs(texts, r, raw) ==
    /\ raw.kind = "text" => /\ r.kind = "text" /\ r.arena \in 1 .. Len(texts)
                            /\ texts[r.arena] = raw.payload
    /\ raw.kind = "octeti" => r.kind = "octeti"
    /\ raw.kind \notin {"text", "octeti"} => r.kind = "regex"

\* t is s with one more row, which resolves to raw.
AddsRow(s, t, raw) ==
    /\ Arenas(t)
    /\ Len(t.rows) = Len(s.rows) + 1
    /\ \A i \in 1 .. Len(s.rows) : t.rows[i] = s.rows[i]
    /\ Len(s.texts) <= Len(t.texts)
    /\ \A i \in 1 .. Len(s.texts) : t.texts[i] = s.texts[i]
    /\ RowIs(t.texts, t.rows[Len(s.rows) + 1], raw)

LEMMA RowFacts ==
  \A kind, arena : Row(kind, arena).kind = kind /\ Row(kind, arena).arena = arena
  BY DEF Row

LEMMA AppendRow ==
  ASSUME NEW s, Arenas(s), NEW t, DOMAIN t = Fields, NEW row, NEW raw,
         t.rows = Append(s.rows, row),
         IsSeq(t.texts), Len(s.texts) <= Len(t.texts),
         \A i \in 1 .. Len(s.texts) : t.texts[i] = s.texts[i],
         RowIs(t.texts, row, raw)
  PROVE  AddsRow(s, t, raw)
<1>1. /\ IsSeq(t.rows) /\ Len(t.rows) = Len(s.rows) + 1 /\ t.rows[Len(s.rows) + 1] = row
      /\ \A i \in 1 .. Len(s.rows) : t.rows[i] = s.rows[i]
  BY AppendIsSeq DEF Arenas
<1> QED
  BY <1>1 DEF AddsRow, Arenas

LEMMA InternRowAdds ==
  ASSUME NEW s, Arenas(s), NEW base \in Nat, NEW raw
  PROVE  AddsRow(s, InternRow(s, base, raw), raw)
<1> DEFINE n == Len(s.texts)
           t == InternRow(s, base, raw)
<1>0. n \in Nat /\ IsSeq(s.texts)
  BY IsSeqFacts DEF Arenas
<1>1. CASE raw.kind = "text"
  <2> DEFINE same == {i \in (base + 1) .. n : s.texts[i] = raw.payload}
             x == CHOOSE i \in same : TRUE
             longer == Append(s.texts, raw.payload)
  <2>1. t = InternText(s, base, raw.payload)
    BY <1>1 DEF InternRow
  <2>2. CASE same # {}
    <3>1. x \in same
      BY <2>2
    <3> DEFINE row == Row("text", x)
    <3>2. row.kind = "text" /\ row.arena = x
      BY RowFacts
    <3>3. t = [s EXCEPT !.rows = Append(s.rows, row)]
      BY <2>1, <2>2 DEF InternText
    <3> HIDE DEF x, row, t
    <3>4. x \in 1 .. n /\ s.texts[x] = raw.payload
      BY <1>0, <3>1
    <3>5. DOMAIN t = Fields /\ t.rows = Append(s.rows, row) /\ t.texts = s.texts
      BY <3>3 DEF Arenas, Fields
    <3>6. RowIs(t.texts, row, raw)
      BY <1>1, <3>2, <3>4, <3>5 DEF RowIs
    <3>7. /\ IsSeq(t.texts) /\ Len(s.texts) <= Len(t.texts)
          /\ \A i \in 1 .. Len(s.texts) : t.texts[i] = s.texts[i]
      BY <1>0, <3>5
    <3>8. AddsRow(s, t, raw)
      BY <3>5, <3>6, <3>7, AppendRow, Zenon
    <3> QED
      BY <3>8 DEF t
  <2>3. CASE same = {}
    <3> DEFINE row == Row("text", n + 1)
    <3>1. row.kind = "text" /\ row.arena = n + 1
      BY RowFacts
    <3>2. /\ IsSeq(longer) /\ Len(longer) = n + 1 /\ longer[n + 1] = raw.payload
          /\ \A i \in 1 .. n : longer[i] = s.texts[i]
      BY <1>0, AppendIsSeq
    <3>3. t = [s EXCEPT !.texts = longer, !.rows = Append(s.rows, row)]
      BY <2>1, <2>3 DEF InternText
    <3> HIDE DEF row, longer, t
    <3>4. DOMAIN t = Fields /\ t.rows = Append(s.rows, row) /\ t.texts = longer
      BY <3>3 DEF Arenas, Fields
    <3>5. RowIs(t.texts, row, raw)
      BY <1>0, <1>1, <3>1, <3>2, <3>4 DEF RowIs
    <3>6. /\ IsSeq(t.texts) /\ Len(s.texts) <= Len(t.texts)
          /\ \A i \in 1 .. Len(s.texts) : t.texts[i] = s.texts[i]
      BY <1>0, <3>2, <3>4
    <3>7. AddsRow(s, t, raw)
      BY <3>4, <3>5, <3>6, AppendRow, Zenon
    <3> QED
      BY <3>7 DEF t
  <2> QED
    BY <2>2, <2>3
<1>2. ASSUME raw.kind # "text", NEW u, DOMAIN u = Fields, NEW row,
             u.rows = Append(s.rows, row), u.texts = s.texts,
             raw.kind = "octeti" => row.kind = "octeti",
             raw.kind # "octeti" => row.kind = "regex"
      PROVE  AddsRow(s, u, raw)
  <2>1. RowIs(u.texts, row, raw)
    BY <1>2 DEF RowIs
  <2>2. /\ IsSeq(u.texts) /\ Len(s.texts) <= Len(u.texts)
        /\ \A i \in 1 .. Len(s.texts) : u.texts[i] = s.texts[i]
    BY <1>0, <1>2
  <2> QED
    BY <1>2, <2>1, <2>2, AppendRow, Zenon
<1>3. CASE raw.kind = "octeti"
  <2> DEFINE octets == Append(s.octets, raw.payload)
             row == Row("octeti", Len(s.octets) + 1)
  <2>1. t = [s EXCEPT !.octets = octets, !.rows = Append(s.rows, row)]
    BY <1>3 DEF InternRow, InternOcteti
  <2>2. row.kind = "octeti"
    BY RowFacts
  <2> HIDE DEF octets, row, t
  <2>3. DOMAIN t = Fields /\ t.rows = Append(s.rows, row) /\ t.texts = s.texts
    BY <2>1 DEF Arenas, Fields
  <2>4. AddsRow(s, t, raw)
    BY <1>2, <1>3, <2>2, <2>3
  <2> QED
    BY <2>4 DEF t
<1>4. CASE raw.kind \notin {"text", "octeti"}
  <2>1. t = InternRegex(s, raw)
    BY <1>4 DEF InternRow
  <2> HIDE DEF t
  <2>2. \E row : /\ DOMAIN t = Fields /\ t.rows = Append(s.rows, row) /\ t.texts = s.texts
                 /\ row.kind = "regex"
    <3>1. CASE raw.kind = "flags"
      <4> DEFINE row == Row("regex", Len(s.regexes))
      <4>1. t = [s EXCEPT !.rows = Append(s.rows, row)]
        BY <2>1, <3>1 DEF InternRegex
      <4>2. row.kind = "regex"
        BY RowFacts
      <4> HIDE DEF row
      <4>3. DOMAIN t = Fields /\ t.rows = Append(s.rows, row) /\ t.texts = s.texts
        BY <4>1 DEF Arenas, Fields
      <4> QED
        BY <4>2, <4>3
    <3>2. CASE raw.kind # "flags"
      <4> DEFINE row == Row("regex", Len(s.regexes) + 1)
                 regexes == Append(s.regexes, raw.compiles)
      <4>1. t = [s EXCEPT !.regexes = regexes, !.rows = Append(s.rows, row)]
        BY <2>1, <3>2 DEF InternRegex
      <4>2. row.kind = "regex"
        BY RowFacts
      <4> HIDE DEF row, regexes
      <4>3. DOMAIN t = Fields /\ t.rows = Append(s.rows, row) /\ t.texts = s.texts
        BY <4>1 DEF Arenas, Fields
      <4> QED
        BY <4>2, <4>3
    <3> QED
      BY <3>1, <3>2
  <2>3. AddsRow(s, t, raw)
    BY <1>2, <1>4, <2>2
  <2> QED
    BY <2>3 DEF t
<1> QED
  BY <1>1, <1>3, <1>4

\* The prefixes of a table, interned one after the other.
InternEquation(g, s, table, n) ==
    g = [i \in 0 .. n |->
           IF i = 0 THEN s ELSE InternRow(g[i - 1], Len(s.texts), table[i])]
TablePrefixes(s, table) == CHOOSE g : InternEquation(g, s, table, Len(table))

LEMMA InternedIsPrefix ==
  ASSUME NEW s, NEW table
  PROVE  Interned(s, table) = TablePrefixes(s, table)[Len(table)]
  BY DEF Interned, TablePrefixes, InternEquation

\* The function exists: its first n values extend to n + 1.
LEMMA PrefixesExist ==
  ASSUME NEW s, NEW table, Len(table) \in Nat
  PROVE  InternEquation(TablePrefixes(s, table), s, table, Len(table))
<1> DEFINE Bad == {n \in Nat : ~\E g : InternEquation(g, s, table, n)}
<1>1. Bad = {}
  <2> SUFFICES ASSUME Bad # {} PROVE FALSE
    OBVIOUS
  <2>1. PICK m \in Bad : \A k \in Bad : m <= k
    <3>1. Bad \in SUBSET Nat
      OBVIOUS
    <3> QED
      BY <3>1, LeastNatural
  <2>2. m \in Nat /\ ~\E g : InternEquation(g, s, table, m)
    OBVIOUS
  <2>3. CASE m = 0
    <3> DEFINE g == [i \in 0 .. 0 |-> s]
    <3>1. InternEquation(g, s, table, 0)
      BY DEF InternEquation
    <3> QED
      BY <2>2, <2>3, <3>1
  <2>4. CASE m > 0
    <3>1. m - 1 \in Nat /\ m - 1 \notin Bad
      <4> HIDE DEF Bad
      <4> QED
        BY <2>1, <2>2, <2>4
    <3>2. PICK g : InternEquation(g, s, table, m - 1)
      BY <3>1
    <3> DEFINE F(f, i) == IF i = 0 THEN s ELSE InternRow(f[i - 1], Len(s.texts), table[i])
               h == [i \in 0 .. m |-> F(g, i)]
               e == [i \in 0 .. m |-> F(h, i)]
    <3>3. \A i \in 0 .. (m - 1) : g[i] = F(g, i)
      BY <2>2, <3>2 DEF InternEquation
    <3>4. \A i \in 1 .. m : h[i - 1] = g[i - 1]
      <4> SUFFICES ASSUME NEW i \in 1 .. m PROVE h[i - 1] = g[i - 1]
        OBVIOUS
      <4>1. i - 1 \in 0 .. m /\ i - 1 \in 0 .. (m - 1)
        BY <2>2
      <4> HIDE DEF F
      <4> QED
        BY <3>3, <4>1
    <3>5. \A i \in 0 .. m : F(g, i) = F(h, i)
      <4> SUFFICES ASSUME NEW i \in 0 .. m PROVE F(g, i) = F(h, i)
        OBVIOUS
      <4>1. CASE i = 0
        BY <4>1
      <4>2. CASE i # 0
        <5>1. i \in 1 .. m
          BY <2>2, <4>2
        <5>2. h[i - 1] = g[i - 1]
          BY <3>4, <5>1
        <5> HIDE DEF h
        <5> QED
          BY <5>2
      <4> QED
        BY <4>1, <4>2
    <3>6. h = e
      <4> HIDE DEF F
      <4> QED
        BY <3>5
    <3>7. InternEquation(h, s, table, m)
      <4> HIDE DEF h
      <4> QED
        BY <3>6 DEF InternEquation
    <3> QED
      BY <2>2, <3>7
  <2> QED
    BY <2>2, <2>3, <2>4
<1>2. \E g : InternEquation(g, s, table, Len(table))
  BY <1>1
<1> QED
  BY <1>2 DEF TablePrefixes

\* t is s after its first n rows, the rows of a table interned into an empty
\* host state being its own.
Grown(s, table, t, n) ==
    /\ Arenas(t)
    /\ s.rows = <<>> => /\ Len(t.rows) = n
                        /\ \A i \in 1 .. n : RowIs(t.texts, t.rows[i], table[i])

LEMMA GrownGrows ==
  ASSUME NEW s, NEW table, NEW n \in Nat, NEW t, Grown(s, table, t, n), NEW base \in Nat
  PROVE  Grown(s, table, InternRow(t, base, table[n + 1]), n + 1)
<1> DEFINE u == InternRow(t, base, table[n + 1])
<1>1. AddsRow(t, u, table[n + 1])
  BY InternRowAdds DEF Grown
<1> HIDE DEF u
<1>2. Len(t.texts) \in Nat /\ Len(u.texts) \in Nat
  BY <1>1, IsSeqFacts DEF AddsRow, Grown, Arenas
<1>3. ASSUME s.rows = <<>>
      PROVE  /\ Len(u.rows) = n + 1
             /\ \A i \in 1 .. (n + 1) : RowIs(u.texts, u.rows[i], table[i])
  <2>1. Len(t.rows) = n /\ \A i \in 1 .. n : RowIs(t.texts, t.rows[i], table[i])
    BY <1>3 DEF Grown
  <2>2. RowIs(u.texts, u.rows[n + 1], table[n + 1])
    BY <1>1, <2>1 DEF AddsRow
  <2>3. ASSUME NEW i \in 1 .. n PROVE RowIs(u.texts, u.rows[i], table[i])
    <3>1. u.rows[i] = t.rows[i] /\ RowIs(t.texts, t.rows[i], table[i])
      BY <1>1, <2>1 DEF AddsRow
    <3>2. /\ Len(t.texts) <= Len(u.texts)
          /\ \A j \in 1 .. Len(t.texts) : u.texts[j] = t.texts[j]
      BY <1>1 DEF AddsRow
    <3> QED
      BY <1>2, <3>1, <3>2 DEF RowIs
  <2>4. \A i \in 1 .. (n + 1) : i \in 1 .. n \/ i = n + 1
    OBVIOUS
  <2> QED
    BY <1>1, <2>1, <2>2, <2>3, <2>4 DEF AddsRow
<1>4. Grown(s, table, u, n + 1)
  BY <1>1, <1>3 DEF Grown, AddsRow
<1> QED
  BY <1>4 DEF u

LEMMA InternedGrown ==
  ASSUME NEW s, Arenas(s), NEW table, IsSeq(table)
  PROVE  Grown(s, table, Interned(s, table), Len(table))
<1> DEFINE N == Len(table)
           g == TablePrefixes(s, table)
           Bad == {n \in Nat : n <= N /\ ~Grown(s, table, g[n], n)}
<1>1. N \in Nat /\ Len(s.texts) \in Nat
  BY IsSeqFacts DEF Arenas
<1>2. InternEquation(g, s, table, N)
  BY <1>1, PrefixesExist
<1> HIDE DEF g, N
<1>3. g[0] = s
  BY <1>1, <1>2 DEF InternEquation
<1>4. \A n \in 1 .. N : g[n] = InternRow(g[n - 1], Len(s.texts), table[n])
  BY <1>1, <1>2 DEF InternEquation
<1>5. Bad = {}
  <2> SUFFICES ASSUME Bad # {} PROVE FALSE
    OBVIOUS
  <2>1. PICK m \in Bad : \A k \in Bad : m <= k
    <3>1. Bad \in SUBSET Nat
      OBVIOUS
    <3> QED
      BY <3>1, LeastNatural
  <2>2. m \in Nat /\ m <= N /\ ~Grown(s, table, g[m], m)
    OBVIOUS
  <2>3. m # 0
    <3>1. s.rows = <<>> => Len(s.rows) = 0
      BY EmptyIsSeq
    <3>2. Grown(s, table, s, 0)
      BY <3>1 DEF Grown
    <3> QED
      BY <1>3, <2>2, <3>2
  <2>4. m - 1 \in Nat /\ m - 1 <= N /\ m \in 1 .. N /\ m - 1 \notin Bad
    <3> HIDE DEF Bad
    <3> QED
      BY <1>1, <2>1, <2>2, <2>3
  <2>5. Grown(s, table, g[m - 1], m - 1)
    BY <2>4
  <2>6. Grown(s, table, InternRow(g[m - 1], Len(s.texts), table[(m - 1) + 1]), (m - 1) + 1)
    <3> HIDE DEF Bad
    <3> QED
      BY <1>1, <2>4, <2>5, GrownGrows, Zenon
  <2>7. (m - 1) + 1 = m
    BY <2>2
  <2> QED
    BY <1>4, <2>2, <2>4, <2>6, <2>7
<1>6. Grown(s, table, g[N], N)
  BY <1>1, <1>5
<1>7. Interned(s, table) = g[N]
  BY InternedIsPrefix DEF g, N
<1> QED
  BY <1>6, <1>7 DEF N

\* What linking does to the host state.
LEMMA TableInterned ==
  ASSUME NEW s, Host(s), Arenas(s), NEW table, IsSeq(table)
  PROVE  LET t == InternLiteralTable(s, table) IN
         /\ Host(t) /\ Arenas(t)
         /\ t.next = Len(t.rows) /\ t.dynamic = s.dynamic /\ t.yields = s.yields
         /\ s.rows = <<>> => /\ Len(t.rows) = Len(table)
                             /\ \A i \in 1 .. Len(table) : RowIs(t.texts, t.rows[i], table[i])
<1> DEFINE all == Interned(s, table)
           t == InternLiteralTable(s, table)
<1>1. Grown(s, table, all, Len(table))
  BY InternedGrown
<1>2. Len(all.rows) \in Nat
  BY <1>1, IsSeqFacts DEF Grown, Arenas
<1>3. t = [s EXCEPT !.rows = all.rows, !.texts = all.texts, !.octets = all.octets,
                    !.regexes = all.regexes, !.next = Len(all.rows)]
  BY DEF InternLiteralTable
<1> HIDE DEF all, t
<1>4. /\ DOMAIN t = Fields
      /\ t.rows = all.rows /\ t.texts = all.texts /\ t.next = Len(all.rows)
      /\ t.dynamic = s.dynamic /\ t.yields = s.yields
  BY <1>3 DEF Host, Fields
<1>5. /\ IsSeq(t.rows) /\ IsSeq(t.texts)
      /\ s.rows = <<>> => /\ Len(t.rows) = Len(table)
                          /\ \A i \in 1 .. Len(table) : RowIs(t.texts, t.rows[i], table[i])
  BY <1>1, <1>4 DEF Grown, Arenas
<1>6. Host(t) /\ Arenas(t)
  BY <1>2, <1>4, <1>5 DEF Host, Arenas
<1> QED
  BY <1>4, <1>5, <1>6 DEF t

-----------------------------------------------------------------------------
(* The steps of a running guest.                                           *)

\* t has the rows of s, and what was allocated in between has new handles.
Settles(s, t) ==
    /\ Host(t)
    /\ t.rows = s.rows /\ t.texts = s.texts
    /\ s.next <= t.next
    /\ DOMAIN t.dynamic \subseteq DOMAIN s.dynamic \cup s.next .. (t.next - 1)

LEMMA YieldsSettle ==
  ASSUME NEW s, Host(s), NEW y
  PROVE  LET t == [s EXCEPT !.yields = y] IN
         /\ Settles(s, t) /\ Host(t) /\ t.yields = y /\ t.next = s.next
         /\ DOMAIN t.dynamic = DOMAIN s.dynamic
<1> DEFINE t == [s EXCEPT !.yields = y]
<1>1. /\ DOMAIN t = Fields /\ t.rows = s.rows /\ t.texts = s.texts /\ t.next = s.next
      /\ t.dynamic = s.dynamic /\ t.yields = y
  BY DEF Host, Fields
<1> HIDE DEF t
<1>2. Settles(s, t) /\ Host(t)
  BY <1>1 DEF Settles, Host
<1> QED
  BY <1>1, <1>2 DEF t

LEMMA MaterializedSettles ==
  ASSUME Host(st)
  PROVE  Settles(st, Materialized) /\ Materialized.yields = Front(st.yields)
<1> DEFINE u == [st EXCEPT !.yields = Front(@)]
           value == Collection(FALSE, IF Last(st.yields).kind = "None" THEN "I64"
                                      ELSE Last(st.yields).kind, Last(st.yields).values)
<1>1. Materialized = AllocDynamic(u, value).st
  BY DEF Materialized
<1>2. /\ Settles(st, u) /\ Host(u) /\ u.yields = Front(st.yields) /\ u.next = st.next
      /\ DOMAIN u.dynamic = DOMAIN st.dynamic
  BY YieldsSettle, Zenon
<1> HIDE DEF u, value
<1>3. Evolves(u, Materialized)
  BY <1>1, <1>2, AllocEvolves
<1> QED
  BY <1>2, <1>3 DEF Evolves, Settles

\* What a result of an import makes of the run.
LEMMA ReturnedFacts ==
  ASSUME NEW r, Returned(r), outcome = "Running"
  PROVE  /\ RunStep
         /\ \/ st' = st /\ stack' = stack /\ outcome' # "Running"
            \/ st' = r.st /\ stack' = Proceed(stack)
  BY DEF Returned, Finish, RunStep

LEMMA EvolvesSettles ==
  ASSUME NEW s, NEW t, Evolves(s, t)
  PROVE  Settles(s, t)
  BY DEF Evolves, Settles

LEMMA SettlesSelf == ASSUME NEW s, Host(s) PROVE Settles(s, s)
  BY DEF Settles, Host

\* The guest's own instructions.
GuestStep ==
    \/ ImportStep \/ ExternalCall \/ CursorStream \/ Cede \/ Return \/ GuestTrap

LEMMA StepKinds ==
  ASSUME Host(st), [Next]_vars
  PROVE  \/ Preflight \/ LinkModule \/ InvokeEntry
         \/ GuestStep
         \/ UNCHANGED vars
  BY CallIsImport DEF Next, GuestStep

LEMMA GuestStepSettles ==
  ASSUME Host(st), GuestStep
  PROVE  RunStep /\ Settles(st, st')
<1>0. Settles(st, st)
  BY SettlesSelf
<1>1. CASE ImportStep
  <2>1. PICK r : Evolves(st, r.st) /\ Returned(r)
    BY <1>1 DEF ImportStep
  <2>2. Settles(st, r.st)
    BY <2>1, EvolvesSettles
  <2>3. outcome = "Running"
    BY <1>1 DEF ImportStep
  <2> QED
    BY <1>0, <2>1, <2>2, <2>3, ReturnedFacts
<1>2. CASE ExternalCall
  BY <1>0, <1>2 DEF ExternalCall, Calling, RunStep
<1>3. CASE CursorStream
  <2> DEFINE t == [st EXCEPT !.yields = Append(@, EmptyBuffer)]
  <2>1. Settles(st, t)
    BY YieldsSettle, Zenon
  <2>2. /\ outcome = "Running" /\ UNCHANGED <<package, linked, bindings>>
        /\ \/ st' = t /\ outcome' = outcome
           \/ st' = st /\ outcome' = "RuntimeFailure"
    BY <1>3 DEF CursorStream, Calling, Finish
  <2> HIDE DEF t
  <2> QED
    BY <1>0, <2>1, <2>2 DEF RunStep
<1>4. CASE Cede
  <2>1. PICK field \in DOMAIN CedeKinds \cup {"cede_i32"} :
           /\ Calling(field)
           /\ IF st.yields = <<>>
              THEN Returned(Ok(st, 0))
              ELSE IF field = "cede_i32" \/ Mismatched(Last(st.yields), CedeKinds[field])
              THEN Finish("RuntimeFailure")
              ELSE \E x \in Numbers :
                     LET value == [c |-> CedeKinds[field], v |-> x] IN
                     /\ st' = YieldTo(CedeKinds[field], value)
                     /\ stack' = [Proceed(stack) EXCEPT ![Innermost].ceded = Append(@, value)]
                     /\ UNCHANGED <<package, outcome, linked, bindings>>
    BY <1>4 DEF Cede
  <2>2. outcome = "Running"
    BY <2>1 DEF Calling
  <2>3. CASE st.yields = <<>>
    <3>1. Returned(Ok(st, 0))
      BY <2>1, <2>3
    <3>2. Ok(st, 0).st = st
      BY ResultStates
    <3> QED
      BY <1>0, <2>2, <3>1, <3>2, ReturnedFacts
  <2>4. CASE Finish("RuntimeFailure")
    BY <1>0, <2>2, <2>4 DEF Finish, RunStep
  <2>5. CASE \E kind, value :
               st' = YieldTo(kind, value) /\ UNCHANGED <<package, outcome, linked, bindings>>
    <3>1. PICK kind, value :
               st' = YieldTo(kind, value) /\ UNCHANGED <<package, outcome, linked, bindings>>
      BY <2>5
    <3>2. Settles(st, YieldTo(kind, value))
      BY YieldsSettle, Zenon DEF YieldTo
    <3> QED
      BY <2>2, <3>1, <3>2 DEF RunStep
  <2> QED
    BY <2>1, <2>3, <2>4, <2>5, Zenon
<1>5. CASE Return
  <2>1. Settles(st, Materialized)
    BY MaterializedSettles
  <2>2. st' \in {st, Materialized} /\ RunStep
    BY <1>5 DEF Return, RunStep
  <2> QED
    BY <1>0, <2>1, <2>2
<1>6. CASE GuestTrap
  BY <1>0, <1>6 DEF GuestTrap, Calling, Finish, RunStep
<1> QED
  BY <1>1, <1>2, <1>3, <1>4, <1>5, <1>6 DEF GuestStep

-----------------------------------------------------------------------------
(* The handle space.                                                        *)

\* The literal rows come first, every allocated handle after them, and before
\* the guest runs there are neither values nor buffers.
HostInv ==
    /\ Host(st) /\ Arenas(st)
    /\ Len(st.rows) <= st.next
    /\ DOMAIN st.dynamic \subseteq Len(st.rows) .. (st.next - 1)
    /\ outcome \in {"Preflight", "Linking"} => DOMAIN st.dynamic = {} /\ st.yields = <<>>

\* The type invariant of the links and of the host state.
Types == LinkInv /\ HostInv

LEMMA SamePackage ==
  ASSUME package' = package
  PROVE  /\ Count' = Count /\ \A k : Module(k)' = Module(k)
         /\ \A k, symbol : Resolvable(k, symbol)' = Resolvable(k, symbol)
  BY DEF Count, Module, Resolvable

LEMMA InitTypes == ASSUME Init PROVE Types
<1>1. package \in Packages /\ linked = 0 /\ outcome = "Preflight" /\ st = NewHostState
  BY DEF Init
<1>2. LinkInv
  BY <1>1, PackageFacts DEF LinkInv
<1>3. /\ DOMAIN st = Fields /\ st.rows = <<>> /\ st.texts = <<>> /\ st.next = 0
      /\ st.dynamic = <<>> /\ st.yields = <<>>
  BY <1>1 DEF NewHostState, Fields
<1>4. DOMAIN st.dynamic = {}
  BY <1>3
<1>5. HostInv
  BY <1>3, <1>4, EmptyIsSeq DEF HostInv, Host, Arenas
<1> QED
  BY <1>2, <1>5 DEF Types

\* What LinkModule may do.
LEMMA LinkCases ==
  ASSUME Types, LinkModule
  PROVE  /\ outcome = "Linking" /\ package' = package /\ linked < Count
         /\ \/ /\ outcome' \in {"LinkFailed", "InitializationFailed", "Panicked"}
               /\ st' = st /\ linked' = linked /\ stack' = stack
            \/ /\ outcome' = "Linking" /\ linked' = linked + 1 /\ stack' = stack
               /\ st' = InitializeLiteralTable(Module(linked + 1))
<1>1. TableOutcome(Module(linked + 1)) \in {"ok", "InitializationFailed", "Panicked"}
  BY Zenon DEF TableOutcome
<1> QED
  BY <1>1 DEF LinkModule, Finish

LEMMA TableSettles ==
  ASSUME Types, outcome = "Linking", NEW k \in 1 .. Count
  PROVE  LET t == InitializeLiteralTable(Module(k)) IN
         /\ Host(t) /\ Arenas(t) /\ Len(t.rows) <= t.next
         /\ DOMAIN t.dynamic = {} /\ t.yields = <<>>
<1> DEFINE m == Module(k)
           t == InitializeLiteralTable(m)
<1>1. IsSeq(m.literals)
  BY PackageFacts DEF Types, LinkInv
<1>2. /\ Host(st) /\ Arenas(st) /\ Len(st.rows) <= st.next
      /\ DOMAIN st.dynamic = {} /\ st.yields = <<>>
  BY DEF Types, HostInv
<1> HIDE DEF m
<1>3. t \in {st, InternLiteralTable(st, m.literals)}
  BY DEF InitializeLiteralTable
<1> HIDE DEF t
<1>4. /\ Host(t) /\ Arenas(t) /\ Len(t.rows) <= t.next
      /\ DOMAIN t.dynamic = {} /\ t.yields = <<>>
  <2>1. t = st \/ t = InternLiteralTable(st, m.literals)
    BY <1>3
  <2>2. CASE t = st
    BY <1>2, <2>2
  <2>3. CASE t = InternLiteralTable(st, m.literals)
    <3>1. /\ Host(t) /\ Arenas(t)
          /\ t.next = Len(t.rows) /\ t.dynamic = st.dynamic /\ t.yields = st.yields
      BY <1>1, <1>2, <2>3, TableInterned, Zenon
    <3>2. Len(t.rows) \in Nat
      BY <3>1, IsSeqFacts DEF Arenas
    <3> QED
      BY <1>2, <3>1, <3>2
  <2> QED
    BY <2>1, <2>2, <2>3
<1> QED
  BY <1>4 DEF t, m

LEMMA SettlesKeepsTypes ==
  ASSUME HostInv, Settles(st, st'), outcome' \notin {"Preflight", "Linking"}
  PROVE  HostInv'
<1> DEFINE n == Len(st.rows)
<1>1. n \in Nat /\ n <= st.next /\ st.next \in Nat
  BY IsSeqFacts DEF HostInv, Host, Arenas
<1>2. DOMAIN st.dynamic \subseteq n .. (st.next - 1)
  BY DEF HostInv
<1>3. PICK t : t = st'
  OBVIOUS
<1>4. /\ Host(t) /\ t.rows = st.rows /\ t.texts = st.texts /\ st.next <= t.next
      /\ DOMAIN t.dynamic \subseteq DOMAIN st.dynamic \cup st.next .. (t.next - 1)
  BY <1>3 DEF Settles
<1>5. Arenas(t)
  BY <1>4 DEF HostInv, Arenas, Host
<1> HIDE DEF n
<1>6. n <= t.next /\ DOMAIN t.dynamic \subseteq n .. (t.next - 1)
  <2>1. t.next \in Nat
    BY <1>4 DEF Host
  <2> QED
    BY <1>1, <1>2, <1>4, <2>1
<1>7. Len(t.rows) = n
  BY <1>4 DEF n
<1>8. /\ Host(t) /\ Arenas(t) /\ Len(t.rows) <= t.next
      /\ DOMAIN t.dynamic \subseteq Len(t.rows) .. (t.next - 1)
  BY <1>4, <1>5, <1>6, <1>7
<1> QED
  BY <1>3, <1>8 DEF HostInv, Host, Arenas

LEMMA StepTypes == ASSUME Types, [Next]_vars PROVE Types'
<1>1. /\ package \in Packages /\ linked \in 0 .. Count /\ Count \in Nat
      /\ Host(st)
  BY PackageFacts DEF Types, LinkInv, HostInv
<1>2. Settles(st, st)
  BY <1>1, SettlesSelf
<1>3. CASE Preflight
  <2>1. /\ outcome = "Preflight" /\ outcome' = PreflightOutcome
        /\ UNCHANGED <<package, linked, bindings, st, stack>>
    BY <1>3 DEF Preflight, Finish
  <2>2. outcome' \in {"ValidationFailed", "ImportRejected", "Linking"}
    BY <2>1 DEF PreflightOutcome
  <2>3. outcome' = "Linking" =>
           \A k \in 1 .. Count : \A symbol \in Module(k).externals : Resolvable(k, symbol)
    BY <2>1 DEF PreflightOutcome
  <2>4. LinkInv'
    BY <1>1, <2>1, <2>2, <2>3, SamePackage DEF LinkInv
  <2>5. HostInv'
    BY <2>1, <2>2 DEF Types, HostInv, Host, Arenas
  <2> QED
    BY <2>4, <2>5 DEF Types
<1>4. CASE LinkModule
  <2>1. /\ outcome = "Linking" /\ package' = package /\ linked < Count
        /\ \/ /\ outcome' \in {"LinkFailed", "InitializationFailed", "Panicked"}
              /\ st' = st /\ linked' = linked
           \/ /\ outcome' = "Linking" /\ linked' = linked + 1
              /\ st' = InitializeLiteralTable(Module(linked + 1))
    BY <1>4, LinkCases
  <2>2. \A k \in 1 .. Count : \A symbol \in Module(k).externals : Resolvable(k, symbol)
    BY <2>1 DEF Types, LinkInv
  <2>3. linked' \in 0 .. Count /\ (outcome' = "LinkFailed" => linked' < Count)
    BY <1>1, <2>1
  <2>4. LinkInv'
    BY <1>1, <2>1, <2>2, <2>3, SamePackage DEF LinkInv
  <2>5. CASE st' = st /\ outcome' \in {"LinkFailed", "InitializationFailed", "Panicked"}
    BY <1>2, <2>5, SettlesKeepsTypes, <2>4 DEF Types
  <2>6. CASE st' = InitializeLiteralTable(Module(linked + 1)) /\ outcome' = "Linking"
    <3>1. linked + 1 \in 1 .. Count
      BY <1>1, <2>1
    <3>2. PICK t : t = InitializeLiteralTable(Module(linked + 1))
      OBVIOUS
    <3>3. /\ Host(t) /\ Arenas(t) /\ Len(t.rows) <= t.next
          /\ DOMAIN t.dynamic = {} /\ t.yields = <<>>
      BY <2>1, <3>1, <3>2, TableSettles
    <3>4. st' = t
      BY <2>6, <3>2
    <3>5. HostInv'
      BY <3>3, <3>4 DEF HostInv, Host, Arenas
    <3> QED
      BY <2>4, <3>5 DEF Types
  <2> QED
    BY <2>1, <2>5, <2>6
<1>5. CASE InvokeEntry
  <2>1. /\ outcome = "Linking" /\ outcome' \in {"EntryMissing", "Running"}
        /\ UNCHANGED <<package, linked, st>>
    BY <1>5 DEF InvokeEntry, Finish
  <2>2. LinkInv'
    BY <1>1, <2>1, SamePackage DEF Types, LinkInv
  <2>3. HostInv'
    BY <1>2, <2>1, SettlesKeepsTypes DEF Types
  <2> QED
    BY <2>2, <2>3 DEF Types
<1>6. CASE GuestStep
  <2>1. RunStep /\ Settles(st, st')
    BY <1>1, <1>6, GuestStepSettles
  <2>2. LinkInv'
    BY <1>1, <2>1, SamePackage DEF Types, LinkInv, RunStep
  <2>3. HostInv'
    BY <2>1, SettlesKeepsTypes DEF Types, RunStep
  <2> QED
    BY <2>2, <2>3 DEF Types
<1>7. CASE UNCHANGED vars
  <2>1. UNCHANGED <<package, outcome, linked, st>>
    BY <1>7 DEF vars
  <2>2. LinkInv'
    BY <1>1, <2>1, SamePackage DEF Types, LinkInv
  <2>3. HostInv'
    BY <2>1 DEF Types, HostInv, Host, Arenas
  <2> QED
    BY <2>2, <2>3 DEF Types
<1> QED
  BY <1>1, <1>3, <1>4, <1>5, <1>6, <1>7, StepKinds

LEMMA TypesInvariant == Spec => []Types
<1>1. Init => Types
  BY InitTypes
<1>2. Types /\ [Next]_vars => Types'
  BY StepTypes
<1> QED
  BY <1>1, <1>2, PTL DEF Spec

-----------------------------------------------------------------------------
(* Why linking may fail.                                                    *)

LEMMA FirstProvider ==
  ASSUME NEW symbol, NEW providers \in Nat, NEW p \in 1 .. providers,
         symbol \in Module(p).exports
  PROVE  Provider(symbol, providers) \in 1 .. providers
<1> DEFINE E == {q \in 1 .. providers : symbol \in Module(q).exports}
<1>1. E \in SUBSET Nat /\ E # {}
  OBVIOUS
<1>2. \E m \in E : \A k \in E : m <= k
  BY <1>1, LeastNatural
<1>3. Min(E) \in E
  <2>1. \E m \in E : \A k \in E : k >= m
    BY <1>1, <1>2
  <2> HIDE DEF E
  <2> QED
    BY <1>2, <2>1, Zenon DEF Min
<1>4. Provider(symbol, providers) = Min(E)
  BY <1>1 DEF Provider
<1> QED
  BY <1>3, <1>4

\* preflight_package_imports accepts a package only if every external of every
\* module is exported by some other sibling, so bind_external_imports can only
\* miss one because that sibling is instantiated later.
THEOREM LinkFailsByOrder == Spec => []LinkFailureIsOrder
<1>1. Types => LinkFailureIsOrder
  <2> SUFFICES ASSUME Types, outcome = "LinkFailed",
                      NEW symbol \in Module(linked + 1).externals,
                      Provider(symbol, linked) = 0
               PROVE  \E later \in (linked + 2) .. (Count - 1) :
                         symbol \in Module(later).exports
    BY DEF LinkFailureIsOrder
  <2>1. linked \in Nat /\ linked + 1 \in 1 .. Count /\ Count \in Nat
    BY PackageFacts DEF Types, LinkInv
  <2>2. Resolvable(linked + 1, symbol)
    BY <2>1 DEF Types, LinkInv
  <2>3. PICK other \in 1 .. (Count - 1) :
           other # linked + 1 /\ symbol \in Module(other).exports
    BY <2>2 DEF Resolvable
  <2>4. other \notin 1 .. linked
    BY <2>1, <2>3, FirstProvider
  <2>5. other \in (linked + 2) .. (Count - 1)
    BY <2>1, <2>3, <2>4
  <2> QED
    BY <2>3, <2>5
<1> QED
  BY <1>1, TypesInvariant, PTL

-----------------------------------------------------------------------------
(* Nested materializations.                                                *)

\* The stack is not empty while the guest runs, and its generators own the
\* buffers.
StackInv == outcome = "Running" => stack # <<>> /\ Match(stack, st.yields)

LEMMA EmptyMatch == Match(<<>>, <<>>)
<1>1. GeneratorsOf(<<>>) = {}
  BY DEF GeneratorsOf
<1>2. Cardinality(GeneratorsOf(<<>>)) = 0
  BY <1>1, FS_EmptySet
<1> QED
  BY <1>1, <1>2, EmptyIsSeq DEF Match, Frames

LEMMA MatchNonEmpty ==
  ASSUME NEW s, NEW y, NEW f, Match(s, y)
  PROVE  Append(s, f) # <<>>
<1>1. Len(Append(s, f)) = Len(s) + 1 /\ Len(s) \in Nat
  BY AppendIsSeq, IsSeqFacts DEF Match, Frames
<1> QED
  BY <1>1, EmptyIsSeq

LEMMA CedeNonEmpty ==
  ASSUME NEW s, s # <<>>, Frames(s), NEW n \in 1 .. Len(s), NEW e
  PROVE  [s EXCEPT ![n] = e] # <<>>
<1>1. Len([s EXCEPT ![n] = e]) = Len(s) /\ Len(s) \in Nat
  BY ExceptIsSeq, IsSeqFacts, Zenon DEF Frames
<1>2. Len(s) # 0
  BY DEF Frames, IsSeq
<1> QED
  BY <1>1, <1>2, EmptyIsSeq

LEMMA StepStack ==
  ASSUME Types, StackInv, GuestStep
  PROVE  StackInv'
<1>0. Host(st) /\ RunStep /\ Settles(st, st')
  BY GuestStepSettles DEF Types, HostInv
<1>1. outcome = "Running" /\ stack # <<>> /\ Match(stack, st.yields)
  BY <1>0 DEF RunStep, StackInv
<1>2. Proceed(stack) # <<>> /\ Match(Proceed(stack), st.yields)
  BY <1>1, MatchProceed, ProceedKeeps DEF Match
<1> SUFFICES ASSUME outcome' = "Running"
             PROVE  \E s, y : s = stack' /\ y = st'.yields /\ s # <<>> /\ Match(s, y)
  BY Zenon DEF StackInv, Match, Frames, IsSeq, GeneratorsOf, DepthIn
<1>3. ASSUME NEW r, Returned(r), r.st.yields = st.yields
      PROVE  \E s, y : s = stack' /\ y = st'.yields /\ s # <<>> /\ Match(s, y)
  BY <1>1, <1>2, <1>3, ReturnedFacts
<1>4. CASE ImportStep
  <2>1. PICK r : Evolves(st, r.st) /\ Returned(r)
    BY <1>4 DEF ImportStep
  <2> QED
    BY <1>3, <2>1 DEF Evolves
<1>5. CASE ExternalCall
  <2>1. PICK k, calls : stack' = Append(Proceed(stack), Frame(k, calls, FALSE)) /\ st' = st
    BY <1>5 DEF ExternalCall
  <2>2. Match(Append(Proceed(stack), Frame(k, calls, FALSE)), st.yields)
    BY <1>2, MatchPush
  <2>3. Append(Proceed(stack), Frame(k, calls, FALSE)) # <<>>
    BY <1>2, MatchNonEmpty
  <2> QED
    BY <2>1, <2>2, <2>3
<1>6. CASE CursorStream
  <2>1. PICK k, calls : /\ stack' = Append(Proceed(stack), Frame(k, calls, TRUE))
                        /\ st' = [st EXCEPT !.yields = Append(@, EmptyBuffer)]
    BY <1>6 DEF CursorStream, Finish
  <2>2. Match(Append(Proceed(stack), Frame(k, calls, TRUE)), Append(st.yields, EmptyBuffer))
    BY <1>2, MatchPushGenerator
  <2>3. Append(Proceed(stack), Frame(k, calls, TRUE)) # <<>>
    BY <1>2, MatchNonEmpty
  <2>4. st'.yields = Append(st.yields, EmptyBuffer)
    BY <1>0, <2>1 DEF Host, Fields
  <2> QED
    BY <2>1, <2>2, <2>3, <2>4
<1>7. CASE Cede
  <2>1. CASE Returned(Ok(st, 0))
    BY <1>3, <2>1, ResultStates
  <2>2. CASE \E kind, value :
               /\ st.yields # <<>> /\ st' = YieldTo(kind, value)
               /\ stack' = [Proceed(stack) EXCEPT ![Innermost].ceded = Append(@, value)]
    <3>1. PICK kind, value :
               /\ st.yields # <<>> /\ st' = YieldTo(kind, value)
               /\ stack' = [Proceed(stack) EXCEPT ![Innermost].ceded = Append(@, value)]
      BY <2>2
    <3> DEFINE p == Proceed(stack)
               y == [st.yields EXCEPT ![Len(st.yields)] = Yielded(@, kind, value)]
               e == [p[Innermost] EXCEPT !.ceded = Append(@, value)]
               s == [p EXCEPT ![Innermost] = e]
    <3>2. GeneratorsOf(p) = Generators
      <4>1. \A i \in 1 .. Len(stack) : p[i].generator = stack[i].generator
        BY <1>1, ProceedKeeps DEF Match
      <4>2. Frames(p) /\ Frames(stack) /\ Len(p) = Len(stack)
        BY <1>1, ProceedKeeps DEF Match
      <4> HIDE DEF p
      <4>3. GeneratorsOf(p) = GeneratorsOf(stack)
        BY <4>1, <4>2, SameGenerators
      <4> QED
        BY <4>3 DEF GeneratorsOf, Generators
    <3>3. Innermost = Max({0} \cup GeneratorsOf(p))
      BY <3>2 DEF Innermost
    <3>4. Match(p, st.yields) /\ p # <<>>
      BY <1>2
    <3>5. stack' = s /\ st'.yields = y
      <4>1. st' = [st EXCEPT !.yields = y]
        BY <3>1 DEF YieldTo
      <4>2. stack' = s
        BY <3>1
      <4> HIDE DEF y, s
      <4>3. st'.yields = y
        BY <1>0, <4>1 DEF Host, Fields
      <4> QED
        BY <4>2, <4>3
    <3> HIDE DEF p
    <3>6. Match([p EXCEPT ![Max({0} \cup GeneratorsOf(p))].ceded = Append(@, value)], y)
      BY <3>1, <3>4, MatchCede, Zenon
    <3>7. Match(s, y)
      BY <3>3, <3>6
    <3>8. Innermost \in 1 .. Len(p)
      <4>1. GeneratorsOf(p) \subseteq 1 .. Len(p) /\ Len(p) \in Nat
        BY <3>4, GeneratorsFinite DEF Match
      <4>2. GeneratorsOf(p) # {}
        <5>1. Len(st.yields) # 0 /\ Len(st.yields) = Cardinality(GeneratorsOf(p))
          BY <3>1, <3>4 DEF Match, IsSeq
        <5> QED
          BY <5>1, FS_EmptySet
      <4>3. {0} \cup GeneratorsOf(p) \subseteq 0 .. Len(p)
        BY <4>1
      <4>4. Innermost \in {0} \cup GeneratorsOf(p) /\ \A k \in GeneratorsOf(p) : k <= Innermost
        BY <3>3, <4>1, <4>3, LastPosition
      <4> QED
        BY <4>1, <4>2, <4>4
    <3> HIDE DEF e
    <3>9. s # <<>>
      BY <3>4, <3>8, CedeNonEmpty, Zenon DEF Match
    <3> HIDE DEF s, y
    <3> QED
      BY <3>5, <3>7, <3>9
  <2> QED
    BY <1>7, <2>1, <2>2, Zenon DEF Cede, Finish
<1>8. CASE Return
  <2>1. /\ st' = IF Running.generator THEN Materialized ELSE st
        /\ stack' = Front(stack) /\ Len(stack) # 1
    BY <1>8 DEF Return
  <2>2. Match(Front(stack), IF stack[Len(stack)].generator THEN Front(st.yields) ELSE st.yields)
    BY <1>1, MatchPop
  <2>3. st'.yields = IF stack[Len(stack)].generator THEN Front(st.yields) ELSE st.yields
    BY <1>0, <2>1, MaterializedSettles DEF Running
  <2>4. Front(stack) # <<>>
    <3>1. IsSeq(stack) /\ Len(stack) \in Nat
      BY <1>1, IsSeqFacts DEF Match, Frames
    <3>2. Len(Front(stack)) = Len(stack) - 1
      BY <1>1, <3>1, FrontIsSeq
    <3> QED
      BY <2>1, <3>1, <3>2, EmptyIsSeq
  <2> QED
    BY <2>1, <2>2, <2>3, <2>4
<1>9. CASE GuestTrap
  BY <1>9 DEF GuestTrap, Finish
<1> QED
  BY <1>4, <1>5, <1>6, <1>7, <1>8, <1>9 DEF GuestStep

\* The entry is invoked without a generator.
LEMMA InvokeStack ==
  ASSUME Types, InvokeEntry
  PROVE  StackInv'
<1> SUFFICES ASSUME outcome' = "Running"
             PROVE  \E s, y : s = stack' /\ y = st'.yields /\ s # <<>> /\ Match(s, y)
  BY Zenon DEF StackInv, Match, Frames, IsSeq, GeneratorsOf, DepthIn
<1> DEFINE f == Frame(Count, Module(Count).body, FALSE)
<1>1. stack' = <<f>> /\ st' = st /\ st.yields = <<>>
  BY DEF InvokeEntry, Finish, Types, HostInv
<1> HIDE DEF f
<1>2. <<f>> = Append(<<>>, f)
  OBVIOUS
<1>3. Match(Append(<<>>, f), <<>>)
  BY EmptyMatch, MatchPush DEF f
<1>4. Append(<<>>, f) # <<>>
  BY EmptyMatch, MatchNonEmpty
<1> QED
  BY <1>1, <1>2, <1>3, <1>4

LEMMA StepBuffers ==
  ASSUME Types, StackInv, [Next]_vars
  PROVE  StackInv'
<1>1. Host(st)
  BY DEF Types, HostInv
<1>2. CASE Preflight
  <2>1. outcome' # "Running"
    BY <1>2 DEF Preflight, Finish, PreflightOutcome
  <2> QED
    BY <2>1 DEF StackInv
<1>3. CASE LinkModule
  <2>1. outcome' # "Running"
    BY <1>3, LinkCases
  <2> QED
    BY <2>1 DEF StackInv
<1>4. CASE InvokeEntry
  BY <1>4, InvokeStack
<1>5. CASE GuestStep
  BY <1>5, StepStack
<1>6. CASE UNCHANGED vars
  BY <1>6 DEF vars, StackInv, Match, Frames, IsSeq, GeneratorsOf, DepthIn
<1> QED
  BY <1>1, <1>2, <1>3, <1>4, <1>5, <1>6, StepKinds

\* cursor_stream gives every generator a buffer of its own and takes it back
\* when the generator returns, so a yield never lands in the list of another
\* one, however the calls nest and whatever module they run in.
THEOREM GeneratorsKeepTheirYields == Spec => []YieldsBelongToGenerator
<1>1. Init => StackInv
  BY DEF Init, StackInv
<1>2. Types /\ StackInv /\ [Next]_vars => StackInv'
  BY StepBuffers
<1>3. StackInv => YieldsBelongToGenerator
  <2>1. Generators = GeneratorsOf(stack) /\ \A i : GeneratorDepth(i) = DepthIn(stack, i)
    BY DEF Generators, GeneratorsOf, GeneratorDepth, DepthIn
  <2> QED
    BY <2>1 DEF StackInv, Match, YieldsBelongToGenerator
<1> QED
  BY <1>1, <1>2, <1>3, TypesInvariant, PTL DEF Spec

-----------------------------------------------------------------------------
(* What a handle means.                                                    *)

\* alloc_dynamic counts on from the literal rows, so no allocated value is
\* ever hidden behind a row, whatever the modules of the package declare.
THEOREM AllocatedStaysVisible == Spec => []DynamicNotShadowed
<1>1. Types => DynamicNotShadowed
  <2> SUFFICES ASSUME Types, NEW h \in DOMAIN st.dynamic PROVE ~IsRow(st, h)
    BY DEF DynamicNotShadowed
  <2>1. Len(st.rows) \in Nat /\ st.next \in Nat /\ h \in Len(st.rows) .. (st.next - 1)
    BY IsSeqFacts DEF Types, HostInv, Host, Arenas
  <2> QED
    BY <2>1 DEF IsRow
<1> QED
  BY <1>1, TypesInvariant, PTL

\* At most one module of a package has a literal table.  With two, the second
\* one's rows follow the first one's while its code still counts from zero.
OneTable ==
    \A p \in Packages : \A j, k \in 1 .. CountOf(p) :
       (ModuleOf(p, j).table = "declared" /\ ModuleOf(p, k).table = "declared") => j = k

\* The rows are those of the table that has been interned, if any.
RowsOf(s, table) ==
    /\ Len(s.rows) = Len(table)
    /\ \A i \in 1 .. Len(table) : RowIs(s.texts, s.rows[i], table[i])
TableInv ==
    /\ (\A k \in 1 .. linked : Module(k).table # "declared") => st.rows = <<>>
    /\ \A k \in 1 .. linked : Module(k).table = "declared" => RowsOf(st, Module(k).literals)

LEMMA SameTables ==
  ASSUME TableInv, UNCHANGED <<package, linked>>, st'.rows = st.rows, st'.texts = st.texts
  PROVE  TableInv'
<1>1. \A k : Module(k)' = Module(k)
  BY SamePackage
<1> QED
  BY <1>1 DEF TableInv, RowsOf

LEMMA StepTables ==
  ASSUME OneTable, Types, TableInv, [Next]_vars
  PROVE  TableInv'
<1>1. Host(st) /\ Arenas(st) /\ linked \in 0 .. Count /\ Count \in Nat
  BY PackageFacts DEF Types, LinkInv, HostInv
<1>2. CASE Preflight
  BY <1>2, SameTables DEF Preflight, Finish
<1>3. CASE LinkModule
  <2> DEFINE n == linked + 1
             m == Module(n)
  <2>1. CASE st' = st /\ linked' = linked
    BY <1>3, <2>1, LinkCases, SameTables
  <2>2. CASE linked' = n /\ st' = InitializeLiteralTable(m)
    <3>0. package' = package /\ n \in 1 .. Count /\ \A k : Module(k)' = Module(k)
      BY <1>1, <1>3, LinkCases, SamePackage
    <3>1. \A k \in 1 .. n : k \in 1 .. linked \/ k = n
      BY <1>1
    <3>2. CASE m.table = "declared"
      <4>1. \A k \in 1 .. linked : Module(k).table # "declared"
        <5> SUFFICES ASSUME NEW k \in 1 .. linked, Module(k).table = "declared" PROVE FALSE
          OBVIOUS
        <5>1. package \in Packages /\ Count = CountOf(package)
              /\ \A i : Module(i) = ModuleOf(package, i)
          BY PackageFacts DEF Types, LinkInv
        <5>2. k \in 1 .. CountOf(package) /\ n \in 1 .. CountOf(package)
          BY <1>1, <3>0, <5>1
        <5>3. ModuleOf(package, k).table = "declared" /\ ModuleOf(package, n).table = "declared"
          BY <3>2, <5>1
        <5>4. k = n
          BY <5>1, <5>2, <5>3 DEF OneTable
        <5> QED
          BY <1>1, <5>4
      <4>2. st.rows = <<>>
        BY <4>1 DEF TableInv
      <4> DEFINE t == InternLiteralTable(st, m.literals)
      <4>3. IsSeq(m.literals)
        BY <3>0, PackageFacts DEF Types, LinkInv
      <4>4. RowsOf(t, m.literals)
        BY <1>1, <4>2, <4>3, TableInterned DEF RowsOf
      <4>5. st' = t
        BY <2>2, <3>2 DEF InitializeLiteralTable
      <4> HIDE DEF t, m, n
      <4> QED
        BY <2>2, <3>0, <3>1, <3>2, <4>1, <4>4, <4>5 DEF TableInv, RowsOf, m
    <3>3. CASE m.table # "declared"
      <4>1. st' = st
        BY <2>2, <3>3 DEF InitializeLiteralTable
      <4>2. (\A k \in 1 .. n : Module(k).table # "declared") =>
               \A k \in 1 .. linked : Module(k).table # "declared"
        BY <1>1
      <4> QED
        BY <2>2, <3>0, <3>1, <3>3, <4>1, <4>2 DEF TableInv, RowsOf
    <3> QED
      BY <3>2, <3>3
  <2> QED
    BY <1>3, <2>1, <2>2, LinkCases
<1>4. CASE InvokeEntry
  BY <1>4, SameTables DEF InvokeEntry, Finish
<1>5. CASE GuestStep
  BY <1>1, <1>5, GuestStepSettles, SameTables DEF RunStep, Settles
<1>6. CASE UNCHANGED vars
  BY <1>6, SameTables DEF vars
<1> QED
  BY <1>1, <1>2, <1>3, <1>4, <1>5, <1>6, StepKinds

LEMMA TablesResolve ==
  ASSUME TableInv, Types
  PROVE  LiteralsOwn
<1> SUFFICES ASSUME NEW k \in 1 .. linked, Module(k).table = "declared",
                    NEW i \in DOMAIN Module(k).literals
             PROVE  LET raw == Module(k).literals[i] IN
                    CASE raw.kind = "text" ->
                           IsText(st, i - 1) /\ ResolveText(st, i - 1) = raw.payload
                      [] raw.kind = "octeti" -> IsOcteti(st, i - 1)
                      [] OTHER -> IsRegex(st, i - 1)
  BY DEF LiteralsOwn
<1> DEFINE raw == Module(k).literals[i]
           row == st.rows[i]
<1>1. k \in 1 .. Count
  BY PackageFacts DEF Types, LinkInv
<1>2. IsSeq(Module(k).literals)
  BY <1>1, PackageFacts DEF Types, LinkInv
<1>3. i \in 1 .. Len(Module(k).literals) /\ Len(Module(k).literals) \in Nat
  BY <1>2, IsSeqFacts
<1>4. Len(st.rows) = Len(Module(k).literals) /\ RowIs(st.texts, row, raw)
  BY <1>3 DEF TableInv, RowsOf
<1>5. IsRow(st, i - 1) /\ (i - 1) + 1 = i
  BY <1>3, <1>4 DEF IsRow
<1>6. st.rows[(i - 1) + 1] = row
  BY <1>5
<1> HIDE DEF raw, row
<1>7. CASE raw.kind = "text"
  <2>1. row.kind = "text" /\ st.texts[row.arena] = raw.payload
    BY <1>4, <1>7 DEF RowIs
  <2>2. IsText(st, i - 1) /\ ResolveText(st, i - 1) = raw.payload
    BY <1>5, <1>6, <2>1 DEF IsText, IsRowOf, ResolveText, Arena
  <2> QED
    BY <1>7, <2>2 DEF raw
<1>8. CASE raw.kind = "octeti"
  <2>1. IsOcteti(st, i - 1)
    BY <1>4, <1>5, <1>6, <1>8 DEF RowIs, IsOcteti, IsRowOf
  <2> QED
    BY <1>8, <2>1 DEF raw
<1>9. CASE raw.kind \notin {"text", "octeti"}
  <2>1. IsRegex(st, i - 1)
    BY <1>4, <1>5, <1>6, <1>9 DEF RowIs, IsRegex, IsRowOf
  <2> QED
    BY <1>9, <2>1 DEF raw
<1> QED
  BY <1>7, <1>8, <1>9

\* In a package with at most one literal table, a row index names the
\* module's own literal and an allocated handle never a row, for the whole run.
THEOREM HandlesKeepTheirMeaning == OneTable => (Spec => []HandlesKeepMeaning)
<1> SUFFICES ASSUME OneTable PROVE Spec => []HandlesKeepMeaning
  OBVIOUS
<1>1. Init => TableInv
  BY DEF Init, TableInv, NewHostState
<1>2. Types /\ TableInv /\ [Next]_vars => TableInv'
  BY StepTables
<1>3. Types /\ TableInv => LiteralsOwn
  BY TablesResolve
<1>4. Spec => []LiteralsOwn
  BY <1>1, <1>2, <1>3, TypesInvariant, PTL DEF Spec
<1>5. DynamicNotShadowed /\ LiteralsOwn => HandlesKeepMeaning
  BY DEF HandlesKeepMeaning
<1> QED
  BY <1>4, <1>5, AllocatedStaysVisible, PTL
=============================================================================
