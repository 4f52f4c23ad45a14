-------------------------- MODULE GuestCollections --------------------------
(***************************************************************************)
(* The array, map, set and option imports of wasm/src/imports.rs: a lista   *)
(* and a copia are both a vector of values (CollectionValue), a tabula a    *)
(* vector of entries.                                                       *)
(***************************************************************************)
EXTENDS GuestHandles

Values(st, h) == st.dynamic[h].values
Elements(st, h) == Range(Values(st, h))
ElementKind(st, h) == st.dynamic[h].kind
WithValues(st, h, values) == [st EXCEPT !.dynamic[h].values = values]
At(values, i) == IF i \in 0 .. (Len(values) - 1) THEN values[i + 1] ELSE NoValue

-----------------------------------------------------------------------------
(* Arrays.                                                                  *)

ArrayNew(st, kind) == AllocDynamic(st, Collection(FALSE, kind, <<>>))

\* An octeti literal is a lista<u8>: a push mutates the interned payload.
ArrayPush(st, h, x) ==
    IF IsCollection(st, h)
    THEN IF ElementKind(st, h) \notin Kinds THEN Refused(st)
         ELSE Ok(WithValues(st, h, Append(Values(st, h),
                                          ValueFromI64(ElementKind(st, h), x))), h)
    ELSE IF IsOcteti(st, h)
    THEN Ok([st EXCEPT !.octets[Arena(st, h)] = Append(@, x % 256)], h)
    ELSE Refused(st)

\* The kind the code compares is the destination's own, so any source passes.
ArrayExtend(st, destination, source) ==
    IF IsCollection(st, destination) /\ IsCollection(st, source)
    THEN Ok(WithValues(st, destination, Values(st, destination) \o Values(st, source)),
            destination)
    ELSE Refused(st)

ArrayLength(st, h) ==
    IF IsCollection(st, h) THEN Ok(st, Len(Values(st, h)))
    ELSE IF IsMap(st, h) THEN Ok(st, Len(st.dynamic[h].entries))
    ELSE IF IsOcteti(st, h) THEN Ok(st, Len(ResolveOcteti(st, h)))
    ELSE Refused(st)

ArrayGet(st, h, i) ==
    IF IsCollection(st, h)
    THEN Ok(st, ValueToI64(At(Values(st, h), i)))
    ELSE IF IsOcteti(st, h)
    THEN Ok(st, IF i \in 0 .. (Len(ResolveOcteti(st, h)) - 1)
                THEN ResolveOcteti(st, h)[i + 1] ELSE 0)
    ELSE Refused(st)

\* find by key identity: the payload of the entry, or none.
EntryAt(entries, key) ==
    LET i == SelectInSeq(entries, LAMBDA e : e[1] = key)
    IN IF i = 0 THEN NoValue ELSE entries[i][2]

\* array_option: -1 and -2 read the ends, -3 and -4 remove them; a map is
\* read by its key handle, an octeti by index.
ArrayOption(st, h, key) ==
    LET values == Values(st, h)
        n == Len(values)
        Taken(payload, rest) ==
            OptionResult(WithValues(st, h, rest), ElementKind(st, h), payload)
    IN IF IsCollection(st, h)
       THEN CASE key = -3 -> IF n = 0 THEN Taken(NoValue, <<>>)
                             ELSE Taken(Head(values), Tail(values))
              [] key = -4 -> IF n = 0 THEN Taken(NoValue, <<>>)
                             ELSE Taken(Last(values), Front(values))
              [] key = -2 -> Taken(At(values, Max({0, n - 1})), values)
              [] OTHER -> Taken(At(values, IF key = -1 THEN 0 ELSE key), values)
       ELSE IF IsMap(st, h)
       THEN OptionResult(st, st.dynamic[h].valueKind,
                         EntryAt(st.dynamic[h].entries, Handle(key)))
       ELSE IF IsOcteti(st, h)
       THEN Ok(st, IF key \in 0 .. (Len(ResolveOcteti(st, h)) - 1)
                   THEN ResolveOcteti(st, h)[key + 1] ELSE 0)
       ELSE Refused(st)

ArrayContains(st, h, x) ==
    IF IsCollection(st, h)
    THEN IF ElementKind(st, h) \notin Kinds THEN Refused(st)
         ELSE Ok(st, IF ValueFromI64(ElementKind(st, h), x) \in Elements(st, h) THEN 1 ELSE 0)
    ELSE IF IsMap(st, h)
    THEN Ok(st, IF \E i \in DOMAIN st.dynamic[h].entries :
                       st.dynamic[h].entries[i][1] = Handle(x) THEN 1 ELSE 0)
    ELSE Refused(st)
ArrayIsEmpty(st, h) ==
    IF IsCollection(st, h) \/ IsMap(st, h)
    THEN Ok(st, IF ArrayLength(st, h).ret = 0 THEN 1 ELSE 0)
    ELSE Refused(st)

ArrayReverse(st, h) ==
    IF IsCollection(st, h) THEN Ok(WithValues(st, h, Reverse(Values(st, h))), 0)
    ELSE Refused(st)
\* sort_by_key(value_to_i64); stable, and equal carriers are equal values here.
ArraySort(st, h) ==
    IF IsCollection(st, h)
    THEN Ok(WithValues(st, h, SortSeq(Values(st, h),
                LAMBDA a, b : ValueToI64(a) < ValueToI64(b))), h)
    ELSE Refused(st)
ArraySum(st, h) ==
    IF IsCollection(st, h)
    THEN Ok(st, FoldLeft(LAMBDA acc, value : acc + ValueToI64(value), 0, Values(st, h)))
    ELSE Refused(st)

-----------------------------------------------------------------------------
(* Maps.                                                                    *)

MapNew(st, keyKind, valueKind) == AllocDynamic(st, MapOf(keyKind, valueKind, <<>>))

KeyOf(map, key) ==
    IF map.keyKind \in Kinds THEN ValueFromI64(map.keyKind, key) ELSE Handle(key)

\* Mutant: an existing key is not looked for.
AppendEntry(entries, key, value) == Append(entries, <<key, value>>)
PutEntry(entries, key, value) ==
    LET i == SelectInSeq(entries, LAMBDA e : e[1] = key)
    IN IF i = 0 THEN Append(entries, <<key, value>>)
       ELSE [entries EXCEPT ![i] = <<key, value>>]
MapPut(st, h, key, x) ==
    IF IsMap(st, h) /\ st.dynamic[h].valueKind \in Kinds
    THEN Ok([st EXCEPT !.dynamic[h].entries =
                 PutEntry(@, KeyOf(st.dynamic[h], key),
                          ValueFromI64(st.dynamic[h].valueKind, x))], 0)
    ELSE Refused(st)

\* A copia's delete goes through the same row.
MapDelete(st, h, key) ==
    IF IsMap(st, h)
    THEN LET entries == st.dynamic[h].entries
             kept == SelectSeq(entries, LAMBDA e : e[1] # KeyOf(st.dynamic[h], key))
         IN Ok([st EXCEPT !.dynamic[h].entries = kept],
               IF Len(kept) # Len(entries) THEN 1 ELSE 0)
    ELSE IF IsCollection(st, h) /\ ElementKind(st, h) \in Kinds
    THEN LET kept == SelectSeq(Values(st, h),
                        LAMBDA v : v # ValueFromI64(ElementKind(st, h), key))
         IN Ok(WithValues(st, h, kept), IF Len(kept) # Len(Values(st, h)) THEN 1 ELSE 0)
    ELSE Refused(st)

\* The keys are always labelled text.
MapKeys(st, h) ==
    IF IsMap(st, h)
    THEN AllocDynamic(st, Collection(FALSE, "TEXT",
             [i \in DOMAIN st.dynamic[h].entries |-> st.dynamic[h].entries[i][1]]))
    ELSE Refused(st)
MapValues(st, h) ==
    IF IsMap(st, h)
    THEN AllocDynamic(st, Collection(FALSE, st.dynamic[h].valueKind,
             [i \in DOMAIN st.dynamic[h].entries |-> st.dynamic[h].entries[i][2]]))
    ELSE Refused(st)

-----------------------------------------------------------------------------
(* Sets, in first-seen order.                                               *)

SetNew(st, kind) == AllocDynamic(st, Collection(TRUE, kind, <<>>))

Unique(values) ==
    FoldLeft(LAMBDA acc, v : IF v \in Range(acc) THEN acc ELSE Append(acc, v), <<>>, values)
SetFromArray(st, h) ==
    IF IsCollection(st, h)
    THEN AllocDynamic(st, Collection(TRUE, ElementKind(st, h), Unique(Values(st, h))))
    ELSE Refused(st)
ArrayFromSet(st, h) ==
    IF IsCollection(st, h)
    THEN AllocDynamic(st, Collection(FALSE, ElementKind(st, h), Values(st, h)))
    ELSE Refused(st)

In(l, r) == SelectSeq(l, LAMBDA v : v \in Range(r))
NotIn(l, r) == SelectSeq(l, LAMBDA v : v \notin Range(r))
SetAlgebra(st, left, right, values) ==
    AllocDynamic(st, Collection(TRUE, ElementKind(st, left), values))
BothCollections(st, left, right) == IsCollection(st, left) /\ IsCollection(st, right)

SetUnion(st, left, right) ==
    IF BothCollections(st, left, right)
    THEN SetAlgebra(st, left, right, FoldLeft(
             LAMBDA acc, v : IF v \in Range(acc) THEN acc ELSE Append(acc, v),
             Values(st, left), Values(st, right)))
    ELSE Refused(st)
SetIntersection(st, left, right) ==
    IF BothCollections(st, left, right)
    THEN SetAlgebra(st, left, right, In(Values(st, left), Values(st, right)))
    ELSE Refused(st)
SetDifference(st, left, right) ==
    IF BothCollections(st, left, right)
    THEN SetAlgebra(st, left, right, NotIn(Values(st, left), Values(st, right)))
    ELSE Refused(st)

\* Mutant: the second pass compares against the wrong side.
OneSidedDifference(st, left, right) ==
    IF BothCollections(st, left, right)
    THEN SetAlgebra(st, left, right, NotIn(Values(st, left), Values(st, right))
             \o NotIn(Values(st, right), Values(st, right)))
    ELSE Refused(st)
SetSymmetricDifference(st, left, right) ==
    IF BothCollections(st, left, right)
    THEN SetAlgebra(st, left, right, NotIn(Values(st, left), Values(st, right))
             \o NotIn(Values(st, right), Values(st, left)))
    ELSE Refused(st)

SetIsSubset(st, left, right) ==
    IF BothCollections(st, left, right)
    THEN Ok(st, IF Elements(st, left) \subseteq Elements(st, right) THEN 1 ELSE 0)
    ELSE Refused(st)
SetIsSuperset(st, left, right) ==
    IF BothCollections(st, left, right)
    THEN Ok(st, IF Elements(st, right) \subseteq Elements(st, left) THEN 1 ELSE 0)
    ELSE Refused(st)

-----------------------------------------------------------------------------
(* Options.  A handle that is no option is a null-encoded payload.          *)

OptionNone(st, kind) == AllocDynamic(st, OptionOf(kind, NoValue))
OptionSome(st, x, kind) ==
    IF kind \in Kinds THEN AllocDynamic(st, OptionOf(kind, ValueFromI64(kind, x)))
    ELSE Refused(st)

Payload(st, h) == st.dynamic[h].payload
\* Mutant: any handle that is not zero counts as present.
NonZeroIsPresent(st, h) == Ok(st, IF h # 0 THEN 1 ELSE 0)
OptionIsPresent(st, h) ==
    Ok(st, IF IsOption(st, h) THEN (IF Payload(st, h) # NoValue THEN 1 ELSE 0)
           ELSE IF h # 0 THEN 1 ELSE 0)
OptionGet(st, h) ==
    Ok(st, IF IsOption(st, h) THEN ValueToI64(Payload(st, h)) ELSE h)
OptionGetOr(st, h, fallback) ==
    Ok(st, IF IsOption(st, h) /\ Payload(st, h) # NoValue
           THEN ValueToI64(Payload(st, h)) ELSE fallback)
=============================================================================
