------------------------------ MODULE WasmHost ------------------------------
(***************************************************************************)
(* WasmHost::run and run_package (wasm/src/host.rs) with the linking,       *)
(* literal-table and cursor parts of imports.rs and literal_table.rs: the   *)
(* lifecycle of one package, and the guest's calls of the v1 imports as the *)
(* code compiled from its source makes them.  A single-module run is a      *)
(* package without siblings.                                                *)
(***************************************************************************)
EXTENDS GuestText, GuestCollections, GuestTensors

CONSTANTS
    Packages,   \* the packages that may be run: [entry, siblings]
    MaxHandles, \* bound: a guest stops allocating at this many handles
    MaxDepth    \* bound: the guest's activations nest no deeper

\* A package's siblings and a module's literals are vectors.
ASSUME PackagesAssumption ==
    \A p \in Packages :
        /\ p.siblings \in Seq(Range(p.siblings))
        /\ \A m \in {p.entry} \cup Range(p.siblings) : m.literals \in Seq(Range(m.literals))

VARIABLES
    package,    \* the package being run
    outcome,    \* RunOutcome, or the phase the run is in
    linked,     \* how many modules are instantiated, siblings first
    bindings,   \* bindings[k]: the provider of each external of module k
    st,         \* HostState
    stack       \* the guest's activations, the running one last

vars == <<package, outcome, linked, bindings, st, stack>>

-----------------------------------------------------------------------------
(* A module: valid, signatures (they fit the bindings), admitted (every     *)
(* import is one of the closed surface), externals, exports, hasEntry,      *)
(* table, literals, body, generators, kinds, numbers.  A body is the        *)
(* sequence of its calls, each the set of imports it may be a call of.      *)

Count == Len(package.siblings) + 1
\* In the order of instantiation: the entry is last.
Module(k) == IF k = Count THEN package.entry ELSE package.siblings[k]

\* A frame's ceded is a ghost: what was yielded while it was the innermost
\* generator.
Frame(k, calls, generator) ==
    [module |-> k, calls |-> calls, generator |-> generator, ceded |-> <<>>]
Running == stack[Len(stack)]
Me == Module(Running.module)

Init ==
    /\ package \in Packages
    /\ outcome = "Preflight"
    /\ linked = 0
    /\ bindings = <<>>
    /\ st = NewHostState
    /\ stack = <<>>

Finish(result) ==
    /\ outcome' = result
    /\ UNCHANGED <<package, linked, bindings, st, stack>>

-----------------------------------------------------------------------------
(* preflight_imports and preflight_package_imports.                         *)

\* Mutant: a sibling's own exports resolve its imports.
ResolvableInItself(k, symbol) ==
    \E other \in 1 .. (Count - 1) : symbol \in Module(other).exports
Resolvable(k, symbol) ==
    \E other \in 1 .. (Count - 1) : other # k /\ symbol \in Module(other).exports

PreflightOutcome ==
    IF \E k \in 1 .. Count : ~Module(k).valid THEN "ValidationFailed"
    ELSE IF \E k \in 1 .. Count :
              \/ ~Module(k).admitted
              \/ \E symbol \in Module(k).externals : ~Resolvable(k, symbol)
    THEN "ImportRejected"
    ELSE "Linking"

Preflight ==
    /\ outcome = "Preflight"
    /\ Finish(PreflightOutcome)

-----------------------------------------------------------------------------
(* One module: link_v1_imports, bind_external_imports, instantiate and      *)
(* initialize_literal_table.                                                *)

\* The first instantiated provider of the symbol; 0 if there is none.
Provider(symbol, providers) ==
    LET exporting == {p \in 1 .. providers : symbol \in Module(p).exports}
    IN IF exporting = {} THEN 0 ELSE Min(exporting)

Links(m, providers) ==
    m.signatures /\ \A symbol \in m.externals : Provider(symbol, providers) > 0

\* A row offset or length that reads as negative panics the host.
TableOutcome(m) ==
    CASE m.table = "none" -> "ok"
      [] m.table = "negative" -> "Panicked"
      [] m.table \in {"half", "past"} -> "InitializationFailed"
      [] OTHER -> IF \A i \in DOMAIN m.literals : RowAccepted(m.literals, i)
                  THEN "ok" ELSE "InitializationFailed"

InitializeLiteralTable(m) ==
    IF m.table = "declared" THEN InternLiteralTable(st, m.literals) ELSE st

LinkModule ==
    LET k == linked + 1  m == Module(k) IN
    /\ outcome = "Linking"
    /\ linked < Count
    /\ IF ~Links(m, linked) THEN Finish("LinkFailed")
       ELSE IF TableOutcome(m) # "ok" THEN Finish(TableOutcome(m))
       ELSE /\ linked' = k
            /\ bindings' = Append(bindings, [s \in m.externals |-> Provider(s, linked)])
            /\ st' = InitializeLiteralTable(m)
            /\ UNCHANGED <<package, outcome, stack>>

InvokeEntry ==
    /\ outcome = "Linking"
    /\ linked = Count
    /\ IF ~Module(Count).hasEntry THEN Finish("EntryMissing")
       ELSE /\ outcome' = "Running"
            /\ stack' = <<Frame(Count, Module(Count).body, FALSE)>>
            /\ UNCHANGED <<package, linked, bindings, st>>

-----------------------------------------------------------------------------
(* The guest's calls.  Its handles are those it was given and one nobody    *)
(* gave it; an i64 argument is a number or a handle.                        *)

Handles == 0 .. st.next
Tuples(n) == [1 .. n -> Handles]
Numbers == Me.numbers
Words == Me.numbers \cup Handles

\* The compiled guest's aggregates nest without cycles: an aggregate holds
\* only handles older than itself.
Older(kind, value, h) == (kind = "PTR" /\ value.c = "Handle") => value.v < h
Acyclic(s) ==
    \A h \in DOMAIN s.dynamic :
       LET v == s.dynamic[h] IN
       CASE v.t \in {"Collection", "Tensor"} ->
              \A i \in DOMAIN v.values : Older(v.kind, v.values[i], h)
         [] v.t = "Map" -> \A i \in DOMAIN v.entries : Older(v.valueKind, v.entries[i][2], h)
         [] v.t = "Option" -> Older(v.kind, v.payload, h)
         [] OTHER -> TRUE

Calling(field) ==
    /\ outcome = "Running"
    /\ Running.calls # <<>>
    /\ field \in Head(Running.calls)

Proceed(frames) == [frames EXCEPT ![Len(frames)].calls = Tail(@)]

\* An import returns and the guest goes on, or it refuses, which traps the
\* guest: state.unsupported makes the run a RuntimeFailure.
Returned(r) ==
    CASE r.how = "refused" -> Finish("RuntimeFailure")
      [] r.how = "panic" -> Finish("Panicked")
      [] OTHER -> /\ Acyclic(r.st)
                  /\ r.st.next <= MaxHandles
                  /\ st' = r.st
                  /\ stack' = Proceed(stack)
                  /\ UNCHANGED <<package, outcome, linked, bindings>>
Call(fields, Results(_)) ==
    \E field \in fields : Calling(field) /\ \E r \in Results(field) : Returned(r)

DiagnosticResults(f) ==
    IF f = "diagnostic_scalar" THEN NotaScalar(st)
    ELSE UNION {IF f \in DOMAIN NotaImports THEN Nota(st, f, h)
                ELSE Mone(st, f, h) : h \in Handles}
DiagnosticCall ==
    Call({"diagnostic_scalar"} \cup DOMAIN NotaImports \cup DOMAIN MoneImports,
         DiagnosticResults)

UnsupportedCall == Call(UnsupportedImports, LAMBDA f : {Refused(st)})

FormatResults(f) ==
    IF f \in FormatScalarImports
    THEN UNION {FormatResult(st, t) : t \in Handles}
    ELSE UNION {Format(st, f, t, hs) :
                  t \in Handles, hs \in Tuples(Len(FormatTextImports[f]))}
FormatCall ==
    Call(FormatScalarImports \cup DOMAIN FormatTextImports,
         FormatResults)

TextResults(f) ==
    CASE f = "text_concat" -> {TextConcat(st, a, b) : a, b \in Handles}
      [] f = "text_length" -> {TextLength(st, h) : h \in Handles}
      [] f = "text_slice" -> {TextSlice(st, h, i, j) :
                                h \in Handles, i, j \in Numbers \cup {-1}}
      [] f \in DOMAIN TextPredicates ->
           UNION {TextPredicate(st, f, hs) : hs \in Tuples(Len(TextPredicates[f]))}
      [] OTHER ->
           UNION {TextTransform(st, f, hs) : hs \in Tuples(Len(TextTransforms[f]))}
TextCall ==
    Call({"text_concat", "text_length", "text_slice"}
            \cup DOMAIN TextPredicates \cup DOMAIN TextTransforms,
         TextResults)

RegexResults(f) ==
    CASE f = "regex_from_text" -> UNION {RegexFromText(st, h) : h \in Handles}
      [] f = "regex_replace_each" ->
           UNION {RegexReplaceEach(st, a, b, c) : a, b, c \in Handles}
      [] f \in DOMAIN RegexImports ->
           UNION {Regex(st, f, hs) : hs \in Tuples(Len(RegexImports[f]))}
      [] OTHER -> UNION {MatchRow(st, f, hs) : hs \in Tuples(Len(MatchImports[f]))}
RegexCall ==
    Call({"regex_from_text", "regex_replace_each"}
            \cup DOMAIN RegexImports \cup DOMAIN MatchImports,
         RegexResults)

ScalarResults(f) ==
    CASE f = "assert" -> {AssertCondition(st, n) : n \in {0, 1}}
      [] f = "text_scalar" -> TextOfScalar(st)
      [] f = "text_truthy" -> {TextTruthy(st, h) : h \in Handles}
      [] f = "text_parse" -> UNION {TextParse(st, h, 0) : h \in Handles}
      [] f = "read_line" -> {ReadLine(st)}
      [] OTHER -> {SetDisplayTokens(st, hs) : hs \in Tuples(4)}
ScalarCall ==
    Call({"assert", "text_scalar", "text_truthy", "text_parse", "read_line",
          "set_display_tokens"},
         ScalarResults)

ArrayResults(f) ==
    CASE f = "array_new" -> {ArrayNew(st, k) : k \in Me.kinds}
      [] f = "array_push" -> {ArrayPush(st, h, x) : h \in Handles, x \in Words}
      [] f = "array_extend" -> {ArrayExtend(st, a, b) : a, b \in Handles}
      [] f = "array_length" -> {ArrayLength(st, h) : h \in Handles}
      [] f = "array_get" -> {ArrayGet(st, h, i) : h \in Handles, i \in Numbers}
      [] f = "array_option" -> {ArrayOption(st, h, i) :
                                  h \in Handles, i \in Words \cup (-4 .. -1)}
      [] f = "array_contains" -> {ArrayContains(st, h, x) : h \in Handles, x \in Words}
      [] f = "array_is_empty" -> {ArrayIsEmpty(st, h) : h \in Handles}
      [] f = "array_reverse" -> {ArrayReverse(st, h) : h \in Handles}
      [] f = "array_sort" -> {ArraySort(st, h) : h \in Handles}
      [] f = "array_sum" -> {ArraySum(st, h) : h \in Handles}
ArrayCall ==
    Call({"array_new", "array_push", "array_extend", "array_length", "array_get",
          "array_option", "array_contains", "array_is_empty", "array_reverse",
          "array_sort", "array_sum"},
         ArrayResults)

MapResults(f) ==
    CASE f = "map_new" -> {MapNew(st, k, v) : k, v \in Me.kinds}
      [] f = "map_put" -> {MapPut(st, h, k, v) : h \in Handles, k, v \in Words}
      [] f = "map_delete" -> {MapDelete(st, h, k) : h \in Handles, k \in Words}
      [] f = "map_keys" -> {MapKeys(st, h) : h \in Handles}
      [] f = "map_values" -> {MapValues(st, h) : h \in Handles}
MapCall ==
    Call({"map_new", "map_put", "map_delete", "map_keys", "map_values"},
         MapResults)

SetResults(f) ==
    CASE f = "set_new" -> {SetNew(st, k) : k \in Me.kinds}
      [] f = "set_from_array" -> {SetFromArray(st, h) : h \in Handles}
      [] f = "array_from_set" -> {ArrayFromSet(st, h) : h \in Handles}
      [] f = "set_union" -> {SetUnion(st, a, b) : a, b \in Handles}
      [] f = "set_intersection" -> {SetIntersection(st, a, b) : a, b \in Handles}
      [] f = "set_difference" -> {SetDifference(st, a, b) : a, b \in Handles}
      [] f = "set_symmetric_difference" ->
           {SetSymmetricDifference(st, a, b) : a, b \in Handles}
      [] f = "set_is_subset" -> {SetIsSubset(st, a, b) : a, b \in Handles}
      [] f = "set_is_superset" -> {SetIsSuperset(st, a, b) : a, b \in Handles}
SetCall ==
    Call({"set_new", "set_from_array", "array_from_set", "set_union", "set_intersection",
          "set_difference", "set_symmetric_difference", "set_is_subset", "set_is_superset"},
         SetResults)

OptionResults(f) ==
    CASE f = "option_none" -> {OptionNone(st, k) : k \in Me.kinds}
      [] f = "option_some" -> {OptionSome(st, x, k) : x \in Words, k \in Me.kinds}
      [] f = "option_get" -> {OptionGet(st, h) : h \in Handles}
      [] f = "option_get_or" -> {OptionGetOr(st, h, x) : h \in Handles, x \in Numbers}
      [] f = "option_is_present" -> {OptionIsPresent(st, h) : h \in Handles}
OptionCall ==
    Call({"option_none", "option_some", "option_get", "option_get_or", "option_is_present"},
         OptionResults)

TensorResults(f) ==
    CASE f = "tensor_new" -> {TensorNew(st, k) : k \in Me.kinds}
      [] f = "tensor_create" -> {TensorCreate(st, a, x, b) :
                                   a, b \in Handles, x \in Numbers}
      [] f = "tensor_from_flat" -> {TensorFromFlat(st, a, b, c) : a, b, c \in Handles}
      [] f = "tensor_rank" -> {TensorRank(st, h) : h \in Handles}
      [] f = "tensor_shape" -> {TensorShape(st, h) : h \in Handles}
      [] f = "tensor_reshape" -> {TensorReshape(st, a, b) : a, b \in Handles}
      [] f = "tensor_get" -> {TensorGet(st, a, b) : a, b \in Handles}
      [] f = "tensor_set" -> {TensorSet(st, a, b, x) : a, b \in Handles, x \in Numbers}
      [] f = "tensor_fill" -> {TensorFill(st, h, x) : h \in Handles, x \in Numbers}
      [] f = "tensor_flatten" -> {TensorFlatten(st, h) : h \in Handles}
      [] f = "tensor_materialize" -> {TensorMaterialize(st, h) : h \in Handles}
      [] f = "tensor_slice" -> {TensorSlice(st, h, i, j) :
                                  h \in Handles, i, j \in Numbers \cup {0}}
      [] f = "tensor_matmul" -> {TensorMatmul(st, a, b) : a, b \in Handles}
      [] f = "tensor_sum" -> {TensorSum(st, h) : h \in Handles}
      [] f = "tensor_mean" -> {TensorMean(st, h) : h \in Handles}
      [] f = "tensor_convert" -> {TensorConvert(st, h, k, l) :
                                    h \in Handles, k, l \in Me.kinds}
      [] OTHER -> {TensorBinary(st, f, a, b) : a, b \in Handles}
TensorCall ==
    Call({"tensor_new", "tensor_create", "tensor_from_flat", "tensor_rank", "tensor_shape",
          "tensor_reshape", "tensor_get", "tensor_set", "tensor_fill", "tensor_flatten",
          "tensor_materialize", "tensor_slice", "tensor_add", "tensor_sub", "tensor_mul",
          "tensor_matmul", "tensor_sum", "tensor_mean", "tensor_convert"},
         TensorResults)

-----------------------------------------------------------------------------
(* Calls that run guest code, and the way back.                             *)

\* A faber_external call enters the provider's exported function.
ExternalCall ==
    /\ Calling("external")
    /\ Len(stack) < MaxDepth
    /\ \E symbol \in Me.externals :
          LET provider == bindings[Running.module][symbol] IN
          stack' = Append(Proceed(stack), Frame(provider, Module(provider).body, FALSE))
    /\ UNCHANGED <<package, outcome, linked, bindings, st>>

\* cursor_stream runs the generator to its end inside the call, its yields
\* going to a buffer of its own.
CursorStream ==
    /\ Calling("cursor_stream")
    /\ Len(stack) < MaxDepth
    /\ \E id \in -1 .. Len(Me.generators) :
          LET g == Me.generators[id + 1] IN
          IF id \in 0 .. (Len(Me.generators) - 1) /\ g.tabled /\ g.discardable
          THEN /\ st' = [st EXCEPT !.yields = Append(@, EmptyBuffer)]
               /\ stack' = Append(Proceed(stack), Frame(Running.module, g.body, TRUE))
               /\ UNCHANGED <<package, outcome, linked, bindings>>
          ELSE Finish("RuntimeFailure")

Generators == {i \in DOMAIN stack : stack[i].generator}
GeneratorDepth(i) == Cardinality({j \in Generators : j <= i})
Innermost == Max({0} \cup Generators)

\* Mutant: the yield goes to the outermost buffer.
YieldOutermost(kind, value) == [st EXCEPT !.yields[1] = Yielded(@, kind, value)]
YieldTo(kind, value) == [st EXCEPT !.yields[Len(st.yields)] = Yielded(@, kind, value)]

\* cede: outside a materialization an identity; inside one, a yield of the
\* carrier's kind, which is the kind of all of them.
CedeKinds == [cede_i64 |-> "I64", cede_f64 |-> "F64"]
Cede ==
    \E field \in DOMAIN CedeKinds \cup {"cede_i32"} :
       /\ Calling(field)
       /\ IF st.yields = <<>>
          THEN Returned(Ok(st, 0))
          ELSE IF field = "cede_i32" \/ Mismatched(Last(st.yields), CedeKinds[field])
          THEN Finish("RuntimeFailure")
          ELSE \E x \in Numbers :
                 LET value == [c |-> CedeKinds[field], v |-> x] IN
                 /\ st' = YieldTo(CedeKinds[field], value)
                 /\ stack' = [Proceed(stack) EXCEPT ![Innermost].ceded = Append(@, value)]
                 /\ UNCHANGED <<package, outcome, linked, bindings>>

\* The generator returned: its buffer becomes a list, i64 if it yielded nothing.
Materialized ==
    LET buffer == Last(st.yields) IN
    AllocDynamic([st EXCEPT !.yields = Front(@)],
                 Collection(FALSE, IF buffer.kind = "None" THEN "I64" ELSE buffer.kind,
                            buffer.values)).st

Return ==
    /\ outcome = "Running"
    /\ Running.calls = <<>>
    /\ st' = IF Running.generator THEN Materialized ELSE st
    /\ stack' = Front(stack)
    /\ outcome' = IF Len(stack) = 1 THEN "Success" ELSE "Running"
    /\ UNCHANGED <<package, linked, bindings>>

\* A trap of the guest's own ends the run.
GuestTrap ==
    /\ Calling("trap")
    /\ Finish("EntryTrapped")

Next ==
    \/ Preflight \/ LinkModule \/ InvokeEntry
    \/ DiagnosticCall \/ UnsupportedCall \/ FormatCall \/ TextCall \/ RegexCall
    \/ ScalarCall \/ ArrayCall \/ MapCall \/ SetCall \/ OptionCall \/ TensorCall
    \/ ExternalCall \/ CursorStream \/ Cede \/ Return \/ GuestTrap

Spec == Init /\ [][Next]_vars

-----------------------------------------------------------------------------
(* Properties.                                                              *)

Outcomes == {"Success", "ValidationFailed", "ImportRejected", "LinkFailed",
             "InitializationFailed", "EntryMissing", "EntryTrapped", "RuntimeFailure",
             "Panicked"}

\* The type invariant: every literal row names an entry of its kind's arena,
\* every dynamic handle was given out, the captures respect their bound.
TypeOK ==
    /\ package \in Packages
    /\ outcome \in Outcomes \cup {"Preflight", "Linking", "Running"}
    /\ linked \in 0 .. Count
    /\ Len(bindings) = linked
    /\ \A i \in DOMAIN st.rows :
          st.rows[i].arena \in CASE st.rows[i].kind = "text" -> DOMAIN st.texts
                                 [] st.rows[i].kind = "octeti" -> DOMAIN st.octets
                                 [] OTHER -> DOMAIN st.regexes
    /\ \A h \in DOMAIN st.dynamic : h < st.next
    /\ \A h \in DOMAIN st.dynamic :
          st.dynamic[h].t = "Collection" =>
             \A i \in DOMAIN st.dynamic[h].values :
                st.dynamic[h].values[i] \in RuntimeValue
    /\ {st.stdout.kept, st.stderr.kept} \subseteq 0 .. MaxStdoutBytes
    /\ \A i \in DOMAIN stack : stack[i].module \in 1 .. linked

\* One handle space, two owners (intern_literal_table, alloc_dynamic): no
\* value the guest was handed is hidden behind a literal row, which every
\* resolution looks up first.
DynamicNotShadowed ==
    \A h \in DOMAIN st.dynamic : ~IsRow(st, h)

\* The guest's literal references are the row indices of its own table: row i
\* of a linked module's table resolves to that row's own text, and a regex or
\* octeti row to a regex or an octeti.
LiteralsOwn ==
    \A k \in 1 .. linked :
       Module(k).table = "declared" =>
          \A i \in DOMAIN Module(k).literals :
             LET raw == Module(k).literals[i] IN
             CASE raw.kind = "text" -> IsText(st, i - 1) /\ ResolveText(st, i - 1) = raw.payload
               [] raw.kind = "octeti" -> IsOcteti(st, i - 1)
               [] OTHER -> IsRegex(st, i - 1)

\* Nested materializations (bind_cursor_stream, bind_cede_fields): each active
\* generator has exactly one buffer, holding what was ceded while it was the
\* innermost, in order, through calls into other modules too.
YieldsBelongToGenerator ==
    outcome = "Running" =>
       /\ Len(st.yields) = Cardinality(Generators)
       /\ \A i \in Generators : st.yields[GeneratorDepth(i)].values = stack[i].ceded

\* A tensor is dense: as many values as its shape says, after any sequence of
\* tensor calls.  matmul indexes by it without a check.  A seed made by
\* tensor_new has no values.
TensorsDense ==
    \A h \in DOMAIN st.dynamic :
       st.dynamic[h].t = "Tensor" =>
          \/ Len(st.dynamic[h].values) = ShapeCount(st.dynamic[h].shape)
          \/ st.dynamic[h].shape = <<>> /\ st.dynamic[h].values = <<>>

\* tensor_slice keeps elements at their indices: element (i, rest) of the slice
\* is element (start + i, rest) of the tensor, for every tensor the guest can
\* build and every slice of it.
SliceKeepsIndices ==
    \A h \in DOMAIN st.dynamic :
       LET t == st.dynamic[h] IN
       (t.t = "Tensor" /\ t.shape # <<>>) =>
          \A start, end \in 0 .. Head(t.shape) :
             start <= end =>
                LET s == Sliced(t, start, end) IN
                \A index \in [DOMAIN t.shape -> 0 .. Max(Range(t.shape))] :
                   FlatOffset(s.shape, index) >= 0 =>
                      /\ ElementAt(s, index) = ElementAt(t, [index EXCEPT ![1] = @ + start])
                      /\ ElementAt(s, index) # NoValue

\* map_put replaces: a key occurs once in a map, so that the key's entry is the
\* one last put whichever way it is read.
MapsAreFunctions ==
    \A h \in DOMAIN st.dynamic :
       st.dynamic[h].t = "Map" =>
          \A i, j \in DOMAIN st.dynamic[h].entries :
             st.dynamic[h].entries[i][1] = st.dynamic[h].entries[j][1] => i = j

\* The four set operations, written as loops over vectors, compute the set
\* operations, and of two sets without repetition a set without repetition.
SetAlgebraExact ==
    \A l, r \in {h \in DOMAIN st.dynamic : st.dynamic[h].t = "Collection"} :
       LET Made(result) == Values(result.st, result.ret)
           L == Elements(st, l)  R == Elements(st, r)
       IN /\ Range(Made(SetUnion(st, l, r))) = L \cup R
          /\ Range(Made(SetIntersection(st, l, r))) = L \cap R
          /\ Range(Made(SetDifference(st, l, r))) = L \ R
          /\ Range(Made(SetSymmetricDifference(st, l, r))) = (L \ R) \cup (R \ L)
          /\ (IsInjective(Values(st, l)) /\ IsInjective(Values(st, r))) =>
                \A made \in {SetUnion(st, l, r), SetSymmetricDifference(st, l, r)} :
                   IsInjective(Made(made))

\* An optional read of a list of 64-bit elements (array_option, then
\* option_is_present and option_get) is present exactly at the list's indices
\* and gives what array_get gives there, the zero element included.
OptionsReadBack ==
    \A h \in {g \in DOMAIN st.dynamic : st.dynamic[g].t = "Collection"} :
       ElementKind(st, h) \in {"I64", "F64"} =>
          \A i \in 0 .. Len(Values(st, h)) :
             LET r == ArrayOption(st, h, i) IN
             /\ (OptionIsPresent(r.st, r.ret).ret = 1) <=> (i < Len(Values(st, h)))
             /\ OptionGet(r.st, r.ret).ret = ArrayGet(st, h, i).ret

\* The captured stream is a prefix of what the guest wrote, cut only by the
\* capture bound (write_line, write_capped).
CaptureIsPrefix ==
    \A stream \in {st.stdout, st.stderr} : stream.kept = Min({stream.sent, MaxStdoutBytes})

\* What preflight proves: a package whose signatures fit fails to link only
\* because of the order of its siblings, never because nobody else exports
\* the symbol.
LinkFailureIsOrder ==
    (outcome = "LinkFailed" /\ Module(linked + 1).signatures) =>
       \A symbol \in Module(linked + 1).externals :
          Provider(symbol, linked) = 0 =>
             \E later \in (linked + 2) .. (Count - 1) : symbol \in Module(later).exports

\* A handle keeps its meaning for the whole run (HostState): a row index names
\* the module's own literal and an allocated handle never resolves to a row,
\* although the guest counts both from zero in one space.
HandlesKeepMeaning == DynamicNotShadowed /\ LiteralsOwn

\* On every value a guest can build, shared elements, empty axes and the capture
\* bound included, what the imports store is well formed, and those named in the
\* parts above (slices, maps, set algebra, options of the 64-bit kinds, console
\* capture) compute what they are named for.  Null-encoded options are left out:
\* a present zero reads as absent (option_get_or, imports.rs:731 and 3452).
AggregatesExact ==
    /\ TypeOK /\ TensorsDense /\ SliceKeepsIndices
    /\ MapsAreFunctions /\ SetAlgebraExact
    /\ OptionsReadBack /\ CaptureIsPrefix
=============================================================================
