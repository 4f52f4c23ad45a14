---------------------------- MODULE GuestHandles ----------------------------
(***************************************************************************)
(* HostState of the Wasm product host (wasm/src/imports.rs): one space of   *)
(* i32 handles over the interned literal rows and the values the host       *)
(* allocates while the guest runs.  An import is an operator from the state *)
(* and its arguments to a result: the next state and what it returns, or a  *)
(* refusal (typed_unsupported), which traps the guest.  A text is the       *)
(* sequence of the byte widths of its characters.                           *)
(***************************************************************************)
EXTENDS GuestValues

CONSTANTS
    Texts,          \* the texts a text computation may produce
    MaxStdoutBytes  \* RunConfig.max_stdout_bytes

Ok(st, ret) == [how |-> "ok", st |-> st, ret |-> ret]
Refused(st) == [how |-> "refused", st |-> st, ret |-> 0]
Panicked(st) == [how |-> "panic", st |-> st, ret |-> 0]

\* HostState::new.  A stream is the bytes captured and, as a ghost, the
\* bytes the guest sent to it.
EmptyStream == [kept |-> 0, sent |-> 0]
NewHostState ==
    [rows |-> <<>>, texts |-> <<>>, octets |-> <<>>, regexes |-> <<>>,
     next |-> 0, dynamic |-> <<>>, yields |-> <<>>, words |-> FALSE,
     stdout |-> EmptyStream, stderr |-> EmptyStream]

-----------------------------------------------------------------------------
(* intern_literal_table.  A raw row is [kind, payload, utf8, compiles].     *)

Row(kind, arena) == [kind |-> kind, arena |-> arena]

\* Mutant: a repeated text adds no row.
InternTextOnce(st, base, payload) ==
    IF \E i \in (base + 1) .. Len(st.texts) : st.texts[i] = payload THEN st
    ELSE [st EXCEPT !.texts = Append(@, payload),
                    !.rows = Append(@, Row("text", Len(st.texts) + 1))]
\* Equal texts of one table share an arena entry (base: the arena before it).
InternText(st, base, payload) ==
    LET same == {i \in (base + 1) .. Len(st.texts) : st.texts[i] = payload} IN
    IF same # {}
    THEN [st EXCEPT !.rows = Append(@, Row("text", CHOOSE i \in same : TRUE))]
    ELSE [st EXCEPT !.texts = Append(@, payload),
                    !.rows = Append(@, Row("text", Len(st.texts) + 1))]
InternOcteti(st, payload) ==
    [st EXCEPT !.octets = Append(@, payload),
               !.rows = Append(@, Row("octeti", Len(st.octets) + 1))]
\* Mutant: the flags row names the regex after its pattern's.
FlagsNameNext(st, raw) ==
    [st EXCEPT !.regexes = IF raw.kind = "flags" THEN @ ELSE Append(@, raw.compiles),
               !.rows = Append(@, Row("regex", Len(st.regexes) + 1))]
\* The flags row continues the pattern row before it.
InternRegex(st, raw) ==
    IF raw.kind = "flags"
    THEN [st EXCEPT !.rows = Append(@, Row("regex", Len(st.regexes)))]
    ELSE [st EXCEPT !.regexes = Append(@, raw.compiles),
                    !.rows = Append(@, Row("regex", Len(st.regexes) + 1))]
InternRow(st, base, raw) ==
    CASE raw.kind = "text" -> InternText(st, base, raw.payload)
      [] raw.kind = "octeti" -> InternOcteti(st, raw.payload)
      [] OTHER -> InternRegex(st, raw)

\* A row of unknown kind, flags without a pattern, or text that is not UTF-8
\* fails initialization.
RowAccepted(table, i) ==
    CASE table[i].kind \in {"text", "pattern"} -> table[i].utf8
      [] table[i].kind = "octeti" -> TRUE
      [] table[i].kind = "flags" -> /\ i > 1
                                    /\ table[i - 1].kind = "pattern"
                                    /\ table[i].utf8
      [] OTHER -> FALSE

Interned(st, table) ==
    LET after[n \in 0 .. Len(table)] ==
          IF n = 0 THEN st ELSE InternRow(after[n - 1], Len(st.texts), table[n])
    IN after[Len(table)]
\* Mutant: dynamic handles start after the distinct texts, not after the rows.
InternAfterTexts(st, table) ==
    [Interned(st, table) EXCEPT !.next = Len(Interned(st, table).texts)]
InternLiteralTable(st, table) ==
    LET all == Interned(st, table) IN
    [st EXCEPT !.rows = all.rows, !.texts = all.texts, !.octets = all.octets,
               !.regexes = all.regexes, !.next = Len(all.rows)]

-----------------------------------------------------------------------------
(* alloc_* and resolve_* / find_*.                                          *)

AllocDynamic(st, value) ==
    Ok([st EXCEPT !.next = @ + 1,
                  !.dynamic = [h \in DOMAIN @ \cup {st.next} |->
                                 IF h = st.next THEN value ELSE @[h]]],
       st.next)
AllocText(st, text) == AllocDynamic(st, [t |-> "Text", text |-> text])
AllocRegex(st) == AllocDynamic(st, [t |-> "Regex"])
AllocMatch(st) == AllocDynamic(st, [t |-> "Match"])
\* The state after allocating the values one after the other.
AllocEach(st, values) ==
    LET end == st.next + Len(values) IN
    [st EXCEPT !.next = end,
               !.dynamic = [h \in DOMAIN @ \cup st.next .. (end - 1) |->
                              IF h >= st.next THEN values[h - st.next + 1] ELSE @[h]]]

IsRow(st, h) == h \in 0 .. (Len(st.rows) - 1)
IsRowOf(st, h, kind) == IsRow(st, h) /\ st.rows[h + 1].kind = kind
Arena(st, h) == st.rows[h + 1].arena
IsDynamic(st, h, t) == h \in DOMAIN st.dynamic /\ st.dynamic[h].t = t

IsText(st, h) == IsRowOf(st, h, "text") \/ (~IsRow(st, h) /\ IsDynamic(st, h, "Text"))
ResolveText(st, h) == IF IsRow(st, h) THEN st.texts[Arena(st, h)] ELSE st.dynamic[h].text
IsOcteti(st, h) == IsRowOf(st, h, "octeti")
ResolveOcteti(st, h) == st.octets[Arena(st, h)]
IsRegex(st, h) == IsRowOf(st, h, "regex") \/ (~IsRow(st, h) /\ IsDynamic(st, h, "Regex"))
\* regex_program: a literal outside the dialect is a regex without a program.
HasProgram(st, h) == IsRegex(st, h) /\ (IsRow(st, h) => st.regexes[Arena(st, h)])
IsMatch(st, h) == IsDynamic(st, h, "Match")
IsCollection(st, h) == IsDynamic(st, h, "Collection")
IsMap(st, h) == IsDynamic(st, h, "Map")
IsOption(st, h) == IsDynamic(st, h, "Option")
IsTensor(st, h) == IsDynamic(st, h, "Tensor")

\* option_result: 64-bit payloads wrap in the option arena; of the others the
\* carrier is the result, and 0 means absent.
OptionResult(st, kind, payload) ==
    IF kind \in {"I64", "F64"} THEN AllocDynamic(st, OptionOf(kind, payload))
    ELSE Ok(st, IF payload = NoValue THEN 0 ELSE ValueToI64(payload))

-----------------------------------------------------------------------------
(* render_*: what matters is whether a handle has a display at all.  Fuel n *)
(* bounds the nesting; the guest's aggregates are acyclic.                  *)

Displayable(st, handle) ==
    LET Bound == 0 .. st.next
        Show[n \in 0 .. (st.next + 1), mode \in {"display", "valor"}, h \in Bound] ==
          LET Nested(value, m) ==
                value.v \in Bound /\ n > 0 /\ Show[n - 1, m, value.v]
              ByHandle(kind, value, m) ==
                CASE kind = "TEXT" -> IsText(st, value.v)
                  [] kind = "PTR" -> Nested(value, m)
                  [] OTHER -> FALSE
              Element(kind, value) ==         \* render_element
                value.c = "Handle" => ByHandle(kind, value, "display")
              Valor(kind, value) ==           \* render_valor_value
                IF value.c = "Handle" THEN ByHandle(kind, value, "valor")
                ELSE \/ kind = value.c
                     \/ kind = "I64" /\ value.c = "I32"
              Payload(kind, value) ==         \* render_option_payload
                IF value.c = "Handle" THEN ByHandle(kind, value, "display")
                ELSE kind = value.c
              v == st.dynamic[h]
          IN CASE IsText(st, h) \/ IsOcteti(st, h) -> TRUE
               [] IsRegex(st, h) -> mode = "display"
               [] IsCollection(st, h) ->
                    \A i \in DOMAIN v.values :
                       IF mode = "display" THEN Element(v.kind, v.values[i])
                                           ELSE Valor(v.kind, v.values[i])
               [] IsMap(st, h) ->
                    \A i \in DOMAIN v.entries :
                       /\ v.entries[i][1].c = "Handle"
                       /\ IsText(st, v.entries[i][1].v)
                       /\ Valor(v.valueKind, v.entries[i][2])
               [] IsOption(st, h) ->
                    \/ v.payload = NoValue
                    \/ IF mode = "display" THEN Payload(v.kind, v.payload)
                                           ELSE Valor(v.kind, v.payload)
               [] OTHER -> h = 0
    IN handle \in Bound /\ Show[st.next + 1, "display", handle]

-----------------------------------------------------------------------------
(* write_capped: the line and its newline, cut at the capture bound; the    *)
(* cut slices a String, which panics inside a character.                    *)

TextBytes(text) == FoldFunction(+, 0, text)
Boundaries(text) == {TextBytes(SubSeq(text, 1, i)) : i \in 0 .. Len(text)}

\* Mutant: a line that does not fit is dropped whole.
DropLongLine(stream, text) ==
    LET n == TextBytes(text) + 1 IN
    [kept |-> IF stream.kept + n > MaxStdoutBytes THEN stream.kept ELSE stream.kept + n,
     sent |-> stream.sent + n]
Capped(stream, text) ==
    LET n == TextBytes(text) + 1 IN
    [kept |-> stream.kept + Min({n, Max({0, MaxStdoutBytes - stream.kept})}),
     sent |-> stream.sent + n]
CutsCharacter(stream, text) ==
    LET take == MaxStdoutBytes - stream.kept IN
    take > 0 /\ take <= TextBytes(text) /\ take \notin Boundaries(text)

WriteLine(st, text) ==
    IF CutsCharacter(st.stdout, text) THEN Panicked(st)
    ELSE Ok([st EXCEPT !.stdout = Capped(@, text)], 0)
WriteStderrLine(st, text) ==
    IF CutsCharacter(st.stderr, text) THEN Panicked(st)
    ELSE Ok([st EXCEPT !.stderr = Capped(@, text)], 0)
=============================================================================
