----------------------------- MODULE GuestText -----------------------------
(***************************************************************************)
(* The diagnostic, provider, format, text, regex and scalar imports of      *)
(* wasm/src/imports.rs.  Each resolves its handle arguments, refuses on the *)
(* first it cannot resolve, and allocates what it computes.  The text that  *)
(* a case mapping, a replacement or a template produces is any of Texts, a  *)
(* comparison's answer either truth value: an operator returns the set of   *)
(* its possible results.                                                    *)
(***************************************************************************)
EXTENDS GuestHandles

AnyText(st) == {AllocText(st, text) : text \in Texts}
AnyTruth(st) == {Ok(st, b) : b \in {0, 1}}

Resolves(st, role, h) ==
    CASE role = "text" -> IsText(st, h)
      [] role = "regex" -> HasProgram(st, h)
      [] role = "match" -> IsMatch(st, h)
      [] role = "opaque" -> Displayable(st, h)
AllResolve(st, roles, hs) == \A i \in DOMAIN roles : Resolves(st, roles[i], hs[i])

-----------------------------------------------------------------------------
(* Diagnostics.                                                             *)

\* bind_scalar_*: a number or a truth word goes to stdout.
NotaScalar(st) == {WriteLine(st, text) : text \in Texts}

\* nota/vide to stdout, mone to stderr; _ptr displays any handle, _text text.
NotaImports ==
    [diagnostic_nota_ptr |-> "opaque", diagnostic_vide_ptr |-> "opaque",
     diagnostic_nota_text |-> "text"]
MoneImports == [diagnostic_mone_ptr |-> "opaque", diagnostic_mone_text |-> "text"]
Rendered(st, h) == IF IsText(st, h) THEN {ResolveText(st, h)} ELSE Texts
Nota(st, field, h) ==
    IF ~Resolves(st, NotaImports[field], h) THEN {Refused(st)}
    ELSE {WriteLine(st, text) : text \in Rendered(st, h)}
Mone(st, field, h) ==
    IF ~Resolves(st, MoneImports[field], h) THEN {Refused(st)}
    ELSE {WriteStderrLine(st, text) : text \in Rendered(st, h)}

\* The solum and json rows and text_split are admitted and not implemented.
UnsupportedImports ==
    {"solum_read_text", "solum_read_lines", "solum_read_bytes", "solum_write_text",
     "json_pange", "json_solve", "json_tempta", "text_split"}

-----------------------------------------------------------------------------
(* Formatting: the handle arguments, then the template.                     *)

FormatScalarImports == {"format_i1", "format_i64", "format_i64_i64",
                        "format_i64_i64_i64", "format_f64"}
FormatTextImports ==
    [format_text |-> <<"text">>, format_text_text |-> <<"text", "text">>,
     format_text_i64 |-> <<"text">>, format_i64_text |-> <<"text">>,
     format_text_text_text |-> <<"text", "text", "text">>,
     format_text_i64_i1 |-> <<"text">>, format_1_ptr_to_ptr |-> <<"opaque">>]
FormatResult(st, template) ==
    IF IsText(st, template) THEN AnyText(st) ELSE {Refused(st)}
Format(st, field, template, hs) ==
    IF AllResolve(st, FormatTextImports[field], hs) THEN FormatResult(st, template)
    ELSE {Refused(st)}

-----------------------------------------------------------------------------
(* Text.                                                                    *)

TextConcat(st, a, b) ==
    IF AllResolve(st, <<"text", "text">>, <<a, b>>)
    THEN AllocText(st, ResolveText(st, a) \o ResolveText(st, b))
    ELSE Refused(st)

TextPredicates ==
    [text_eq |-> <<"text", "text">>, text_ne |-> <<"text", "text">>,
     text_is_empty |-> <<"text">>, text_contains |-> <<"text", "text">>,
     text_starts_with |-> <<"text", "text">>, text_ends_with |-> <<"text", "text">>]
TextPredicate(st, field, hs) ==
    IF AllResolve(st, TextPredicates[field], hs) THEN AnyTruth(st) ELSE {Refused(st)}

TextLength(st, h) ==
    IF IsText(st, h) THEN Ok(st, Len(ResolveText(st, h))) ELSE Refused(st)

TextTransforms ==
    [text_uppercase |-> <<"text">>, text_lowercase |-> <<"text">>,
     text_trim |-> <<"text">>, text_replace |-> <<"text", "text", "text">>]
TextTransform(st, field, hs) ==
    IF AllResolve(st, TextTransforms[field], hs) THEN AnyText(st) ELSE {Refused(st)}

\* text_slice: a negative bound reads as usize::MAX.
TextSlice(st, h, start, end) ==
    LET n == Len(ResolveText(st, h))
        Bound(i) == IF i < 0 THEN n + 1 ELSE i
        from == Bound(start)
        take == Max({0, Bound(end) - from})
    IN IF ~IsText(st, h) THEN Refused(st)
       ELSE AllocText(st, SubSeq(ResolveText(st, h), from + 1, Min({n, from + take})))

-----------------------------------------------------------------------------
(* Regexes and matches.                                                     *)

RegexFromText(st, h) ==
    IF IsText(st, h) THEN {AllocRegex(st), Refused(st)} ELSE {Refused(st)}

RegexImports ==
    [regex_matches |-> <<"regex", "text">>, regex_find |-> <<"regex", "text">>,
     regex_find_all |-> <<"regex", "text">>, regex_split |-> <<"regex", "text">>,
     regex_replace |-> <<"regex", "text", "text">>]

\* find: none, or the match's handle, null-encoded.
RegexFind(st) ==
    {OptionResult(st, "PTR", NoValue),
     OptionResult(AllocMatch(st).st, "PTR", Handle(AllocMatch(st).ret))}

\* find_all and split: each piece a handle of its own, then the list of them.
ListOf(st, kind, values) ==
    AllocDynamic(AllocEach(st, values),
                 Collection(FALSE, kind, [i \in DOMAIN values |-> Handle(st.next + i - 1)]))
MaxMatches == 2
RegexFindAll(st) ==
    {ListOf(st, "PTR", [i \in 1 .. n |-> [t |-> "Match"]]) : n \in 0 .. MaxMatches}
RegexSplit(st, h) ==
    {ListOf(st, "TEXT", [i \in 1 .. n |-> [t |-> "Text", text |-> <<1>>]]) :
        n \in 1 .. MaxMatches}

Regex(st, field, hs) ==
    IF ~AllResolve(st, RegexImports[field], hs) THEN {Refused(st)}
    ELSE CASE field = "regex_matches" -> AnyTruth(st)
           [] field = "regex_find" -> RegexFind(st)
           [] field = "regex_find_all" -> RegexFindAll(st)
           [] field = "regex_split" -> RegexSplit(st, hs[2])
           [] field = "regex_replace" -> AnyText(st)

\* regex_replace_each: one replacement text for every match, no more, no less
\* (a missing one is found out after the replacement: the counts differ).
RegexReplaceEach(st, regex, text, list) ==
    IF /\ AllResolve(st, <<"regex", "text">>, <<regex, text>>)
       /\ IsCollection(st, list)
       /\ \A i \in DOMAIN st.dynamic[list].values :
             LET value == st.dynamic[list].values[i] IN
             value.c = "Handle" /\ IsText(st, value.v)
    THEN AnyText(st) \cup {Refused(st)}
    ELSE {Refused(st)}

\* text_escape and the match rows.
MatchImports ==
    [text_escape |-> <<"text">>, match_text |-> <<"match">>, match_start |-> <<"match">>,
     match_end |-> <<"match">>, match_group |-> <<"match">>,
     match_named |-> <<"match", "text">>]
\* optional_text_handle.
OptionalText(st) ==
    {OptionResult(st, "TEXT", NoValue)}
        \cup {OptionResult(r.st, "TEXT", Handle(r.ret)) : r \in AnyText(st)}
MatchRow(st, field, hs) ==
    IF ~AllResolve(st, MatchImports[field], hs) THEN {Refused(st)}
    ELSE CASE field \in {"match_start", "match_end"} -> {Ok(st, 0), Ok(st, 1)}
           [] field \in {"match_group", "match_named"} -> OptionalText(st)
           [] OTHER -> AnyText(st)

-----------------------------------------------------------------------------
(* Scalars.                                                                 *)

AssertCondition(st, condition) == IF condition = 0 THEN Refused(st) ELSE Ok(st, 0)

\* text_i64, text_f64, text_i1: a scalar becomes a text.
TextOfScalar(st) == AnyText(st)

\* text_truthy, text_parse_*: total; an unknown handle reads as false, zero or
\* the fallback.
TextTruthy(st, h) == Ok(st, IF IsText(st, h) /\ ResolveText(st, h) # <<>> THEN 1 ELSE 0)
TextParse(st, h, fallback) ==
    IF IsText(st, h) THEN {Ok(st, n) : n \in {fallback, 1}} ELSE {Ok(st, fallback)}

\* read_line: the host has no stdin.
ReadLine(st) == AllocDynamic(st, OptionOf("TEXT", NoValue))

SetDisplayTokens(st, hs) ==
    IF \A i \in DOMAIN hs : IsText(st, hs[i]) THEN Ok([st EXCEPT !.words = TRUE], 0)
    ELSE Refused(st)
=============================================================================
