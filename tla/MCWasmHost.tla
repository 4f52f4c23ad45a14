----------------------------- MODULE MCWasmHost -----------------------------
(***************************************************************************)
(* Small packages for WasmHost.  Each guest is a script of a few calls, a   *)
(* call being any import of one family with any handles, so that every      *)
(* import meets every kind of value it can be given.                        *)
(***************************************************************************)
EXTENDS WasmHost

\* An empty text, and one whose second character takes two bytes.
MCTexts == {<<>>, <<1, 2>>}

Text(payload) == [kind |-> "text", payload |-> payload, utf8 |-> TRUE, compiles |-> FALSE]
Octeti == [Text(<<7>>) EXCEPT !.kind = "octeti"]
Pattern(compiles) == [Text(<<1>>) EXCEPT !.kind = "pattern", !.compiles = compiles]
Flags == [Text(<<1>>) EXCEPT !.kind = "flags"]

Plain ==
    [valid |-> TRUE, signatures |-> TRUE, admitted |-> TRUE, externals |-> {},
     exports |-> {}, hasEntry |-> TRUE, table |-> "none", literals |-> <<>>,
     body |-> <<>>, generators |-> <<>>, kinds |-> {"I64"}, numbers |-> {0, 1}]
Alone(m) == [entry |-> m, siblings |-> <<>>]
With(m, literals) == [m EXCEPT !.table = "declared", !.literals = literals]
Script(m, calls, kinds, numbers) ==
    [m EXCEPT !.body = calls, !.kinds = kinds, !.numbers = numbers]

-----------------------------------------------------------------------------
(* The import families.                                                     *)

Diagnostics == {"diagnostic_scalar", "diagnostic_nota_ptr", "diagnostic_mone_ptr",
                "diagnostic_vide_ptr", "diagnostic_nota_text", "diagnostic_mone_text"}
Formats == FormatScalarImports \cup DOMAIN FormatTextImports
TextFields == {"text_concat", "text_length", "text_slice"}
                  \cup DOMAIN TextPredicates \cup DOMAIN TextTransforms
Regexes == {"regex_from_text", "regex_replace_each"}
               \cup DOMAIN RegexImports \cup DOMAIN MatchImports
Scalars == {"assert", "text_scalar", "text_truthy", "text_parse", "read_line",
            "set_display_tokens"}
ArrayReads == {"array_length", "array_get", "array_option", "array_contains",
               "array_is_empty", "array_sum"}
ArrayWrites == {"array_push", "array_extend", "array_reverse", "array_sort"}
Maps == {"map_put", "map_delete", "map_keys", "map_values"}
Sets == {"set_from_array", "array_from_set", "set_union", "set_intersection",
         "set_difference", "set_symmetric_difference", "set_is_subset", "set_is_superset"}
Options == {"option_none", "option_some", "option_get", "option_get_or",
            "option_is_present"}
TensorMakes == {"tensor_create", "tensor_from_flat", "tensor_reshape", "tensor_slice",
                "tensor_matmul", "tensor_add", "tensor_mul", "tensor_convert",
                "tensor_materialize", "tensor_fill", "tensor_set"}
TensorReads == {"tensor_rank", "tensor_shape", "tensor_get", "tensor_flatten", "tensor_sub",
                "tensor_sum", "tensor_mean"}

-----------------------------------------------------------------------------
(* Packages that run.                                                       *)

TextGuest ==
    Script(With(Plain, <<Text(<<1, 2>>), Octeti, Text(<<1, 2>>)>>),
           <<Formats \cup TextFields \cup Scalars \cup UnsupportedImports \cup {"trap"},
             TextFields \cup Formats, Diagnostics, Diagnostics>>, {"I64"}, {0, 1})
RegexGuest ==
    Script(With(Plain, <<Text(<<1>>), Pattern(FALSE), Pattern(TRUE), Flags, Text(<<1>>)>>),
           <<Regexes \cup {"read_line"}, Regexes, Diagnostics>>, {"I64"}, {0, 1})
ListGuest ==
    Script(With(Plain, <<Text(<<>>), Octeti>>),
           <<{"array_new"}, {"array_push", "array_new"}, ArrayWrites \cup Options,
             ArrayReads \cup ArrayWrites, {"diagnostic_vide_ptr"}>>,
           {"I64", "F64", "PTR"}, {0, BitBase + 1})
MapGuest ==
    Script(With(Plain, <<Text(<<1>>)>>),
           <<{"map_new", "option_some"}, {"map_put"}, Maps, Maps \cup Options,
             ArrayReads, {"diagnostic_mone_ptr"}>>,
           {"I32", "TEXT"}, {0, 1})
SetGuest ==
    Script(Plain, <<{"array_new", "set_new"}, {"array_push"}, {"array_push"},
                    {"set_from_array"}, {"array_push"}, Sets, Sets>>, {"I1", "I64"}, {0, 2})
TensorGuest ==
    Script(Plain, <<{"array_new"}, {"array_push"}, {"array_push"}, {"tensor_new"},
                    TensorMakes, TensorMakes \cup TensorReads, {"tensor_reshape"} \cup TensorReads>>,
           {"I64", "F64"}, {1, 2})

\* A generator that cedes, calls a sibling that cedes, and materializes
\* another generator; the sibling has the only literal table.
Generator(body) == [tabled |-> TRUE, discardable |-> TRUE, body |-> body]
Cedes == {"cede_i64", "cede_f64", "cede_i32"}
CursorGuest ==
    [Alone([Script(Plain, <<{"cede_i64"}, {"cursor_stream"}, {"external", "cursor_stream"},
                            ArrayReads>>, {"I64"}, {0, 1})
            EXCEPT !.externals = {"help"},
                   !.generators =
                     <<Generator(<<Cedes, {"external", "cursor_stream"}, {"cede_i64"}>>),
                       Generator(<<{"cede_i64", "cede_f64"}>>),
                       [Generator(<<>>) EXCEPT !.tabled = FALSE],
                       [Generator(<<>>) EXCEPT !.discardable = FALSE]>>])
     EXCEPT !.siblings =
        <<[Script(With(Plain, <<Text(<<1>>)>>), <<{"cede_i64"} \cup {"diagnostic_nota_text"}>>,
                  {"I64"}, {2})
           EXCEPT !.exports = {"help"}]>>]

-----------------------------------------------------------------------------
(* Packages that stop earlier.                                              *)

Helper(exports, externals) == [Plain EXCEPT !.exports = exports, !.externals = externals]
Package(entry, siblings) == [entry |-> entry, siblings |-> siblings]
Caller(symbol) == [Script(Plain, <<{"external"}>>, {"I64"}, {0}) EXCEPT !.externals = {symbol}]

Refusals ==
    {Alone([Plain EXCEPT !.valid = FALSE]),
     Alone([Plain EXCEPT !.admitted = FALSE]),
     Alone([Plain EXCEPT !.signatures = FALSE]),
     Alone([Plain EXCEPT !.hasEntry = FALSE]),
     Alone(Caller("help")),
     Package(Caller("help"), <<Helper({"help"}, {"help"})>>),
     Package(Caller("help"), <<Helper({"help"}, {"aid"}), Helper({"aid"}, {})>>),
     Package(Caller("help"), <<Helper({"aid"}, {}), Helper({"help"}, {"aid"}), Helper({"help"}, {})>>)}
    \cup {Alone([Plain EXCEPT !.table = t]) : t \in {"half", "past", "negative"}}
    \cup {Alone(With(Plain, rows)) :
            rows \in {<<Flags>>, <<[Octeti EXCEPT !.kind = "other"]>>,
                      <<[Text(<<1>>) EXCEPT !.utf8 = FALSE]>>}}

MCPackages ==
    {Alone(g) : g \in {TextGuest, RegexGuest, ListGuest, MapGuest, SetGuest, TensorGuest}}
        \cup {CursorGuest} \cup Refusals

\* Two modules of one package that both have literals.
MCTwoTables ==
    {Package([With(Caller("help"), <<Text(<<1>>)>>) EXCEPT !.body = <<{"external"}, Diagnostics>>],
             <<[Script(With(Plain, <<Text(<<2>>)>>), <<Diagnostics>>, {"I64"}, {0})
                EXCEPT !.exports = {"help"}]>>)}
=============================================================================
