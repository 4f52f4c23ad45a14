---------------------------- MODULE GuestValues ----------------------------
(***************************************************************************)
(* The values a guest module keeps in the Wasm product host's arenas        *)
(* (wasm/src/collections.rs).  Wasm carries every element as an i64; the    *)
(* host reads it by the element kind its aggregate declares.  The fifteen   *)
(* kind codes fall into six classes that the host treats alike.             *)
(***************************************************************************)
EXTENDS Integers, Sequences, SequencesExt, FiniteSetsExt, Functions

Kinds == {"I1", "I32", "I64", "F64", "TEXT", "PTR"}

\* RuntimeValue: the carrier c and the number or handle v in it.
Carrier == [I1 |-> "I1", I32 |-> "I32", I64 |-> "I64", F64 |-> "F64",
            TEXT |-> "Handle", PTR |-> "Handle"]
RuntimeValue == [c : {"I1", "I32", "I64", "F64", "Handle"}, v : Int]
I64(n) == [c |-> "I64", v |-> n]
F64(n) == [c |-> "F64", v |-> n]
Handle(h) == [c |-> "Handle", v |-> h]
NoValue == [c |-> "None", v |-> 0]

\* f64::to_bits and from_bits of the small non-negative floats: 0.0 is zero,
\* any other float is far above the integers it could be mistaken for.
BitBase == 1000
ToBits(f) == IF f = 0 THEN 0 ELSE BitBase + f
FromBits(x) == IF x = 0 THEN 0 ELSE x - BitBase

\* value_from_i64: NoValue for a kind code the host does not know.
ValueFromI64(kind, x) ==
    IF kind \notin Kinds THEN NoValue
    ELSE [c |-> Carrier[kind],
          v |-> CASE kind = "I1" -> (IF x # 0 THEN 1 ELSE 0)
                  [] kind = "F64" -> FromBits(x)
                  [] OTHER -> x]

ValueToI64(value) == IF value.c = "F64" THEN ToBits(value.v) ELSE value.v

-----------------------------------------------------------------------------
(* Aggregates.                                                              *)

Collection(set, kind, values) ==
    [t |-> "Collection", set |-> set, kind |-> kind, values |-> values]
MapOf(keyKind, valueKind, entries) ==
    [t |-> "Map", keyKind |-> keyKind, valueKind |-> valueKind, entries |-> entries]
OptionOf(kind, payload) == [t |-> "Option", kind |-> kind, payload |-> payload]
Tensor(kind, shape, values) ==
    [t |-> "Tensor", kind |-> kind, shape |-> shape, values |-> values]

\* tensor_shape_element_count: None (-1) for a negative dimension.
ShapeCount(shape) ==
    IF \E i \in DOMAIN shape : shape[i] < 0 THEN -1
    ELSE FoldFunction(LAMBDA x, y : x * y, 1, shape)

\* tensor_flat_offset: row-major; None (-1) off the shape or of another rank.
FlatOffset(shape, index) ==
    LET Stride(i) == ShapeCount(SubSeq(shape, i + 1, Len(shape))) IN
    IF \/ Len(shape) # Len(index)
       \/ \E i \in DOMAIN shape : index[i] \notin 0 .. (shape[i] - 1)
    THEN -1
    ELSE FoldFunction(+, 0, [i \in DOMAIN shape |-> index[i] * Stride(i)])

\* CursorYieldBuffer: the kind is that of the first yield ("None" before it).
EmptyBuffer == [kind |-> "None", values |-> <<>>]
Mismatched(buffer, kind) == buffer.kind \notin {"None", kind}
Yielded(buffer, kind, value) ==
    [kind |-> kind, values |-> Append(buffer.values, value)]
=============================================================================
