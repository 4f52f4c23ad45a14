---------------------------- MODULE GuestTensors ----------------------------
(***************************************************************************)
(* The tensor imports of wasm/src/imports.rs: a dense row-major vector of   *)
(* values and a shape.  Shapes and indices arrive as handles of lists.      *)
(***************************************************************************)
EXTENDS GuestHandles

\* read_index_vector.
IsIndexVector(st, h) ==
    /\ IsCollection(st, h)
    /\ \A i \in DOMAIN st.dynamic[h].values : st.dynamic[h].values[i].c \in {"I64", "I32"}
IndexVector(st, h) == [i \in DOMAIN st.dynamic[h].values |-> st.dynamic[h].values[i].v]

\* tensor_value_from_carrier of an f64: only float tensors take one.
TakesFloat(kind) == kind = "F64"

TensorNew(st, kind) == AllocDynamic(st, Tensor(kind, <<>>, <<>>))

TensorCreate(st, seed, fill, shape) ==
    IF IsTensor(st, seed) /\ IsIndexVector(st, shape)
    THEN LET dims == IndexVector(st, shape) IN
         IF ShapeCount(dims) >= 0 /\ TakesFloat(st.dynamic[seed].kind)
         THEN AllocDynamic(st, Tensor(st.dynamic[seed].kind, dims,
                                      [i \in 1 .. ShapeCount(dims) |-> F64(fill)]))
         ELSE Refused(st)
    ELSE Refused(st)

TensorFromFlat(st, seed, flat, shape) ==
    IF IsTensor(st, seed) /\ IsIndexVector(st, shape) /\ IsCollection(st, flat)
    THEN LET dims == IndexVector(st, shape) values == st.dynamic[flat].values IN
         IF Len(values) = ShapeCount(dims)
         THEN AllocDynamic(st, Tensor(st.dynamic[seed].kind, dims, values))
         ELSE Refused(st)
    ELSE Refused(st)

TensorRank(st, h) ==
    IF IsTensor(st, h) THEN Ok(st, Len(st.dynamic[h].shape)) ELSE Refused(st)
TensorShape(st, h) ==
    IF IsTensor(st, h)
    THEN AllocDynamic(st, Collection(FALSE, "I64",
             [i \in DOMAIN st.dynamic[h].shape |-> I64(st.dynamic[h].shape[i])]))
    ELSE Refused(st)

\* Mutant: the element count is not compared.
ReshapeUnchecked(st, h, shape) ==
    IF IsTensor(st, h) /\ IsIndexVector(st, shape)
    THEN AllocDynamic(st, Tensor(st.dynamic[h].kind, IndexVector(st, shape),
                                 st.dynamic[h].values))
    ELSE Refused(st)
TensorReshape(st, h, shape) ==
    IF IsTensor(st, h) /\ IsIndexVector(st, shape)
    THEN LET dims == IndexVector(st, shape) IN
         IF Len(st.dynamic[h].values) = ShapeCount(dims)
         THEN AllocDynamic(st, Tensor(st.dynamic[h].kind, dims, st.dynamic[h].values))
         ELSE Refused(st)
    ELSE Refused(st)

ElementAt(tensor, index) ==
    LET at == FlatOffset(tensor.shape, index)
    IN IF at \in 0 .. (Len(tensor.values) - 1) THEN tensor.values[at + 1] ELSE NoValue
TensorGet(st, h, index) ==
    IF IsTensor(st, h) /\ IsIndexVector(st, index)
    THEN OptionResult(st, st.dynamic[h].kind,
                      ElementAt(st.dynamic[h], IndexVector(st, index)))
    ELSE Refused(st)

\* An index off the shape is fatal; an offset past the values is ignored.
TensorSet(st, h, index, value) ==
    IF IsTensor(st, h) /\ IsIndexVector(st, index)
    THEN LET at == FlatOffset(st.dynamic[h].shape, IndexVector(st, index)) IN
         IF at >= 0 /\ TakesFloat(st.dynamic[h].kind)
         THEN Ok(IF at < Len(st.dynamic[h].values)
                 THEN [st EXCEPT !.dynamic[h].values[at + 1] = F64(value)] ELSE st, 0)
         ELSE Refused(st)
    ELSE Refused(st)

TensorFill(st, h, value) ==
    IF IsTensor(st, h) /\ TakesFloat(st.dynamic[h].kind)
    THEN Ok([st EXCEPT !.dynamic[h].values =
                 [i \in 1 .. ShapeCount(st.dynamic[h].shape) |-> F64(value)]], h)
    ELSE Refused(st)

TensorFlatten(st, h) ==
    IF IsTensor(st, h)
    THEN AllocDynamic(st, Collection(FALSE, st.dynamic[h].kind, st.dynamic[h].values))
    ELSE Refused(st)
TensorMaterialize(st, h) ==
    IF IsTensor(st, h) THEN AllocDynamic(st, st.dynamic[h]) ELSE Refused(st)

\* Mutant: the row length is the first dimension, not the rest of the shape.
SliceByFirst(tensor, start, end) ==
    LET row == Head(tensor.shape) IN
    Tensor(tensor.kind, <<end - start>> \o Tail(tensor.shape),
           [i \in 1 .. ((end - start) * ShapeCount(Tail(tensor.shape))) |->
                tensor.values[((start * row + i - 1) % Len(tensor.values)) + 1]])
\* The rows start .. end - 1 of the first axis.
Sliced(tensor, start, end) ==
    LET row == ShapeCount(Tail(tensor.shape)) IN
    Tensor(tensor.kind, <<end - start>> \o Tail(tensor.shape),
           SubSeq(tensor.values, start * row + 1, end * row))
CanSlice(tensor, start, end) ==
    /\ tensor.shape # <<>>
    /\ 0 <= start /\ start <= end /\ end <= Head(tensor.shape)
TensorSlice(st, h, start, end) ==
    IF IsTensor(st, h) /\ CanSlice(st.dynamic[h], start, end)
    THEN AllocDynamic(st, Sliced(st.dynamic[h], start, end))
    ELSE Refused(st)

\* tensor_binary_values: elementwise over equal counts, floats with floats
\* and integers with integers; the shape is the left one's.
Combined(op, a, b) ==
    CASE op = "tensor_add" -> a + b [] op = "tensor_sub" -> a - b [] OTHER -> a * b
TensorBinary(st, op, left, right) ==
    IF IsTensor(st, left) /\ IsTensor(st, right)
    THEN LET l == st.dynamic[left] r == st.dynamic[right] IN
         IF /\ Len(l.values) = Len(r.values)
            /\ \A i \in DOMAIN l.values : /\ l.values[i].c = r.values[i].c
                                          /\ l.values[i].c \in {"F64", "I64"}
         THEN AllocDynamic(st, Tensor(l.kind, l.shape,
                  [i \in DOMAIN l.values |->
                     [c |-> l.values[i].c, v |-> Combined(op, l.values[i].v, r.values[i].v)]]))
         ELSE Refused(st)
    ELSE Refused(st)

\* Rank 2 by rank 2; an empty inner dimension leaves the float zero.
TensorMatmul(st, left, right) ==
    IF /\ IsTensor(st, left) /\ IsTensor(st, right)
       /\ Len(st.dynamic[left].shape) = 2 /\ Len(st.dynamic[right].shape) = 2
       /\ st.dynamic[left].shape[2] = st.dynamic[right].shape[1]
    THEN LET l == st.dynamic[left]
             r == st.dynamic[right]
             m == l.shape[1]  k == l.shape[2]  n == r.shape[2]
             A(row, j) == l.values[row * k + j + 1]
             B(j, col) == r.values[j * n + col + 1]
             Cell(row, col) ==
                [c |-> IF k = 0 THEN "F64" ELSE A(row, 0).c,
                 v |-> FoldFunction(+, 0, [j \in 1 .. k |-> A(row, j - 1).v * B(j - 1, col).v])]
             mixed == \E row \in 0 .. (m - 1), j \in 0 .. (k - 1), col \in 0 .. (n - 1) :
                         \/ A(row, j).c # B(j, col).c
                         \/ A(row, j).c \notin {"F64", "I64"}
         IN IF mixed THEN Refused(st)
            ELSE AllocDynamic(st, Tensor(l.kind, <<m, n>>,
                     [i \in 1 .. (m * n) |-> Cell((i - 1) \div n, (i - 1) % n)]))
    ELSE Refused(st)

\* tensor_sum and tensor_mean.
Summable(tensor) == \A i \in DOMAIN tensor.values : tensor.values[i].c \in {"F64", "I64", "I32"}
TensorSum(st, h) ==
    IF IsTensor(st, h) /\ Summable(st.dynamic[h])
    THEN Ok(st, FoldLeft(LAMBDA acc, value : acc + value.v, 0, st.dynamic[h].values))
    ELSE Refused(st)
TensorMean(st, h) ==
    IF IsTensor(st, h) /\ Summable(st.dynamic[h]) /\ st.dynamic[h].values # <<>>
    THEN Ok(st, TensorSum(st, h).ret \div Len(st.dynamic[h].values))
    ELSE Refused(st)

\* convert_tensor_value: between numeric kinds, from the carrier of `from`.
Numeric == {"I32", "I64", "F64"}
TensorConvert(st, h, from, to) ==
    IF /\ IsTensor(st, h)
       /\ \A i \in DOMAIN st.dynamic[h].values :
             {from, to} \subseteq Numeric /\ st.dynamic[h].values[i].c = from
    THEN AllocDynamic(st, Tensor(to, st.dynamic[h].shape,
             [i \in DOMAIN st.dynamic[h].values |->
                [c |-> to, v |-> st.dynamic[h].values[i].v]]))
    ELSE Refused(st)
=============================================================================
