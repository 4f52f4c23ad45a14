-------------------------- MODULE TransactionPlan ---------------------------
(***************************************************************************)
(* The accepted plan of a distributed execution transaction                 *)
(* (execution_transaction/mirror.rs) and what prepare derives from it       *)
(* (reservation.rs): its operations, their writes and events, and the bytes *)
(* they reserve on each partition.                                          *)
(***************************************************************************)
EXTENDS Naturals, Sequences, FiniteSets, FiniteSetsExt

Operation(kind, ref, src, to, parts, bytes) ==
    [kind |-> kind, ref |-> ref, src |-> src, to |-> to, parts |-> parts,
     bytes |-> bytes]

Launch(ref, p, bytes)        == Operation("launch", ref, p, {p}, {p}, bytes)
Transfer(ref, src, dst, bytes) ==
    Operation("transfer", ref, src, {dst}, {src, dst}, bytes)
Broadcast(ref, src, parts, bytes) ==
    Operation("broadcast", ref, src, parts \ {src}, parts, bytes)
Barrier(ref, parts)          == Operation("barrier", ref, 0, {}, parts, 0)

OperationRef(op)    == <<op.kind, op.ref>>
StagedWrites(op)    == {[op |-> OperationRef(op), part |-> p, bytes |-> op.bytes] : p \in op.to}
CompletedEvents(op) == {<<OperationRef(op), p>> : p \in op.parts}

Ops(p)      == {p.ops[i] : i \in 1..Len(p.ops)}
Declared(p) == UNION {StagedWrites(op) : op \in Ops(p)}
WrittenPartitions(p) == UNION {op.to : op \in Ops(p)}
Referenced(p) == UNION {op.parts : op \in Ops(p)}
AllEvents(p)  == UNION {CompletedEvents(op) : op \in Ops(p)}
BoundaryEvents(p) ==
    UNION {CompletedEvents(op) : op \in {o \in Ops(p) : OperationRef(o) \in p.boundary}}

SumBytes(writes) == MapThenSumSet(LAMBDA w : w.bytes, writes)

\* derive_reservation: the class 6 and class 3 bytes of one partition.
EventBytes   == 64
ScratchBytes == 4096
SumOver(p, bytes(_)) == MapThenSumSet(LAMBDA i : bytes(p.ops[i]), 1..Len(p.ops))
StagingBytes(p, part) == SumOver(p, LAMBDA op :
    CASE op.kind = "transfer"  -> (IF op.src = part THEN op.bytes ELSE 0)
                                + (IF part \in op.to THEN op.bytes ELSE 0)
      [] op.kind = "broadcast" -> IF part \in op.parts THEN op.bytes ELSE 0
      [] OTHER -> 0)
OutputBytes(p, part) == SumOver(p, LAMBDA op : IF part \in op.to THEN op.bytes ELSE 0)
ScratchClass(p, part) ==
    OutputBytes(p, part) + ScratchBytes
    + SumOver(p, LAMBDA op : IF part \in op.parts THEN EventBytes ELSE 0)

\* The gates of prepare, before anything is reserved: topology authority,
\* unique operations, declared boundary, admitted ledgers, class budgets.
\* A ledger entry exists for the partitions admitted as virtual partitions.
Admitted(p) ==
    /\ \A i, k \in 1..Len(p.ops) : OperationRef(p.ops[i]) = OperationRef(p.ops[k]) => i = k
    /\ \A ref \in p.boundary :
        ref[1] \in {"barrier", "launch"} /\ ref \in {OperationRef(op) : op \in Ops(p)}
    /\ Referenced(p) \subseteq DOMAIN p.ledger
    /\ \A part \in Referenced(p) :
        /\ StagingBytes(p, part) <= p.ledger[part].staging
        /\ ScratchClass(p, part) <= p.ledger[part].scratch
=============================================================================
