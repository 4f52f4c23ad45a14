----------------------- MODULE MCExecutionTransaction -----------------------
(* Instances of ExecutionTransaction for TLC.  The plans are those of       *)
(* execution_transaction_test.rs on two and three partitions: a launch, a   *)
(* transfer, a broadcast and a barrier, with and without a boundary, and    *)
(* plans that prepare refuses.                                             *)
EXTENDS ExecutionTransaction

Ledger(parts, staging, scratch) ==
    [p \in parts |-> [staging |-> staging, scratch |-> scratch]]

TwoPartitionOps ==
    <<Launch("a", 1, 8), Transfer("t", 1, 2, 8), Barrier("main", {1, 2}),
      Launch("b", 2, 4)>>
BroadcastOps ==
    <<Launch("a", 2, 8), Broadcast("c", 1, {1, 2, 3}, 4), Barrier("main", {1, 2, 3})>>

Generous == Ledger({1, 2, 3}, 4096, 8192)

MCPlans == {
    [ops |-> TwoPartitionOps, ledger |-> Generous,
     boundary |-> {<<"barrier", "main">>, <<"launch", "b">>}],
    [ops |-> BroadcastOps, ledger |-> Generous, boundary |-> {<<"barrier", "main">>}],
    [ops |-> <<Launch("a", 2, 0), Transfer("t", 2, 2, 8)>>, ledger |-> Generous,
     boundary |-> {}],
    \* refused: class 3 is one event object short, class 6 one byte short,
    \* a duplicate operation, an undeclared boundary
    [ops |-> <<Launch("a", 1, 8)>>, ledger |-> Ledger({1}, 8, 4096 + 8 + 63),
     boundary |-> {}],
    [ops |-> <<Transfer("t", 1, 2, 8)>>, ledger |-> Ledger({1, 2}, 7, 8192),
     boundary |-> {}],
    [ops |-> <<Launch("a", 1, 8), Launch("a", 2, 8)>>, ledger |-> Generous,
     boundary |-> {}],
    [ops |-> <<Launch("a", 1, 8)>>, ledger |-> Generous,
     boundary |-> {<<"barrier", "main">>}] }
=============================================================================
