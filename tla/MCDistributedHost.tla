------------------------- MODULE MCDistributedHost --------------------------
(* An instance of DistributedHost for TLC: two CUDA devices and a spare one  *)
(* that offers less, one Metal device, requests whose plans tie, demand too  *)
(* much or overflow, and images on one, two and four partitions.             *)
EXTENDS DistributedHost

Unit(uuid, mem, threads, shared, sms) ==
    [uuid |-> uuid, mem |-> mem, threads |-> threads, shared |-> shared, sms |-> sms]
MCUnits == [u \in {"c1", "c2", "c3", "m1"} |->
    CASE u = "c1" -> Unit(1, 40000, 8, 4, 2)
      [] u = "c2" -> Unit(2, 60000, 8, 4, 4)
      [] u = "c3" -> Unit(3, 20000, 2, 1, 1)
      [] u = "m1" -> Unit(4, 50000, 4, 4, 0)]
MCSmiOrder == <<"c1", "c2", "c3">>
MCStart == [b \in Backends |-> IF b = "cuda" THEN <<"c1", "c2">> ELSE <<"m1">>]
MCSpares == [b \in Backends |-> IF b = "cuda" THEN {"c3"} ELSE {}]
MCNoSpares == [b \in Backends |-> {}]
MCFailing == {{}, {"threads"}, {"mem"}, {"smi", "uuid"}}
MCNoFailing == {{}}

First == CudaId(1, 1)
Second == CudaId(2, 2)

Ledger(bytes) == <<bytes, 0, 0, 0, 0, 0, 0>>
Wrapping == <<ByteMax, 1, 0, 0, 0, 0, 0>>
MCLedgers == {Ledger(36000), Wrapping}

Assign(device, ledger, threads, sms) ==
    [device |-> device, ledger |-> ledger, threads |-> threads, shared |-> 0,
     sms |-> sms, dtypes |-> {}]
Candidate(assigns, transfers, total, latency) ==
    [assigns |-> assigns, transfers |-> transfers, total |-> total,
     facts |-> IF latency = 0 THEN <<>> ELSE [latency |-> latency]]

OnFirst == Candidate(<<Assign(First, Ledger(100), 4, 0)>>, <<>>, 100, 7)
OnSecond == Candidate(<<Assign(Second, Ledger(100), 4, 2)>>, <<>>, 100, 7)
OnBoth == Candidate(<<Assign(Second, Ledger(10), 0, 0), Assign(First, Ledger(10), 0, 0)>>,
                    <<<<First, Second>>>>, 20, 0)
TooMuch == Candidate(<<Assign(First, Wrapping, 0, 0)>>, <<>>, 0, 3)
Undeclared == Candidate(<<Assign(Second, Ledger(0), 0, 0)>>, <<<<Second, First>>>>, 0, 3)

Budgets == (First :> ByteMax) @@ (Second :> ByteMax)
Links == (<<First, Second>> :> "admitted") @@ (<<Second, First>> :> "rejected")
Request(sel, objectives, plans) ==
    [sel |-> sel, budget |-> Budgets, total |-> 1000, links |-> Links,
     objectives |-> objectives, plans |-> plans]
Explicit(ids) == [kind |-> "explicit", ids |-> ids]
Declared2 == [kind |-> "declared", backend |-> "cuda", exclude |-> {}, min |-> 2, max |-> 2]

MCRequests == {
    Request(Explicit({First, Second}), <<"latency">>, <<OnSecond, OnFirst, TooMuch>>),
    Request(Declared2, <<"capacity_reserve", "latency">>, <<OnBoth, OnSecond, Undeclared>>) }

LogicalPlan(partitions, constraints, threads) ==
    [hashed |-> TRUE, partitions |-> partitions, constraints |-> constraints,
     demand |-> [threads |-> threads, shared |-> 0]]
MCLogicalPlans == {
    LogicalPlan({1}, <<>>, 4),
    LogicalPlan({1, 2}, <<[kind |-> "colocated", partitions |-> {1, 2}]>>, 0),
    LogicalPlan({1, 2}, <<[kind |-> "distinct", partitions |-> {}],
                          [kind |-> "backend", partitions |-> {1}, backend |-> "cuda"]>>, 4) }

Image(partitions, ops, results, budgets, boundary, directions) ==
    [decodes |-> TRUE, admitted |-> TRUE, version |-> TRUE, dtypes |-> TRUE,
     partitions |-> partitions, ops |-> ops, results |-> results,
     bytes |-> [b \in {"x"} |-> 8], budgets |-> budgets, boundary |-> boundary,
     directions |-> directions]

Pair == Image(<<1, 2>>,
    <<Launch("a", 1, 0), Transfer("t", 1, 2, 8), Barrier("main", {1, 2})>>,
    <<[launch |-> "a", buffer |-> "x"]>>, <<>>, {<<"barrier", "main">>},
    [r \in {"t"} |-> "d2h"])
Four == Image(<<1, 2, 3, 4>>,
    <<Launch("a", 4, 0), Broadcast("c", 2, {1, 2, 3}, 4), Transfer("t", 3, 3, 8)>>,
    <<>>, <<>>, {}, [r \in {"t"} |-> "h2d"])
MCWires == {
    Pair, Four,
    [Pair EXCEPT !.decodes = FALSE],
    [Pair EXCEPT !.budgets = <<[partition |-> 2, bytes |-> 16 * 1024]>>],
    [Pair EXCEPT !.budgets = <<[partition |-> 1, bytes |-> 100000]>>] }

Value(len) == [owner |-> 1, dtype |-> "f32", layout |-> "dense", generation |-> 1,
               length |-> len]
Copy(owner, generation, offset, length, direction) ==
    [source |-> Value(8), destination |-> 2,
     spec |-> [ref |-> "d", owner |-> owner, destination |-> 2, offset |-> offset,
               length |-> length, dtype |-> "f32", layout |-> "dense",
               generation |-> generation, direction |-> direction]]
MCCopies == {Copy(1, 1, 0, 8, "h2d"), Copy(1, 1, 4, 4, "d2h"), Copy(1, 1, 5, 4, "d2h"),
             Copy(1, 1, 8, 0, "bidi"), Copy(1, 2, 0, 4, "h2d"), Copy(2, 1, 0, 4, "h2d")}
MCSamples == {[direction |-> "h2d", bytes |-> 8, elapsed |-> 2],
              [direction |-> "h2d", bytes |-> 0, elapsed |-> 1],
              [direction |-> "d2h", bytes |-> 8, elapsed |-> 0]}
MCPeerSamples == {[source |-> 1, destination |-> 2, bandwidth |-> 5, latency |-> 1, evidence |-> TRUE],
                  [source |-> 2, destination |-> 1, bandwidth |-> 0, latency |-> 1, evidence |-> TRUE]}
MCRates == [d \in Directions |-> IF d = "h2d" THEN 20 ELSE 40]
MCBudget == [bytes |-> 20, time |-> 10]
=============================================================================
