---------------------------- MODULE PlanBinding -----------------------------
(***************************************************************************)
(* Virtual partitions (partition.rs), binding a logical plan to devices     *)
(* (bound_plan.rs), and the translation of a distributed image into a plan  *)
(* with its bind policy (macos-arm64/src/distributed_translate.rs).         *)
(*                                                                         *)
(* Binding reads its arguments and builds a value; a refusal builds none.   *)
(* BindError is the first refusal in the order the code tests, "ok" if none.*)
(***************************************************************************)
EXTENDS PlacementPolicy, TransactionPlan

CONSTANTS
    DefaultBudget,      \* DEFAULT_PARTITION_BUDGET_BYTES
    NoPartition         \* a binding that carries no virtual partition

\* Budgets and the memory facts of discovery are u64, and no driver reports the
\* uuid of a fabricated rank ("GPU-promoted-0" and on; Fabricated).
ASSUME BudgetAssumption ==
    /\ DefaultBudget \in Nat
    /\ \A u \in DOMAIN Units : Units[u].mem <= ByteMax /\ Units[u].uuid < 1000

\* VirtualDevicePartition::admit
Admits(ledger, limit) == LedgerTotal(ledger) <= limit
VirtualPartition(id, device, ledger, limit) ==
    [id |-> id, device |-> device, ledger |-> ledger, limit |-> limit, state |-> "active"]

\* record_failure: the first failure wins, and a torn down partition has none.
RecordFailure(vp, failure) == [vp EXCEPT !.state = IF @ = "active" THEN failure ELSE @]
Teardown(vp) == [vp EXCEPT !.state = "torn_down"]
-----------------------------------------------------------------------------
(* bind.                                                                     *)

\* AdmittedLogicalPlan::admit.  A plan is [hashed, partitions, constraints,
\* demand]; a constraint names partitions that must share a device
\* ("colocated"), have a backend ("backend") or be all apart ("distinct").
LogicalPlanAdmitted(plan) ==
    /\ plan.hashed
    /\ plan.partitions # {}
    /\ \A c \in ToSet(plan.constraints) : c.kind # "distinct" => c.partitions \subseteq plan.partitions

BoundDevices(bindings) == {bindings[p].device : p \in DOMAIN bindings}

\* check_constraint
Satisfies(c, bindings) ==
    CASE c.kind = "distinct" -> Cardinality(BoundDevices(bindings)) = Cardinality(DOMAIN bindings)
      [] c.kind = "colocated" -> Cardinality({bindings[p].device : p \in c.partitions}) <= 1
      [] c.kind = "backend" -> \A p \in c.partitions : BackendOf(bindings[p].device) = c.backend

\* An attached partition binds the same device and is active.
Consistent(b) == b.vp = NoPartition \/ (b.vp.device = b.device /\ b.vp.state = "active")

\* check_launch_resource_limits
LaunchFits(demand, devices, snap) ==
    \A d \in devices :
        LET e == FindEntry(snap, d)
        IN WithinLimit(demand.threads, e.threads) /\ WithinLimit(demand.shared, e.shared)

\* bind without its epoch check, for the mutant of BindError.
BindsStale(plan, bindings, set, snap, current) ==
    CASE ~(set \subseteq IdsOf(snap)) -> "Membership"
      [] DOMAIN bindings # plan.partitions -> "TopologyMismatch"
      [] BoundDevices(bindings) # set -> "TopologyMismatch"
      [] \E p \in DOMAIN bindings : ~Consistent(bindings[p]) -> "InvalidPartitionBinding"
      [] \E c \in ToSet(plan.constraints) : ~Satisfies(c, bindings) -> "ConstraintViolation"
      [] ~LaunchFits(plan.demand, BoundDevices(bindings), snap) -> "LaunchResourceLimit"
      [] OTHER -> "ok"

BindError(plan, bindings, set, snap, current) ==
    CASE SnapshotStale(snap, current) -> "StaleSnapshot"
      [] \E d \in set : ~CurrentMember(snap, current, d) -> "Membership"
      [] DOMAIN bindings # plan.partitions -> "TopologyMismatch"
      [] BoundDevices(bindings) # set -> "TopologyMismatch"
      [] \E p \in DOMAIN bindings : ~Consistent(bindings[p]) -> "InvalidPartitionBinding"
      [] \E c \in ToSet(plan.constraints) : ~Satisfies(c, bindings) -> "ConstraintViolation"
      [] ~LaunchFits(plan.demand, BoundDevices(bindings), snap) -> "LaunchResourceLimit"
      [] OTHER -> "ok"

\* BoundDistributedPlan: one partition binds as the implicit local one.
BoundPlan(plan, bindings, set, snap) ==
    [kind |-> IF Cardinality(plan.partitions) = 1 THEN "implicit_local" ELSE "distributed",
     plan |-> plan, bindings |-> bindings, devices |-> set, snapshot |-> snap]

\* BoundDistributedPlan::receipt
BoundReceipt(bound) ==
    [physical |-> BoundDevices(bound.bindings),
     virtual |-> {bound.bindings[p].vp.id :
                    p \in {p \in DOMAIN bound.bindings : bound.bindings[p].vp # NoPartition}}]
-----------------------------------------------------------------------------
(* Translation.  A wire section lists partitions, buffer sizes, the launch   *)
(* results of its partitions, operations, a boundary and declared budgets.   *)

Translates(wire) == wire.decodes /\ wire.admitted /\ wire.version /\ wire.dtypes

\* The bytes a launch produces: those of the last result that names it.
LaunchOutputBytes(wire, launch) ==
    LET mine == {i \in DOMAIN wire.results : wire.results[i].launch = launch}
    IN IF mine = {} THEN 0
       ELSE LET buffer == wire.results[Max(mine)].buffer
            IN IF buffer \in DOMAIN wire.bytes THEN wire.bytes[buffer] ELSE 0

\* translate_operation
TranslateOperation(wire, op) ==
    IF op.kind = "launch" THEN [op EXCEPT !.bytes = LaunchOutputBytes(wire, op.ref)] ELSE op

\* partition_budget_bytes: the default, overridden by the last declared budget.
PartitionBudget(wire, p) ==
    LET declared == {i \in DOMAIN wire.budgets : wire.budgets[i].partition = p}
    IN IF declared = {} THEN DefaultBudget ELSE wire.budgets[Max(declared)].bytes

TranslatedPlan(wire, constraints) ==
    [hashed |-> TRUE, partitions |-> ToSet(wire.partitions), constraints |-> constraints,
     demand |-> [threads |-> 0, shared |-> 0]]
TranslatedOperations(wire) == [i \in DOMAIN wire.ops |-> TranslateOperation(wire, wire.ops[i])]

\* bind_policy_for_declared_count
BindPolicy(count, bindCount) ==
    CASE bindCount = 1 -> "colocate"
      [] bindCount > 1 /\ bindCount = count -> "one_each"
      [] bindCount > 1 /\ bindCount < count /\ count % bindCount = 0 -> "split"
      [] OTHER -> "unsupported"

\* oq2_default_headroom_policy_bytes: nine tenths, rounded down.
Headroom(total) == (total \div 10) * 9 + ((total % 10) * 9) \div 10

\* partition_ledger: activations and staging, a quarter of the budget each.
PartitionLedger(budget) == <<0, 0, budget \div 4, 0, 0, budget \div 4, 0>>

\* The device of the i-th partition (from 0); Fabricated for a rank past the
\* snapshot, which no snapshot entry has.
Fabricated(i) == CudaId(1000 + i, 0)
Chunk(count, members) == count \div members
\* Dealing partitions out in turn, for the mutant of PolicyDevice.
DealtDevice(policy, snap, count, i) ==
    CASE policy = "colocate" -> snap[1].id
      [] policy = "one_each" -> IF i < Len(snap) THEN snap[i + 1].id ELSE Fabricated(i)
      [] policy = "split" -> snap[(i % Len(snap)) + 1].id

PolicyDevice(policy, snap, count, i) ==
    CASE policy = "colocate" -> snap[1].id
      [] policy = "one_each" -> IF i < Len(snap) THEN snap[i + 1].id ELSE Fabricated(i)
      [] policy = "split" -> snap[(i \div Chunk(count, Len(snap))) + 1].id

\* admit_virtual for every partition, in order, under its device's safe limit.
TranslatedBindings(wire, policy, snap) ==
    [p \in ToSet(wire.partitions) |->
        LET i == (CHOOSE k \in DOMAIN wire.partitions : wire.partitions[k] = p) - 1
            device == PolicyDevice(policy, snap, Len(wire.partitions), i)
        IN [device |-> device,
            vp |-> VirtualPartition(i + 1, device, PartitionLedger(PartitionBudget(wire, p)),
                                    IF device \in IdsOf(snap)
                                    THEN Headroom(FindEntry(snap, device).mem) ELSE 0)]]

ClaimedDevices(policy, snap) == IF policy = "colocate" THEN {snap[1].id} ELSE IdsOf(snap)

\* The first partition, in plan order, that gets no safe limit or exceeds it.
AdmissionErrors(bindings, snap) ==
    LET error(b) == CASE b.device \notin IdsOf(snap) -> "TopologyMismatch"
                      [] ~Admits(b.vp.ledger, b.vp.limit) -> "BudgetExceeded"
                      [] OTHER -> "ok"
        refused == {b \in {bindings[p] : p \in DOMAIN bindings} : error(b) # "ok"}
    IN IF refused = {} THEN "ok"
       ELSE error(CHOOSE b \in refused : \A c \in refused : b.vp.id <= c.vp.id)

\* bind_translated_with_constraints, down to finish_bind, which binds at the
\* initial generation.
TranslatedBindError(wire, policy, bindCount, snap, constraints) ==
    IF snap = NoSnapshot \/ (policy = "split" /\ Len(snap) # bindCount) THEN "TopologyMismatch"
    ELSE LET bindings == TranslatedBindings(wire, policy, snap)
             plan == TranslatedPlan(wire, constraints)
             admission == AdmissionErrors(bindings, snap)
         IN CASE admission # "ok" -> admission
              [] ~LogicalPlanAdmitted(plan) -> "TopologyMismatch"
              [] OTHER -> BindError(plan, bindings, ClaimedDevices(policy, snap), snap,
                                    InitialGeneration)

\* The transaction a bound plan runs: classes 6 and 3 of each partition's ledger.
TransactionOf(wire, bindings) ==
    [ops |-> TranslatedOperations(wire), boundary |-> wire.boundary,
     ledger |-> [p \in DOMAIN bindings |-> [staging |-> bindings[p].vp.ledger[6],
                                           scratch |-> bindings[p].vp.ledger[3]]]]
=============================================================================
