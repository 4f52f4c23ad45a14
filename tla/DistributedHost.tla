-------------------------- MODULE DistributedHost ---------------------------
(***************************************************************************)
(* The distributed half of the host as its caller drives it: hardware that  *)
(* changes, probes, the placement policy, virtual partitions, the two ways  *)
(* to bind a plan, the device backend that runs a bound plan                *)
(* (macos-arm64/src/transaction_backend.rs) and the transport adapter below *)
(* it.                                                                      *)
(*                                                                         *)
(* One caller owns all of it, so every call is one action; `last` is what   *)
(* the latest planning call returned.  A caller that uses the adapter alone *)
(* takes no probe (AdapterOnly), and one that runs a plan does not plan     *)
(* meanwhile.                                                               *)
(***************************************************************************)
EXTENDS PlanBinding, Transport

CONSTANTS
    Start,          \* backend -> the units in place at start, by ordinal
    Spares,         \* backend -> units that may replace one in place
    FailingQueries, \* the sets of driver queries that fail in one probe
    Requests,       \* policy requests
    Ledgers,        \* ledgers a caller admits partitions with
    LogicalPlans,   \* plans bound directly
    Wires,          \* distributed sections of images
    BindCounts,     \* bind counts a caller declares
    Copies,         \* [spec, source, destination] of direct copies
    Samples,        \* [direction, bytes, elapsed] of rate measurements
    PeerSamples,    \* peer pair measurements
    MaxEpoch,       \* bound on observed changes
    MaxStaged,      \* bound on staged copies of a lone adapter
    MaxSamples      \* bound on measurements

\* The hardware of the start and the spares are units, each in one slot.
ASSUME HardwareAssumption ==
    /\ Start \in [Backends -> Seq(DOMAIN Units)] /\ \A b \in Backends : IsInjective(Start[b])
    /\ Spares \in [Backends -> SUBSET DOMAIN Units]

\* Epochs start at the initial generation.
ASSUME EpochAssumption == MaxEpoch \in Nat /\ MaxEpoch >= InitialGeneration

\* Byte counts and demands of a request are unsigned, its budgets and facts u64.
ASSUME RequestsAssumption ==
    \A req \in Requests :
        /\ req.plans \in Seq(ToSet(req.plans))
        /\ \A d \in DOMAIN req.budget : req.budget[d] \in 0 .. ByteMax
        /\ \A plan \in ToSet(req.plans) :
            /\ plan.assigns \in Seq(Assigned(plan))
            /\ \A a \in Assigned(plan) :
                a.ledger \in Seq(Nat) /\ a.sms \in Nat /\ a.threads \in Nat /\ a.shared \in Nat
            /\ \A f \in DOMAIN plan.facts : plan.facts[f] \in 0 .. ByteMax

\* The ledgers and demands of a caller's own partitions and plans are unsigned.
ASSUME CallersAssumption ==
    /\ Ledgers \subseteq Seq(Nat)
    /\ \A plan \in LogicalPlans : plan.demand.threads \in Nat /\ plan.demand.shared \in Nat
    /\ BindCounts \subseteq Nat

\* What an accepted image's vectors and operations are (TransactionPlan): each
\* partition is listed once.
ASSUME ImagesAssumption ==
    \A wire \in Wires :
        /\ wire.partitions \in Seq(Nat) /\ IsInjective(wire.partitions)
        /\ wire.budgets \in Seq(ToSet(wire.budgets))
        /\ \A i \in DOMAIN wire.budgets : wire.budgets[i].bytes \in Nat
        /\ wire.ops \in Seq(ToSet(wire.ops))
        /\ \A op \in ToSet(wire.ops) :
            /\ op = Operation(op.kind, op.ref, op.src, op.to, op.parts, op.bytes)
            /\ op.kind \in {"launch", "transfer", "broadcast", "barrier"}
            /\ op.bytes \in Nat /\ op.parts \subseteq Nat /\ IsFiniteSet(op.parts)
            /\ op.kind # "barrier" => op.src \in op.parts
            /\ op.to \subseteq op.parts
            /\ op.kind = "transfer" => wire.directions[op.ref] \in Directions

\* A caller's own copies and measurements carry u64 counts.
ASSUME CopiesAssumption ==
    /\ \A c \in Copies : c.spec.length \in Nat /\ c.spec.direction \in Directions
    /\ \A s \in Samples : s.direction \in Directions /\ s.bytes \in Nat /\ s.elapsed \in Nat

VARIABLES
    hw,         \* backend -> sequence of units, by ordinal
    epoch,      \* the caller's current DeviceHealthGeneration
    observed,   \* whether the epoch accounts for every hardware change
    snap,       \* the caller's DeviceDiscoverySnapshot
    probe,      \* ghost: [backend, present] of that snapshot
    part,       \* a VirtualDevicePartition of the caller, or NoPartition
    last,       \* what the latest planning call returned, until anything changes
    rt,         \* DeviceRuntimeBackend, or Closed
    tr,         \* its HostStagedAdapter, or a lone one
    pairs       \* PeerPairRegistry: the admitted directed pairs

vars == <<hw, epoch, observed, snap, probe, part, last, rt, tr, pairs>>
planning == <<epoch, observed, snap, probe, part, last>>

Nothing == [op |-> "nothing"]
Closed == [state |-> "closed"]
Unprobed == [backend |-> "none"]

Planning == rt = Closed /\ tr = NewAdapter /\ pairs = {}
\* A call never reads the result of the one before, so it is made from a state
\* that holds none.
Idle == Planning /\ last = Nothing
AdapterOnly == rt = Closed /\ hw = Start /\ snap = NoSnapshot /\ part = NoPartition

Init ==
    /\ hw = Start /\ epoch = InitialGeneration /\ observed = TRUE
    /\ snap = NoSnapshot /\ probe = Unprobed
    /\ part = NoPartition /\ last = Nothing
    /\ rt = Closed /\ tr = NewAdapter /\ pairs = {}
-----------------------------------------------------------------------------
(* The hardware and the caller's epoch.                                      *)

\* A unit is replaced in its slot.
Replace(b, i, u) ==
    /\ Planning
    /\ i \in DOMAIN hw[b] /\ u \in Spares[b] \ ToSet(hw[b])
    /\ hw' = [hw EXCEPT ![b][i] = u] /\ observed' = FALSE /\ last' = Nothing
    /\ UNCHANGED <<epoch, snap, probe, part, rt, tr, pairs>>

\* The driver numbers the same units otherwise (CUDA_VISIBLE_DEVICES).
Renumber(b) ==
    /\ Planning
    /\ hw' = [hw EXCEPT ![b] = Reverse(@)] /\ last' = Nothing
    /\ UNCHANGED <<epoch, observed, snap, probe, part, rt, tr, pairs>>

\* DeviceHealthGeneration::advance on an observed change.
Advance ==
    /\ Planning /\ ~observed /\ epoch < MaxEpoch
    /\ epoch' = epoch + 1 /\ observed' = TRUE /\ last' = Nothing
    /\ UNCHANGED <<hw, snap, probe, part, rt, tr, pairs>>

\* A snapshot: discover_cuda_snapshot and discover_metal_snapshot stamp the
\* initial generation, a caller that builds entries itself its own epoch.
Probe(b, generation, failing) ==
    /\ Planning
    /\ Enumerates(b, hw[b], failing)
    /\ snap' = Enumerated(b, hw[b], failing, generation)
    /\ probe' = [backend |-> b, present |-> hw[b]]
    /\ last' = Nothing
    /\ UNCHANGED <<hw, epoch, observed, part, rt, tr, pairs>>

\* Queries that leave a device without any uuid fail the whole probe.
ProbeFails(b, failing) ==
    /\ Idle
    /\ ~Enumerates(b, hw[b], failing)
    /\ last' = [op |-> "probe_failed"]
    /\ UNCHANGED <<hw, epoch, observed, snap, probe, part, rt, tr, pairs>>
-----------------------------------------------------------------------------
(* Planning calls.                                                           *)

EvaluatePolicy(req) ==
    /\ Idle /\ snap # NoSnapshot
    /\ last' = [op |-> "evaluate", req |-> req, current |-> epoch,
                outcome |-> Evaluate(req, snap, epoch)]
    /\ UNCHANGED <<hw, epoch, observed, snap, probe, part, rt, tr, pairs>>

\* VirtualDevicePartition::admit on a device of the snapshot, under the
\* headroom policy.
AdmitPartition(device, ledger) ==
    LET limit == Headroom(FindEntry(snap, device).mem)
    IN /\ Planning /\ part = NoPartition
       /\ part' = IF Admits(ledger, limit) THEN VirtualPartition(1, device, ledger, limit)
                  ELSE NoPartition
       /\ last' = Nothing
       /\ UNCHANGED <<hw, epoch, observed, snap, probe, rt, tr, pairs>>

\* record_allocation_failure, report_device_loss
FailPartition(failure) ==
    /\ Planning /\ part # NoPartition
    /\ part' = RecordFailure(part, failure) /\ last' = Nothing
    /\ UNCHANGED <<hw, epoch, observed, snap, probe, rt, tr, pairs>>

TeardownPartition ==
    /\ Planning /\ part # NoPartition
    /\ part' = Teardown(part) /\ last' = Nothing
    /\ UNCHANGED <<hw, epoch, observed, snap, probe, rt, tr, pairs>>

\* Every way to bind the partitions of a plan, with or without the partition.
Bindings(plan) ==
    [plan.partitions -> [device : IdsOf(snap), vp : {NoPartition, part}]]

Bound(op, error, bound, current) ==
    IF error = "ok"
    THEN [op |-> op, current |-> current, bound |-> bound]
    ELSE [op |-> op, error |-> error]

\* bind, called with the caller's own epoch.
BindDirect(plan, bindings, set) ==
    /\ Idle /\ snap # NoSnapshot
    /\ LogicalPlanAdmitted(plan)
    /\ last' = Bound("bind", BindError(plan, bindings, set, snap, epoch),
                     BoundPlan(plan, bindings, set, snap), epoch)
    /\ UNCHANGED <<hw, epoch, observed, snap, probe, part, rt, tr, pairs>>

\* prepare_distributed_image: translate, choose a policy, bind, and prepare a
\* transaction on a fake backend that refuses nothing.
PrepareError(wire, count) ==
    LET policy == BindPolicy(Len(wire.partitions), count)
        bindings == TranslatedBindings(wire, policy, snap)
        error == TranslatedBindError(wire, policy, count, snap, <<>>)
    IN CASE ~Translates(wire) -> "translate"
         [] policy = "unsupported" -> "unsupported"
         [] error # "ok" -> error
         [] ~Admitted(TransactionOf(wire, bindings)) -> "transaction"
         [] OTHER -> "ok"
PrepareImage(wire, count) ==
    LET policy == BindPolicy(Len(wire.partitions), count)
        bindings == TranslatedBindings(wire, policy, snap)
        error == PrepareError(wire, count)
    IN /\ Idle /\ snap # NoSnapshot
       /\ last' = IF error # "ok" THEN [op |-> "prepare", error |-> error]
                  ELSE [op |-> "prepare", current |-> InitialGeneration,
                        bound |-> BoundPlan(TranslatedPlan(wire, <<>>), bindings,
                                            ClaimedDevices(policy, snap), snap),
                        wire |-> wire, count |-> count]
       /\ UNCHANGED <<hw, epoch, observed, snap, probe, part, rt, tr, pairs>>

\* resolve_device_selection: the backend to open, "cpu" for none, or an error.
ResolveSelection(selection, requires, admitted) ==
    CASE selection = "auto" /\ ~requires -> "cpu"
      [] selection = "auto" /\ Cardinality(admitted) = 1 -> CHOOSE b \in admitted : TRUE
      [] selection = "auto" -> "E_BACKEND_UNAVAILABLE"
      [] ~requires -> "E_NO_DEVICE_PROGRAM"
      [] selection \in admitted -> selection
      [] OTHER -> "E_BACKEND_UNAVAILABLE"

\* open_live: probe, select the only device, enumerate again to open it.
OpenError(b, first, second) ==
    CASE ~Enumerates(b, hw[b], first) -> "E_BACKEND_UNAVAILABLE"
      [] Len(hw[b]) # 1 -> "E_BACKEND_UNAVAILABLE"
      [] ~Enumerates(b, hw[b], second) -> "E_BACKEND_UNAVAILABLE"
      [] Enumerated(b, hw[b], first, InitialGeneration)[1].id
            \notin IdsOf(Enumerated(b, hw[b], second, InitialGeneration)) -> "E_INVALID_ARGS"
      [] OTHER -> "ok"

\* admit_implicit_local: one partition, no byte budget, the initial generation.
ImplicitLocal(found) ==
    LET id == found[1].id
        plan == [hashed |-> TRUE, partitions |-> {1}, constraints |-> <<>>,
                 demand |-> [threads |-> 0, shared |-> 0]]
        bindings == [p \in {1} |->
            [device |-> id, vp |-> VirtualPartition(1, id, <<0, 0, 0, 0, 0, 0, 0>>, ByteMax)]]
    IN Bound("open", BindError(plan, bindings, {id}, found, InitialGeneration),
             BoundPlan(plan, bindings, {id}, found), InitialGeneration)

\* CompositeHost::new
OpenHost(selection, requires, admitted, first, second) ==
    LET b == ResolveSelection(selection, requires, admitted)
    IN /\ Idle /\ snap = NoSnapshot
       /\ last' = CASE b \notin Backends -> [op |-> "open", error |-> b]
                    [] OpenError(b, first, second) # "ok" ->
                        [op |-> "open", error |-> OpenError(b, first, second)]
                    [] OTHER -> ImplicitLocal(Enumerated(b, hw[b], first, InitialGeneration))
       /\ UNCHANGED <<hw, epoch, observed, snap, probe, part, rt, tr, pairs>>
-----------------------------------------------------------------------------
(* The device backend.                                                       *)

Partitions == DOMAIN rt.devices
CurrentOp == rt.txn.ops[rt.at]

\* DeviceRuntimeSet::from_members and DeviceRuntimeBackend::new.  The caller is
\* done planning; running does not look at the hardware again, so a plan is run
\* on the hardware of the start only.
OpenBackend(members) ==
    /\ Planning /\ hw = Start
    /\ last.op = "prepare" /\ "bound" \in DOMAIN last
    /\ LET bindings == last.bound.bindings
           usable == members # {} /\ BoundDevices(bindings) \subseteq members
       IN IF usable
          THEN /\ rt' = [state |-> "preparing", txn |-> TransactionOf(last.wire, bindings),
                         directions |-> last.wire.directions,
                         devices |-> [p \in DOMAIN bindings |-> bindings[p].device],
                         at |-> 1, held |-> {}, res |-> [p \in DOMAIN bindings |-> 0],
                         live |-> [d \in members |-> 0], modules |-> {}, events |-> {}]
               /\ last' = Nothing /\ snap' = NoSnapshot /\ probe' = Unprobed /\ part' = NoPartition
          ELSE /\ last' = [op |-> "backend", error |-> "E_INVALID_ARGS"]
               /\ UNCHANGED <<rt, snap, probe, part>>
    /\ UNCHANGED <<hw, epoch, observed, tr, pairs>>

\* An allocation that its caller forgets when the next step fails, for the
\* mutant of Alloc.
AllocUntracked(r, p, n) ==
    [r EXCEPT !.res[p] = IF n = 1 THEN @ ELSE @ + n, !.live[r.devices[p]] = @ + n]

\* alloc: n buffers on the partition's device, tracked under the partition.
Alloc(r, p, n) == [r EXCEPT !.res[p] = @ + n, !.live[r.devices[p]] = @ + n]

\* reserve allocates the classes with bytes: outputs, staging, scratch.
ReserveCount(p) ==
    Cardinality({c \in {"outputs", "staging", "scratch"} :
        CASE c = "outputs" -> OutputBytes(rt.txn, p) > 0
          [] c = "staging" -> StagingBytes(rt.txn, p) > 0
          [] c = "scratch" -> TRUE})
NextReserved == Min(Referenced(rt.txn) \ rt.held)

Reserve ==
    /\ rt.state = "preparing"
    /\ IF Referenced(rt.txn) \subseteq rt.held
       THEN rt' = [rt EXCEPT !.state = IF rt.txn.ops = <<>> THEN "done" ELSE "running"]
       ELSE rt' = [Alloc(rt, NextReserved, ReserveCount(NextReserved)) EXCEPT
                        !.held = @ \cup {NextReserved}]
    /\ UNCHANGED <<hw, planning, tr, pairs>>

\* The n-th allocation of reserve fails: the earlier ones stay tracked.
ReserveFails(n) ==
    /\ rt.state = "preparing" /\ ~(Referenced(rt.txn) \subseteq rt.held)
    /\ n < ReserveCount(NextReserved)
    /\ rt' = [Alloc(rt, NextReserved, n) EXCEPT !.state = "failed"]
    /\ UNCHANGED <<hw, planning, tr, pairs>>

\* run_operation works on c = [rt, tr, ok].  A fault names the step that fails.
LaunchFaults == {"module", "alloc1", "alloc2", "device"}
CopyFaults == {"alloc1", "src", "failed", "timeout", "alloc2", "dst"}

RunLaunch(c, op, fault) ==
    LET p == op.src
        loaded == [c.rt EXCEPT !.modules = @ \cup {c.rt.devices[p]}]
        ended(r, ok) == [rt |-> r, tr |-> c.tr, ok |-> ok]
    IN CASE op.bytes = 0 -> c
         [] fault = "module" /\ c.rt.devices[p] \notin c.rt.modules -> ended(c.rt, FALSE)
         [] fault = "alloc1" -> ended(loaded, FALSE)
         [] fault = "alloc2" -> ended(Alloc(loaded, p, 1), FALSE)
         [] fault = "device" -> ended(Alloc(loaded, p, 2), FALSE)
         [] OTHER -> ended(Alloc(loaded, p, 2), TRUE)

\* host_stage_copy: the source is written, read back, moved by the adapter,
\* written to the destination and read back there; a readback that differs from
\* the pattern written fails like a device error.
HostStageCopy(c, spec, fault) ==
    LET source == [owner |-> spec.owner, dtype |-> spec.dtype, layout |-> spec.layout,
                   generation |-> spec.generation, length |-> spec.length]
        outcome == IF fault \in {"failed", "timeout"} THEN fault ELSE "ok"
        moved == CopyResult(c.tr, spec, source, spec.destination, outcome) = "ok"
        after == Copied(c.tr, spec, source, spec.destination, outcome)
        one == Alloc(c.rt, spec.owner, 1)
        two == Alloc(one, spec.destination, 1)
    IN CASE fault = "alloc1" -> [c EXCEPT !.ok = FALSE]
         [] fault = "src" -> [c EXCEPT !.rt = one, !.ok = FALSE]
         [] ~moved \/ fault = "alloc2" -> [rt |-> one, tr |-> after, ok |-> FALSE]
         [] fault = "dst" -> [rt |-> two, tr |-> after, ok |-> FALSE]
         [] OTHER -> [rt |-> two, tr |-> after, ok |-> TRUE]

\* TransferSpec::from_mirror, and the spec a broadcast makes per participant.
SpecOf(op, dst) ==
    [ref |-> <<OperationRef(op), dst>>, owner |-> op.src, destination |-> dst, offset |-> 0,
     length |-> op.bytes, dtype |-> "f32", layout |-> "dense", generation |-> 0,
     direction |-> IF op.kind = "broadcast" THEN "bidi" ELSE rt.directions[op.ref]]

\* A loop over the destinations that does not stop at a failed one, for the
\* mutant of RunCopies.
RunCopiesOn(c, op, fault, target) ==
    MapThenFoldSet(LAMBDA dst, acc :
                [HostStageCopy(acc, SpecOf(op, dst), IF dst = target THEN fault ELSE "none")
                    EXCEPT !.ok = TRUE],
             c, LAMBDA dst : dst, Max, op.to)

\* The copies of a transfer or a broadcast, in participant order (the fold takes
\* the greatest last), up to the first that fails.
RunCopies(c, op, fault, target) ==
    MapThenFoldSet(LAMBDA dst, acc :
                IF acc.ok
                THEN HostStageCopy(acc, SpecOf(op, dst), IF dst = target THEN fault ELSE "none")
                ELSE acc,
             c, LAMBDA dst : dst, Max, op.to)

RunOperation(op, fault, target) ==
    LET c == [rt |-> rt, tr |-> tr, ok |-> TRUE]
    IN CASE op.kind = "launch" -> RunLaunch(c, op, fault)
         [] op.kind \in {"transfer", "broadcast"} -> RunCopies(c, op, fault, target)
         [] op.kind = "barrier" -> [c EXCEPT !.ok = fault # "sync"]

FaultsOf(op) ==
    CASE op.kind = "launch" -> LaunchFaults \X op.to
      [] op.kind \in {"transfer", "broadcast"} -> CopyFaults \X op.to
      [] op.kind = "barrier" -> {"sync"} \X op.parts

\* complete_events follows an operation that ran to its end.
RunNext(fault, target) ==
    LET op == CurrentOp
        c == RunOperation(op, fault, target)
    IN /\ rt.state = "running"
       /\ fault = "none" \/ <<fault, target>> \in FaultsOf(op)
       /\ tr' = c.tr
       /\ rt' = IF c.ok
                THEN [c.rt EXCEPT !.at = @ + 1, !.events = @ \cup CompletedEvents(op),
                                  !.state = IF rt.at = Len(rt.txn.ops) THEN "done" ELSE @]
                ELSE [c.rt EXCEPT !.state = "failed"]
       /\ UNCHANGED <<hw, planning, pairs>>

\* release and retire: free_partition.
FreePartition(p) ==
    /\ rt.state \in {"done", "failed"}
    /\ rt.res[p] > 0 \/ p \in rt.held
    /\ rt' = [rt EXCEPT !.live[rt.devices[p]] = @ - rt.res[p], !.res[p] = 0,
                        !.held = @ \ {p}]
    /\ UNCHANGED <<hw, planning, tr, pairs>>

\* The backend is dropped, its sessions with it.
CloseBackend ==
    /\ rt.state \in {"done", "failed"}
    /\ rt' = Closed /\ tr' = NewAdapter
    /\ UNCHANGED <<hw, planning, pairs>>
-----------------------------------------------------------------------------
(* A lone adapter, and the peer path.                                        *)

\* HostStagedAdapter::copy
CopyDirect(c, outcome) ==
    /\ AdapterOnly /\ pairs = {} /\ last = Nothing /\ tr.nextBuffer < MaxStaged
    /\ tr' = Copied(tr, c.spec, c.source, c.destination, outcome)
    /\ UNCHANGED <<hw, planning, rt, pairs>>

Measure(s) ==
    /\ AdapterOnly /\ pairs = {} /\ last = Nothing /\ tr.observations < MaxSamples
    /\ tr' = Measured(tr, s.direction, s.bytes, s.elapsed)
    /\ UNCHANGED <<hw, planning, rt, pairs>>

\* PeerAdapter::admit_pair
AdmitPair(m) ==
    /\ AdapterOnly /\ tr = NewAdapter
    /\ PairAdmissible(m)
    /\ pairs' = pairs \cup {<<m.source, m.destination>>}
    /\ UNCHANGED <<hw, planning, rt, tr>>

\* select_copy_path, then PeerAdapter::copy, which moves nothing.
CopyPeer(c) ==
    /\ AdapterOnly /\ tr = NewAdapter
    /\ last' = [op |-> "peer", path |-> SelectCopyPath(<<c.spec.owner, c.destination>>, pairs),
                result |-> PeerCopyResult(pairs, c.spec, c.source, c.destination)]
    /\ UNCHANGED <<hw, epoch, observed, snap, probe, part, rt, tr, pairs>>
-----------------------------------------------------------------------------
Change ==
    \/ \E b \in Backends : \E i \in DOMAIN hw[b], u \in Spares[b] : Replace(b, i, u)
    \/ \E b \in Backends : Renumber(b)
    \/ Advance

Plan ==
    \/ \E b \in Backends, g \in {InitialGeneration, epoch}, f \in FailingQueries : Probe(b, g, f)
    \/ \E b \in Backends, f \in FailingQueries : ProbeFails(b, f)
    \/ \E req \in Requests : EvaluatePolicy(req)
    \/ \E d \in IdsOf(snap), l \in Ledgers : AdmitPartition(d, l)
    \/ \E f \in {"allocation_failed", "device_lost"} : FailPartition(f)
    \/ TeardownPartition
    \/ \E plan \in LogicalPlans : \E bindings \in Bindings(plan), set \in SUBSET IdsOf(snap) :
            BindDirect(plan, bindings, set)
    \/ \E w \in Wires, n \in BindCounts : PrepareImage(w, n)
    \/ \E selection \in Backends \cup {"auto"}, requires \in BOOLEAN, admitted \in SUBSET Backends :
            \E f, g \in FailingQueries : OpenHost(selection, requires, admitted, f, g)

Run ==
    \/ \E members \in SUBSET IdsOf(snap) : OpenBackend(members)
    \/ rt # Closed /\ (\/ Reserve
                       \/ \E n \in 0 .. 2 : ReserveFails(n)
                       \/ CloseBackend
                       \/ \E p \in Partitions : FreePartition(p))
    \/ /\ rt # Closed /\ rt.state = "running"
       /\ \E f \in {<<"none", 0>>} \cup FaultsOf(CurrentOp) : RunNext(f[1], f[2])

Transfers ==
    \/ \E c \in Copies, outcome \in {"ok", "failed", "timeout"} : CopyDirect(c, outcome)
    \/ \E s \in Samples : Measure(s)
    \/ \E m \in PeerSamples : AdmitPair(m)
    \/ \E c \in Copies : CopyPeer(c)

Next == Change \/ Plan \/ Run \/ Transfers

Spec == Init /\ [][Next]_vars
-----------------------------------------------------------------------------
HasBound == last.op \in {"bind", "prepare", "open"} /\ "bound" \in DOMAIN last
Ranked == IF last.op = "evaluate" THEN last.outcome.ranked ELSE <<>>

\* Types, with every recorded score and charge a u64.
TypeOK ==
    /\ hw \in [Backends -> Seq(DOMAIN Units)]
    /\ epoch \in InitialGeneration .. MaxEpoch /\ observed \in BOOLEAN
    /\ snap # NoSnapshot => probe.backend \in Backends /\ DOMAIN snap = DOMAIN probe.present
    /\ part = NoPartition \/ part.state \in {"active", "allocation_failed", "device_lost", "torn_down"}
    /\ \A r \in DOMAIN Ranked : \A k \in DOMAIN last.req.objectives :
            Ranked[r].scores[k] \in 0 .. ByteMax
    /\ tr.usedBytes \in 0 .. ByteMax /\ tr.usedTime \in 0 .. ByteMax
    /\ \A d \in Directions : tr.rates[d] \in 0 .. ByteMax
    /\ rt = Closed \/ (rt.at \in 1 .. Len(rt.txn.ops) + 1
                      /\ \A p \in Partitions : rt.res[p] \in Nat)

\* The unit an identity of the snapshot was read from.
UnitOf(id) == probe.present[Min({i \in DOMAIN snap : snap[i].id = id})]

\* A plan ranked or bound directly under the caller's epoch, once that epoch
\* accounts for every change, names hardware that is in place: no snapshot
\* taken before a replacement passes the policy gates or bind.
AdmittedIsInPlace ==
    (observed /\ (Ranked # <<>> \/ (last.op = "bind" /\ HasBound)))
    => ToSet(probe.present) = ToSet(hw[probe.backend])

\* The devices of a ranked or bound plan really meet the launch resources it
\* demands, whichever driver queries failed when they were probed.
DemandsMet ==
    /\ \A r \in DOMAIN Ranked : \A a \in Assigned(Ranked[r].plan) :
        LET u == Units[UnitOf(a.device)]
        IN a.sms <= u.sms /\ a.threads <= u.threads /\ a.shared <= u.shared
    /\ last.op = "bind" /\ HasBound =>
        \A d \in BoundDevices(last.bound.bindings) :
            /\ last.bound.plan.demand.threads <= Units[UnitOf(d)].threads
            /\ last.bound.plan.demand.shared <= Units[UnitOf(d)].shared

\* The seven classes of an admitted ledger, added without any width, fit nine
\* tenths of the memory of the unit they are placed on, and those of a ranked
\* plan the budget of their device.
LedgersFit ==
    LET exact(ledger) == FoldSeq(+, 0, ledger)
        fits(vp) == exact(vp.ledger) * 10 <= Units[UnitOf(vp.device)].mem * 9
    IN /\ last.op \in {"bind", "prepare"} /\ HasBound =>
            \A p \in DOMAIN last.bound.bindings :
                LET vp == last.bound.bindings[p].vp IN vp # NoPartition /\ vp # part => fits(vp)
       /\ part # NoPartition => exact(part.ledger) <= part.limit
       /\ \A r \in DOMAIN Ranked : \A a \in Assigned(Ranked[r].plan) :
            exact(a.ledger) <= last.req.budget[a.device]

\* The ranking, up to plans that tie on every key, depends neither on the order
\* the candidates are listed in nor on the ordinals of the snapshot: listing
\* either backwards, which exchanges every pair, gives the same (rank_plans).
RankingCanonical ==
    LET keys(ranked) == [r \in DOMAIN ranked |-> RankKey(ranked[r].plan, last.req)]
        again(plans, s) == keys(Evaluate([last.req EXCEPT !.plans = plans], s, last.current).ranked)
        given == last.req.plans
    IN last.op = "evaluate" =>
        \A alt \in {<<Reverse(given), snap>>, <<given, Reverse(snap)>>} :
            again(alt[1], alt[2]) = keys(last.outcome.ranked)

\* A translated plan is laid out in runs: the partitions in plan order fill the
\* declared number of devices one after another, the same number on each.
LaidOutInRuns ==
    last.op = "prepare" /\ HasBound =>
        LET order == last.wire.partitions
            device(k) == last.bound.bindings[order[k]].device
            load(d) == Cardinality({k \in DOMAIN order : device(k) = d})
        IN /\ Cardinality(last.bound.devices) = last.count
           /\ \A d \in last.bound.devices : load(d) * last.count = Len(order)
           /\ \A i, j \in DOMAIN order : i <= j /\ device(i) = device(j) =>
                    \A k \in i .. j : device(k) = device(i)

\* The adapter's budget counts the finished copies and nothing else, is never
\* exceeded, and every staging buffer has gone back.
BudgetExact ==
    LET total(field) == SumFunction([i \in DOMAIN tr.records |-> tr.records[i][field]])
    IN /\ tr.usedBytes = total("bytes") /\ tr.usedBytes <= Budget.bytes
       /\ tr.usedTime = total("expected") /\ tr.usedTime <= Budget.time
       /\ tr.active = {}

\* Every buffer on a device is tracked under a partition bound to it, through
\* every failure, so that release and retire can free it.
AllBuffersTracked ==
    rt # Closed => \A d \in DOMAIN rt.live :
        rt.live[d] = SumFunctionOnSet(rt.res, {p \in Partitions : rt.devices[p] = d})

\* The completed events are those of operations all of whose copies landed, and
\* copies of any other operation are those of the one that failed part way.
EventsFollowCopies ==
    rt # Closed =>
        LET landed(i) == {d \in rt.txn.ops[i].to : \E r \in ToSet(tr.records) :
                            r.ref = <<OperationRef(rt.txn.ops[i]), d>>}
            copies == {i \in DOMAIN rt.txn.ops : rt.txn.ops[i].kind \in {"transfer", "broadcast"}}
        IN \A i \in copies :
            /\ CompletedEvents(rt.txn.ops[i]) \subseteq rt.events <=> i < rt.at
            /\ i < rt.at => landed(i) = rt.txn.ops[i].to
            /\ i = rt.at /\ landed(i) # {} => rt.state = "failed"
            /\ i > rt.at => landed(i) = {}

\* A snapshot of an earlier health generation never gates a bind: what any of
\* the binding calls binds, once every change is observed, is in place
\* (device_identity.rs:218).
StaleNeverBinds ==
    (observed /\ last.op \in {"bind", "prepare"} /\ HasBound)
    => ToSet(probe.present) = ToSet(hw[probe.backend])

\* Renumbering the ordinals never changes the identity of a device that is
\* still in place (device_identity.rs:15).
OrdinalIsNoIdentity ==
    snap # NoSnapshot =>
        \A i \in DOMAIN probe.present, j \in DOMAIN hw[probe.backend] :
            probe.present[i] = hw[probe.backend][j] =>
                Enumerated(probe.backend, hw[probe.backend], {}, InitialGeneration)[j].id = snap[i].id

\* What the gates admit (gate_memory, gate_compatibility, the layout of
\* translate): every demand is met by its device, every ledger fits without
\* wrapping, and the partitions of a device are one run of the pipeline.
PlacementFits == DemandsMet /\ LedgersFit /\ LaidOutInRuns

\* Copies (transport.rs, transaction_backend.rs): each landed copy is charged
\* once and nothing else is, its buffers are tracked for release, and an event
\* is complete exactly when all copies of its operation landed.
TransfersExact == TypeOK /\ BudgetExact /\ AllBuffersTracked /\ EventsFollowCopies
=============================================================================
