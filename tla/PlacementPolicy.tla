-------------------------- MODULE PlacementPolicy ---------------------------
(***************************************************************************)
(* The two-pass policy evaluator (host-coordinator/src/policy.rs) and the   *)
(* byte ledger it shares with partition admission (partition.rs).           *)
(*                                                                         *)
(* A request names a selection, per-device budgets, a total budget, links,  *)
(* objectives and candidate plans; evaluation rejects plans by four gates   *)
(* and ranks the rest.  Evaluation has no state: it is an operator.  A      *)
(* demand of 0 stands for no demand.                                        *)
(***************************************************************************)
EXTENDS DeviceTopology, Bytes

\* The total with wrapping addition, for the mutant of LedgerTotal.
WrappedTotal(ledger) == FoldSeq(+, 0, ledger) % (ByteMax + 1)

\* PartitionBudgetLedger::total_bytes; a sum past u64::MAX is no total.
Overflow == ByteMax + 1
LedgerTotal(ledger) ==
    LET sum == FoldSeq(+, 0, ledger)
    IN IF sum > ByteMax THEN Overflow ELSE sum
-----------------------------------------------------------------------------
(* Gates.  Each is the set of devices at which the plan violates it.         *)

Assigned(plan) == ToSet(plan.assigns)

\* A recorded 0 read as "no limit", for the mutant of WithinLimit.
ZeroIsUnlimited(demand, limit) == demand = 0 \/ limit = 0 \/ demand <= limit

\* evaluable_launch_limit: a recorded 0 is no fact, and refuses every demand.
WithinLimit(demand, limit) == demand = 0 \/ (limit # 0 /\ demand <= limit)

\* evaluable_sm_count: an SM count means nothing outside CUDA.
EnoughSms(demand, e) ==
    demand = 0 \/ (BackendOf(e.id) = "cuda" /\ e.sms # 0 /\ demand <= e.sms)

\* gate_compatibility, gate_generic_launch_resources.  Probes record no dtypes
\* (DtypeSurface::empty), so a demanded dtype is always lacking.  Of the demands
\* compute capability, collective width and unified memory are left out: each is
\* one more conjunct of this kind, so the model admits more plans than the code.
Compatible(e, a) ==
    /\ EnoughSms(a.sms, e)
    /\ a.dtypes = {}
    /\ WithinLimit(a.threads, e.threads)
    /\ WithinLimit(a.shared, e.shared)

GateMembership(plan, set) == \A a \in Assigned(plan) : a.device \in set
GateCompatibility(plan, snap) ==
    \A a \in Assigned(plan) : a.device \in IdsOf(snap) /\ Compatible(FindEntry(snap, a.device), a)
GateMemory(plan, budget, total) ==
    /\ \A a \in Assigned(plan) :
        a.device \in DOMAIN budget /\ LedgerTotal(a.ledger) <= budget[a.device]
    /\ plan.total <= total
GateTopology(plan, snap, links) ==
    \A t \in ToSet(plan.transfers) : TraversalAllowed(snap, links, t[1], t[2])

\* The violated gates of a plan, once the selection has resolved to `set`.
Violations(plan, set, snap, req) ==
    {g \in {"HealthEpochMembership", "Compatibility", "RequiredMemory", "Topology"} :
        ~CASE g = "HealthEpochMembership" -> GateMembership(plan, set)
           [] g = "Compatibility" -> GateCompatibility(plan, snap)
           [] g = "RequiredMemory" -> GateMemory(plan, req.budget, req.total)
           [] g = "Topology" -> GateTopology(plan, snap, req.links)}
-----------------------------------------------------------------------------
(* Ranking.                                                                  *)

Minimized == {"latency", "transfer_budget", "power"}

\* capacity_reserve_bytes: an assignment without a budget or a total adds nothing.
CapacityReserve(plan, budget) ==
    LET headroom(a) == IF a.device \in DOMAIN budget /\ LedgerTotal(a.ledger) # Overflow
                       THEN Remaining(budget[a.device], LedgerTotal(a.ledger)) ELSE 0
    IN FoldSeq(LAMBDA a, sum : Saturated(sum + headroom(a)), 0, plan.assigns)

\* objective_value: a fact the plan does not declare ranks it last.
ObjectiveValue(plan, objective, budget) ==
    CASE objective = "capacity_reserve" -> CapacityReserve(plan, budget)
      [] objective \in DOMAIN plan.facts -> plan.facts[objective]
      [] OTHER -> IF objective \in Minimized THEN ByteMax ELSE 0

Scores(plan, req) ==
    [i \in DOMAIN req.objectives |-> ObjectiveValue(plan, req.objectives[i], req.budget)]
PlanDevices(plan) == SortedIds({a.device : a \in Assigned(plan)})
RankKey(plan, req) == <<Scores(plan, req), PlanDevices(plan)>>

Better(objective, v, w) == IF objective \in Minimized THEN v < w ELSE v > w

\* The comparison of two ordered sets: element by element, a prefix is smaller.
IdsBelow(s, t) ==
    \E k \in 1 .. Len(t) :
        /\ \A i \in 1 .. k - 1 : i <= Len(s) /\ s[i] = t[i]
        /\ k > Len(s) \/ IdBelow(s[k], t[k])

\* The first objective that differs decides, then `tie`; a and b are scores.
DecidedBy(objectives, a, b, tie) ==
    LET differ == {k \in DOMAIN objectives : a[k] # b[k]}
    IN IF differ = {} THEN tie
       ELSE LET k == Min(differ) IN Better(objectives[k], a[k], b[k])

\* Ordered device sets, equal ones by position, as the sort is stable.
DevicesBefore(s, t, i, j) == IF s = t THEN i < j ELSE IdsBelow(s, t)

\* The comparison without its last key, for the mutant of RanksBefore.
RanksByScore(plans, i, j, req) ==
    DecidedBy(req.objectives, Scores(plans[i], req), Scores(plans[j], req), i < j)

\* rank_plans' comparison: the scores, and the device sets decide a tie.
RanksBefore(plans, i, j, req) ==
    DecidedBy(req.objectives, Scores(plans[i], req), Scores(plans[j], req),
              DevicesBefore(PlanDevices(plans[i]), PlanDevices(plans[j]), i, j))

\* One step of rank_plans' stable sort: a plan goes behind those that rank
\* before it.
Inserted(req, i, order) ==
    LET k == Cardinality({n \in DOMAIN order : RanksBefore(req.plans, order[n], i, req)})
    IN SubSeq(order, 1, k) \o <<i>> \o SubSeq(order, k + 1, Len(order))
Order(req, passed) ==
    MapThenFoldSet(LAMBDA i, order : Inserted(req, i, order), <<>>, LAMBDA i : i, Max, passed)

\* evaluate's outcome, given the violated gates of each candidate.
Ranking(req, gates) ==
    LET passed == {i \in DOMAIN req.plans : gates[i] = {}}
        order == Order(req, passed)
    IN [ranked |-> [r \in DOMAIN order |->
            [plan |-> req.plans[order[r]], scores |-> Scores(req.plans[order[r]], req)]],
        rejected |-> {<<req.plans[i], gates[i]>> : i \in DOMAIN req.plans \ passed}]

\* evaluate: a stale snapshot or an unresolved selection rejects every plan.
Evaluate(req, snap, current) ==
    IF SnapshotStale(snap, current) \/ ~Resolves(snap, current, req.sel)
    THEN [ranked |-> <<>>,
          rejected |-> {<<p, {"HealthEpochMembership"}>> : p \in ToSet(req.plans)}]
    ELSE Ranking(req, [i \in DOMAIN req.plans |->
            Violations(req.plans[i], Resolved(snap, current, req.sel), snap, req)])
=============================================================================
