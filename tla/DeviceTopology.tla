--------------------------- MODULE DeviceTopology ---------------------------
(***************************************************************************)
(* Discovery, identity and membership of physical devices                   *)
(* (host-coordinator: device_identity.rs, discovery.rs, device_set.rs;      *)
(* the enumerations of cuda_host.rs and metal_host.rs).                     *)
(*                                                                         *)
(* A unit is one piece of hardware.  Its identity is derived from the facts *)
(* a probe reads, so a probe that reads less derives another identity.      *)
(* Identities are triples of naturals in the order the code gives them:     *)
(* backend tag, PCI uuid (or Metal registry id), driver uuid (0: none).     *)
(* A snapshot maps ordinals to entries; its content-addressed id (SHA-256   *)
(* of every field) is the snapshot itself.                                  *)
(***************************************************************************)
EXTENDS Naturals, Sequences, FiniteSets, SequencesExt, FiniteSetsExt, TLC

CONSTANTS
    Units,          \* unit -> [uuid, mem, threads, shared, sms], what the hardware is
    SmiOrder        \* units in PCI order, the order nvidia-smi numbers them in

\* Uuids name units, and their facts are unsigned.
ASSUME UnitsAssumption ==
    /\ \A u \in DOMAIN Units :
        /\ Units[u].uuid \in Nat \ {0} /\ Units[u].mem \in Nat
        /\ Units[u].threads \in Nat /\ Units[u].shared \in Nat /\ Units[u].sms \in Nat
    /\ \A u, v \in DOMAIN Units : Units[u].uuid = Units[v].uuid => u = v
    /\ SmiOrder \in Seq(DOMAIN Units) /\ IsInjective(SmiOrder)

Backends == {"cuda", "metal"}
InitialGeneration == 1
NoSnapshot == <<>>

CudaId(pci, driver) == <<0, pci, driver>>
MetalId(registry) == <<1, registry, 0>>
BackendOf(id) == IF id[1] = 0 THEN "cuda" ELSE "metal"

\* The derived order of identities: by tag, then uuid, then driver uuid.
IdBelow(a, b) ==
    \/ a[1] < b[1]
    \/ a[1] = b[1] /\ a[2] < b[2]
    \/ a[1] = b[1] /\ a[2] = b[2] /\ a[3] < b[3]
SortedIds(S) == SetToSortSeq(S, IdBelow)

\* DeviceHealthGeneration::is_stale: any other generation is stale.
IsStale(current, candidate) == candidate # current
-----------------------------------------------------------------------------
(* Enumeration.  `failing` names the driver queries that fail: a failed      *)
(* attribute query reads as 0, a failed uuid query as no uuid.               *)

Reads(failing, query, value) == IF query \in failing THEN 0 ELSE value

\* query_nvidia_smi_gpus: one row per present unit, numbered in PCI order.  The
\* set of the unit in the i-th row, empty without such a row.
SmiRow(present, i, failing) ==
    {SmiOrder[k] : k \in {k \in DOMAIN SmiOrder :
        /\ "smi" \notin failing /\ SmiOrder[k] \in ToSet(present)
        /\ Cardinality({n \in 1 .. k : SmiOrder[n] \in ToSet(present)}) = i}}

\* identify_cuda_device: the row whose index is the CUDA ordinal names the PCI
\* uuid; without a row the driver uuid stands in for it.
CudaIdentity(present, i, failing) ==
    LET row == SmiRow(present, i, failing)
        driver == Reads(failing, "uuid", Units[present[i]].uuid)
        pci == IF row = {} THEN driver ELSE Units[CHOOSE u \in row : TRUE].uuid
    IN CudaId(pci, driver)

\* DeviceDiscoveryEntry, less the facts no gate reads.
Entry(id, generation, mem, threads, shared, sms) ==
    [id |-> id, generation |-> generation, mem |-> mem, threads |-> threads,
     shared |-> shared, sms |-> sms]
CudaEntry(id, u, failing, generation) ==
    Entry(id, generation, Reads(failing, "mem", Units[u].mem),
          Reads(failing, "threads", Units[u].threads),
          Reads(failing, "shared", Units[u].shared), Reads(failing, "sms", Units[u].sms))
MetalEntry(u, generation) ==
    Entry(MetalId(Units[u].uuid), generation, Units[u].mem, Units[u].threads, Units[u].shared, 0)

\* enumerate_*_physical_devices and to_discovery_entry.  CUDA fails whole when a
\* device has neither uuid; Metal reads every fact without failing.
Enumerates(backend, present, failing) ==
    backend = "cuda" => \A i \in DOMAIN present : CudaIdentity(present, i, failing)[2] # 0
Enumerated(backend, present, failing, generation) ==
    [i \in DOMAIN present |->
        IF backend = "cuda"
        THEN CudaEntry(CudaIdentity(present, i, failing), present[i], failing, generation)
        ELSE MetalEntry(present[i], generation)]

EntriesOf(snap) == {snap[i] : i \in DOMAIN snap}
IdsOf(snap) == {snap[i].id : i \in DOMAIN snap}

\* find_entry: the first entry with the identity, in ordinal order.
FindEntry(snap, id) == snap[Min({i \in DOMAIN snap : snap[i].id = id})]

SnapshotStale(snap, current) == \E e \in EntriesOf(snap) : IsStale(current, e.generation)
-----------------------------------------------------------------------------
(* Membership and selection (device_set.rs).                                 *)

\* validate_member
CurrentMember(snap, current, id) ==
    id \in IdsOf(snap) /\ ~IsStale(current, FindEntry(snap, id).generation)

\* DeviceSetSelection::resolve for declared constraints: the current members
\* of the backend ("any": no backend named) that are not excluded.
ConstraintMembers(snap, current, want) ==
    {e.id : e \in {e \in EntriesOf(snap) :
        /\ ~IsStale(current, e.generation)
        /\ want.backend \in {"any", BackendOf(e.id)}
        /\ e.id \notin want.exclude}}

\* resolve: the selected set, and whether the selection is refused.
Resolved(snap, current, sel) ==
    IF sel.kind = "explicit" THEN sel.ids ELSE ConstraintMembers(snap, current, sel)
Resolves(snap, current, sel) ==
    IF sel.kind = "explicit" THEN \A id \in sel.ids : CurrentMember(snap, current, id)
    ELSE Cardinality(ConstraintMembers(snap, current, sel)) \in sel.min .. sel.max

\* DeviceTopologySnapshot::traversal_allowed; `links` maps directed pairs of
\* devices of the snapshot to "admitted", "not_attempted" or "rejected".
TraversalAllowed(snap, links, from, to) ==
    \/ from = to
    \/ /\ {from, to} \subseteq IdsOf(snap)
       /\ <<from, to>> \in DOMAIN links /\ links[<<from, to>>] = "admitted"
=============================================================================
