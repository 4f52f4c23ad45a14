-------------------------- MODULE DeviceDescriptor --------------------------
(***************************************************************************)
(* DeviceDescriptor::validate of host-device-core/src/device_descriptor.rs: *)
(* which descriptors a session accepts.  The code returns the first rule a  *)
(* descriptor breaks; here each rule is a predicate and Validate their      *)
(* conjunction.  Names, shapes and element types are opaque values compared *)
(* for equality; the zero identities stay, as they are reserved.            *)
(***************************************************************************)
EXTENDS Integers, Sequences, FiniteSets, SequencesExt

CONSTANT MaxBytes       \* usize::MAX: the largest buffer the host can address

ASSUME MaxBytesAssumption == MaxBytes \in Nat

Roles == {"Input", "Output", "InOut"}
Lifetimes == {"PerProgram", "PerStep", "ObservationPoint"}
Initializations == {"ZeroFill", "HostProvided", "KernelInitialized"}

LaunchIds(d) == {d.launches[i].id : i \in DOMAIN d.launches}
\* The first index of each launch identity; ids are unique once validated.
Position(d, id) == CHOOSE i \in DOMAIN d.launches : d.launches[i].id = id

\* The slots of every kernel, by kernel and position.
SlotPlaces(d) == UNION {{k} \X DOMAIN d.kernels[k].slots : k \in DOMAIN d.kernels}
SlotAt(d, place) == d.kernels[place[1]].slots[place[2]]
Slots(d) == {SlotAt(d, p) : p \in SlotPlaces(d)}
\* Lexicographic: the order of places, and of keys.
Precedes(p, q) == p[1] < q[1] \/ (p[1] = q[1] /\ p[2] < q[2])
FirstOf(places) == CHOOSE p \in places : \A q \in places : q = p \/ Precedes(p, q)

Key(r) == <<r.buffer, r.version>>
Versions(d) == {d.versions[i] : i \in DOMAIN d.versions}
Edges(d) == {d.flow[i] : i \in DOMAIN d.flow}
DistinctBy(s, key(_)) == \A i, j \in DOMAIN s : key(s[i]) = key(s[j]) => i = j

\* checked_byte_length and the usize conversion.
ByteLength(r) == r.count * r.width
Addressable(r) == ByteLength(r) <= MaxBytes

ValidatedLaunchesAndRoots(d) ==
    /\ d.image # "" /\ d.kernels # <<>> /\ d.launches # <<>> /\ d.roots # <<>>
    /\ \A i \in DOMAIN d.launches :
          d.launches[i].id # 0 /\ d.launches[i].kernel \in DOMAIN d.kernels
    /\ DistinctBy(d.launches, LAMBDA l : l.id)
    /\ \A i \in DOMAIN d.roots : d.roots[i] # 0 /\ d.roots[i] \in LaunchIds(d)
    /\ DistinctBy(d.roots, LAMBDA r : r)

ValidatedBufferVersions(d) ==
    /\ d.versions # <<>>
    /\ \A v \in Versions(d) : v.version # 0 /\ v.count # 0 /\ Addressable(v)
    /\ DistinctBy(d.versions, Key)

ValidateDataFlowReferences(d) ==
    \A e \in Edges(d) :
        /\ e.version # 0 /\ e.producer # 0 /\ e.consumer # 0
        /\ e.producer # e.consumer
        /\ {e.producer, e.consumer} \subseteq LaunchIds(d)
        /\ \E v \in Versions(d) : Key(v) = Key(e)

\* The launches a worklist started at the roots reaches along the edges.
Reachable(d) ==
    LET reached[n \in 0..Len(d.launches)] ==
            IF n = 0 THEN {d.roots[i] : i \in DOMAIN d.roots}
            ELSE reached[n - 1]
                 \cup {e.consumer : e \in {f \in Edges(d) : f.producer \in reached[n - 1]}}
    IN reached[Len(d.launches)]

\* Mutants: the order of producer and consumer unchecked, and the two rules
\* below dropped.
ScheduleUnchecked(d) == LaunchIds(d) \subseteq Reachable(d)
ValidatedSchedule(d) ==
    /\ \A e, f \in Edges(d) : Key(e) = Key(f) => e.producer = f.producer
    /\ \A e \in Edges(d) : Position(d, e.producer) < Position(d, e.consumer)
    /\ LaunchIds(d) \subseteq Reachable(d)

\* validate_slot, with the facts it accumulates over every slot of every
\* kernel: one name, one semantic value, one lifetime and one initialization
\* for a buffer, and a semantic value held by one buffer only.  role_conflict
\* compares a slot with the buffer's first slot.
RoleConflict(first, second) == {first, second} = {"Input", "Output"}
FirstSlot(d, buffer) ==
    SlotAt(d, FirstOf({p \in SlotPlaces(d) : SlotAt(d, p).buffer = buffer}))
ValidateSlot(d, s) ==
    LET first == FirstSlot(d, s.buffer) IN
    /\ s.count # 0 /\ s.version # 0 /\ s.sem # 0
    /\ \A r \in Slots(d) : (r.buffer = s.buffer) <=> (r.sem = s.sem)
    /\ ~RoleConflict(first.role, s.role)
    /\ s.name = first.name
    /\ \E v \in Versions(d) :
          Key(v) = Key(s) /\ v.width = s.width /\ v.count = s.count /\ v.shape = s.shape
    /\ s.life = first.life /\ s.init = first.init

ValidatedKernels(d) ==
    /\ \A k \in DOMAIN d.kernels :
          /\ d.kernels[k].entry # "" /\ d.kernels[k].slots # <<>>
          /\ \A axis \in Range(d.kernels[k].axes) : axis # 0
          /\ DistinctBy(d.kernels[k].slots, LAMBDA s : s.binding)
    /\ \A s \in Slots(d) : ValidateSlot(d, s)

\* A PerStep input is copied once, so no kernel may write it in the graph.
InputsWrittenMidGraph(d) == TRUE
PerStepInputsUnwritten(d) ==
    \A r, s \in Slots(d) :
        r.buffer = s.buffer /\ r.life = "PerStep" /\ s.life = "PerStep"
            => ~(r.role = "Input" /\ s.role # "Input")

\* Once-init reaches PerProgram storage only.
ParamsAnywhere(d) == TRUE
ParamsPerProgram(d) ==
    d.repeating => \A s \in Slots(d) : s.init = "HostProvided" => s.life = "PerProgram"

ValidatedResults(d) ==
    /\ \A i \in DOMAIN d.results :
          LET r == d.results[i] IN
          /\ r.version # 0 /\ r.producedBy # 0 /\ r.atLaunch # 0
          /\ {r.producedBy, r.atLaunch} \subseteq LaunchIds(d)
          /\ Position(d, r.producedBy) <= Position(d, r.atLaunch)
          /\ \E s \in Slots(d) : s.buffer = r.buffer /\ s.life = "ObservationPoint"
          /\ \E v \in Versions(d) : Key(v) = Key(r)
    /\ DistinctBy(d.results, LAMBDA r : r.buffer)

ValidateEndOfRunResults(d) ==
    /\ \A i \in DOMAIN d.endOfRun :
          LET r == d.endOfRun[i] IN
          /\ r.version # 0
          /\ \A j \in DOMAIN d.results : d.results[j].buffer # r.buffer
          /\ LET places == {p \in SlotPlaces(d) : Key(SlotAt(d, p)) = Key(r)}
                 first == SlotAt(d, FirstOf(places)) IN
             /\ places # {}
             /\ first.role # "Input" /\ first.life # "ObservationPoint"
    /\ DistinctBy(d.endOfRun, LAMBDA r : r.buffer)

Validate(d) ==
    /\ ValidatedLaunchesAndRoots(d) /\ ValidatedBufferVersions(d)
    /\ ValidateDataFlowReferences(d) /\ ValidatedSchedule(d) /\ ValidatedKernels(d)
    /\ PerStepInputsUnwritten(d) /\ ParamsPerProgram(d)
    /\ ValidatedResults(d) /\ ValidateEndOfRunResults(d)
=============================================================================
