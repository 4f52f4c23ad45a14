--------------------------- MODULE ProgramSession ---------------------------
(***************************************************************************)
(* ProgramSession of macos-arm64/src/composite_host/session.rs: one device  *)
(* program held open on the host's device.  A session loads the module and  *)
(* allocates its PerProgram buffers at creation, checks its per-execution   *)
(* buffers out for every step, launches the carried schedule, reads the     *)
(* observations back and recycles the step's buffers; any failure releases  *)
(* everything it owns and closes it.                                        *)
(*                                                                         *)
(* Handlers take &mut self and run alone, so each is an operator from the   *)
(* device and the session's ProgramInner to the set of its outcomes: one    *)
(* per stage at which the device may fail (Faults names the stages) and the *)
(* success.  CompositeHost makes them its actions.  A driver that fails a   *)
(* release has already forgotten the handle, so releasing always frees.     *)
(*                                                                         *)
(* A handle's content is "junk" as allocated, "zero", "host" (copied in),   *)
(* "made" (written by a launch of this step) or, for a per-execution        *)
(* buffer after its step, "old".                                            *)
(***************************************************************************)
EXTENDS DeviceDescriptor

CONSTANTS
    Catalog,        \* the descriptors clients present, valid and invalid, by name
    Faults          \* the device operations that may fail; "zero" is the zero-fill
                    \* of a buffer just obtained

ASSUME FaultsAssumption ==
    Faults \subseteq {"load", "alloc", "zero", "copy", "launch", "sync", "readback", "release"}

\* What the types of DeviceDescriptor say: lists are lists, identities numbers.
IsList(s) == s \in Seq({s[i] : i \in DOMAIN s})
ASSUME CatalogAssumption ==
    \A name \in DOMAIN Catalog :
        /\ IsList(Catalog[name].kernels) /\ IsList(Catalog[name].launches)
        /\ \A k \in DOMAIN Catalog[name].kernels : IsList(Catalog[name].kernels[k].slots)
        /\ \A s \in Slots(Catalog[name]) : s.buffer \in Nat /\ s.version \in Nat

-----------------------------------------------------------------------------
(* The device.  Handle ids are monotone: one per load and per allocation.  *)

NextHandle(dev) == dev.loads + dev.allocs + 1
MayFail(stage) == stage \in Faults

\* release, for every handle of a set.
Freed(dev, handles) ==
    [dev EXCEPT !.memory = [h \in DOMAIN dev.memory \ handles |-> dev.memory[h]]]

\* One map's entries put over another's.
Overlay(f, g) == [x \in DOMAIN f \cup DOMAIN g |-> IF x \in DOMAIN f THEN f[x] ELSE g[x]]

\* copy_in_*, launches and zero_fill_buffer: new contents for some handles.
Filled(dev, contents) == [dev EXCEPT !.memory = Overlay(contents, @)]

-----------------------------------------------------------------------------
(* ProgramInner.                                                           *)

Desc(inner) == Catalog[inner.desc]
Meta(d, key) == CHOOSE s \in Slots(d) : Key(s) = key
Keys(d) == {Key(s) : s \in Slots(d)}
KeysOf(d, life) == {k \in Keys(d) : Meta(d, k).life = life}

\* A finite set in the order of a relation: the i-th has i - 1 before it.
SortedBy(S, relation) ==
    [i \in 1..Cardinality(S) |->
        CHOOSE x \in S : Cardinality({y \in S : <<y, x>> \in relation}) = i - 1]
Sorted(S, before(_, _)) == SortedBy(S, {p \in S \X S : before(p[1], p[2])})

Handles(buffers) == {buffers[k] : k \in DOMAIN buffers}
OwnedBuffers(inner) == Handles([k \in DOMAIN inner.buffers \ inner.shared |-> inner.buffers[k]])
\* The pool left out, for the mutant of OwnedHandles.
PoolForgotten(inner) ==
    OwnedBuffers(inner) \cup (IF inner.sharedModule THEN {} ELSE {inner.module})
\* What release_all_handles frees.
OwnedHandles(inner) ==
    OwnedBuffers(inner) \cup Handles(inner.pool)
    \cup (IF inner.sharedModule THEN {} ELSE {inner.module})

\* owned_handle_count
OwnedHandleCount(inner) == IF inner.closed THEN 0 ELSE Cardinality(OwnedHandles(inner))

\* release_all_handles: every release is attempted; the shared mappings stay.
ReleaseAllHandles(dev, inner) ==
    [dev |-> Freed(dev, OwnedHandles(inner)),
     inner |-> [inner EXCEPT !.buffers = [k \in DOMAIN inner.buffers \cap inner.shared |->
                                             inner.buffers[k]],
                             !.pool = <<>>]]

\* The tail of every failing handler: ordered release, then closed.
Abandon(dev, inner) ==
    LET r == ReleaseAllHandles(dev, inner) IN
    [ok |-> FALSE, dev |-> r.dev, inner |-> [r.inner EXCEPT !.closed = TRUE], reads |-> {}]
Done(dev, inner, seen) == [ok |-> TRUE, dev |-> dev, inner |-> inner, reads |-> seen]

NoShare == [module |-> 0, image |-> "", buffers |-> <<>>]

\* shared_offer: PerProgram buffers by semantic value.  Two versions of a
\* buffer share one value; the last inserted, the highest version, is offered.
SharedOffer(inner) ==
    LET keys == {k \in DOMAIN inner.buffers : Meta(Desc(inner), k).life = "PerProgram"}
        held(v) == {k \in keys : Meta(Desc(inner), k).sem = v}
        offered(v) == CHOOSE k \in held(v) : \A j \in held(v) : j = k \/ Precedes(j, k)
    IN [module |-> inner.module, image |-> Desc(inner).image,
        buffers |-> [v \in {Meta(Desc(inner), k).sem : k \in keys} |->
                        [handle |-> inner.buffers[offered(v)],
                         meta |-> Meta(Desc(inner), offered(v))]]]

SameStorage(a, b) ==
    /\ ByteLength(a) = ByteLength(b) /\ a.role = b.role /\ a.life = b.life
    /\ a.init = b.init /\ a.width = b.width /\ a.count = b.count

-----------------------------------------------------------------------------
(* Handing out buffers, at creation and at the start of a step.            *)

\* The handles of a sequence of keys: the ones held already, else fresh ids.
HandlesFor(dev, order, held) ==
    [i \in DOMAIN order |->
        IF order[i] \in DOMAIN held THEN held[order[i]]
        ELSE NextHandle(dev) + Cardinality({j \in 1..(i - 1) : order[j] \notin DOMAIN held})]

\* Only step buffers zeroed, for the mutant of NeedsZero.
ZeroedPerStep(d, key) == Meta(d, key).init = "ZeroFill" /\ Meta(d, key).life = "PerStep"

\* Zero-fill is decided by the initialization alone.
NeedsZero(d, key) == Meta(d, key).init = "ZeroFill"

\* The device once the first n keys have their handles and the positions of
\* `zeroed` are zero-filled.
WithBuffers(dev, order, held, n, zeroed) ==
    LET h == HandlesFor(dev, order, held)
        fresh == {i \in 1..n : order[i] \notin DOMAIN held}
    IN Filled([dev EXCEPT !.allocs = @ + Cardinality(fresh)],
              [x \in {h[i] : i \in fresh \cup zeroed} |->
                  IF \E i \in zeroed : h[i] = x THEN "zero" ELSE "junk"])

Mapping(h, order, n) ==
    [k \in {order[i] : i \in 1..n} |-> h[CHOOSE i \in 1..n : order[i] = k]]

-----------------------------------------------------------------------------
(* Creation.                                                               *)

\* PerProgram keys in the order the slots name them first.
PerProgramOrder(d) ==
    LET first(k) == FirstOf({p \in SlotPlaces(d) : Key(SlotAt(d, p)) = k}) IN
    Sorted(KeysOf(d, "PerProgram"), LAMBDA j, k : Precedes(first(j), first(k)))

Failed(dev) == [ok |-> FALSE, dev |-> dev, inner |-> <<>>, reads |-> {}]

\* new_with_share, from the loop over the slots on: share or allocate, zero,
\* map, for the keys in this order, `held` the ones on offer.  A failure frees
\* what owned_handles holds and the module, if owned.
CreateBuffers(dev, name, share, module, isShared, order, held) ==
    LET d == Catalog[name]
        offers == DOMAIN held
        h == HandlesFor(dev, order, held)
        incompatible(i) == /\ order[i] \in offers
                           /\ ~SameStorage(share.buffers[Meta(d, order[i]).sem].meta,
                                           Meta(d, order[i]))
        zeroed(n) == {i \in 1..n : order[i] \notin offers /\ NeedsZero(d, order[i])}
        owned(n) == {h[i] : i \in {j \in 1..n : order[j] \notin offers}}
                    \cup (IF isShared THEN {} ELSE {module})
        reached == {n \in 0..Len(order) : \A i \in 1..n : ~incompatible(i)}
        stopsAt == {n \in reached : /\ n < Len(order)
                                    /\ \/ incompatible(n + 1)
                                       \/ order[n + 1] \notin offers /\ MayFail("alloc")}
        zeroFails == {n \in reached : n > 0 /\ n \in zeroed(n) /\ MayFail("zero")}
    IN  {Failed(Freed(WithBuffers(dev, order, held, n, zeroed(n)), owned(n))) : n \in stopsAt}
        \cup \* the handle is pushed on owned_handles only after its zero-fill
        {Failed(Freed(WithBuffers(dev, order, held, n, zeroed(n - 1)), owned(n - 1))) :
            n \in zeroFails}
        \cup
        {Done(WithBuffers(dev, order, held, n, zeroed(n)),
              [desc |-> name, module |-> module, sharedModule |-> isShared,
               buffers |-> Mapping(h, order, n), shared |-> offers, pool |-> <<>>,
               params |-> FALSE, final |-> FALSE, eorRead |-> FALSE, closed |-> FALSE], {}) :
            n \in reached \cap {Len(order)}}

\* new_with_share
OfferedHandles(d, share) ==
    [k \in {j \in KeysOf(d, "PerProgram") : Meta(d, j).sem \in DOMAIN share.buffers} |->
        share.buffers[Meta(d, k).sem].handle]
NewWithShare(dev, name, share) ==
    LET d == Catalog[name]
        isShared == share.image = d.image
        module == IF isShared THEN share.module ELSE NextHandle(dev)
        loaded == IF isShared THEN dev
                  ELSE Filled([dev EXCEPT !.loads = @ + 1], [h \in {module} |-> "module"])
    IN IF d.backend # dev.backend \/ ~Validate(d) THEN {Failed(dev)}
       ELSE (IF ~isShared /\ MayFail("load") THEN {Failed(dev)} ELSE {})
            \cup CreateBuffers(loaded, name, share, module, isShared,
                               PerProgramOrder(d), OfferedHandles(d, share))

-----------------------------------------------------------------------------
(* Weights.                                                                *)

Params(d) == {k \in KeysOf(d, "PerProgram") : Meta(d, k).init = "HostProvided"}
Buffers(keys) == {k[1] : k \in keys}
OneVersionEach(keys) == \A j, k \in keys : j[1] = k[1] => j = k

\* The device after the host copied these keys' buffers in; the upload counter
\* counts weights.
CopiedIn(dev, inner, keys) == Filled(dev, [h \in {inner.buffers[k] : k \in keys} |-> "host"])
Uploaded(dev, inner, keys) == [CopiedIn(dev, inner, keys) EXCEPT !.uploads = @ + Cardinality(keys)]

\* weight_key: a byte payload names a weight with one version.
WeightKey(d, id) ==
    /\ \E k \in Params(d) : k[1] = id
    /\ OneVersionEach({k \in Keys(d) : k[1] = id})
KeyOf(d, id) == CHOOSE k \in Keys(d) : k[1] = id
\* Shared weights uploaded again, for the mutant of Uploads.
UploadsShared(inner, id) == TRUE

\* A buffer this session uploads itself: it is not the other program's.
Uploads(inner, id) == KeyOf(Desc(inner), id) \notin inner.shared

\* upload_weight_bytes_inner: can the payload for this buffer be uploaded?
ByteWeightFits(inner, id, sized) ==
    /\ WeightKey(Desc(inner), id)
    /\ Uploads(inner, id) => sized /\ KeyOf(Desc(inner), id) \in DOMAIN inner.buffers

Ascending(ids) == Sorted(ids, LAMBDA a, b : a < b)

\* init_params_inner: the byte weights of `bytes` first, then the params of
\* `given` as f32, in buffer order; shared ones are skipped.  It stops at the
\* first it refuses and at any copy that fails.
UploadInOrder(dev, inner, bytes, given, sized, order) ==
    LET d == Desc(inner)
        fits(id) == IF id \in bytes THEN ByteWeightFits(inner, id, sized)
                    ELSE Uploads(inner, id) => /\ id \in given
                                               /\ KeyOf(d, id) \in DOMAIN inner.buffers
        reached == {n \in 0..Len(order) : \A i \in 1..n : fits(order[i])}
        keys(n) == {KeyOf(d, order[i]) : i \in {j \in 1..n : Uploads(inner, order[j])}}
        stops(n) == n < Len(order)
                    /\ (~fits(order[n + 1]) \/ (Uploads(inner, order[n + 1]) /\ MayFail("copy")))
        after(n, ok) == [ok |-> ok, dev |-> Uploaded(dev, inner, keys(n)), inner |-> inner,
                         reads |-> {}]
    IN {after(n, FALSE) : n \in {r \in reached : stops(r)}}
       \cup {after(n, TRUE) : n \in reached \cap {Len(order)}}
InitParamsInner(dev, inner, bytes, given, sized) ==
    LET params == Params(Desc(inner)) IN
    IF ~OneVersionEach(params) \/ bytes \cap given # {}
    THEN {[ok |-> FALSE, dev |-> dev, inner |-> inner, reads |-> {}]}
    ELSE UploadInOrder(dev, inner, bytes, given, sized,
                       Ascending(bytes) \o Ascending(Buffers(params) \ bytes))

\* A handler that runs an inner operation and abandons the session if it fails.
Closing(outcomes) == {IF o.ok THEN o ELSE Abandon(o.dev, o.inner) : o \in outcomes}
Refused(dev, inner) == [ok |-> FALSE, dev |-> dev, inner |-> inner, reads |-> {}]

\* init_params and init_params_with_weight_bytes
InitParams(dev, inner, bytes, given, sized) ==
    IF ~Desc(inner).repeating \/ inner.params THEN {Refused(dev, inner)}
    ELSE {IF o.ok THEN [o EXCEPT !.inner.params = TRUE] ELSE o :
            o \in Closing(InitParamsInner(dev, inner, bytes, given, sized))}

-----------------------------------------------------------------------------
(* One step.                                                               *)

Fails(dev, inner) == {Refused(dev, inner)}
FailsIf(stage, dev, inner) == IF MayFail(stage) THEN Fails(dev, inner) ELSE {}

\* What an earlier step left in a per-execution buffer is old for the next.
Aged(dev, inner) ==
    LET held == Overlay(inner.buffers, inner.pool)
        step == {held[k] : k \in {j \in DOMAIN held : Meta(Desc(inner), j).life # "PerProgram"}}
    IN Filled(dev, [h \in step \cap DOMAIN dev.memory |-> "old"])

\* IntermediateBufferPool::checkout
Checkout(inner, keys, usePool) ==
    IF usePool THEN [k \in DOMAIN inner.pool \cap keys |-> inner.pool[k]] ELSE <<>>

\* allocate_step_buffers: every per-execution buffer not mapped already, in
\* key order, from the pool or fresh, zero-filled if declared so.  A buffer is
\* mapped after its zero-fill: when that fails its handle is in neither map.
MapInOrder(dev, inner, order, held) ==
    LET h == HandlesFor(dev, order, held)
        zeroed(n) == {i \in 1..n : NeedsZero(Desc(inner), order[i])}
        \* the session with the first n keys mapped, m of them out of the pool
        with(n, m) ==
            [inner EXCEPT !.buffers = Overlay(Mapping(h, order, n), @),
                          !.pool = [k \in DOMAIN inner.pool \ {order[i] : i \in 1..m} |->
                                        inner.pool[k]]]
        allocFails == {n \in 0..(Len(order) - 1) :
                           order[n + 1] \notin DOMAIN held /\ MayFail("alloc")}
        zeroFails == {n \in 1..Len(order) : n \in zeroed(n) /\ MayFail("zero")}
    IN  {Refused(WithBuffers(dev, order, held, n, zeroed(n)), with(n, n)) : n \in allocFails}
        \cup {Refused(WithBuffers(dev, order, held, n, zeroed(n - 1)), with(n - 1, n)) :
                 n \in zeroFails}
        \cup {Done(WithBuffers(dev, order, held, Len(order), zeroed(Len(order))),
                   with(Len(order), Len(order)), {})}
AllocateStepBuffers(dev, inner, usePool) ==
    LET d == Desc(inner)
        todo == {k \in Keys(d) \ KeysOf(d, "PerProgram") : k \notin DOMAIN inner.buffers}
    IN MapInOrder(dev, inner, Sorted(todo, Precedes), Checkout(inner, todo, usePool))

\* copy_resident_inputs: the PerStep inputs, once, before the first launch.
ResidentInputs(d) == {k \in KeysOf(d, "PerStep") : Meta(d, k).role = "Input"}
CopyResidentInputs(dev, inner, supplied) ==
    (IF supplied THEN {Done(CopiedIn(dev, inner, ResidentInputs(Desc(inner))), inner, {})}
     ELSE Fails(dev, inner))
    \cup (IF ResidentInputs(Desc(inner)) # {} THEN FailsIf("copy", dev, inner) ELSE {})

\* copy_declared_inputs at a launch of a SingleRun program: every input slot
\* of the kernel whose payload was not uploaded as bytes.
DeclaredInputs(kernel, byteInputs) ==
    {Key(s) : s \in {r \in Range(kernel.slots) : r.role = "Input" /\ r.buffer \notin byteInputs}}

\* The launches in order: copy in, then the kernel reads its inputs, its state
\* and the values produced for it, and writes its Output and InOut slots.  A
\* training step copies nothing, so only once-init inputs are the host's.
Consumed(d, launch) == {Key(e) : e \in {f \in Edges(d) : f.consumer = launch}}
Launched(dev, inner, mode, l, seen) ==
    LET d == Desc(inner)
        slots == Range(d.kernels[l.kernel].slots)
        inputs == {Key(s) : s \in {r \in slots :
                      r.role = "Input" /\ (mode # "OnceInit" \/ r.init = "HostProvided")}}
        written == {Key(s) : s \in {r \in slots : r.role # "Input"}}
        state == {k \in written : Meta(d, k).life = "PerProgram"}
        scratch == {k \in written \ state : NeedsZero(d, k)}
        found(keys, as) == {<<as, k, dev.memory[inner.buffers[k]]>> : k \in keys}
    IN [dev |-> Filled(dev, [h \in {inner.buffers[k] : k \in written} |-> "made"]),
        seen |-> seen \cup found(inputs, "input") \cup found(state, "state")
                      \cup found(scratch, "scratch") \cup found(Consumed(d, l.id), "edge")]
RunLaunches(dev, inner, mode, byteInputs) ==
    LET d == Desc(inner)
        copied(before, l) ==
            IF mode = "PerStep"
            THEN CopiedIn(before, inner, DeclaredInputs(d.kernels[l.kernel], byteInputs))
            ELSE before
        after[n \in 0..Len(d.launches)] ==
            IF n = 0 THEN [dev |-> dev, seen |-> {}]
            ELSE LET l == d.launches[n] IN
                 Launched(copied(after[n - 1].dev, l), inner, mode, l, after[n - 1].seen)
    IN after[Len(d.launches)]

\* Three mutants of Recycle: the mapping stays, the pool is never used, a pooled
\* buffer is freed too.
RecycleKeepsMapping(dev, inner, keys, usePool) ==
    LET left == [k \in DOMAIN inner.buffers \ keys |-> inner.buffers[k]]
        gone == [k \in keys \cap DOMAIN inner.buffers |-> inner.buffers[k]]
    IN IF usePool
       THEN [dev |-> dev, inner |-> [inner EXCEPT !.pool = Overlay(gone, @)]]
       ELSE [dev |-> Freed(dev, Handles(gone)), inner |-> [inner EXCEPT !.buffers = left]]
RecycleNeverPools(dev, inner, keys, usePool) ==
    LET left == [k \in DOMAIN inner.buffers \ keys |-> inner.buffers[k]]
        gone == [k \in keys \cap DOMAIN inner.buffers |-> inner.buffers[k]]
    IN [dev |-> Freed(dev, Handles(gone)), inner |-> [inner EXCEPT !.buffers = left]]
RecycleFreesPooled(dev, inner, keys, usePool) ==
    LET left == [k \in DOMAIN inner.buffers \ keys |-> inner.buffers[k]]
        gone == [k \in keys \cap DOMAIN inner.buffers |-> inner.buffers[k]]
    IN [dev |-> Freed(dev, Handles(gone)),
        inner |-> [inner EXCEPT !.buffers = left, !.pool = IF usePool THEN Overlay(gone, @) ELSE @]]

\* release_buffer or return_buffer_to_pool, for the step's keys.
Recycle(dev, inner, keys, usePool) ==
    LET left == [k \in DOMAIN inner.buffers \ keys |-> inner.buffers[k]]
        gone == [k \in keys \cap DOMAIN inner.buffers |-> inner.buffers[k]]
    IN IF usePool
       THEN [dev |-> dev, inner |-> [inner EXCEPT !.buffers = left, !.pool = Overlay(gone, @)]]
       ELSE [dev |-> Freed(dev, Handles(gone)), inner |-> [inner EXCEPT !.buffers = left]]

\* execute_inner from the sync on: read the observations back, recycle them
\* and the PerStep buffers, except the end-of-run set if it is kept.
Finished(dev, inner, observed, r, usePool, seen) ==
    FailsIf("sync", dev, inner)
    \cup (IF observed # {} THEN FailsIf("readback", dev, inner) ELSE {})
    \cup (IF usePool THEN {} ELSE FailsIf("release", r.dev, r.inner))
    \cup (IF observed \subseteq Keys(Desc(inner)) \cap DOMAIN inner.buffers
          THEN {Done(r.dev, r.inner, seen)} ELSE Fails(dev, inner))
FinishStep(run, inner, keep, usePool) ==
    LET d == Desc(inner)
        observed == {Key(d.results[i]) : i \in DOMAIN d.results}
        kept == IF keep THEN {Key(d.endOfRun[i]) : i \in DOMAIN d.endOfRun} ELSE {}
        recycled == observed \cup (KeysOf(d, "PerStep") \ kept)
    IN Finished(run.dev, inner, observed, Recycle(run.dev, inner, recycled, usePool),
                usePool, run.seen)

\* execute_inner
ExecuteInner(dev, inner, mode, keep, usePool, byteInputs, supplied) ==
    LET copies == /\ mode = "PerStep"
                  /\ \E k \in Range(Desc(inner).kernels) : DeclaredInputs(k, byteInputs) # {}
    IN
    UNION {
        IF ~a.ok THEN {a}
        ELSE UNION {
            IF ~c.ok THEN {c}
            ELSE FailsIf("launch", c.dev, c.inner)
                 \cup (IF copies THEN FailsIf("copy", c.dev, c.inner) ELSE {})
                 \cup (IF copies /\ ~supplied THEN Fails(c.dev, c.inner)
                       ELSE FinishStep(RunLaunches(c.dev, c.inner, mode, byteInputs),
                                       c.inner, keep, usePool))
            : c \in IF mode = "ResidentStep"
                    THEN CopyResidentInputs(a.dev, a.inner, supplied) ELSE {a}}
        : a \in AllocateStepBuffers(Aged(dev, inner), inner, usePool)}

-----------------------------------------------------------------------------
(* The execution surfaces.                                                 *)

\* execute; execute_with_weight_bytes uploads the payloads of `bytes` first.
ExecuteInOrder(dev, inner, bytes, sized, supplied, order) ==
    LET reached == {n \in 0..Len(order) : \A i \in 1..n : ByteWeightFits(inner, order[i], sized)}
        keys(n) == {KeyOf(Desc(inner), order[i]) : i \in 1..n}
        stops == {n \in reached : n < Len(order)
                                  /\ (n + 1 \notin reached \/ MayFail("copy"))}
    IN Closing({Refused(Uploaded(dev, inner, keys(n)), inner) : n \in stops}
               \cup UNION {ExecuteInner(Uploaded(dev, inner, keys(n)), inner, "PerStep",
                                        FALSE, FALSE, bytes, supplied) :
                              n \in reached \cap {Len(order)}})
Execute(dev, inner, bytes, sized, supplied) ==
    IF inner.closed \/ Desc(inner).repeating THEN {Refused(dev, inner)}
    ELSE ExecuteInOrder(dev, inner, bytes, sized, supplied, Ascending(bytes))

\* execute_step and, keeping the end-of-run set, execute_final_step.
ExecuteStep(dev, inner, keep) ==
    IF \/ inner.closed \/ ~Desc(inner).repeating \/ ~inner.params
       \/ keep /\ (inner.final \/ inner.eorRead)
    THEN {Refused(dev, inner)}
    ELSE {IF o.ok /\ keep THEN [o EXCEPT !.inner.final = TRUE] ELSE o :
            o \in Closing(ExecuteInner(dev, inner, "OnceInit", keep, FALSE, {}, TRUE))}

\* execute_resident_step
ExecuteResidentStep(dev, inner, supplied) ==
    IF inner.closed \/ ~Desc(inner).repeating \/ ~inner.params THEN {Refused(dev, inner)}
    ELSE Closing(ExecuteInner(dev, inner, "ResidentStep", FALSE, TRUE, {}, supplied))

\* No final step required, for the mutant of EndOfRunReadable.
EndOfRunAnytime(inner) == ~inner.closed /\ Desc(inner).repeating /\ ~inner.eorRead

\* read_end_of_run: the whole set once, then the kept PerStep buffers go.
EndOfRunReadable(inner) ==
    /\ ~inner.closed /\ Desc(inner).repeating /\ ~inner.eorRead
    /\ Desc(inner).endOfRun # <<>> => inner.final
ReadEndOfRun(dev, inner) ==
    LET d == Desc(inner)
        keys == {Key(d.endOfRun[i]) : i \in DOMAIN d.endOfRun}
        found == {<<"final", k, dev.memory[inner.buffers[k]]>> : k \in keys \cap DOMAIN inner.buffers}
        r == Recycle(dev, inner, keys \cap KeysOf(d, "PerStep"), FALSE)
    IN IF ~EndOfRunReadable(inner)
       THEN {Refused(dev, inner)}
       ELSE Closing((IF keys # {} THEN FailsIf("readback", dev, inner) ELSE {})
                    \cup (IF keys \cap KeysOf(d, "PerStep") # {}
                          THEN FailsIf("release", r.dev, r.inner) ELSE {})
                    \cup (IF keys \subseteq DOMAIN inner.buffers
                          THEN {Done(r.dev, [r.inner EXCEPT !.eorRead = TRUE], found)}
                          ELSE Fails(dev, inner)))

\* Nothing cleared, for the mutant of ResidentState.
NoState(inner) == {}

\* clear_resident_state: zero every PerProgram state buffer, shared ones too.
ResidentState(inner) ==
    {k \in DOMAIN inner.buffers : /\ Meta(Desc(inner), k).life = "PerProgram"
                                  /\ Meta(Desc(inner), k).init = "ZeroFill"}
ClearResidentState(dev, inner) ==
    LET state == ResidentState(inner)
    IN IF inner.closed THEN {Refused(dev, inner)}
       ELSE Closing({Done(Filled(dev, [h \in {inner.buffers[k] : k \in state} |-> "zero"]),
                          inner, {})}
                    \cup (IF state # {} THEN FailsIf("copy", dev, inner) ELSE {}))

\* teardown consumes the session, release keeps it closed.
Teardown(dev, inner) == IF inner.closed THEN dev ELSE ReleaseAllHandles(dev, inner).dev
Release(dev, inner) ==
    LET r == ReleaseAllHandles(dev, inner) IN
    [r EXCEPT !.inner.closed = TRUE]
=============================================================================
