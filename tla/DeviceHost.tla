----------------------------- MODULE DeviceHost -----------------------------
(***************************************************************************)
(* DeviceRuntime (macos-arm64/src/device_host.rs): one open Metal or CUDA   *)
(* session behind one set of calls, together with its two other clients:    *)
(* the NVVM launch adapter, and KvCacheBindingSession (session.rs), which   *)
(* keeps a KV arena and a cursor buffer on the device and binds the arena   *)
(* at offsets that follow the cursor.                                       *)
(*                                                                         *)
(* Calls are sequential (&mut self); a refused call changes nothing and is  *)
(* no step.  What is hard is deferral: Metal runs a launch at the next      *)
(* commit, while the host may release or replace the buffers it binds.      *)
(* `ideal` is what every handle would hold had each call taken effect at    *)
(* once.                                                                    *)
(***************************************************************************)
EXTENDS MetalHost, CudaHost

CONSTANTS
    MaxHandles,     \* bound on the handles ever registered
    MaxClient,      \* bound on the client's handles when it works alone
    MaxTokens,      \* bound on the driver tokens ever given
    MaxPending,     \* bound on the launches encoded between two commits
    Junk,           \* what fresh memory may hold
    BufferLens,     \* lengths the client allocates
    Payloads,       \* payloads the client copies in
    Documents,      \* NVVM descriptors, by name
    Given,          \* the input values the adapter's caller supplies, by name
    KvCatalog,      \* KV descriptors, by name
    Weights,        \* payloads of the weights KvCacheBindingSession uploads
    WeightsFail,    \* whether uploading a weight may fail
    RecopyWeights   \* whether a client copies into a handle that wraps mapped weights

\* The extents of a tiled product are u64 and its tile is u32 (NvvmPlanJson).
ASSUME DocumentsAssumption ==
    \A name \in DOMAIN Documents :
        LET kernels == Documents[name].kernels IN
        (kernels # <<>> /\ kernels[1].plan # <<>> /\ kernels[1].plan.kind = "tiled_matmul")
            => {kernels[1].plan.m, kernels[1].plan.n, kernels[1].plan.tile} \subseteq Nat

VARIABLES
    backend,        \* "metal" or "cuda"
    dev,            \* the device
    held,           \* the handles the client has been given and not released
    kv,             \* the KvCacheBindingSession, or NoKv
    ideal,          \* ghost: handle -> the words it should hold
    suspect,        \* ghost: a commit or launch failed, contents are unknown
    faithful,       \* ghost: every readback has returned what it should
    overtaken,      \* ghost: handles that an overwrite in place has overtaken
    launched        \* ghost: NVVM kernels launched by the adapter

vars == <<backend, dev, held, kv, ideal, suspect, faithful, overtaken, launched>>

NoKv == [desc |-> ""]
HasKv == kv # NoKv
Desc == KvCatalog[kv.desc]
KvHandles == IF HasKv THEN {kv.arena, kv.cursor, kv.module} \cup kv.weights ELSE {}
CacheHandles == {c.handle : c \in dev.cache}

Init ==
    /\ backend \in {"metal", "cuda"}
    /\ dev = [entries |-> <<>>, nextId |-> 1, modules |-> <<>>, slots |-> <<>>,
              memory |-> IF backend = "metal" THEN MapBase :> MappedFile ELSE <<>>,
              nextToken |-> 1, pending |-> <<>>, deferred |-> {}, cache |-> {}]
    /\ held = {} /\ kv = NoKv /\ ideal = <<>>
    /\ suspect = FALSE /\ faithful = TRUE /\ overtaken = {} /\ launched = {}

\* A client whose command failed releases its handles and calls nothing else
\* (ProgramSession and PairedSession abandon the session).
Room(n) == ~suspect /\ dev.nextId + n <= MaxHandles + 1
ClientRoom == dev.nextId <= MaxClient \/ HasKv
CanEncode == ~suspect /\ Len(dev.pending) < MaxPending
Buffers == {h \in held : IsBuffer(dev, h)}
Modules == {h \in held : IsModule(dev, h)}

-----------------------------------------------------------------------------
(* DeviceSession for DeviceRuntime.                                        *)

LoadImage(image) ==
    /\ Room(1) /\ ClientRoom
    /\ dev' = LoadModule(dev, image)
    /\ held' = held \cup {dev.nextId}
    /\ UNCHANGED <<backend, kv, ideal, suspect, faithful, overtaken, launched>>

AllocBytes(len, junk) ==
    /\ Room(1) /\ ClientRoom
    /\ dev' = Alloc(dev, len, junk)
    /\ held' = held \cup {dev.nextId}
    /\ ideal' = (dev.nextId :> [i \in 1 .. len |-> junk]) @@ ideal
    /\ UNCHANGED <<backend, kv, suspect, faithful, overtaken, launched>>

\* Metal overwrites a buffer in place whatever is pending: launches that bind it
\* run later, read the new words or write over them, and so does what follows
\* from their outputs.  A wrap gives the handle another buffer and overtakes
\* nothing; on CUDA nothing is pending.
Unmapped(id) == Slot(dev, id).base # MapBase
CopyIn(id, p) == IF backend = "metal" THEN MetalCopyIn(dev, id, p) ELSE CudaCopyIn(dev, id, p)
Follows(bases, launch) ==
    IF BasesOf(launch) \cap bases # {} THEN bases \cup {launch.out.base} ELSE bases
Overtaken(id, p) ==
    LET reached == FoldLeft(Follows, {Slot(dev, id).base}, dev.pending)
        hit == {dev.pending[i].out.base : i \in DOMAIN dev.pending} \cap reached
    IN IF backend = "metal" /\ MappedWrapFor(dev, p) THEN {}
       ELSE {h \in DOMAIN ideal : Slot(dev, h).base \in hit}
Overwrite(id, p) ==
    /\ \E d \in CopyIn(id, p) : dev' = d
    /\ ideal' = [ideal EXCEPT ![id] = PayloadWords(p)]
    /\ overtaken' = (overtaken \ {id}) \cup Overtaken(id, p)

\* Copying over a wrapped weight again is for RecopyWeights to allow.
CopyInBytes(id, p) ==
    /\ ~suspect
    /\ Unmapped(id) \/ RecopyWeights
    /\ Overwrite(id, p)
    /\ UNCHANGED <<backend, held, kv, suspect, faithful, launched>>

\* whole_handle_bindings
WholeHandles(ids) ==
    [i \in DOMAIN ids |-> [handle |-> ids[i], index |-> i - 1, offset |-> 0,
                           span |-> dev.entries[ids[i]].len, source |-> "Constant"]]
IsCudaDynamic(b) == b.offset # 0 \/ b.source # "Constant"

\* What a launch over `bindings` should leave, on ideal contents.
IdealView(b) == SubSeq(ideal[b.handle], b.offset + 1, b.offset + b.span)
IdealLaunch(bindings) ==
    LET n == Len(bindings)
        at(i) == AtIndex(bindings, i)
        value == KernelValue([i \in 1 .. (n - 1) |-> IdealView(at(i - 1))])
        out == at(n - 1)
    IN [ideal EXCEPT ![out.handle] = [i \in DOMAIN @ |->
            IF out.offset < i /\ i <= out.offset + out.span THEN value ELSE @[i]]]
OvertakenBy(bindings) ==
    IF {bindings[i].handle : i \in DOMAIN bindings} \cap overtaken = {} THEN {}
    ELSE {AtIndex(bindings, Len(bindings) - 1).handle}

\* launch_kernel_bound: Metal encodes; CUDA refuses a dynamic binding, passes
\* the handles in binding order and synchronizes.
LaunchOutcomes(module, entry, bindings) ==
    LET ids == [n \in 1 .. Len(bindings) |-> AtIndex(bindings, n - 1).handle]
        done(d, ok) == [dev |-> d, ok |-> ok]
    IN  IF backend = "metal"
        THEN {done(d, TRUE) : d \in MetalLaunchBound(dev, module, entry, bindings)}
        ELSE IF /\ Ordered(bindings)
                /\ \A i \in DOMAIN bindings :
                        ~IsCudaDynamic(bindings[i])
                        /\ bindings[i].span <= dev.entries[bindings[i].handle].len
                /\ CudaCanLaunch(dev, module, entry, ids)
             THEN {done(CudaLaunched(dev, ids), TRUE)}
                  \cup IF MayFail("sync") THEN {done(dev, FALSE)} ELSE {}
             ELSE {}

\* A kernel's output is never a mapped weight: weights are Input buffers.
LaunchKernelBound(module, entry, bindings) ==
    /\ CanEncode
    /\ Unmapped(AtIndex(bindings, Len(bindings) - 1).handle)
    /\ \E r \in LaunchOutcomes(module, entry, bindings) :
          /\ dev' = r.dev
          /\ suspect' = (suspect \/ ~r.ok)
    /\ ideal' = IdealLaunch(bindings)
    /\ overtaken' = overtaken \cup OvertakenBy(bindings)
    /\ UNCHANGED <<backend, held, kv, faithful, launched>>

LaunchKernel(module, entry, ids) == LaunchKernelBound(module, entry, WholeHandles(ids))

\* A bound launch that reads one word at an offset, and one whose bindings
\* are not declared in the order of their indexes.
LaunchView(module, entry, a, out, offset) ==
    LaunchKernelBound(module, entry,
        [WholeHandles(<<a, out>>) EXCEPT ![1].offset = offset, ![1].span = 1])
LaunchSwapped(module, entry, a, out) ==
    LaunchKernelBound(module, entry, Reverse(WholeHandles(<<a, out>>)))

\* launch_elementwise_add_f32 of the Metal session: encode, then sync.
\* If the module has no such entry only a driver token is spent.
MetalAdd(module, a, out) ==
    /\ backend = "metal"
    /\ CanEncode /\ dev.nextToken <= MaxTokens
    /\ dev.entries[a].len = dev.entries[out].len
    /\ Unmapped(out)
    /\ LET encoded == MetalEncodeAdd(dev, module, a, out)
           refused == encoded.pending = dev.pending
       IN \/ /\ dev' = IF refused THEN encoded ELSE MetalCommit(encoded)
             /\ suspect' = suspect
          \/ /\ ~refused
             /\ dev' \in MetalCommitFails(encoded)
             /\ suspect' = TRUE
    /\ ideal' = IF "add" \in Entries[dev.modules[ModuleToken(dev, module)]]
                THEN IdealLaunch(WholeHandles(<<a, out>>)) ELSE ideal
    /\ overtaken' = overtaken \cup OvertakenBy(WholeHandles(<<a, out>>))
    /\ UNCHANGED <<backend, held, kv, faithful, launched>>

Commit == IF backend = "metal" THEN MetalCommit(dev) ELSE dev

Sync ==
    \/ dev' = Commit /\ UNCHANGED suspect
    \/ /\ backend = "metal"
       /\ dev' \in MetalCommitFails(dev)
       /\ suspect' = TRUE

SyncDevice ==
    /\ ~suspect /\ dev.pending # <<>>
    /\ Sync
    /\ UNCHANGED <<backend, held, kv, ideal, faithful, overtaken, launched>>

\* readback_bytes: Metal commits what is pending first; a failing commit is
\* the readback's error.
Expected(d, id) == id \in overtaken \/ ReadSlot(d, id) = ideal[id]
ReadUncommitted(id) == dev' = dev /\ faithful' = (faithful /\ Expected(dev, id))
Read(id) == dev' = Commit /\ faithful' = (faithful /\ Expected(Commit, id))
ReadbackBytes(id) ==
    /\ ~suspect
    /\ \/ Read(id) /\ UNCHANGED suspect
       \/ Sync /\ suspect' /\ UNCHANGED faithful
    /\ UNCHANGED <<backend, held, kv, ideal, overtaken, launched>>

ReleaseHandle(id) ==
    /\ dev' = Release(dev, id)
    /\ held' = held \ {id}
    /\ ideal' = Without(ideal, {id})
    /\ overtaken' = overtaken \ {id}
    /\ UNCHANGED <<backend, kv, suspect, faithful, launched>>

-----------------------------------------------------------------------------
(* The NVVM launch adapter, on a CUDA session: launch_descriptor.           *)

LaunchDescriptor(doc, image, given, junk) ==
    /\ backend = "cuda"
    /\ ParseDescriptor(doc)
    /\ LET k == doc.kernels[1] IN
       /\ Room(Len(k.buffers) + 1)
       /\ \E r \in ExecuteLaunchPlan(dev, image, k, given, junk) :
             /\ dev' = r.dev
             /\ launched' = IF r.launched THEN launched \cup {k} ELSE launched
    /\ UNCHANGED <<backend, held, kv, ideal, suspect, faithful, overtaken>>

Teardown ==
    /\ backend = "cuda" /\ dev.cache # {}
    /\ dev' = CudaTeardown(dev)
    /\ UNCHANGED <<backend, held, kv, ideal, suspect, faithful, overtaken, launched>>

-----------------------------------------------------------------------------
(* KvCacheBindingSession.  A KV descriptor is [allocations, views, records]; *)
(* the model's sessions have one arena.                                     *)

\* KvCacheDescriptor::validate
Envelope(d, a, at, span) == span # 0 /\ at + span <= d.allocations[a]
KvValid(d) ==
    /\ d.allocations # <<>>
    /\ \A a \in DOMAIN d.allocations : a # 0 /\ d.allocations[a] # 0
    /\ \A v \in d.views : v.allocation \in DOMAIN d.allocations
                          /\ Envelope(d, v.allocation, v.base, v.span)
    /\ \A i \in DOMAIN d.records :
          /\ d.records[i].allocation \in DOMAIN d.allocations
          /\ Envelope(d, d.records[i].allocation, d.records[i].offset, d.records[i].span)

\* row_step_bytes, matching_static_view
RowStep(d, a) == Min({v.span : v \in {w \in d.views : w.allocation = a}})
MatchingViews(d, r) ==
    {v \in d.views : v.allocation = r.allocation /\ v.base = r.offset /\ v.span >= r.span}

\* live_envelope: a Position binding moves, a ValidLenAfter or QueryRows
\* binding grows; `view` is the one the record matches.
PinnedOffset(r, state, step) == r.offset
LiveOffset(r, state, step) ==
    IF r.source = "Position" THEN r.offset + state.position * step ELSE r.offset
LiveSpan(r, state, step) ==
    IF r.source = "ValidLenAfter" THEN state.validLen * step
    ELSE IF r.source = "QueryRows" THEN state.queryRows * step
    ELSE r.span
LiveOk(d, r, state) ==
    LET step == RowStep(d, r.allocation)
        span == LiveSpan(r, state, step)
    IN /\ MatchingViews(d, r) # {} /\ span # 0
       /\ LiveOffset(r, state, step) + span <= d.allocations[r.allocation]
       /\ \E v \in MatchingViews(d, r) : span <= v.span

\* materialize_session_bindings, for one record of the descriptor.
LiveBinding(r, state, index) ==
    [handle |-> kv.arena, index |-> index, source |-> r.source,
     offset |-> LiveOffset(r, state, RowStep(Desc, r.allocation)),
     span |-> LiveSpan(r, state, RowStep(Desc, r.allocation))]

\* prepare: module, arenas, cursor, then each weight is allocated and copied.
\* On failure the arenas, the weights already recorded and the module are
\* released: not the cursor, nor the weight being uploaded.
Weighted(d, p, junk) ==
    LET a == Alloc(d, Len(p.words), junk) IN
    CHOOSE x \in (IF backend = "metal" THEN MetalCopyIn(a, d.nextId, p)
                  ELSE CudaCopyIn(a, d.nextId, p)) : TRUE
Prepared(name, n, junk) ==      \* the device once n weights are uploaded
    LET d == KvCatalog[name]
        base == Alloc(Alloc(LoadModule(dev, d.image), d.allocations[1], junk), 1, junk)
    IN FoldLeft(LAMBDA x, p : Weighted(x, p, junk), base, SubSeq(Weights, 1, n))
WeightIds(n) == {dev.nextId + 2 + i : i \in 1 .. n}
PrepareFails(name, junk) ==
    LET d == KvCatalog[name]
        module == dev.nextId
        arena == dev.nextId + 1
        loaded == LoadModule(dev, d.image)
        unwound(x, i) == ReleaseEach(x, ({module, arena} \cap DOMAIN x.entries) \cup WeightIds(i))
    IN (IF MayFail("alloc")
        THEN {unwound(x, 0) : x \in {loaded, Alloc(loaded, d.allocations[1], junk)}} ELSE {})
       \cup UNION {{unwound(Prepared(name, i, junk), i),
                    unwound(Alloc(Prepared(name, i, junk), 1, junk), i)} :
                        i \in IF WeightsFail THEN 0 .. (Len(Weights) - 1) ELSE {}}

KvPrepare(name, junk) ==
    /\ ~HasKv /\ KvValid(KvCatalog[name])
    /\ Room(3 + Len(Weights))
    /\ LET module == dev.nextId
           arena == dev.nextId + 1
           cursor == dev.nextId + 2
           n == Len(Weights)
       IN \/ /\ dev' = Prepared(name, n, junk)
             /\ kv' = [desc |-> name, module |-> module, arena |-> arena, cursor |-> cursor,
                       weights |-> WeightIds(n), state |-> <<>>, rows |-> <<>>]
             /\ ideal' = (arena :> [j \in 1 .. KvCatalog[name].allocations[1] |-> junk])
                         @@ (cursor :> <<junk>>)
                         @@ [w \in WeightIds(n) |-> PayloadWords(Weights[w - cursor])] @@ ideal
          \/ /\ dev' \in PrepareFails(name, junk)
             /\ UNCHANGED <<kv, ideal>>
    /\ UNCHANGED <<backend, held, suspect, faithful, overtaken, launched>>

\* begin_step: upload_invocation_state, then the live bindings are computed;
\* if they do not fit, the cursor has been overwritten all the same.  Nothing
\* syncs first: an append that is still pending will read the new cursor, and
\* what its row then holds is not claimed.
UnreadAppends ==
    {dev.pending[i].out.at : i \in {j \in DOMAIN dev.pending :
        Slot(dev, kv.cursor).base \in BasesOf(dev.pending[j])}}
KvBeginStep(state) ==
    /\ HasKv /\ ~suspect
    /\ Overwrite(kv.cursor, [source |-> "heap", at |-> 0, short |-> FALSE,
                             words |-> <<state.position>>])
    /\ kv' = [kv EXCEPT !.rows = Without(@, UnreadAppends), !.state =
                IF \A i \in DOMAIN Desc.records : LiveOk(Desc, Desc.records[i], state)
                THEN state ELSE <<>>]
    /\ UNCHANGED <<backend, held, suspect, faithful, launched>>

\* The append launch writes the row of the cursor's position, the attention
\* launch reads the valid prefix; both through the session's bound launch.
Record(source) == CHOOSE r \in Range(Desc.records) : r.source = source
Bind(id, index) ==
    [handle |-> id, index |-> index, offset |-> 0, span |-> dev.entries[id].len,
     source |-> "Constant"]
KvLaunch(bindings) ==
    /\ CanEncode
    /\ \E r \in LaunchOutcomes(kv.module, "step", bindings) :
          /\ dev' = r.dev
          /\ suspect' = (suspect \/ ~r.ok)
    /\ ideal' = IdealLaunch(bindings)
    /\ overtaken' = overtaken \cup OvertakenBy(bindings)
    /\ UNCHANGED <<backend, held, faithful, launched>>
KvAppend ==
    /\ HasKv /\ kv.state # <<>>
    /\ KvLaunch(<<Bind(kv.cursor, 0), LiveBinding(Record("Position"), kv.state, 1)>>)
    /\ kv' = [kv EXCEPT !.rows = (kv.state.position :> (kv.state.position + 1) % WordCount) @@ @]
KvAttend(out) ==
    /\ HasKv /\ kv.state # <<>> /\ Unmapped(out)
    /\ KvLaunch(<<LiveBinding(Record("ValidLenAfter"), kv.state, 0), Bind(out, 1)>>)
    /\ UNCHANGED kv

\* launch_kv_kernel binds the records at their static offsets.
\* resolve_launch_bindings: each lies in its allocation and matches a view.
ResolveOk(d) ==
    KvValid(d) /\ \A r \in Range(d.records) : MatchingViews(d, r) # {}
StaticBindings ==
    [i \in DOMAIN Desc.records |->
        [handle |-> kv.arena, index |-> Desc.records[i].index, offset |-> Desc.records[i].offset,
         span |-> Desc.records[i].span, source |-> Desc.records[i].source]]
KvLaunchStatic ==
    /\ HasKv /\ ResolveOk(Desc)
    /\ KvLaunch(StaticBindings)
    /\ kv' = [kv EXCEPT !.rows = Without(@, {0})]

-----------------------------------------------------------------------------
States == {[position |-> p, validLen |-> p + 1, queryRows |-> 1] : p \in Words}

Next ==
    \/ \E image \in Images : LoadImage(image)
    \/ \E len \in BufferLens, junk \in Junk : AllocBytes(len, junk)
    \/ \E id \in Buffers, p \in Payloads : CopyInBytes(id, p)
    \/ \E m \in Modules, a, out \in Buffers :
          \/ LaunchKernel(m, "step", <<a, out>>)
          \/ LaunchView(m, "step", a, out, 1)
          \/ LaunchSwapped(m, "step", a, out)
          \/ MetalAdd(m, a, out)
    \/ SyncDevice
    \/ \E id \in Buffers : ReadbackBytes(id)
    \/ \E id \in held : ReleaseHandle(id)
    \/ \E name \in DOMAIN Documents, image \in Images, g \in DOMAIN Given, junk \in Junk :
          LaunchDescriptor(Documents[name], image, Given[g], junk)
    \/ Teardown
    \/ \E name \in DOMAIN KvCatalog, junk \in Junk : KvPrepare(name, junk)
    \/ \E state \in States : KvBeginStep(state)
    \/ KvAppend
    \/ \E out \in Buffers : KvAttend(out)
    \/ KvLaunchStatic

Spec == Init /\ [][Next]_vars

-----------------------------------------------------------------------------
(* Correctness.                                                            *)

\* TypeOK: the device's tables, the client's handles and the ghosts have
\* their shapes, and the words of every buffer handle lie in the buffer its
\* slot holds (mapped_wrap_for, compose_bind_offset).
TypeOK ==
    /\ backend \in {"metal", "cuda"} /\ {suspect, faithful} \subseteq BOOLEAN
    /\ DOMAIN dev.entries \subseteq 1 .. MaxHandles
    /\ \A h \in DOMAIN dev.entries :
          \/ IsModule(dev, h)
          \/ IsBuffer(dev, h) /\ Slot(dev, h).region + dev.entries[h].len <= Slot(dev, h).len
    /\ \A b \in DOMAIN dev.memory : \A i \in DOMAIN dev.memory[b] : dev.memory[b][i] \in Words
    /\ Len(dev.pending) <= MaxPending
    /\ held \subseteq 1 .. MaxHandles /\ overtaken \subseteq DOMAIN ideal

\* Every handle the session has registered is one that somebody still owns
\* (the client, the KV session, the module cache), and nobody owns a handle
\* the session has forgotten: the launch adapter and a failed prepare leave
\* nothing behind (execute_launch_plan, KvCacheBindingSession::prepare).
HandlesAccountedFor == DOMAIN dev.entries = held \cup KvHandles \cup CacheHandles

\* The driver holds exactly the tokens of the registered handles and the
\* extent buffers of launches that are still pending (deferred_free).
TokensAccountedFor ==
    LET tokens(kind) == {dev.entries[h].token :
                            h \in {x \in DOMAIN dev.entries : dev.entries[x].kind = kind}}
    IN /\ DOMAIN dev.modules = tokens("module")
       /\ DOMAIN dev.slots = tokens("buffer") \cup dev.deferred
       /\ dev.pending = <<>> => dev.deferred = {}

\* Deferring is invisible but for what an overwrite in place overtook: once the
\* pending launches run, every other live handle holds what it would hold had
\* each call taken effect at once, although buffers were released, replaced by
\* mappings, overwritten and bound at offsets in between (launch_kernel_bound,
\* copy_in, free).
DeferralInvisible ==
    ~suspect => \A h \in DOMAIN ideal : Expected(Commit, h)

\* A readback returns the effect of every launch before it: it commits what
\* is pending first (copy_out).  What was overtaken is not claimed.
ReadbackCurrent == faithful

\* After a step boundary, each row of the KV arena holds what the step at
\* that position appended, if its append ran before the next begin_step: no
\* append lands on another row (materialize_session_bindings).  A caller that
\* syncs at each step boundary, as the tests do, has this of every row.
KvRowsExact ==
    (HasKv /\ ~suspect /\ dev.pending = <<>>)
        => \A p \in DOMAIN kv.rows : ReadSlot(dev, kv.arena)[p + 1] = kv.rows[p]

\* begin_step: "Copy the cursor once and return the live bindings for this step.
\* Append and attention launches share this upload."  The code does not keep
\* this on Metal: a second begin_step before a sync overwrites the cursor that
\* the first step's deferred append has yet to read.
StepsReadTheirUpload ==
    (HasKv /\ ~suspect) => ReadSlot(Commit, kv.arena) = ideal[kv.arena]

\* The adapter only launches a kernel whose grid covers its output: tiles
\* over every row and column of a product, a workgroup per partial sum, and
\* buffers of the sizes the plan's extents need (validate_kernel).
LaunchesCoverOutput ==
    \A k \in launched : k.plan # <<>> =>
        /\ k.plan.kind = "tiled_matmul" =>
              /\ k.launch.grid[1] * k.plan.tile >= k.plan.n
              /\ k.launch.grid[2] * k.plan.tile >= k.plan.m
              /\ k.buffers[3].count = k.plan.m * k.plan.n
        /\ k.plan.kind = "tree_reduction" =>
              k.launch.grid[1] = k.buffers[2].count

\* The mapped weight file is never written through a handle that wraps it:
\* "Metal mmap-backed region is read-only" (copy_in).
MappedWeightsIntact == MapBase \in DOMAIN dev.memory => dev.memory[MapBase] = MappedFile

\* Client handles, registry entries and driver tokens match one to one, on
\* every error exit too, and what the driver still keeps for a released handle
\* is exactly what a pending launch needs.
DeviceAccountedFor == TypeOK /\ HandlesAccountedFor /\ TokensAccountedFor

\* Deferral cannot be observed (MetalHost): memory after a commit and every
\* readback are those of immediate execution, save where an overwrite in place
\* overtook a pending launch.
DeferredAsImmediate == DeferralInvisible /\ ReadbackCurrent
=============================================================================
