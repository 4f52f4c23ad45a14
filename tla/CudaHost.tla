------------------------------ MODULE CudaHost ------------------------------
(***************************************************************************)
(* CudaHostSession (host-cuda/src/cuda_host.rs) and the NVVM launch adapter *)
(* over it (cuda_launch_adapter.rs).  A CUDA launch runs on the default     *)
(* stream and synchronizes before it returns, so nothing is ever pending;   *)
(* the session keeps the modules the adapter loads in a cache.              *)
(***************************************************************************)
EXTENDS DeviceRegistry

\* copy_in_bytes: exact length, in whole elements.
CudaCopyIn(dev, id, p) ==
    IF p.short \/ Len(p.words) # dev.entries[id].len THEN {}
    ELSE {[dev EXCEPT !.memory = Written(@, [base |-> Slot(dev, id).base, at |-> 0,
                                             span |-> Len(p.words)], p.words)]}

WholeView(dev, id) == [base |-> Slot(dev, id).base, at |-> 0, span |-> dev.entries[id].len]

\* launch_kernel_3d: the kernel, then cuCtxSynchronize.
CudaCanLaunch(dev, module, entry, ids) ==
    /\ IsModule(dev, module)
    /\ entry \in Entries[dev.modules[ModuleToken(dev, module)]]
    /\ \A i \in DOMAIN ids : IsBuffer(dev, ids[i])
CudaLaunched(dev, ids) ==
    LET views == [i \in DOMAIN ids |-> WholeView(dev, ids[i])] IN
    [dev EXCEPT !.memory = Run(@, [ins |-> Front(views), out |-> Last(views)])]

\* load_cached_module: by image within the hash's bucket, or loaded and kept.
CachedFor(dev, image) == {c \in dev.cache : c.image = image}
LoadCachedModule(dev, image) ==
    IF CachedFor(dev, image) # {} THEN dev
    ELSE LET loaded == LoadModule(dev, image) IN
         [loaded EXCEPT !.cache = @ \cup {[image |-> image, handle |-> dev.nextId]}]
CachedHandle(dev, image) == (CHOOSE c \in dev.cache : c.image = image).handle

\* teardown, which Drop runs: the cached modules, and nothing else.
CudaTeardown(dev) == ReleaseEach(dev, {c.handle : c \in dev.cache})

-----------------------------------------------------------------------------
(* The NVVM descriptor: [schema, target, kernels].                          *)

Roles == {"input", "extra-input", "output", "extra-output", "accumulation"}
IsInput(b) == b.role \in {"input", "extra-input"}
IsOutput(b) == b.role \in {"output", "extra-output"}
CountWhere(bs, Test(_)) == Cardinality({i \in DOMAIN bs : Test(bs[i])})
ShapeProduct(shape) == FoldFunction(LAMBDA x, y : x * y, 1, shape)

BufferOk(bs, i) ==
    /\ bs[i].role \in Roles
    /\ bs[i].count # 0
    /\ \A j \in 1 .. (i - 1) : bs[j].binding # bs[i].binding
    /\ ShapeProduct(bs[i].shape) = bs[i].count

CountsAgree(k) ==
    /\ CountWhere(k.buffers, IsOutput) > 0
    /\ k.inputs = CountWhere(k.buffers, IsInput)
    /\ k.outputs = CountWhere(k.buffers, IsOutput)
    /\ k.accumulations = CountWhere(k.buffers, LAMBDA b : b.role = "accumulation")
    /\ k.counts = [i \in DOMAIN k.buffers |-> k.buffers[i].count]
    /\ LET i == SelectInSeq(k.buffers, IsInput) IN i # 0 => k.count = k.buffers[i].count

\* launch_axis: no axis is zero; u32 bounds are far beyond the model's sizes.
LaunchAxes(k) == k.launch # <<>> /\ \A axis \in Range(k.launch.grid \o k.launch.block) : axis # 0

CeilQuotient(a, b) == (a + b - 1) \div b
PlanPosition(bs, i, role, count) == bs[i].role = role /\ bs[i].count = count
WorkgroupAgrees(k) ==
    /\ k.plan.x # 0 => k.plan.x = k.launch.block[1]
    /\ k.plan.y # 0 => k.plan.y = k.launch.block[2]

\* matmul_grid_consistency
FloorGrid(k) ==
    /\ k.plan.tile # 0
    /\ k.launch.grid[1] = k.plan.n \div k.plan.tile
    /\ k.launch.grid[2] = k.plan.m \div k.plan.tile
MatmulGrid(k) ==
    /\ k.plan.tile # 0
    /\ k.launch.grid[1] = CeilQuotient(k.plan.n, k.plan.tile)
    /\ k.launch.grid[2] = CeilQuotient(k.plan.m, k.plan.tile)

TiledMatmul(k) ==
    /\ Len(k.buffers) >= 3
    /\ PlanPosition(k.buffers, 1, "input", k.plan.m * k.plan.k)
    /\ PlanPosition(k.buffers, 2, "extra-input", k.plan.k * k.plan.n)
    /\ PlanPosition(k.buffers, 3, "output", k.plan.m * k.plan.n)
    /\ WorkgroupAgrees(k)
    /\ MatmulGrid(k)

TreeReduction(k) ==
    /\ k.plan.op \in {"sum", "mean"}
    /\ Len(k.buffers) >= 2
    /\ PlanPosition(k.buffers, 1, "input", k.plan.length)
    /\ PlanPosition(k.buffers, 2, "output", k.plan.partials)
    /\ WorkgroupAgrees(k)
    /\ k.launch.grid[1] = k.plan.partials

\* validate_kernel; a kind other than these two is known and not checked.
ValidKernel(k) ==
    /\ k.entry # ""
    /\ k.type \in {"f32", "i32", "u32"} /\ k.width = 4
    /\ k.buffers # <<>> /\ \A i \in DOMAIN k.buffers : BufferOk(k.buffers, i)
    /\ CountsAgree(k)
    /\ LaunchAxes(k)
    /\ k.plan # <<>> => /\ k.plan.kind \in {"tiled_matmul", "tree_reduction", "other"}
                        /\ k.plan.kind = "tiled_matmul" => TiledMatmul(k)
                        /\ k.plan.kind = "tree_reduction" => TreeReduction(k)

\* parse_descriptor
ParseDescriptor(doc) ==
    /\ doc.schema = 3 /\ doc.target = "llvm-nvvm"
    /\ Len(doc.kernels) = 1
    /\ ValidKernel(doc.kernels[1])

-----------------------------------------------------------------------------
(* execute_launch_plan: cached module, one buffer per plan entry, inputs in, *)
(* accumulations zeroed, launch, sync, outputs back; then every buffer is    *)
(* released, whatever happened.                                             *)

NewIds(dev, n) == [i \in 1 .. n |-> dev.nextId + i - 1]
AllocEach(dev, buffers, n, junk) ==
    FoldLeft(LAMBDA d, b : Alloc(d, b.count, junk), dev, SubSeq(buffers, 1, n))
FillEach(dev, k, ids, given) ==
    FoldLeft(LAMBDA d, i :
        LET b == k.buffers[i]
            fill(v) == [d EXCEPT !.memory = Written(@, WholeView(d, ids[i]),
                                                    [j \in 1 .. b.count |-> v])]
        IN IF IsInput(b) THEN fill(given[b.binding])
           ELSE IF b.role = "accumulation" THEN fill(0) ELSE d,
        dev, [i \in DOMAIN k.buffers |-> i])

\* Its outcomes, as [dev, ok, launched]: at each place it may fail, and done.
\* `given` is the value of each input binding the caller supplies.
ReleaseIfOk(dev, ids, ok) == IF ok THEN ReleaseEach(dev, Range(ids)) ELSE dev
ReleaseLaunch(dev, ids, ok) == ReleaseEach(dev, Range(ids))
ExecuteLaunchPlan(dev, image, k, given, junk) ==
    LET mod == LoadCachedModule(dev, image)
        handle == CachedHandle(mod, image)
        all == Len(k.buffers)
        ids == NewIds(mod, all)
        with(n) == AllocEach(mod, k.buffers, n, junk)
        ends(d, n, ok, launched) ==
            [dev |-> ReleaseLaunch(d, SubSeq(ids, 1, n), ok), ok |-> ok, launched |-> launched]
        complete == \A b \in Range(k.buffers) : IsInput(b) => b.binding \in DOMAIN given
        filled == FillEach(with(all), k, ids, given)
        allocFails == IF MayFail("alloc") THEN 0 .. (all - 1) ELSE {}
        syncEnds == {TRUE} \cup (IF MayFail("sync") THEN {FALSE} ELSE {})
    IN  IF k.type # "f32" THEN {}
        ELSE {ends(with(n), n, FALSE, FALSE) : n \in allocFails}
             \cup IF complete /\ CudaCanLaunch(filled, handle, k.entry, ids)
                  THEN {ends(CudaLaunched(filled, ids), all, ok, TRUE) : ok \in syncEnds}
                  ELSE {ends(with(all), all, FALSE, FALSE)}

=============================================================================
