-------------------------- MODULE DeviceHostProofs --------------------------
(***************************************************************************)
(* What the NVVM launch adapter launches covers its output, for every set   *)
(* of descriptors: a launched kernel has passed validate_kernel, whose      *)
(* rounded-up grid covers every row and column of a tiled product.          *)
(***************************************************************************)
EXTENDS DeviceHost, TLAPS

\* What LaunchesCoverOutput says of one kernel.
Covers(k) ==
    k.plan # <<>> =>
        /\ k.plan.kind = "tiled_matmul" =>
              /\ k.launch.grid[1] * k.plan.tile >= k.plan.n
              /\ k.launch.grid[2] * k.plan.tile >= k.plan.m
              /\ k.buffers[3].count = k.plan.m * k.plan.n
        /\ k.plan.kind = "tree_reduction" =>
              k.launch.grid[1] = k.buffers[2].count

\* Rounding the quotient up covers the dividend (matmul_grid_consistency).
LEMMA CeilCovers ==
    ASSUME NEW n \in Nat, NEW t \in Nat, t # 0
    PROVE  CeilQuotient(n, t) * t >= n
<1> DEFINE a == n + t - 1
           q == a \div t
<1>1. a \in Nat
  OBVIOUS
<1>2. q \in Int /\ a = q * t + (a % t) /\ a % t \in 0 .. (t - 1)
  BY <1>1
<1>3. q * t \in Int /\ q * t > a - t
  BY <1>1, <1>2
<1>4. q * t >= n
  BY <1>1, <1>3
<1> QED BY <1>4 DEF CeilQuotient

\* A kernel that parse_descriptor accepts covers its output (validate_kernel).
LEMMA ParsedCovers ==
    ASSUME NEW name \in DOMAIN Documents, ParseDescriptor(Documents[name])
    PROVE  Covers(Documents[name].kernels[1])
<1> DEFINE kernels == Documents[name].kernels
           k == kernels[1]
<1>1. Len(kernels) = 1 /\ ValidKernel(k)
  BY DEF ParseDescriptor
<1>2. kernels # <<>>
  BY <1>1
<1>3. CASE k.plan # <<>> /\ k.plan.kind = "tiled_matmul"
  <2>1. k.plan.m \in Nat /\ k.plan.n \in Nat /\ k.plan.tile \in Nat
    BY <1>2, <1>3, DocumentsAssumption
  <2>2. MatmulGrid(k) /\ k.buffers[3].count = k.plan.m * k.plan.n
    BY <1>1, <1>3 DEF ValidKernel, TiledMatmul, PlanPosition
  <2>3. /\ k.plan.tile # 0
        /\ k.launch.grid[1] = CeilQuotient(k.plan.n, k.plan.tile)
        /\ k.launch.grid[2] = CeilQuotient(k.plan.m, k.plan.tile)
    BY <2>2 DEF MatmulGrid
  <2>4. k.launch.grid[1] * k.plan.tile >= k.plan.n
    BY <2>1, <2>3, CeilCovers
  <2>5. k.launch.grid[2] * k.plan.tile >= k.plan.m
    BY <2>1, <2>3, CeilCovers
  <2> QED BY <1>3, <2>2, <2>4, <2>5 DEF Covers
<1>4. CASE k.plan # <<>> /\ k.plan.kind = "tree_reduction"
  <2>1. TreeReduction(k)
    BY <1>1, <1>4 DEF ValidKernel
  <2>2. k.launch.grid[1] = k.buffers[2].count
    BY <2>1 DEF TreeReduction, PlanPosition
  <2> QED BY <1>4, <2>2 DEF Covers
<1> QED BY <1>3, <1>4 DEF Covers

\* Every step of the device host leaves the launched kernels as they are, but
\* the adapter's, which adds at most the kernel of a descriptor it parsed.
LEMMA LaunchedGrowsByParsed ==
    ASSUME Next
    PROVE  \/ UNCHANGED launched
           \/ \E name \in DOMAIN Documents :
                 /\ ParseDescriptor(Documents[name])
                 /\ launched' \subseteq launched \cup {Documents[name].kernels[1]}
<1>1. ASSUME NEW image \in Images, LoadImage(image) PROVE UNCHANGED launched
  BY <1>1 DEF LoadImage
<1>2. ASSUME NEW len \in BufferLens, NEW junk \in Junk, AllocBytes(len, junk)
      PROVE UNCHANGED launched
  BY <1>2 DEF AllocBytes
<1>3. ASSUME NEW id \in Buffers, NEW p \in Payloads, CopyInBytes(id, p)
      PROVE UNCHANGED launched
  BY <1>3 DEF CopyInBytes
<1>4. ASSUME NEW m, NEW entry, NEW bindings, LaunchKernelBound(m, entry, bindings)
      PROVE UNCHANGED launched
  BY <1>4 DEF LaunchKernelBound
<1>5. ASSUME NEW m \in Modules, NEW a \in Buffers, NEW out \in Buffers,
             \/ LaunchKernel(m, "step", <<a, out>>)
             \/ LaunchView(m, "step", a, out, 1)
             \/ LaunchSwapped(m, "step", a, out)
             \/ MetalAdd(m, a, out)
      PROVE UNCHANGED launched
  <2>1. CASE LaunchKernel(m, "step", <<a, out>>)
    BY <1>4, <2>1 DEF LaunchKernel
  <2>2. CASE LaunchView(m, "step", a, out, 1)
    BY <1>4, <2>2 DEF LaunchView
  <2>3. CASE LaunchSwapped(m, "step", a, out)
    BY <1>4, <2>3 DEF LaunchSwapped
  <2>4. CASE MetalAdd(m, a, out)
    BY <2>4 DEF MetalAdd
  <2> QED BY <1>5, <2>1, <2>2, <2>3, <2>4
<1>6. ASSUME SyncDevice PROVE UNCHANGED launched
  BY <1>6 DEF SyncDevice
<1>7. ASSUME NEW id \in Buffers, ReadbackBytes(id) PROVE UNCHANGED launched
  BY <1>7 DEF ReadbackBytes
<1>8. ASSUME NEW id \in held, ReleaseHandle(id) PROVE UNCHANGED launched
  BY <1>8 DEF ReleaseHandle
<1>9. ASSUME NEW name \in DOMAIN Documents, NEW image \in Images, NEW g \in DOMAIN Given,
             NEW junk \in Junk, LaunchDescriptor(Documents[name], image, Given[g], junk)
      PROVE  /\ ParseDescriptor(Documents[name])
             /\ launched' \subseteq launched \cup {Documents[name].kernels[1]}
  <2> DEFINE k == Documents[name].kernels[1]
  <2>1. ParseDescriptor(Documents[name])
    BY <1>9 DEF LaunchDescriptor
  <2>2. \E r \in ExecuteLaunchPlan(dev, image, k, Given[g], junk) :
            launched' = IF r.launched THEN launched \cup {k} ELSE launched
    BY <1>9 DEF LaunchDescriptor
  <2> QED BY <2>1, <2>2
<1>10. ASSUME Teardown PROVE UNCHANGED launched
  BY <1>10 DEF Teardown
<1>11. ASSUME NEW name \in DOMAIN KvCatalog, NEW junk \in Junk, KvPrepare(name, junk)
       PROVE UNCHANGED launched
  BY <1>11 DEF KvPrepare
<1>12. ASSUME NEW state \in States, KvBeginStep(state) PROVE UNCHANGED launched
  BY <1>12 DEF KvBeginStep
<1>13. ASSUME NEW bindings, KvLaunch(bindings) PROVE UNCHANGED launched
  BY <1>13 DEF KvLaunch
<1>14. ASSUME KvAppend PROVE UNCHANGED launched
  BY <1>13, <1>14 DEF KvAppend
<1>15. ASSUME NEW out \in Buffers, KvAttend(out) PROVE UNCHANGED launched
  BY <1>13, <1>15 DEF KvAttend
<1>16. ASSUME KvLaunchStatic PROVE UNCHANGED launched
  BY <1>13, <1>16 DEF KvLaunchStatic
<1> QED
  BY <1>1, <1>2, <1>3, <1>5, <1>6, <1>7, <1>8, <1>9, <1>10, <1>11, <1>12, <1>14, <1>15,
     <1>16 DEF Next

\* For every set of descriptors: the adapter only launches a kernel whose grid
\* covers its output and whose buffers have the sizes its plan needs
\* (validate_kernel, execute_launch_plan).
THEOREM LaunchesAlwaysCover == Spec => []LaunchesCoverOutput
<1>1. LaunchesCoverOutput <=> \A k \in launched : Covers(k)
  BY DEF LaunchesCoverOutput, Covers
<1>2. Init => LaunchesCoverOutput
  BY DEF Init, LaunchesCoverOutput
<1>3. LaunchesCoverOutput /\ [Next]_vars => LaunchesCoverOutput'
  <2> SUFFICES ASSUME LaunchesCoverOutput, [Next]_vars PROVE LaunchesCoverOutput'
    OBVIOUS
  <2>1. \A k \in launched : Covers(k)
    BY <1>1
  <2>2. \/ UNCHANGED launched
        \/ \E name \in DOMAIN Documents :
              /\ ParseDescriptor(Documents[name])
              /\ launched' \subseteq launched \cup {Documents[name].kernels[1]}
    BY LaunchedGrowsByParsed DEF vars
  <2>3. \A k \in launched' : Covers(k)
    BY <2>1, <2>2, ParsedCovers
  <2> QED BY <2>3 DEF LaunchesCoverOutput, Covers
<1> QED BY <1>2, <1>3, PTL DEF Spec
=============================================================================
