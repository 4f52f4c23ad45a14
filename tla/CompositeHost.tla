--------------------------- MODULE CompositeHost ----------------------------
(***************************************************************************)
(* The composite host of macos-arm64/src/composite_host.rs and the sessions *)
(* it opens on its one device: a program session (session.rs), a prepared   *)
(* resident session over one, or a paired prefill/decode session            *)
(* (paired_session.rs) over two that share the module and the PerProgram    *)
(* buffers, driven by the sequence machine of inference_state.rs.           *)
(*                                                                         *)
(* A session borrows the host's device mutably, so one is open at a time.   *)
(* The handlers of a program session are single actions.  A paired          *)
(* invocation is three (plan, dispatch, settle), so that it is made of the  *)
(* machine's own actions; nothing else runs in between.                     *)
(***************************************************************************)
EXTENDS ProgramSession

CONSTANTS
    OneShots,       \* the descriptors presented to execute_descriptor
    Pairs,          \* the <<prefill, decode>> descriptors clients present
    Txns,           \* the transaction of the invocation in progress
    PromptRows,     \* tokens of the prepared prompt
    DecodeRows,     \* rows past the prompt (65536 in the code)
    MaxEpoch,       \* the largest sequence_epoch (u32::MAX in the code)
    MaxSessions,    \* bound on the sessions opened
    MaxSteps        \* bound on the steps of one session

Names == DOMAIN Catalog
Capacity == PromptRows + DecodeRows     \* pair_sequence_capacity

ASSUME HostAssumption ==
    /\ {PromptRows, DecodeRows, MaxEpoch, MaxSessions, MaxSteps} \subseteq Nat \ {0}
    /\ IsFiniteSet(Txns) /\ Cardinality(Txns) = 1
    /\ OneShots \subseteq Names /\ Pairs \subseteq Names \X Names

VARIABLES
    host,       \* the selection's outcome: "closed", "cpu" or "device"
    device,     \* the runtime's live handles, their contents, and its counters
    program,    \* the ProgramInner in each slot a session holds
    client,     \* the open session: its kind and the counters of its receipts
    reads,      \* what the last step's launches found in the buffers they read
    opened,     \* sessions opened so far
    \* the sequence machine of a paired session
    validLen, epoch, phase, released, lastCommit, txn, commits, reported

Machine == INSTANCE InferenceSession
machineVars == <<validLen, epoch, phase, released, lastCommit, txn, commits, reported>>
hostVars == <<host, device, program, client, reads, opened>>
vars == <<hostVars, machineVars>>

NoClient == [kind |-> "none", pc |-> "idle"]
NoPrograms == <<>>
Only(inner) == [main |-> inner]
Empty(backend) == [backend |-> backend, memory |-> <<>>, loads |-> 0, allocs |-> 0, uploads |-> 0]

Init ==
    /\ host = "closed" /\ device = Empty("none") /\ program = NoPrograms
    /\ client = NoClient /\ reads = {} /\ opened = 0
    /\ Machine!Init

-----------------------------------------------------------------------------
(* Selection and admission.                                                *)

Backends == {"Metal", "Cuda"}

\* resolve_device_selection; "refused" is its error.
ResolveDeviceSelection(selection, requiresDevice, admitted) ==
    IF selection = "Auto"
    THEN IF ~requiresDevice THEN "cpu"
         ELSE IF Cardinality(admitted) = 1 THEN CHOOSE b \in admitted : TRUE ELSE "refused"
    ELSE IF requiresDevice /\ selection \in admitted THEN selection ELSE "refused"

\* new, with select_singleton_device: `found` physical devices of the backend.
NewHost(selection, requiresDevice, admitted, found) ==
    LET resolved == ResolveDeviceSelection(selection, requiresDevice, admitted) IN
    /\ host = "closed" /\ resolved # "refused"
    /\ IF resolved = "cpu" THEN host' = "cpu" /\ UNCHANGED device
       ELSE found = 1 /\ host' = "device" /\ device' = Empty(resolved)
    /\ UNCHANGED <<program, client, reads, opened, machineVars>>

\* require_implicit_local and device_mut: without a device nothing opens.
CanOpen == host = "device" /\ client = NoClient /\ opened < MaxSessions

-----------------------------------------------------------------------------
(* A program session.                                                      *)

ParamIds(d) == Buffers(Params(d))
\* The payloads a caller may present: everything, or one weight missing; as
\* bytes or as f32 values.
Offers(ids) == {ids} \cup {ids \ {i} : i \in ids}
Presented(ids) == UNION {{[bytes |-> o, given |-> {}], [bytes |-> {}, given |-> o]} : o \in Offers(ids)}

OpenedWith(o, session) ==
    /\ opened' = opened + 1
    /\ device' = o.dev
    /\ IF o.ok THEN program' = Only(o.inner) /\ client' = session
               ELSE UNCHANGED <<program, client>>
    /\ UNCHANGED <<host, reads, machineVars>>

\* create_program_session
CreateProgramSession ==
    /\ CanOpen
    /\ \E name \in Names : \E o \in NewWithShare(device, name, NoShare) :
          OpenedWith(o, [kind |-> "program", pc |-> "idle", steps |-> 0])

\* execute_descriptor: a session for one execution.
ExecuteDescriptor ==
    /\ CanOpen
    /\ \E name \in OneShots, supplied \in BOOLEAN : \E o \in NewWithShare(device, name, NoShare) :
          IF ~o.ok THEN device' = o.dev /\ UNCHANGED reads
          ELSE \E e \in Execute(o.dev, o.inner, {}, TRUE, supplied) :
                  \* on an error the session has been abandoned, or was refused
                  \* as a RepeatingStep one and is dropped with its handles
                  /\ device' = IF e.ok THEN Teardown(e.dev, e.inner) ELSE e.dev
                  /\ reads' = e.reads
    /\ opened' = opened + 1
    /\ UNCHANGED <<host, program, client, machineVars>>

Apply(o) ==
    /\ device' = o.dev /\ program' = Only(o.inner) /\ reads' = o.reads
    /\ UNCHANGED <<host, opened, machineVars>>

Using(kind) == client.kind = kind /\ client.steps < MaxSteps
Step(outcomes) ==
    /\ client' = [client EXCEPT !.steps = @ + 1]
    /\ \E o \in outcomes : Apply(o)

ProgramInitParams ==
    /\ Using("program")
    /\ LET ids == ParamIds(Desc(program["main"])) IN
       \E bytes \in {{}, ids}, sized \in BOOLEAN : \E given \in Offers(ids \ bytes) :
          Step(InitParams(device, program["main"], bytes, given, sized))
ProgramExecute ==
    /\ Using("program")
    /\ \E bytes \in {{}, ParamIds(Desc(program["main"]))}, sized, supplied \in BOOLEAN :
          Step(Execute(device, program["main"], bytes, sized, supplied))
ProgramExecuteStep ==
    /\ Using("program")
    /\ \E keep \in BOOLEAN : Step(ExecuteStep(device, program["main"], keep))
ProgramReadEndOfRun ==
    /\ Using("program")
    /\ Step(ReadEndOfRun(device, program["main"]))
ProgramTeardown ==
    /\ client.kind = "program"
    /\ device' = Teardown(device, program["main"])
    /\ program' = NoPrograms /\ client' = NoClient /\ reads' = {}
    /\ UNCHANGED <<host, opened, machineVars>>

-----------------------------------------------------------------------------
(* A prepared resident session.                                            *)

PerExecution(d) == Keys(d) \ KeysOf(d, "PerProgram")

\* prepare and prepare_with_weight_bytes: once-init weights are required.
CanPrepare(d) == Validate(d) /\ d.backend = device.backend /\ d.repeating /\ Params(d) # {}
PrepareResident ==
    /\ CanOpen
    /\ \E name \in {n \in Names : CanPrepare(Catalog[n])} :
       \E o \in NewWithShare(device, name, NoShare), w \in Presented(ParamIds(Catalog[name])) :
          IF ~o.ok THEN OpenedWith(o, NoClient)
          ELSE \E i \in InitParams(o.dev, o.inner, w.bytes, w.given, TRUE) :
                  OpenedWith(i, [kind |-> "prepared", pc |-> "idle", steps |-> 0,
                                 reuses |-> 0, resets |-> 0, loadsAt |-> i.dev.loads,
                                 allocsAt |-> i.dev.allocs, uploadsAt |-> o.dev.uploads,
                                 first |-> {}, afterReset |-> TRUE])

\* PreparedResidentSession::execute_step; `first` is what the first step of a
\* prompt read.
PreparedStep ==
    /\ Using("prepared")
    /\ \E supplied \in BOOLEAN : \E o \in ExecuteResidentStep(device, program["main"], supplied) :
          /\ Apply(o)
          /\ client' = [client EXCEPT
                 !.steps = @ + 1,
                 !.reuses = IF o.ok THEN @ + 1 ELSE @,
                 !.first = IF o.ok /\ @ = {} THEN o.reads ELSE @,
                 !.afterReset = FALSE]

\* reset_prompt
ResetPrompt ==
    /\ Using("prepared")
    /\ \E o \in ClearResidentState(device, program["main"]) :
          /\ Apply(o)
          /\ client' = [client EXCEPT !.steps = @ + 1,
                                      !.resets = IF o.ok THEN @ + 1 ELSE @,
                                      !.afterReset = o.ok]

\* receipt: what the driver's counters say happened since prepare.
Monus(a, b) == IF a > b THEN a - b ELSE 0
ModuleReloads == Monus(device.loads, client.loadsAt)
PerProgramReallocs ==
    Monus(Monus(device.allocs, client.allocsAt),
          IF client.reuses > 0 THEN Cardinality(PerExecution(Desc(program["main"]))) ELSE 0)

\* teardown: release unless closed already.
PreparedTeardown ==
    /\ client.kind = "prepared"
    /\ device' = IF program["main"].closed THEN device ELSE Release(device, program["main"]).dev
    /\ program' = NoPrograms /\ client' = NoClient /\ reads' = {}
    /\ UNCHANGED <<host, opened, machineVars>>

-----------------------------------------------------------------------------
(* A paired session.                                                       *)

PersistentSemantics(d) == {Meta(d, k).sem : k \in KeysOf(d, "PerProgram")}

\* validate_pair_descriptors
ValidatePair(prefill, decode) ==
    /\ Validate(prefill) /\ Validate(decode) /\ prefill.backend = decode.backend
    /\ prefill.repeating /\ decode.repeating
    /\ PersistentSemantics(prefill) = PersistentSemantics(decode)
    /\ PersistentSemantics(prefill) # {}

\* prepare: the prefill program with its weights, then the decode program on
\* the prefill's offer; a failure of the second releases both.
PairOutcomes(dev, prefill, decode, bytes, given) ==
    LET failed(d) == [ok |-> FALSE, dev |-> d] IN
    UNION {
        IF ~p.ok THEN {failed(p.dev)}
        ELSE UNION {
            IF ~w.ok THEN {failed(w.dev)}
            ELSE UNION {
                IF ~q.ok THEN {failed(Teardown(q.dev, w.inner))}
                ELSE {IF ~x.ok THEN failed(Teardown(Teardown(x.dev, x.inner), w.inner))
                      ELSE [ok |-> TRUE, dev |-> x.dev,
                            program |-> [main |-> w.inner, decode |-> x.inner]]
                      : x \in InitParams(q.dev, q.inner, bytes, given, TRUE)}
                : q \in NewWithShare(w.dev, decode, SharedOffer(w.inner))}
            : w \in InitParams(p.dev, p.inner, bytes, given, TRUE)}
        : p \in NewWithShare(dev, prefill, NoShare)}

PreparePaired ==
    /\ CanOpen
    /\ opened' = opened + 1
    /\ \E pair \in {p \in Pairs : ValidatePair(Catalog[p[1]], Catalog[p[2]])} :
       \E w \in Presented(ParamIds(Catalog[pair[1]]) \cup ParamIds(Catalog[pair[2]])) :
       \E o \in PairOutcomes(device, pair[1], pair[2], w.bytes, w.given) :
          /\ device' = o.dev
          /\ IF o.ok
             THEN /\ program' = o.program
                  /\ client' = [kind |-> "paired", pc |-> "idle", steps |-> 0,
                                reuses |-> 0, resets |-> 0, pair |-> pair, warm |-> {},
                                invocation |-> <<>>, ran |-> <<>>, loadsAt |-> o.dev.loads,
                                allocsAt |-> o.dev.allocs, uploadsAt |-> device.uploads]
             ELSE UNCHANGED <<program, client>>
    /\ validLen' = 0 /\ epoch' = 1 /\ phase' = "Fresh" /\ released' = FALSE
    /\ lastCommit' = Machine!NoCommit /\ txn' = [t \in Txns |-> Machine!NoTxn]
    /\ commits' = <<>> /\ reported' = FALSE
    /\ UNCHANGED <<host, reads>>

\* invocation_query_rows
QueryRows(invocation) == IF invocation.mode = "Prefill" THEN PromptRows ELSE 1

RowsOf(invocation) == [epoch |-> invocation.epoch, prefix |-> invocation.prefix,
                       rows |-> QueryRows(invocation)]

\* match_invocation_cursor: the invocation is for the live epoch and cursor.
CursorUnmatched(invocation) == TRUE
MatchInvocationCursor(invocation) ==
    invocation.epoch = epoch /\ invocation.prefix = validLen

\* execute_invocation up to the dispatch; a rejected invocation, an unmatched
\* cursor and a failed projection leave the machine as it was.
PairedPlan(t, invocation) ==
    /\ Using("paired") /\ client.pc = "idle"
    /\ Machine!BeginTransaction(t, invocation.mode, QueryRows(invocation))
    /\ MatchInvocationCursor(invocation)
    /\ client' = [client EXCEPT !.pc = "planned", !.invocation = invocation]
    /\ UNCHANGED <<host, device, program, reads, opened>>

\* record_possible_mutation and execute_prefill or execute_decode.
SlotOf(mode) == IF mode = "Prefill" THEN "main" ELSE "decode"
PairedDispatch(t) ==
    LET slot == SlotOf(client.invocation.mode) IN
    /\ client.pc = "planned"
    /\ Machine!RecordPossibleMutation(t)
    /\ \E supplied \in BOOLEAN : \E o \in ExecuteResidentStep(device, program[slot], supplied) :
          /\ device' = o.dev /\ reads' = o.reads
          /\ program' = [program EXCEPT ![slot] = o.inner]
          /\ client' = [client EXCEPT !.pc = IF o.ok THEN "ran" ELSE "failed",
                                      !.warm = IF o.ok THEN @ \cup {slot} ELSE @,
                                      !.ran = IF o.ok THEN Append(@, RowsOf(client.invocation))
                                              ELSE @]
    /\ UNCHANGED <<host, opened>>

\* The device ran: commit the transaction.
PairedCommit(t) ==
    /\ client.pc = "ran"
    /\ Machine!Commit(t)
    /\ client' = [client EXCEPT !.pc = "settled", !.reuses = @ + 1, !.steps = @ + 1]
    /\ UNCHANGED <<host, device, program, reads, opened>>

\* release_all: the decode program, then the prefill program that owns what
\* they share; both slots end empty.
ReleaseAll ==
    LET torn(dev, slot) == IF slot \in DOMAIN program THEN Teardown(dev, program[slot]) ELSE dev
    IN device' = torn(torn(device, "decode"), "main") /\ program' = NoPrograms
\* The device failed: fail the transaction and release both programs.
FailUnpoisoned(t) ==
    /\ client.pc = "failed"
    /\ ReleaseAll
    /\ client' = [client EXCEPT !.pc = "settled", !.steps = @ + 1]
    /\ UNCHANGED <<host, reads, opened, machineVars>>
PairedFail(t) ==
    /\ client.pc = "failed"
    /\ Machine!Fail(t)
    /\ ReleaseAll
    /\ client' = [client EXCEPT !.pc = "settled", !.steps = @ + 1]
    /\ UNCHANGED <<host, reads, opened>>

\* execute_invocation returns and its transaction is dropped.
PairedReturn(t) ==
    /\ client.pc = "settled"
    /\ Machine!DropTransaction(t)
    /\ client' = [client EXCEPT !.pc = "idle"]
    /\ UNCHANGED <<host, device, program, reads, opened>>

\* reset: the sequence machine only; the device keeps its contents.
PairedReset ==
    /\ Using("paired") /\ client.pc = "idle"
    /\ Machine!LogicalReset
    /\ client' = [client EXCEPT !.resets = @ + 1, !.steps = @ + 1]
    /\ UNCHANGED <<host, device, program, reads, opened>>

\* teardown, and Drop for PairedProgramSession.
PairedTeardown ==
    /\ client.kind = "paired" /\ client.pc = "idle"
    /\ ReleaseAll
    /\ client' = NoClient /\ reads' = {}
    /\ UNCHANGED <<host, opened, machineVars>>

-----------------------------------------------------------------------------
Next ==
    \/ \E selection \in Backends \cup {"Auto"}, requires \in BOOLEAN,
          admitted \in SUBSET Backends, found \in 0..2 :
          NewHost(selection, requires, admitted, found)
    \/ CreateProgramSession
    \/ ExecuteDescriptor
    \/ ProgramInitParams \/ ProgramExecute
    \/ ProgramExecuteStep \/ ProgramReadEndOfRun \/ ProgramTeardown
    \/ PrepareResident
    \/ PreparedStep \/ ResetPrompt \/ PreparedTeardown
    \/ PreparePaired
    \/ \E t \in Txns :
          \/ \E mode \in {"Prefill", "ScalarDecode"}, e \in 1..MaxEpoch, prefix \in 0..Capacity :
                PairedPlan(t, [mode |-> mode, epoch |-> e, prefix |-> prefix])
          \/ PairedDispatch(t) \/ PairedCommit(t) \/ PairedFail(t) \/ PairedReturn(t)
    \/ PairedReset \/ PairedTeardown

Spec == Init /\ [][Next]_vars

-----------------------------------------------------------------------------
(* Properties.                                                             *)

TypeOK ==
    /\ host \in {"closed", "cpu", "device"}
    /\ DOMAIN device.memory \subseteq 1..(device.loads + device.allocs)
    /\ \A h \in DOMAIN device.memory :
          device.memory[h] \in {"module", "junk", "zero", "host", "made", "old"}
    /\ DOMAIN program \subseteq {"main", "decode"}
    /\ \A slot \in DOMAIN program : program[slot].desc \in Names
    /\ client.kind \in {"none", "program", "prepared", "paired"}
    /\ client.pc \in {"idle", "planned", "ran", "failed", "settled"}
    /\ Machine!TypeOK

Open(slot) == slot \in DOMAIN program /\ ~program[slot].closed

\* No open program keeps a handle the device has released: not its module, a
\* mapped buffer or a pooled one, not even one that belongs to the program it
\* is paired with.  Between a failed dispatch and release_all the survivor's
\* shared mappings are dead, but nothing can run on them.
MappedHandlesLive ==
    \A slot \in {s \in {"main", "decode"} : Open(s)} :
        client.pc # "failed" =>
            {program[slot].module} \cup Handles(program[slot].buffers)
                \cup Handles(program[slot].pool) \subseteq DOMAIN device.memory

\* Every live handle has one owner: it is the module of one program, or in its
\* buffer map under one key of its own, or in its pool under one key, and no
\* other.  A second owner would release it twice or share step scratch.
Owners(h) ==
    UNION {  {<<slot, "module">> : i \in {1} \cap
                  (IF program[slot].module = h /\ ~program[slot].sharedModule THEN {1} ELSE {})}
             \cup {<<slot, "buffer", k>> : k \in
                  {j \in DOMAIN program[slot].buffers \ program[slot].shared :
                      program[slot].buffers[j] = h}}
             \cup {<<slot, "pool", k>> : k \in
                  {j \in DOMAIN program[slot].pool : program[slot].pool[j] = h}}
           : slot \in {s \in {"main", "decode"} : Open(s)}}
OneOwner == \A h \in DOMAIN device.memory : Cardinality(Owners(h)) <= 1

\* Every handle left live belongs to an open program: failures of creation, of
\* once-init, of a step, of a readback or of a reset leave nothing behind, and
\* neither does a teardown.
NothingStranded == \A h \in DOMAIN device.memory : Owners(h) # {}

\* What a launch finds: a host input holds this step's value or its once-init
\* weight, never zeros, junk or an earlier token; a value another launch
\* produces for it was produced in this step; and zero-filled scratch was
\* zeroed in this step though the pool hands out used buffers.  (A step run
\* after the final one reuses the end-of-run buffers the final step kept.)
LaunchesReadCurrentValues ==
    \A r \in reads :
        /\ r[1] = "edge" => r[3] = "made"
        /\ r[1] = "input" => r[3] = "host"
        /\ r[1] = "scratch" => r[3] \in {"zero", "made"} \/ program["main"].final

\* State a prepared session's program accumulates starts at zero and is never
\* what an allocation happened to hold.
StateNeverJunk == \A r \in reads : r[1] = "state" => r[3] \in {"zero", "made", "host"}

\* reset_prompt puts a prompt back where prepare left it: the first step after
\* it reads exactly what the first step after prepare read, although the pool,
\* the state buffers and the module are the ones already used.
ResetLikePrepare ==
    [][(client.kind = "prepared" /\ client.afterReset /\ client.first # {}
          /\ client'.kind = "prepared" /\ client'.reuses > client.reuses)
        => reads' = client.first]_vars

\* A resident session never reloads a module and allocates nothing but its
\* per-execution buffers, once, however many steps it ran.
PairWarmup == IF client.kind = "paired"
              THEN LET slots == client.warm IN
                   (IF "main" \in slots THEN Cardinality(PerExecution(Catalog[client.pair[1]])) ELSE 0)
                   + (IF "decode" \in slots THEN Cardinality(PerExecution(Catalog[client.pair[2]])) ELSE 0)
              ELSE 0
NothingReloaded ==
    /\ (client.kind = "prepared" /\ Open("main") => ModuleReloads = 0 /\ PerProgramReallocs = 0)
    /\ (client.kind = "paired" /\ program # NoPrograms /\ client.pc # "failed"
            => /\ device.loads = client.loadsAt
               /\ device.allocs = client.allocsAt + PairWarmup)

\* Weights cross to the device once: what prepare uploaded, one upload per
\* weight even for two programs that share them, and nothing since.
WeightsUploadedOnce ==
    client.kind \in {"prepared", "paired"} /\ program # NoPrograms =>
        device.uploads = client.uploadsAt + Cardinality(Params(Desc(program["main"])))

\* A device failure in a paired invocation poisons the sequence and leaves
\* neither program nor handle; without one both programs stay.
FailurePoisonsAndReleasesPair ==
    client.kind = "paired" /\ client.pc = "idle" =>
        /\ (phase = "Poisoned") <=> (program = NoPrograms)
        /\ program # NoPrograms => Open("main") /\ Open("decode")

\* What the device executed is what was committed: the rows of the invocations
\* it ran, as the caller described them, are those of the commits, in order.
ExecutedIsCommitted ==
    client.kind = "paired" /\ client.pc \in {"idle", "planned", "failed"} => client.ran = commits

\* read_end_of_run returns what the final step wrote.
FinalValuesRead == \A r \in reads : r[1] = "final" => r[3] = "made"

\* Device residency: every handle a session maps is live, every live handle
\* has one owner, and after warm-up nothing is loaded, allocated or uploaded
\* again (ProgramSession, PreparedProgramSession, PairedSession).
HandlesOwned ==
    /\ TypeOK /\ MappedHandlesLive /\ OneOwner /\ NothingStranded
    /\ NothingReloaded /\ WeightsUploadedOnce

\* Values: no launch, state buffer or readback sees what another step, an
\* earlier run or the allocator left in a recycled buffer.
ValuesCurrent == LaunchesReadCurrentValues /\ StateNeverJunk /\ FinalValuesRead
=============================================================================
