# Verification of the faber hosts

TLA+ models of the stateful core of this repository, checked with TLC on small
instances and, where a theorem is stated, proved with TLAPS for every instance.

## 1. Inventory

| Component | State | Operations | Hard behaviour | What makes it correct |
|---|---|---|---|---|
| native worker pool (`crates/host-native`) | queue sender, shutdown flag, active jobs, join handles, handle count | construct, clone, `start`, `shutdown`, drop; workers receive, register, run, reply | threads, two mutexes and an atomic, queue at its limit, partial construction | no job lost or run twice, one terminal frame, shutdown reaches every running job, everything ends |
| host kernel (`crates/host-kernel`) | the route table, fixed after construction | `supports_route`, `dispatch` | cancellation before provider code | a route reaches its provider |
| providers (`crates/{aleator,consolum,solum,tempus}`) | none or a lock on a stream | one system call per route | errors | contracts of `provider-contracts` |
| HTTP provider (`crates/http`) | listeners, connections, requests, writers | listen, accept, respond (whole or streamed), stop | four maps and one mutex per connection, released between steps; timeouts; stop racing everything | a request is answered once and in order, indexes agree with slots, stop ends everything |
| process provider (`crates/processus`) | a child, two reader threads | run, kill on cancellation | timeouts, joins | the child is reaped, readers are joined |
| execution transaction (`crates/host-coordinator/src/execution_transaction`) | plan snapshot, state, reservation, staged writes, events | prepare, execute, execute_operation, commit, abort | failure at every backend call, asynchronous events | atomic publication, complete teardown |
| device backend (`macos-arm64/src/transaction_backend.rs`) | device buffers per partition, staged writes | reserve, run, stage, publish, release, retire | partial allocation | no buffer outlives its partition |
| sequence machine (`macos-arm64/src/composite_host/inference_state.rs`) | valid length, epoch, phase, last commit | begin, commit, verify, fail, poison, reset, release | plans outliving the state they were made in | rows committed once, poison final |
| residency (`.../residency.rs`) | mirror of the cursor, allocations, counters | the same, forwarded | stale mirror, double release | mirror = cursor, each allocation released once |
| program, prepared and paired sessions (`composite_host.rs`, `.../session.rs`, `paired_session.rs`) | device handles per buffer, scratch pool, receipts, the machine's cursor | create, once-init, step, final step, readback, reset, pair, teardown | device failure between any two calls, recycled buffers, shared weights | one live owner per handle, launches read their own step's values, a failed pair is poisoned and released |
| device descriptor (`host-device-core/src/device_descriptor.rs`) | none | validate | many rules that sessions rely on | what it accepts a session can run |
| device hosts (`crates/host-cuda`, `host-device-core`, `metal_host.rs`, `device_host.rs`) | handle registry, driver tokens, pending launches, mapped files, module cache | load, alloc, copy, launch, sync, read, free; launch adapter; KV binding session | deferred execution, page-shifted mappings, offsets that follow a cursor | deferral cannot be observed, tokens accounted for |
| discovery, policy, partition, binding, translation (`crates/host-coordinator/src`, `distributed_translate.rs`) | snapshots and their generation, ledgers, bound plans | probe, select, evaluate, admit, bind, translate | hardware changing after the probe, queries that fail, `u64` sums at their end | what is admitted is in place and fits |
| transport (`transport.rs`) and device runtime set | budget, staging, records, peer pairs | copy, broadcast, observe rate, admit pair | failure and timeout half way, budget at its end | landed copies are charged once, events follow copies |
| wasm product (`wasm/src`) | literal rows, arenas, streams, cursor stack | run, run_package, some 120 imports | handles from one space, nested generators, packages of several modules | handles keep their meaning, imports compute what they are named for |
| llvm runtime, macOS kernel bridge, browser product | values and tensors; wire formats; generated bundles | – | numeric | not modelled |

The pool runs jobs through the kernel, which calls a provider; the coordinator
runs a transaction over a device backend; the composite host owns a residency,
which owns a sequence machine, and drives a device host through program
sessions; the distributed path probes devices, places and binds a plan, and runs
it through the device backend over the transport adapter.  Callers reach pool
and HTTP provider from several threads.  Transactions, sessions and device hosts
have one owner (`&mut self`) and meet concurrency through their devices; what is
hard there is failure between two calls and state kept across calls.

`PROJECT.json` lists every component and, under `hazards`, what is hard to test
in this code and which property catches it.

## 2. Modules

| Module | Models |
|---|---|
| `NativeHost` | the worker pool, with route admission and the cancellation poll of `Kernel::dispatch` |
| `TransactionPlan` | operations, write sets, boundary events and reservations of a plan snapshot |
| `ExecutionTransaction` | the transaction over a backend whose every fallible call may fail |
| `AtomicPublication` | the abstract promise of a transaction: one decision, all writes or none |
| `InferenceSession` | the sequence machine and the transactions callers hold |
| `SessionResidency` | extends it with the mirror and the resident allocations |
| `HttpServer` | the server half of the HTTP provider |
| `DeviceDescriptor` | `DeviceDescriptor::validate`, a predicate per rule |
| `ProgramSession` | the handlers of a program session as operators on device and session |
| `CompositeHost` | the host with its program, prepared and paired sessions; composes `ProgramSession` and `InferenceSession` |
| `DeviceRegistry` | handle registry, driver tables and device memory common to both drivers |
| `MetalHost`, `CudaHost` | the two drivers; the NVVM launch adapter |
| `DeviceHost` | `DeviceRuntime` and the KV binding session over either driver |
| `Bytes` | saturating `u64` |
| `DeviceTopology` | enumeration, identity, snapshots, selections |
| `PlacementPolicy` | ledgers, gates, scores and ranking |
| `PlanBinding` | virtual partitions, `bind`, translation of a distributed section and its bind policies |
| `Transport` | the host-staged and the peer adapter |
| `DistributedHost` | the caller's path through all of these and the device backend; composes `PlanBinding`, `TransactionPlan` and `Transport` |
| `GuestValues`, `GuestHandles`, `GuestText`, `GuestCollections`, `GuestTensors` | the arenas of a wasm guest and the v1 imports, by family |
| `WasmHost` | `run` and `run_package`: preflight, linking, literal tables, guest calls, generators |
| `NativeHostProofs`, `ExecutionTransactionProofs`, `InferenceSessionProofs`, `HttpServerProofs`, `CompositeHostProofs`, `DistributedHostProofs`, `DeviceHostProofs`, `WasmHostProofs` | theorems and the lemmas they rest on; `InferenceSessionProofs` covers the residency too |
| `MC*` | instances for TLC |

**NativeHost.**  `queue` is the content of the `sync_channel`; `senderOpen` says
whether `NativeState::queue` still holds its sender; `cpc` and `wpc` are program
counters of callers and workers.  One action is what a thread does between two
points at which another can interfere: `begin_shutdown` is three actions
(flag under the queue mutex, `take`, sweep under the `active_jobs` mutex) and
`register_active_job` two (load of the flag, insert, both inside the mutex), so
the race between them is in the model.  A job's response stream is the sequence
of its frames; a content sent when the token is already set is recorded as
`late`.  What a provider returns, how many contents, whether it fails or panics,
is nondeterministic.  The consumer (outside this repository) may cancel or drop
an accepted conversation at any time.  Mutex poisoning does not occur: no code
panics while holding one of these locks.  `next_job_id` is left out: a job is
its own id.  `queue_capacity` is chosen at construction among `Capacities` and
does not change; at 0 the channel is a rendezvous, on which `try_send` succeeds
only if a worker waits in `recv`.

**ExecutionTransaction.**  `plan` is the accepted snapshot; the gates of
`prepare` (`Admitted`) compute the class 3 and class 6 bytes exactly as
`derive_reservation` does.  `prepare` stops at any partition's reservation
(`PrepareFails`); `execute_operation` can fail in the backend or at any write of
its operation (`RunFails`, `StageFails`).  Variables `reserved`, `staged`,
`executed`, `completed` are the transaction's own record; `held`, `buffers`,
`stagedWrites`, `published`, `dispatched`, `events` the backend's.  With
`AutoComplete = FALSE` events complete later, in any order, as the fake backend
lets tests arrange; with `TRUE` at dispatch, as on devices.

**InferenceSession.**  The machine's five fields and `txn`, the transactions
callers hold.  Planning borrows the machine only for the call, so a caller may
hold several plans and present each any number of times; `commits` and
`reported` are history.  **SessionResidency** conjoins each action with what
`SequenceResidency` and `SessionResidency` do after the machine's; it offers
neither poison nor the verification commit.  `InferenceSessionState` is public
too, so the run lets the caller hold either one, chosen at the start (`bare`).

**HttpServer.**  `listeners`, `connections`, `requests` and `writers` are the
keys of the four maps of `HttpState`, `phase` is what each slot's mutex guards,
and `call[t]` holds the program point and the locals of the call thread `t` is
in.  One action is one critical section or one access to the `stopped` flag;
a slot's mutex is held across actions only around a backpressured write
(`chunkWrite`, `finishWrite`), so `InnerFree` looks at those two points.
Requests are numbered in the order they are read, as `next_request` does, and a
writer carries its request's number, as a request is opened at most once.
`wire[c]` is what the client has received: whole responses (`full`), `head`,
`chunk` and `last` frames, and `torn` for a chunk or last chunk whose write failed
part way.  It is the order of the server's writes; from a torn frame on it is not
what a client would parse (disagreement 15).
Deadlines, cancellation and socket errors may happen wherever the code tests
for them.  Clients, which are outside the repository, connect, send whole or
malformed requests, pipeline them and close.

**ProgramSession, CompositeHost.**  A handler takes `&mut self` and runs alone,
so it is an operator from device and session to the set of its outcomes: the
success, and one failure for each stage at which the device may refuse
(`Faults`).  What a kernel computes is abstracted to provenance: a buffer is
`junk`, `zero`, `host`, `made` in this step or `old`; `reads` records what
launches and readbacks found.  A paired invocation is three actions made of the
sequence machine's own.  `device.loads`, `allocs` and `uploads` are the driver
counters the receipts are derived from.

**DeviceRegistry, MetalHost, CudaHost, DeviceHost.**  A device is a record of
the registry, the driver's tables and memory; offsets count words.  `pending`
holds launches encoded and not committed.  `ideal` is a ghost: what each handle
would hold had every call taken effect at once; `DeferredAsImmediate` compares
it with what the device holds after a commit.  Metal's `copy_in` and `begin_step`
write in place whatever is pending, so that an encoded launch may read the later
contents or write over them.  `overtaken` (a ghost too) is the set of handles
whose contents then follow from that order: those such launches write, and, until
they are overwritten, what is computed from them.  Of these nothing is claimed,
and of a KV row only if its append ran before the next `begin_step`.  A kernel is an arbitrary but
fixed function of what its views hold.  `suspect` marks the states after a
driver failure in which contents are undefined.

**DeviceTopology to DistributedHost.**  A unit is a piece of hardware; a probe
derives its identity from the facts it reads, any set of queries may fail, and
units are replaced or fail at any time between two calls (`hw` against `snap`,
`probe`).  Evaluation and binding have no state and are operators; `last` is
what the latest call returned.  `rt` is the device backend of a bound plan, `tr`
the adapter.  The identities' hashes are the values they hash.

**GuestValues to WasmHost.**  A package is a record of what preflight reads of
each module.  A guest is a script: at each step it calls any import of one family
with any handle it holds and one it does not hold, as the compiled code could.
Fifteen element kinds fall into six classes the host treats alike.  Text is the
sequence of its characters' byte widths; a text that an import computes is any
of `Texts`.  Floats are small non-negative integers with their own bit patterns
(`ToBits`), so a float read as an integer shows.

## 3. Runs

| Run | Question | Distinct states |
|---|---|---|
| NativeHostSafety | safety of the pool, all interleavings of 2 workers, 2 handles, 2 jobs and an unrouted one, a one-slot queue or a rendezvous channel, replies of up to 2 contents | about 2,176,000 up to symmetry of workers and routed jobs |
| NativeHostLive | termination under fairness, 1 handle, 2 workers, 2 jobs, either queue | about 216,000 |
| TransactionSafety | seven plans, failures everywhere, refinement | about 39,000 |
| SessionSafety | a residency (three epochs, two weights) or a bare machine (two epochs, with poison and verification), two handles, capacity 4 | about 1,540,000 |
| HttpServerSafety | one acceptor, two responders (symmetric), one kept connection, two requests | about 603,000 |
| HttpServerLive | two threads that accept and respond, three pipelined requests: does `stop` return and end every `accept`? | about 154,000 |
| HttpServerStop | are a stopped listener's connections gone? (violated) | – |
| CompositeHostSafety | one-shot, repeating, prepared and paired programs, any device call failing | about 126,000 |
| DeviceHostSafety | either driver under one client, the launch adapter and a KV session | about 525,000 |
| DistributedHostSafety | probe, place, bind and run on changing hardware | about 53,000 |
| WasmHostSafety | twenty-one packages, every import | about 187,000 |
| WasmPackageLiterals | do row indices name a module's own literals in a package? (violated) | – |

Related invariants are checked as one conjunction of named parts
(`HandlesOwned`, `TransfersExact`, ...); TLC names the conjunction, and checking
the parts alone tells which one failed.

The remaining disagreements described below can be seen with a `.cfg` of their
own, or with the component's `.cfg` changed as the table says (its invariants
replaced by the one named); each is expected to be violated.

| Disagreement | `.cfg` | Changes | Violated |
|---|---|---|---|
| 1 | `MCNativeHostJoin` (`MCNativeHost`) | | `EveryShutdownJoins` |
| 3 | `MCInferenceSessionStale` (`MCSessionResidency`) | | `ReportedWritePoisons` |
| 5 | `MCHttpServerAcceptors` (`MCHttpServer`) | | `FramesInOrder` |
| 6 | `MCCompositeHost` | `Faults = {"zero"}` | `NothingStranded` |
| 7 | `MCCompositeHost` | `OneShots <- MCRepeating`, `Faults = {}` | `NothingStranded` |
| 8 | `MCDeviceHost` | `Weights <- MCWeights`, `WeightsFail = TRUE`, `MaxClient = 0`, `MaxTokens = 0` | `HandlesAccountedFor` |
| 9 | `MCMappedWeights` (`MCDeviceHost`) | | `MappedWeightsIntact` |
| 10 | `MCDistributedHost` | `FailingQueries <- MCNoFailing` | `StaleNeverBinds` |
| 11 | `MCDistributedHost` | `Spares <- MCNoSpares`, `FailingQueries <- MCNoFailing` | `OrdinalIsNoIdentity` |
| 15 | `MCHttpServer` | no `PROPERTIES` | `FinishedResponsesWhole` |
| 16 | `MCDeviceHost` | | `StepsReadTheirUpload` |

**Bounds.**  Two workers are enough for one to run a job while another is
refused or exits; two handles for concurrent shutdown, clone and last drop; two
jobs on a one-slot queue for a full queue and a second job buffered behind a
running one; `Capacities = {0, 1}` adds the rendezvous channel.  Two contents let a cancellation fall before, between and after
them.  Plans use three partitions, so that a broadcast has an earlier and a
later destination and a reservation can fail in the middle; two of the refused
plans are one byte or one event object short of their class budget.
`MaxExecuted = 6` leaves two operations after the longest plan.  Capacity 4
admits a prefill, a partly accepted verification and a decode in one epoch;
`MaxEpoch` stands for `u32::MAX`, and is reached by the residency; a bare machine,
which alone commits verifications, stops at `BareEpochs = 2`.
One HTTP connection is enough because slots share nothing but the maps; two
requests are one streamed and kept and one after it, and the third lets two
acceptors meet on the parked connection (the safety properties also hold for
three requests and six frames with two threads).  `MaxFrames` bounds what one
connection carries; at the bound a write fails, as on a closed socket.

Composite host: a repeating program with a weight, a per-step input, a
zero-filled intermediate, a state buffer, an observation and an end-of-run value
has one buffer of every lifetime and initialization; four steps are a warm-up, a
reuse, a reset and a step after it; two epochs and two prompt rows let a pair
prefill, decode and start again.  The zero fill does not fail in this run
(disagreement 6).  Device host: two words, pages of two words and a file of one
and a half pages give mappings that start inside a page; two pending launches
and four tokens let a buffer be released and its successor bound, or overwritten,
before the commit; so may the cursor be, by a second `begin_step`.  Weight uploads of the KV session succeed and mapped weights are not
copied into again (disagreements 8, 9).  Distributed host: three CUDA units and
a Metal one, `ByteMax` just above the memory sizes so that ledgers overflow;
`MaxEpoch = 2` allows one change of hardware, `MaxStaged = 4` copies reach the
budget, which is far from `ByteMax` (at the end of `u64` only the theorem speaks of
it).  Of what a placement may demand, compute capability, collective width and
unified memory are left out: each could only refuse more plans.  A backend is opened on the starting hardware only and drops the
planning state, planning calls are made while no plan runs, and the adapter is
used alone only before the first probe: the parts share nothing else.  Wasm:
nine handles and three nested activations; i32 and i64 wrap-around is not
reached; aggregates are acyclic, as the source language makes them; modules have
no start functions.  `MaxStdoutBytes = 5` cuts a line at the bound, at one
character and inside one.

**Fairness.**  Weak fairness of each worker's step and of the steps inside
`begin_shutdown` and `join_workers`: threads are scheduled by the operating
system, and a provider call is assumed to return.  No caller is obliged to
start, shut down or drop anything.  The pool's mutexes need no strong
fairness for these properties: a lock is contended only by finitely many steps
of the others.  In `HttpServer` a thread inside a call takes steps: every wait
of the code ends by itself, a write by `STREAM_WRITE_TIMEOUT`, a read by the
header deadline, the accept loop by polling.  Nothing is assumed of the
transaction or the session.

**Deadlock** is checked for the pool and the transaction, whose only final
states are explicit stuttering actions (`Quiescent`, `Ended`).  The session and
residency runs switch it off: a released machine whose transactions are dropped
may rest for good.  So do the HTTP runs: when all listeners are stopped and the
clients' requests are used up no call is possible.  The composite, device,
distributed and wasm runs end when their bounds are used up or the package's
outcome is known.

### Disagreements between code and documentation

1. `host-native/README.md` says explicit `shutdown` joins workers.  Of two
   concurrent calls, the one that finds the join handles already taken returns
   while workers still run.  `JoinerDrains` states what does hold: the caller
   that took the handles returns to an idle pool.
2. `prepare` promises that on any failure nothing is reserved.  When a later
   partition's reservation fails, the earlier ones stay held, and as no
   reservation is recorded `abort` does not release them.  Hence
   `TeardownComplete` speaks of transactions that recorded a reservation.
3. `fail` promises that a possible device write poisons.  After a reset the
   plan no longer matches and `fail` rejects the report as stale; the sequence
   is left usable.
4. `http:stop` is to close the listener's connections.  One admitted between the
   flag's test and the insert escapes the sweep.
5. The provider speaks HTTP/1.1 and `http:respond_open` begins a chunked
   response.  With two acceptors on one listener both may read a request of the
   same parked connection, because the slot's mutex is released between reading
   the request and marking the slot pending; the second mark overwrites the
   phase of a response that has begun, and the next head is written inside its
   body.  With one acceptor and two responders `FramesInOrder` and
   `PendingIndexExact` hold (HttpServerSafety).
6. `session.rs` releases on error what it owns.  At 1583 a buffer is allocated,
   zero-filled and only then recorded in `owned_handles`; when the fill fails
   the buffer is never released.
7. `composite_host.rs:568`: "The session's error path already released every
   handle".  `execute_descriptor` on a repeating program is refused by `execute`
   before that path; the session is dropped with its handles registered.
8. `session.rs:3427`: "Partial allocations are released first."  That is so when
   an allocation of `KvCacheBindingSession::prepare` fails, not when a weight
   upload does.
9. `metal_host.rs:2101` refuses a copy into a mapped region ("Metal mmap-backed
   region is read-only") by testing `region_offset != 0`; a region that starts on
   a page boundary passes, and the copy writes into the mapped weights.
10. `device_identity.rs:218`: a stale health generation "is rejected before it
    gates admission or planning".  `finish_bind` (`distributed_translate.rs:674`)
    compares the snapshot with `DeviceHealthGeneration::initial()` whatever the
    current generation is.  `AdmittedIsInPlace` holds of `bind`
    called with the caller's own.
11. `device_identity.rs:13`: "The ordinal is a locator only, never identity".
    `cuda_host.rs:870` joins the nvidia-smi row to the driver's device by
    ordinal, so that renumbering gives a unit another's uuid.
12. `literal_table.rs:16`: "Raw row indices are exactly the arena handles the
    program references".  In a package that holds of the first table only
    (WasmPackageLiterals); `LiteralsOwn` holds of packages with one table.
13. Read from `wasm/src/imports.rs` while modelling it, and modelled as written:
    `diagnostic_mone_i64` is bound to the stdout writer (1160; `outcome.rs:45`:
    "never dropped or redirected to stdout"); `option_get_or` of a null-encoded
    option returns the fallback although a payload is present (3452);
    `tensor_add` compares element counts and keeps the left shape (4265:
    "same-shaped tensors"); `write_capped` slices at a byte index and panics
    inside a character (1029).
14. `gate_memory` (`policy.rs:836`) holds each assignment to the whole budget of
    its device; `PlacementFits` states exactly that, not the sum over a device.
15. `http:respond_finish` is to "Finish a chunked response" (`manifest.json:11`).
    A chunk whose write times out or is cancelled part way leaves the phase
    `Streaming` and the writer registered (`http/src/lib.rs:544`, 743): a later
    chunk, the last chunk and the next response's head are written inside the torn
    chunk, and `respond_finish` reports success.  `FramesInOrder` therefore claims
    the framing up to the first torn frame (`FramedUntilTorn`) and, after it, only
    that the writes of two responses do not mix (`ResponsesDoNotMix`).
16. `session.rs:3487`: "Append and attention launches share this upload."  `sync` is
    a method of its own (3583), and `begin_step` uploads the next cursor without
    it.  On Metal, launches of the first step that are still pending then read the
    second step's cursor.  A caller that syncs at each step boundary, as
    `kv_cache_session_binding_test.rs` does, is not affected; the run assumes no
    such caller, and `KvRowsExact` claims the rows whose append ran in time.

`execute_operation`, which is public, runs an operation without writes again
when asked, although `state_machine.rs` speaks of no re-execution; one with
writes is stopped by the backend's duplicate check, so publication stays exact
(`PublicationSafe`).

## 4. Proofs

Every theorem holds for every value of the constants that satisfies the named
`ASSUME`s of the modules; TLC evaluates those assumptions on each run. The
assumptions say what the code's types and constructors guarantee: at least one
worker (`NativeHostAssumption`), an operation writes only to partitions it takes
part in (`PlansAssumption`), vectors are finite sequences
(`PackagesAssumption`), extents and tiles are unsigned (`DocumentsAssumption`),
hardware consists of units, each in one slot and with unsigned facts
(`HardwareAssumption`, `UnitsAssumption`), byte counts, rates and demands are
unsigned and budgets fit in 64 bits (`TransportAssumption`,
`RequestsAssumption`, `CallersAssumption`, `CopiesAssumption`,
`BudgetAssumption`, which also says that no driver reports the uuid of a
fabricated rank), an accepted image lists each partition once and its operations
name participants (`ImagesAssumption`), descriptor fields are lists and binding
identities naturals (`CatalogAssumption`), a paired session has one transaction
at a time and is opened, as a one-shot program is, from descriptors of the
catalog (`HostAssumption`), `NoListener` and `NoJob` are nobody's names.

| Theorem | Property | Inductive invariant |
|---|---|---|
| `NativeHostProofs!TypeCorrect` | `TypeOK` | itself |
| `NativeHostProofs!RendezvousNeverBuffers` | `RendezvousHandsOver` | itself, over `TypeOK` |
| `NativeHostProofs!ShutdownReachesEveryJob` | `NoJobEscapesShutdown` | `SweepInv` |
| `NativeHostProofs!NoJobLostOrRunTwice` | `JobsAccountedFor` | `JobsInv` |
| `NativeHostProofs!EveryStreamWellFormed` | `StreamsWellFormed` | `StreamInv` |
| `NativeHostProofs!JoinerLeavesNothing` | `JoinerDrains` | `JoinInv` |
| `ExecutionTransactionProofs!PublicationIsSafe`, `!TeardownIsComplete`, `!WorkStaysInside` | `PublicationSafe`, `TeardownComplete`, `WorkInsideReservation` | `TxnInv` |
| `ExecutionTransactionProofs!StagingIsExact` | `StagingExact` | `TxnInv` and `BytesMatchWrites` |
| `ExecutionTransactionProofs!RefinesAtomicPublication` | `ImplementsAtomicPublication` | `TxnInv` |
| `InferenceSessionProofs!RowsCommittedOnce`, `!CursorTracksCommits` | `CommitsTile`, `CursorIsLastCommit` | `SessionInv` |
| `InferenceSessionProofs!PoisonFinal`, `!CursorNeverRetreats` | `PoisonIsFinal`, `CursorMonotone` | none; `SessionInv` |
| `InferenceSessionProofs!ResidencyRefinesMachine` | `ResidencySpec => Spec` | none |
| `InferenceSessionProofs!ResidencySound` | `ResidencyInv` (a part of `SessionSound`) | itself, over `SessionInv` |
| `HttpServerProofs!IndexesStayExact` | `IndexesExact` | `HttpInv` |
| `HttpServerProofs!FramesStayInOrder` | `FramesInOrder` | `HttpInv` and `FrameInv` |
| `HttpServerProofs!StreamsKeepTheirWriter` | `OnlyFailedFinishStrands` | `HttpInv` and `KeepInv` |
| `CompositeHostProofs!FailurePoisonsPair`, `!ExecutionIsCommitted` | `FailurePoisonsAndReleasesPair`, `ExecutedIsCommitted` | `PairInv` |
| `CompositeHostProofs!ResidencyIsOwned` | `HandlesOwned` | `HandleInv` |
| `CompositeHostProofs!HandlesSafe` | `TypeOK` and the conjuncts of `HandlesOwned` but `NothingStranded` | `HandleInv` |
| `DistributedHostProofs!AdmittedStaysInPlace` | `AdmittedIsInPlace` | `PlaceInv` |
| `DistributedHostProofs!TransfersStayExact` | `TransfersExact` | `HostInv` |
| `DistributedHostProofs!PlacementAlwaysFits` | `PlacementFits` | `HostInv` and `FitInv` |
| `DeviceHostProofs!LaunchesAlwaysCover` | `LaunchesCoverOutput` | itself |
| `WasmHostProofs!LinkFailsByOrder` | `LinkFailureIsOrder` | `Types` |
| `WasmHostProofs!GeneratorsKeepTheirYields` | `YieldsBelongToGenerator` | `Types` and `StackInv` |
| `WasmHostProofs!AllocatedStaysVisible` | `DynamicNotShadowed` | `Types` |
| `WasmHostProofs!HandlesKeepTheirMeaning` | `HandlesKeepMeaning` | `Types` and `TableInv` |

**Why the invariants are needed.**

*Pool.*  `NoJobEscapesShutdown` alone is not inductive: a worker between the
load of the flag and its insert will register a job after the flag is set.
`SweepInv` adds that no worker is at that point once the flag is set and the
sweep is over, because the sweep waits for the `active_jobs` mutex and no worker
passes its load any more.  `JobsInv` adds that a job about to be unregistered is
over, `StreamInv` that a job's stream is silent until its reply begins and that a
worker still inside a reply has sent no terminal frame, `JoinInv` that join
handles have one taker, every thread is in the pool or in a join set, and a
thread only ends on a closed, empty channel.  `RendezvousHandsOver` is inductive
because a worker leaves `recv` only with the job, or on an empty channel.

*Transaction.*  `TxnInv` ties the loop of `execute` to the record: what is
staged, executed and completed is exactly that of the operations before the
cursor, plus, in the failed operation, the writes before the failing one.  The
refinement maps every step to the abstract decision or to a stutter.  The byte
counter is a fold over a set; that it grows by each staged write's bytes is
derived from the fold's defining equation, the existence of which is shown by a
least counterexample, as is every other induction in these proofs.

*Sequence machine and residency.*  Tiling alone is not inductive: what a
matching plan's prefix says about the last commit is known only through the
cursor, so `SessionInv` joins the tiling with the cursor, the commit epochs, the
fit of held plans and the Fresh/empty equivalence.  `ResidencyRefinesMachine`
carries the machine's theorems over to the residency.

*HTTP server.*  The theorems have the hypothesis `SingleAcceptor`: at most one
thread accepts, any number respond.  With two acceptors the property fails, in
the code and in the model (disagreement 5).  `FramesInOrder` claims
framing only up to a torn frame (disagreement 15).  `HttpInv` says for every program
point what its thread's locals owe to the maps and which pairs of program points
exclude each other (`Apart`); `FrameInv` says what the last frame on the wire is
in each phase, and that a response to a request that was read may begin.
`KeepInv` says that a slot's phase names a request read from its own connection,
that a connection a call has taken out of the map can never be registered again,
nor can those of the writers it collected, and that a call about to drop a
connection whose writer it holds still has that connection on its list.

*Pair.*  `PairInv` relates the program counter of an invocation to the machine's
transaction and phase: what ran and is not yet committed is one append ahead.
That a failure leaves no program rests on a lemma per handler about what its
outcomes open and close.

*Residency of the composite host.*  `HandlesOwned` alone is not inductive: it says
that what a session holds is live, has one owner and is all that is live, but
not what a handler in the middle of a failed call leaves in which field.
`HandleInv` says it for each kind of session.  A program is sound when every
per-program buffer is mapped, every per-execution buffer is mapped or in the
pool and not both, and no handle stands in two places; it is cold (never
stepped: nothing pooled) or warm.  In a pair the decode program holds the
prefill program's module and per-program buffers and nothing else of it, and
after a failed dispatch exactly one of the two has been closed (`OneOpen`), so
that the cleanup of `release` frees each shared handle once.  Each handler is
reduced by a chain of lemmas, from the device calls up, to what it adds to and
takes from the live handles; a loop over slots, launches or files is followed by
an induction over its recursive function, and the order of the slots by
properties of an order given as a set of pairs.  `MachineInv` carries the type
correctness of the sequence machine along.

`ResidencyIsOwned` has the hypothesis `NoLeakingCalls`: no fault of the zeroing
call, and no repeating descriptor run as a one-shot.  Disagreements 6 and 7 are
what happens otherwise, and both break `NothingStranded`.  `HandlesSafe` has no
hypothesis: whichever call fails, what is held is live and held once, nothing is
loaded again and the weights are uploaded once.

*Placement.*  `PlaceInv` says the snapshot carries generations no newer than the
caller's epoch, and that a snapshot of the current one, once every change is
accounted for, was taken of the hardware in place.  Evaluation and bind then
only have to reject older ones.

*What was admitted.*  `PlacementFits` compares a plan on record with units, and only
the snapshot connects the two.  `FitInv` says of the snapshot that it is a reading
of its probe (`ReadFrom`): each fact is the unit's or 0, identities differ, and none
is that of a rank fabricated past the end of the snapshot.  That identities differ
holds whichever queries fail: a uuid that was read tells units apart, and without
uuids an enumeration succeeds only when every ordinal has its own row of nvidia-smi.
It rests on every unit being in one slot (`HwDistinct`).  The limit of a partition is
a headroom of a fact below 2^64, so a total that passes it did not overflow; and the
three bind policies are one layout, runs of n / count partitions (`RunsOf`).

*Transfers.*  `TransfersExact` alone is not inductive.  A saturated total says
nothing of the next copy, so `AdapterInv` says each total is the saturated sum of
the records and below its budget; `RunInv` says of an open backend that its
operations are distinct and run on its partitions, that every device counts what
its partitions hold, and that the copies and the events on record are those of the
operations before the cursor and, after a failure, part of those at the cursor.
The sums over the partitions of a device, the copies of an operation and the
ranking are folds; each is a table over the subsets of what it folds, whose
existence is shown once for every kind of fold (`FoldExists`).  What a ranking or
a prepared image on record is known to satisfy (`RankedSound`, `PreparedSound`)
carries the facts from `evaluate` and `prepare` to the backend opened from it.
`TransfersStayExact` has the hypothesis `BudgetsBelowMax`: with a declared budget
of 2^64 - 1 the code admits a copy whose saturated total equals the budget although
the true one exceeds it.

*Launch adapter.*  The ceiling division of the grid is shown to cover for every
extent and tile; a launch is recorded only from documents that parsed.

*Wasm.*  Every one of the imports is shown to leave rows, texts and yield
buffers alone and to allocate only from `next` on (`Evolves`), so a call is one
kind of step (`ImportStep`).  `Types` holds the link facts (after preflight
every external has another exporter) and the handle space (rows first, values
after them).  `StackInv` matches each generator of the stack, by its depth among
the generators, with its buffer.  `TableInv` follows the interning of a table
row by row; `HandlesKeepTheirMeaning` has the hypothesis `OneTable`, at most one
literal table per package, without which `LiteralsOwn` fails (disagreement 12).
`AllocatedStaysVisible` needs no such hypothesis.

**Only model-checked.**  Liveness (`PoolEnds`, `AcceptedJobsEnd`,
`StopEndsCalls`) is out of this prover's reach.  `ValuesCurrent` and its action
property `ResetLikePrepare` hold of the catalogs whose programs write what they
read, as the instance's do, and not of every valid descriptor, so they are not
stated for all constants.  `DeviceAccountedFor`, `DeferredAsImmediate` and
`KvRowsExact` of the device hosts speak of tables built with `:>` and `@@`,
`RankingCanonical` and the wasm host's `AggregatesExact` (its `TypeOK` included)
of what sorting and folding return for every input: these operators are opaque to
the provers or take operators as parameters.

## 5. Plan

1. Proofs: `RankingCanonical`; `DeviceAccountedFor`.
2. `HttpClient`: agents, readers and connection reuse in `http/src/client.rs`.
3. `Processus`: child, kill and readers.

## 6. Not modelled

Kernels, tensor arithmetic of the device programs and the llvm value runtime
(numeric code out of TLC's reach); wire formats and the wasmtime embedding of the
macOS bridge; generated and vendored browser bundles; the single-call providers,
which keep no state between calls; parsing and hashing of portable plans;
formatting of errors and receipts, timings.  The HTTP client and the process
provider wrap blocking libraries and come next.  Byte counts of a transaction's
reservation are naturals: the wrap-around of its `u64` sums is not covered (that
of the placement ledgers and of the adapter's budget is).
