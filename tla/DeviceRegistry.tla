--------------------------- MODULE DeviceRegistry ---------------------------
(***************************************************************************)
(* What the Metal and the CUDA host sessions have in common: the handle     *)
(* registry of host-device-core (device_registry.rs), the driver's tables   *)
(* of modules and buffer slots, and device memory.                          *)
(*                                                                         *)
(* A device is a record                                                    *)
(*   entries   HandleRegistry: handle id -> [kind, token, len]              *)
(*   nextId    HandleRegistry.next_id                                       *)
(*   modules   driver token -> module image                                 *)
(*   slots     driver token -> [base, start, len, region]: a window of a    *)
(*             piece of memory; start and len are the buffer the driver     *)
(*             holds, region the admitted tensor's offset in it             *)
(*   memory    piece -> words                                               *)
(*   pending   launches encoded and not yet committed (Metal)               *)
(*   deferred  tokens freed when the pending launches commit (Metal)        *)
(*   cache     CudaHostSession.module_cache: a set of [image, handle]       *)
(* Lengths and offsets count 4-byte words.  A kernel is any function of     *)
(* what its input views hold: KernelValue stands for it.                    *)
(***************************************************************************)
EXTENDS Naturals, SequencesExt

CONSTANTS
    Entries,        \* module image -> the kernel entries it declares
    WordCount,      \* words range over 0 .. WordCount - 1
    Faults          \* the driver operations that may fail

ASSUME DeviceAssumption ==
    /\ WordCount \in Nat \ {0, 1}
    /\ Faults \subseteq {"load", "alloc", "sync", "readback"}

Words == 0 .. (WordCount - 1)
Images == DOMAIN Entries
MayFail(stage) == stage \in Faults

-----------------------------------------------------------------------------
(* HandleRegistry and the driver's tables; tokens are as monotone as ids.   *)

\* insert: the next id, never reused.
Insert(dev, kind, token, len) ==
    [dev EXCEPT !.entries = (dev.nextId :> [kind |-> kind, token |-> token, len |-> len]) @@ @,
                !.nextId = @ + 1]

\* module_token, buffer_token
ModuleToken(dev, id) == dev.entries[id].token
IsModule(dev, id) == id \in DOMAIN dev.entries /\ dev.entries[id].kind = "module"
IsBuffer(dev, id) == id \in DOMAIN dev.entries /\ dev.entries[id].kind = "buffer"
Slot(dev, id) == dev.slots[dev.entries[id].token]

\* SystemMetalDriver::load_module, SystemCudaDriver::load_module
LoadModule(dev, image) ==
    Insert([dev EXCEPT !.modules = (dev.nextToken :> image) @@ @, !.nextToken = @ + 1],
           "module", dev.nextToken, 0)

\* alloc: a piece of memory of its own, holding whatever it held.
Alloc(dev, len, junk) ==
    LET t == dev.nextToken
        piece == [i \in 0 .. (len - 1) |-> junk]
    IN Insert([dev EXCEPT !.slots = (t :> [base |-> t, start |-> 0, len |-> len, region |-> 0]) @@ @,
                          !.memory = (t :> piece) @@ @,
                          !.nextToken = @ + 1],
              "buffer", t, len)

-----------------------------------------------------------------------------
(* Launches.  A view is [base, at, span]: a window of a piece of memory.    *)

Without(f, keys) == [k \in DOMAIN f \ keys |-> f[k]]
ReadWords(memory, v) == [i \in 1 .. v.span |-> memory[v.base][v.at + i - 1]]
Written(memory, v, words) ==
    [memory EXCEPT ![v.base] = [i \in DOMAIN @ |->
        IF v.at <= i /\ i < v.at + v.span THEN words[i - v.at + 1] ELSE @[i]]]

\* What a kernel leaves in every word of its output.
Total(words) == FoldFunction(+, 0, words)
KernelValue(inputs) ==
    (FoldFunction(LAMBDA words, sum : Total(words) + sum, 1, inputs)) % WordCount

\* A launch is [ins, out]: a sequence of views and the view it writes.
Run(memory, launch) ==
    LET value == KernelValue([i \in DOMAIN launch.ins |-> ReadWords(memory, launch.ins[i])]) IN
    Written(memory, launch.out, [i \in 1 .. launch.out.span |-> value])

RunAll(memory, launches) == FoldLeft(Run, memory, launches)

\* The piece that is the mapped weight file; driver tokens start at 1.
MapBase == 0

BasesOf(launch) == {launch.ins[i].base : i \in DOMAIN launch.ins} \cup {launch.out.base}
BasesInUse(dev) ==
    {dev.slots[t].base : t \in DOMAIN dev.slots}
    \cup UNION {BasesOf(dev.pending[i]) : i \in DOMAIN dev.pending}

\* A driver buffer is reference counted: a piece nobody holds is gone.
Collected(dev) == [dev EXCEPT !.memory = Without(@, (DOMAIN @ \ BasesInUse(dev)) \ {MapBase})]

-----------------------------------------------------------------------------
(* release: the registry forgets the handle before the driver frees its     *)
(* token; the drivers forget the token before a free may fail, so that      *)
(* failing changes nothing here.                                            *)

Release(dev, id) ==
    LET t == dev.entries[id].token IN
    Collected([dev EXCEPT !.entries = Without(@, {id}),
                          !.slots = Without(@, {t}),
                          !.modules = Without(@, {t}),
                          !.cache = {c \in @ : c.handle # id}])

ReleaseEach(dev, ids) == FoldSet(LAMBDA id, d : Release(d, id), dev, ids)

=============================================================================
