------------------------------ MODULE MetalHost ------------------------------
(***************************************************************************)
(* MetalHostSession and SystemMetalDriver of macos-arm64/src/metal_host.rs. *)
(* Launches are only encoded; sync and a readback commit what is pending    *)
(* and wait.  Weights that lie in a retained, read-only file mapping are    *)
(* not copied: the handle's buffer becomes a page-rounded window of the     *)
(* mapping, and the tensor's offset in its first page (the region) is added *)
(* to every offset a launch binds.                                          *)
(***************************************************************************)
EXTENDS DeviceRegistry

CONSTANTS
    Page,           \* words per page
    FileWords       \* the mapped weight file: its words, from address 0

ASSUME MapAssumption == Page \in Nat \ {0} /\ FileWords \in Seq(Words) \ {<<>>}

CeilDiv(a, b) == (a + b - 1) \div b

\* map_file: file_len rounded up to pages; the tail of the last page is zero.
MappedLen == CeilDiv(Len(FileWords), Page) * Page
MappedFile == [i \in 0 .. (MappedLen - 1) |-> IF i < Len(FileWords) THEN FileWords[i + 1] ELSE 0]

\* A payload is [source, at, words, short]: the words of a heap slice or of
\* the file at an address; short if its last word lacks one to three bytes.
PayloadWords(p) ==
    IF p.source = "map" THEN [i \in 1 .. Len(p.words) |-> MappedFile[p.at + i - 1]] ELSE p.words

\* mapped_wrap_for: the pages around a slice of a retained mapping.
PageRemainder(p) == p.at % Page
UnshiftedWrapLen(p) == CeilDiv(Len(p.words), Page) * Page
WrapLen(p) == CeilDiv(PageRemainder(p) + Len(p.words), Page) * Page
MappedWrapFor(dev, p) ==
    /\ p.source = "map" /\ MapBase \in DOMAIN dev.memory
    /\ p.at + Len(p.words) <= MappedLen
    /\ p.at - PageRemainder(p) + WrapLen(p) <= MappedLen

\* SystemMetalDriver::copy_in.  The buffer a wrap replaces lives on while a
\* pending launch holds it.
Wrapped(dev, token, p) ==
    Collected([dev EXCEPT !.slots[token] =
        [base |-> MapBase, start |-> p.at - PageRemainder(p), len |-> WrapLen(p),
         region |-> PageRemainder(p)]])
CopiesInPlace(dev, token, p) ==
    ~MappedWrapFor(dev, p) /\ ~p.short
    /\ dev.slots[token].region = 0 /\ dev.slots[token].len = Len(p.words)
InPlace(dev, token, p) ==
    [dev EXCEPT !.memory = Written(@, [base |-> dev.slots[token].base,
                                       at |-> dev.slots[token].start,
                                       span |-> Len(p.words)], PayloadWords(p))]
DriverCopyIn(dev, token, p) ==
    IF MappedWrapFor(dev, p) THEN {Wrapped(dev, token, p)}
    ELSE IF CopiesInPlace(dev, token, p) THEN {InPlace(dev, token, p)}
    ELSE {}

\* copy_in_bytes: exact length, or a packed region up to three bytes short.
\* The driver refuses the short payload unless it can wrap it; the copy is
\* retried with the padded bytes, which are on the heap.
Padded(p) == [source |-> "heap", at |-> 0, words |-> PayloadWords(p), short |-> FALSE]
MetalCopyIn(dev, id, p) ==
    LET token == dev.entries[id].token
        first == DriverCopyIn(dev, token, p)
    IN IF Len(p.words) # dev.entries[id].len THEN {}
       ELSE IF first # {} \/ ~p.short THEN first
       ELSE DriverCopyIn(dev, token, Padded(p))

\* compose_bind_offset: the mapping's remainder, then the binding's offset.
ReplacedOffset(slot, offset) == IF offset = 0 THEN slot.region ELSE offset
ComposeBindOffset(slot, offset) == slot.region + offset
ViewOf(dev, b) ==
    LET slot == Slot(dev, b.handle) IN
    [base |-> slot.base, at |-> slot.start + ComposeBindOffset(slot, b.offset), span |-> b.span]

\* ordered_launch_bindings: the declared indexes are 0 .. n - 1, each once.
Ordered(bindings) ==
    {bindings[i].index : i \in DOMAIN bindings} = 0 .. (Len(bindings) - 1)
AtIndex(bindings, n) == bindings[CHOOSE i \in DOMAIN bindings : bindings[i].index = n]

\* launch_kernel_bound: everything is validated, then the launch is encoded.
\* The binding of the highest index is the one the kernel writes.
InBounds(dev, b) ==
    /\ IsBuffer(dev, b.handle)
    /\ b.span # 0 /\ b.offset + b.span <= dev.entries[b.handle].len
    /\ ComposeBindOffset(Slot(dev, b.handle), b.offset) + b.span <= Slot(dev, b.handle).len
Encoded(dev, views) ==
    [dev EXCEPT !.pending = Append(@, [ins |-> Front(views), out |-> Last(views)])]
MetalLaunchBound(dev, module, entry, bindings) ==
    IF /\ IsModule(dev, module)
       /\ entry \in Entries[dev.modules[ModuleToken(dev, module)]]
       /\ Ordered(bindings)
       /\ \A i \in DOMAIN bindings : InBounds(dev, bindings[i])
    THEN {Encoded(dev, [n \in 1 .. Len(bindings) |-> ViewOf(dev, AtIndex(bindings, n - 1))])}
    ELSE {}

\* commit_pending: take the command buffer, run it, drain deferred_free; only
\* then is its status looked at.  One that did not complete leaves contents
\* that nobody may rely on, and here unchanged.
DrainedKeepsExtents(dev, memory) ==
    Collected([dev EXCEPT !.memory = memory, !.pending = <<>>])
Drained(dev, memory) ==
    Collected([dev EXCEPT !.memory = memory,
                          !.pending = <<>>,
                          !.slots = Without(@, dev.deferred),
                          !.deferred = {}])
MetalCommit(dev) == Drained(dev, RunAll(dev.memory, dev.pending))
MetalCommitFails(dev) ==
    IF MayFail("sync") /\ dev.pending # <<>> THEN {Drained(dev, dev.memory)} ELSE {}

\* launch_elementwise_add_f32: an extent buffer of one word is allocated for
\* the launch, freed at once if the launch is refused, else when it commits.
MetalEncodeAdd(dev, module, a, out) ==
    LET extent == dev.nextToken
        whole(id) == ViewOf(dev, [handle |-> id, offset |-> 0, span |-> dev.entries[id].len])
        burned == [dev EXCEPT !.nextToken = @ + 1]
        held == [burned EXCEPT !.slots = (extent :> [base |-> extent, start |-> 0,
                                                     len |-> 1, region |-> 0]) @@ @,
                               !.memory = (extent :> [i \in {0} |-> 0]) @@ @,
                               !.deferred = @ \cup {extent}]
    IN IF "add" \in Entries[dev.modules[ModuleToken(dev, module)]]
       THEN Encoded(held, <<whole(a), whole(out)>>)
       ELSE burned

\* copy_out, after its commit: the handle's words at the region.
ReadSlot(dev, id) ==
    LET slot == Slot(dev, id) IN
    ReadWords(dev.memory, [base |-> slot.base, at |-> slot.start + slot.region,
                           span |-> dev.entries[id].len])

=============================================================================
