----------------------------- MODULE Transport ------------------------------
(***************************************************************************)
(* The transport adapters (host-coordinator/src/transport.rs): the          *)
(* host-staged adapter with its budget, staging pool and records, and the   *)
(* peer adapter, which admits measured pairs and never copies.              *)
(*                                                                         *)
(* A source is a length of bytes with an owner, a dtype, a layout and a     *)
(* generation; a spec declares all of these with a range and a direction.   *)
(* Times are in the unit the rates are scaled to; u64 arithmetic saturates  *)
(* at ByteMax.                                                              *)
(***************************************************************************)
EXTENDS Bytes, Sequences, FiniteSets, SequencesExt, FiniteSetsExt, TLC

CONSTANTS
    Scale,              \* nanoseconds per second, in the unit of the rates
    SmallCopy,          \* T1_SMALL_COPY_BYTES
    SmallLatency,       \* T1_SMALL_COPY_LATENCY_NANOS
    LargeLatency,       \* T1_LARGE_COPY_LATENCY_NANOS
    T1Rates,            \* direction -> bytes per second
    Budget              \* the declared budget: [bytes, time]

Directions == {"h2d", "d2h", "bidi"}

\* u64 constants and declared bounds, and Duration's whole units.
ASSUME TransportAssumption ==
    /\ Scale \in Nat /\ SmallCopy \in Nat /\ SmallLatency \in Nat /\ LargeLatency \in Nat
    /\ T1Rates \in [Directions -> 0 .. ByteMax]
    /\ Budget.bytes \in 0 .. ByteMax /\ Budget.time \in 0 .. ByteMax

\* expected_copy_time_nanos; a rate of 0 charges the latency alone.
ExpectedTime(bytes, rate) ==
    LET fixed == IF bytes <= SmallCopy THEN SmallLatency ELSE LargeLatency
        moving == IF rate = 0 THEN 0 ELSE Saturated(bytes * Scale) \div rate
    IN Saturated(fixed + moving)

\* validate_before_copy
Valid(spec, source, destination) ==
    /\ spec.dtype = source.dtype
    /\ spec.layout = source.layout
    /\ spec.offset + spec.length <= source.length
    /\ spec.generation = source.generation
    /\ spec.owner = source.owner
    /\ spec.destination = destination

\* HostStagedAdapter::new
NewAdapter ==
    [usedBytes |-> 0, usedTime |-> 0, rates |-> T1Rates, nextBuffer |-> 0,
     active |-> {}, records |-> <<>>, observations |-> 0]

WithinBudget(ad, spec) ==
    /\ Saturated(ad.usedBytes + spec.length) <= Budget.bytes
    /\ Saturated(ad.usedTime + ExpectedTime(spec.length, ad.rates[spec.direction])) <= Budget.time

\* StagingPool: allocate takes the next id, release drops it.
Stage(ad) == [ad EXCEPT !.nextBuffer = @ + 1, !.active = @ \cup {ad.nextBuffer + 1}]
Unstage(ad) == [ad EXCEPT !.active = @ \ {ad.nextBuffer}]

\* run_staged_copy under one outcome of the copy itself: the staging buffer is
\* given back whatever the outcome.
RunStagedCopy(ad, outcome) == Unstage(Stage(ad))

\* A finished copy is charged and recorded.
Charge(ad, spec) ==
    LET expected == ExpectedTime(spec.length, ad.rates[spec.direction])
    IN [ad EXCEPT !.usedBytes = Saturated(@ + spec.length), !.usedTime = Saturated(@ + expected),
                  !.records = Append(@, [ref |-> spec.ref, staging |-> ad.nextBuffer,
                                         engine |-> Len(@) + 1, event |-> Len(@) + 1,
                                         bytes |-> spec.length, expected |-> expected,
                                         destination |-> spec.destination])]

\* HostStagedAdapter::copy: the adapter afterwards, and the result.  `outcome`
\* is what happens to the staged copy once it starts.
CopyResult(ad, spec, source, destination, outcome) ==
    CASE ~Valid(spec, source, destination) -> "rejected"
      [] ~WithinBudget(ad, spec) -> "budget"
      [] OTHER -> outcome
\* Charging a copy when it starts, for the mutant of Copied.
ChargedAtStart(ad, spec, source, destination, outcome) ==
    LET result == CopyResult(ad, spec, source, destination, outcome)
    IN CASE result \in {"rejected", "budget"} -> ad
         [] result \in {"failed", "timeout"} ->
                [RunStagedCopy(ad, result) EXCEPT !.usedBytes = Saturated(@ + spec.length)]
         [] result = "ok" -> Charge(RunStagedCopy(ad, result), spec)

Copied(ad, spec, source, destination, outcome) ==
    LET result == CopyResult(ad, spec, source, destination, outcome)
    IN CASE result \in {"rejected", "budget"} -> ad
         [] result \in {"failed", "timeout"} -> RunStagedCopy(ad, result)
         [] result = "ok" -> Charge(RunStagedCopy(ad, result), spec)

\* record_fixture_measurement: no elapsed time, no observation.
Measured(ad, direction, bytes, elapsed) ==
    IF elapsed = 0 THEN ad
    ELSE [ad EXCEPT !.observations = @ + 1,
                    !.rates[direction] = Saturated(bytes * Scale) \div elapsed]
-----------------------------------------------------------------------------
(* The peer path.                                                            *)

\* PeerPairRegistry::admit
PairAdmissible(m) == m.source # m.destination /\ m.bandwidth # 0 /\ m.latency # 0 /\ m.evidence

SelectCopyPath(pair, admitted) == IF pair \in admitted THEN "peer" ELSE "host_staged"

\* PeerAdapter::copy never succeeds.
PeerCopyResult(admitted, spec, source, destination) ==
    CASE ~Valid(spec, source, destination) -> "rejected"
      [] <<spec.owner, destination>> \notin admitted -> "not_admitted"
      [] OTHER -> "not_attempted"
=============================================================================
