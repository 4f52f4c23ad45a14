------------------------ MODULE CompositeHostProofs -------------------------
(* Theorems about the sessions of the composite host, for every catalog of   *)
(* descriptors, every set of device operations that may fail and every bound *)
(* on rows, epochs, sessions and steps.  The first part is about what paired *)
(* sessions commit, the second about what every session holds on the device. *)
(* It follows the handles from the order in which buffers are handed out,    *)
(* through one step of one program, to the sessions and their programs.      *)
EXTENDS CompositeHost, FiniteSetTheorems, WellFoundedInduction, TLAPS

-----------------------------------------------------------------------------
(* What the handlers of a program session do to its closed flag.            *)

\* An inner whose closed flag is there, and is what it was in `before`.
Keeps(inner, before) == "closed" \in DOMAIN inner /\ inner.closed = before.closed

\* Buffers are handed out for a step without touching the flag.
LEMMA AllocateKeeps ==
    ASSUME NEW dev, NEW inner, NEW usePool, "closed" \in DOMAIN inner,
           NEW a \in AllocateStepBuffers(dev, inner, usePool)
    PROVE  Keeps(a.inner, inner)
<1> DEFINE todo == {k \in Keys(Desc(inner)) \ KeysOf(Desc(inner), "PerProgram") :
                        k \notin DOMAIN inner.buffers}
           order == Sorted(todo, Precedes)
           held == Checkout(inner, todo, usePool)
<1>1. a \in MapInOrder(dev, inner, order, held)
  BY DEF AllocateStepBuffers
<1> HIDE DEF order, held
<1> DEFINE with(n, m) ==
        [inner EXCEPT !.buffers = Overlay(Mapping(HandlesFor(dev, order, held), order, n), @),
                      !.pool = [k \in DOMAIN inner.pool \ {order[i] : i \in 1..m} |->
                                    inner.pool[k]]]
<1>2. PICK d, n, m : a = Refused(d, with(n, m)) \/ a = Done(d, with(n, m), {})
  BY <1>1, Zenon DEF MapInOrder
<1>3. a.inner = with(n, m)
  BY <1>2 DEF Refused, Done
<1>4. Keeps(with(n, m), inner)
  BY DEF Keeps
<1> QED
  BY <1>3, <1>4

\* Recycling a step's buffers does not touch the flag.
LEMMA RecycleKeeps ==
    ASSUME NEW dev, NEW inner, NEW keys, NEW usePool, "closed" \in DOMAIN inner
    PROVE  Keeps(Recycle(dev, inner, keys, usePool).inner, inner)
BY DEF Recycle, Keeps

\* A step that ends well leaves the flag as it was.
LEMMA FinishKeeps ==
    ASSUME NEW run, NEW inner, NEW keep, NEW usePool, "closed" \in DOMAIN inner,
           NEW o \in FinishStep(run, inner, keep, usePool)
    PROVE  Keeps(o.inner, inner)
<1>1. \A keys : Keeps(Recycle(run.dev, inner, keys, usePool).inner, inner)
  BY RecycleKeeps
<1>2. PICK observed, keys : o \in Finished(run.dev, inner, observed,
                    Recycle(run.dev, inner, keys, usePool), usePool, run.seen)
  BY DEF FinishStep
<1> DEFINE r == Recycle(run.dev, inner, keys, usePool)
<1>3. Keeps(r.inner, inner)
  BY <1>1
<1> HIDE DEF r
<1>4. o \in Finished(run.dev, inner, observed, r, usePool, run.seen)
  BY <1>2 DEF r
<1>5. o.inner = inner \/ o.inner = r.inner
  BY <1>4 DEF Finished, Fails, FailsIf, Refused, Done
<1> QED
  BY <1>3, <1>5 DEF Keeps

\* Whatever a step's outcome, before the session is abandoned the flag is as
\* it was (execute_inner).
LEMMA ExecuteKeeps ==
    ASSUME NEW dev, NEW inner, NEW supplied, "closed" \in DOMAIN inner,
           NEW o \in ExecuteInner(dev, inner, "ResidentStep", FALSE, TRUE, {}, supplied)
    PROVE  Keeps(o.inner, inner)
<1>1. PICK a \in AllocateStepBuffers(Aged(dev, inner), inner, TRUE) :
        \/ o = a
        \/ \E c \in CopyResidentInputs(a.dev, a.inner, supplied) :
              \/ o = c
              \/ o \in FailsIf("launch", c.dev, c.inner)
              \/ o \in FinishStep(RunLaunches(c.dev, c.inner, "ResidentStep", {}),
                                  c.inner, FALSE, TRUE)
  <2> DEFINE copies == /\ "ResidentStep" = "PerStep"
                       /\ \E k \in Range(Desc(inner).kernels) : DeclaredInputs(k, {}) # {}
             finish(c) == FinishStep(RunLaunches(c.dev, c.inner, "ResidentStep", {}),
                                     c.inner, FALSE, TRUE)
             launch(c) == FailsIf("launch", c.dev, c.inner)
                          \cup (IF copies THEN FailsIf("copy", c.dev, c.inner) ELSE {})
                          \cup (IF copies /\ ~supplied THEN Fails(c.dev, c.inner) ELSE finish(c))
             from(a) == IF "ResidentStep" = "ResidentStep"
                        THEN CopyResidentInputs(a.dev, a.inner, supplied) ELSE {a}
             body(a) == IF ~a.ok THEN {a}
                        ELSE UNION {IF ~c.ok THEN {c} ELSE launch(c) : c \in from(a)}
  <2>1. o \in UNION {body(a) : a \in AllocateStepBuffers(Aged(dev, inner), inner, TRUE)}
    BY Zenon DEF ExecuteInner
  <2> HIDE DEF body
  <2>2. PICK a \in AllocateStepBuffers(Aged(dev, inner), inner, TRUE) : o \in body(a)
    BY <2>1
  <2> HIDE DEF launch, from
  <2>3. o = a \/ \E c \in from(a) : o = c \/ o \in launch(c)
    BY <2>2 DEF body
  <2>4. from(a) = CopyResidentInputs(a.dev, a.inner, supplied)
    BY DEF from
  <2>5. \A c : o \in launch(c) => o \in FailsIf("launch", c.dev, c.inner) \/ o \in finish(c)
    <3> HIDE DEF finish
    <3> QED
      BY DEF launch
  <2> QED
    BY <2>3, <2>4, <2>5
<1>2. Keeps(a.inner, inner)
  BY AllocateKeeps
<1>3. CASE o = a
  BY <1>2, <1>3
<1>4. ASSUME NEW c \in CopyResidentInputs(a.dev, a.inner, supplied),
             \/ o = c
             \/ o \in FailsIf("launch", c.dev, c.inner)
             \/ o \in FinishStep(RunLaunches(c.dev, c.inner, "ResidentStep", {}),
                                 c.inner, FALSE, TRUE)
      PROVE  Keeps(o.inner, inner)
  <2>1. c.inner = a.inner
    BY DEF CopyResidentInputs, Fails, FailsIf, Refused, Done
  <2>2. CASE o = c
    BY <1>2, <2>1, <2>2
  <2>3. CASE o \in FailsIf("launch", c.dev, c.inner)
    BY <1>2, <2>1, <2>3 DEF FailsIf, Fails, Refused
  <2>4. CASE o \in FinishStep(RunLaunches(c.dev, c.inner, "ResidentStep", {}),
                              c.inner, FALSE, TRUE)
    <3>1. "closed" \in DOMAIN c.inner
      BY <1>2, <2>1 DEF Keeps
    <3>2. Keeps(o.inner, c.inner)
      BY <2>4, <3>1, FinishKeeps
    <3> QED
      BY <1>2, <2>1, <3>2 DEF Keeps
  <2> QED
    BY <1>4, <2>2, <2>3, <2>4
<1> QED
  BY <1>1, <1>3, <1>4

\* A handler that succeeds is not the one that abandons the session.
LEMMA ClosingOk ==
    ASSUME NEW outcomes, NEW o \in Closing(outcomes), o.ok
    PROVE  o \in outcomes
<1>1. PICK e \in outcomes : o = IF e.ok THEN e ELSE Abandon(e.dev, e.inner)
  BY DEF Closing
<1>2. CASE e.ok
  BY <1>1, <1>2
<1>3. CASE ~e.ok
  BY <1>1, <1>3 DEF Abandon
<1> QED
  BY <1>2, <1>3

\* A resident step that reports success leaves an open program open.
LEMMA StepStaysOpen ==
    ASSUME NEW dev, NEW inner, NEW supplied, "closed" \in DOMAIN inner,
           NEW o \in ExecuteResidentStep(dev, inner, supplied), o.ok
    PROVE  "closed" \in DOMAIN o.inner /\ ~o.inner.closed
<1> DEFINE refuses == inner.closed \/ ~Desc(inner).repeating \/ ~inner.params
           run == Closing(ExecuteInner(dev, inner, "ResidentStep", FALSE, TRUE, {}, supplied))
<1>0. o \in IF refuses THEN {Refused(dev, inner)} ELSE run
  BY Zenon DEF ExecuteResidentStep
<1>1. ~refuses
  <2> HIDE DEF refuses, run
  <2> QED
    BY <1>0 DEF Refused
<1>2. o \in run
  <2> HIDE DEF refuses, run
  <2> QED
    BY <1>0, <1>1
<1>3. o \in ExecuteInner(dev, inner, "ResidentStep", FALSE, TRUE, {}, supplied)
  BY <1>2, ClosingOk
<1>4. Keeps(o.inner, inner)
  BY <1>3, ExecuteKeeps
<1> QED
  BY <1>1, <1>4 DEF Keeps

\* An inner that is open.
Opened(inner) == "closed" \in DOMAIN inner /\ ~inner.closed

\* new_with_share returns an open session or none.
LEMMA NewIsOpen ==
    ASSUME NEW dev, NEW name, NEW share, NEW o \in NewWithShare(dev, name, share), o.ok
    PROVE  Opened(o.inner)
<1>1. \A d : ~Failed(d).ok
  BY DEF Failed
<1>2. PICK loaded, module, isShared, order, held :
        o \in CreateBuffers(loaded, name, share, module, isShared, order, held)
  BY <1>1, Zenon DEF NewWithShare
<1>3. \E d, b :
        \/ o = Failed(d)
        \/ o = Done(d, [desc |-> name, module |-> module, sharedModule |-> isShared,
                        buffers |-> b, shared |-> DOMAIN held, pool |-> <<>>,
                        params |-> FALSE, final |-> FALSE, eorRead |-> FALSE,
                        closed |-> FALSE], {})
  BY <1>2, Zenon DEF CreateBuffers
<1> QED
  BY <1>1, <1>3 DEF Done, Opened

\* Once-init that succeeds leaves an open session open.
LEMMA InitParamsStaysOpen ==
    ASSUME NEW dev, NEW inner, NEW bytes, NEW given, NEW sized, Opened(inner),
           NEW o \in InitParams(dev, inner, bytes, given, sized), o.ok
    PROVE  Opened(o.inner)
<1> DEFINE refuses == ~Desc(inner).repeating \/ inner.params
           flagged(x) == IF x.ok THEN [x EXCEPT !.inner.params = TRUE] ELSE x
           inside == InitParamsInner(dev, inner, bytes, given, sized)
<1>1. o \in IF refuses THEN {Refused(dev, inner)} ELSE {flagged(x) : x \in Closing(inside)}
  BY Zenon DEF InitParams
<1>2. PICK x \in Closing(inside) : o = flagged(x)
  <2> HIDE DEF refuses, flagged, inside
  <2> QED
    BY <1>1 DEF Refused
<1>3. x.ok /\ o = [x EXCEPT !.inner.params = TRUE]
  BY <1>2
<1>4. x \in inside
  BY <1>3, ClosingOk
<1>5. DOMAIN x = {"ok", "dev", "inner", "reads"} /\ x.inner = inner
  <2>1. \A order : x \in UploadInOrder(dev, inner, bytes, given, sized, order)
            => \E b, d : x = [ok |-> b, dev |-> d, inner |-> inner, reads |-> {}]
    BY Zenon DEF UploadInOrder
  <2>2. \A b, d : x = [ok |-> b, dev |-> d, inner |-> inner, reads |-> {}]
            => DOMAIN x = {"ok", "dev", "inner", "reads"} /\ x.inner = inner
    OBVIOUS
  <2> QED
    BY <1>4, <2>1, <2>2, Zenon DEF InitParamsInner
<1>6. o.inner = [inner EXCEPT !.params = TRUE]
  BY <1>3, <1>5
<1> QED
  BY <1>6 DEF Opened

\* Both programs of a pair, open.
BothOpen(p) ==
    /\ DOMAIN p = {"main", "decode"}
    /\ Opened(p["main"]) /\ Opened(p["decode"])

\* prepare of a paired session returns two open programs or none.
LEMMA PairIsOpen ==
    ASSUME NEW dev, NEW prefill, NEW decode, NEW bytes, NEW given,
           NEW o \in PairOutcomes(dev, prefill, decode, bytes, given), o.ok
    PROVE  BothOpen(o.program)
<1> DEFINE failed(d) == [ok |-> FALSE, dev |-> d]
           last(w, x) == IF ~x.ok THEN failed(Teardown(Teardown(x.dev, x.inner), w.inner))
                         ELSE [ok |-> TRUE, dev |-> x.dev,
                               program |-> [main |-> w.inner, decode |-> x.inner]]
           third(w, q) == IF ~q.ok THEN {failed(Teardown(q.dev, w.inner))}
                          ELSE {last(w, x) : x \in InitParams(q.dev, q.inner, bytes, given, TRUE)}
           second(w) == IF ~w.ok THEN {failed(w.dev)}
                        ELSE UNION {third(w, q) :
                                q \in NewWithShare(w.dev, decode, SharedOffer(w.inner))}
           first(p) == IF ~p.ok THEN {failed(p.dev)}
                       ELSE UNION {second(w) : w \in InitParams(p.dev, p.inner, bytes, given, TRUE)}
<1>1. o \in UNION {first(p) : p \in NewWithShare(dev, prefill, NoShare)}
  BY Zenon DEF PairOutcomes
<1>2. \A d : ~failed(d).ok
  OBVIOUS
<1> HIDE DEF failed, first, second, third, last
<1>3. PICK p \in NewWithShare(dev, prefill, NoShare) : o \in first(p)
  BY <1>1
<1>4. p.ok
  BY <1>2, <1>3 DEF first
<1>5. PICK w \in InitParams(p.dev, p.inner, bytes, given, TRUE) : o \in second(w)
  BY <1>3, <1>4 DEF first
<1>6. w.ok
  BY <1>2, <1>5 DEF second
<1>7. PICK q \in NewWithShare(w.dev, decode, SharedOffer(w.inner)) : o \in third(w, q)
  BY <1>5, <1>6 DEF second
<1>8. q.ok
  BY <1>2, <1>7 DEF third
<1>9. PICK x \in InitParams(q.dev, q.inner, bytes, given, TRUE) : o = last(w, x)
  BY <1>7, <1>8 DEF third
<1>10. x.ok
  BY <1>2, <1>9 DEF last
<1>11. o.program = [main |-> w.inner, decode |-> x.inner]
  BY <1>9, <1>10 DEF last
<1>12. Opened(p.inner) /\ Opened(q.inner)
  BY <1>4, <1>8, NewIsOpen
<1>13. Opened(w.inner) /\ Opened(x.inner)
  BY <1>6, <1>10, <1>12, InitParamsStaysOpen
<1> QED
  BY <1>11, <1>13 DEF BothOpen

-----------------------------------------------------------------------------
(* The invariant of a paired session.                                       *)

\* The transaction of the invocation in progress: planned for the rows the
\* caller described, at the cursor the machine still has.
InFlight(t) ==
    /\ client.invocation.mode \in {"Prefill", "ScalarDecode"}
    /\ txn[t] = [mode |-> client.invocation.mode, prefix |-> client.invocation.prefix,
                 rows |-> QueryRows(client.invocation), epoch |-> client.invocation.epoch,
                 mutated |-> client.pc # "planned"]
    /\ MatchInvocationCursor(client.invocation)

PairedFields == {"kind", "pc", "steps", "reuses", "resets", "warm", "invocation", "ran"}

PairedState ==
    /\ PairedFields \subseteq DOMAIN client
    /\ client.pc \in {"idle", "planned", "ran", "failed", "settled"}
    /\ client.pc # "failed" => (phase = "Poisoned" <=> program = NoPrograms)
    /\ client.pc # "failed" /\ program # NoPrograms => BothOpen(program)
    /\ client.pc \in {"planned", "ran", "failed"} =>
            phase # "Poisoned" /\ \A t \in Txns : InFlight(t)
    /\ client.ran = IF client.pc = "ran" THEN Append(commits, RowsOf(client.invocation))
                    ELSE commits

PairInv ==
    /\ {"kind", "pc"} \subseteq DOMAIN client
    /\ ~released
    /\ DOMAIN txn = Txns /\ txn = [t \in Txns |-> txn[t]]
    /\ client.kind # "paired" => client.pc = "idle"
    /\ client.kind = "paired" => PairedState

\* A paired session has one transaction at a time.
LEMMA OneTxn == \A t, u \in Txns : t = u
BY HostAssumption, FS_Singleton

\* No session is paired at first.
LEMMA PairInit == Init => PairInv
BY DEF Init, Machine!Init, PairInv, NoClient

\* A step that leaves the machine alone and the client with another kind of
\* session, or none, keeps the invariant.
LEMMA OtherSession ==
    ASSUME PairInv, UNCHANGED machineVars, {"kind", "pc"} \subseteq DOMAIN client',
           client'.kind # "paired", client'.pc = "idle"
    PROVE  PairInv'
BY DEF PairInv, machineVars

\* Program sessions, prepared sessions and one-shot executions.
LEMMA OthersKeepPairInv ==
    ASSUME PairInv,
           \/ \E selection \in Backends \cup {"Auto"}, requires \in BOOLEAN,
                 admitted \in SUBSET Backends, found \in 0..2 :
                 NewHost(selection, requires, admitted, found)
           \/ CreateProgramSession \/ ExecuteDescriptor
           \/ ProgramInitParams \/ ProgramExecute
           \/ ProgramExecuteStep \/ ProgramReadEndOfRun \/ ProgramTeardown
           \/ PrepareResident \/ PreparedStep \/ ResetPrompt \/ PreparedTeardown
    PROVE  PairInv'
<1> DEFINE idle(c) == {"kind", "pc"} \subseteq DOMAIN c /\ c.kind # "paired" /\ c.pc = "idle"
<1>0. idle(NoClient)
  BY DEF NoClient
<1>1. client = NoClient \/ client.kind \in {"program", "prepared"} => idle(client)
  BY <1>0 DEF PairInv
<1>2. ASSUME NEW selection, NEW requires, NEW admitted, NEW found,
             NewHost(selection, requires, admitted, found)
      PROVE  PairInv'
  <2>1. UNCHANGED <<program, client, machineVars>>
        /\ UNCHANGED <<validLen, epoch, phase, released, lastCommit, txn, commits, reported>>
    BY <1>2 DEF NewHost, machineVars
  <2> QED
    BY <2>1 DEF PairInv, PairedState, InFlight, MatchInvocationCursor, Opened, BothOpen, NoPrograms
<1>3. \A o, session : CanOpen /\ OpenedWith(o, session) /\ idle(session)
            => UNCHANGED machineVars /\ idle(client')
  <2> SUFFICES ASSUME NEW o, NEW session, CanOpen, OpenedWith(o, session), idle(session)
               PROVE  UNCHANGED machineVars /\ idle(client')
    OBVIOUS
  <2>1. client = NoClient
    BY DEF CanOpen
  <2>2. UNCHANGED machineVars
    BY DEF OpenedWith
  <2>3. client' = session \/ client' = NoClient
    BY <2>1 DEF OpenedWith
  <2> QED
    BY <1>0, <2>2, <2>3
<1>4. \A outcomes : client.kind = "program" /\ Step(outcomes)
            => UNCHANGED machineVars /\ idle(client')
  BY <1>1 DEF Step, Apply
<1> HIDE DEF idle
<1>5. CASE CreateProgramSession
  <2>1. CanOpen /\ \E o : OpenedWith(o, [kind |-> "program", pc |-> "idle", steps |-> 0])
    BY <1>5 DEF CreateProgramSession
  <2>2. idle([kind |-> "program", pc |-> "idle", steps |-> 0])
    BY DEF idle
  <2>3. UNCHANGED machineVars /\ idle(client')
    BY <1>3, <2>1, <2>2
  <2> QED
    BY <2>3, OtherSession DEF idle
<1>6. CASE ExecuteDescriptor
  <2>1. UNCHANGED machineVars /\ client' = NoClient
    BY <1>6 DEF ExecuteDescriptor, CanOpen
  <2> QED
    BY <1>0, <2>1, OtherSession DEF idle
<1>7. CASE ProgramInitParams \/ ProgramExecute \/ ProgramExecuteStep \/ ProgramReadEndOfRun
  <2>1. PICK outcomes : client.kind = "program" /\ Step(outcomes)
    BY <1>7, Zenon DEF ProgramInitParams, ProgramExecute, ProgramExecuteStep,
                       ProgramReadEndOfRun, Using
  <2>2. UNCHANGED machineVars /\ idle(client')
    BY <1>4, <2>1
  <2> QED
    BY <2>2, OtherSession DEF idle
<1>8. CASE ProgramTeardown \/ PreparedTeardown
  <2>1. UNCHANGED machineVars /\ client' = NoClient
    BY <1>8 DEF ProgramTeardown, PreparedTeardown
  <2> QED
    BY <1>0, <2>1, OtherSession DEF idle
<1>9. CASE PrepareResident
  <2>1. CanOpen
    BY <1>9 DEF PrepareResident
  <2>2. PICK o, session :
            /\ OpenedWith(o, session)
            /\ \/ session = NoClient
               \/ \E l, a, u : session = [kind |-> "prepared", pc |-> "idle", steps |-> 0,
                        reuses |-> 0, resets |-> 0, loadsAt |-> l, allocsAt |-> a,
                        uploadsAt |-> u, first |-> {}, afterReset |-> TRUE]
    BY <1>9, Zenon DEF PrepareResident
  <2>3. idle(session)
    BY <1>0, <2>2 DEF idle
  <2>4. UNCHANGED machineVars /\ idle(client')
    BY <1>3, <2>1, <2>2, <2>3
  <2> QED
    BY <2>4, OtherSession DEF idle
<1>10. CASE PreparedStep \/ ResetPrompt
  <2>1. client.kind = "prepared" /\ idle(client)
    BY <1>1, <1>10 DEF PreparedStep, ResetPrompt, Using
  <2>2. UNCHANGED machineVars
    BY <1>10 DEF PreparedStep, ResetPrompt, Apply
  <2>3. idle(client')
    <3>1. CASE PreparedStep
      BY <2>1, <3>1 DEF PreparedStep, idle
    <3>2. CASE ResetPrompt
      BY <2>1, <3>2 DEF ResetPrompt, idle
    <3> QED
      BY <1>10, <3>1, <3>2
  <2> QED
    BY <2>2, <2>3, OtherSession DEF idle
<1> QED
  BY <1>2, <1>5, <1>6, <1>7, <1>8, <1>9, <1>10

\* prepare of a paired session starts a fresh machine on two open programs.
LEMMA PrepareKeepsPairInv == ASSUME PairInv, PreparePaired PROVE PairInv'
<1>1. PICK pair, w, o :
        /\ o \in PairOutcomes(device, pair[1], pair[2], w.bytes, w.given)
        /\ IF o.ok
           THEN /\ program' = o.program
                /\ client' = [kind |-> "paired", pc |-> "idle", steps |-> 0,
                              reuses |-> 0, resets |-> 0, pair |-> pair, warm |-> {},
                              invocation |-> <<>>, ran |-> <<>>, loadsAt |-> o.dev.loads,
                              allocsAt |-> o.dev.allocs, uploadsAt |-> device.uploads]
           ELSE UNCHANGED <<program, client>>
  BY Zenon DEF PreparePaired
<1>2. /\ client = NoClient
      /\ phase' = "Fresh" /\ released' = FALSE /\ commits' = <<>>
      /\ txn' = [t \in Txns |-> Machine!NoTxn]
  BY DEF PreparePaired, CanOpen
<1>3. ~released' /\ DOMAIN txn' = Txns /\ txn' = [t \in Txns |-> txn'[t]]
  BY <1>2
<1>4. CASE o.ok
  <2>1. BothOpen(program')
    BY <1>1, <1>4, PairIsOpen
  <2>2. program' # NoPrograms
    BY <2>1 DEF BothOpen, NoPrograms
  <2>3. /\ PairedFields \cup {"kind", "pc"} \subseteq DOMAIN client'
        /\ client'.kind = "paired" /\ client'.pc = "idle" /\ client'.ran = <<>>
    BY <1>1, <1>4 DEF PairedFields
  <2> QED
    BY <1>2, <1>3, <2>1, <2>2, <2>3 DEF PairInv, PairedState, BothOpen, Opened, NoPrograms
<1>5. CASE ~o.ok
  <2>1. client' = NoClient
    BY <1>1, <1>2, <1>5
  <2> QED
    BY <1>3, <2>1 DEF PairInv, NoClient
<1> QED
  BY <1>4, <1>5

\* The steps of one paired invocation are steps of a paired session.
LEMMA PairedPc ==
    ASSUME PairInv, client.pc # "idle" \/ client.kind = "paired"
    PROVE  client.kind = "paired" /\ PairedState
BY DEF PairInv

\* Planning takes a transaction at the cursor the caller named.
LEMMA PlanKeepsPairInv ==
    ASSUME PairInv, NEW t \in Txns, NEW mode \in {"Prefill", "ScalarDecode"}, NEW e, NEW prefix,
           PairedPlan(t, [mode |-> mode, epoch |-> e, prefix |-> prefix])
    PROVE  PairInv'
<1> DEFINE inv == [mode |-> mode, epoch |-> e, prefix |-> prefix]
<1>1. client.kind = "paired" /\ PairedState
  BY PairedPc DEF PairedPlan, Using
<1>2. /\ client.pc = "idle" /\ Machine!Mutable
      /\ client' = [client EXCEPT !.pc = "planned", !.invocation = inv]
      /\ UNCHANGED <<program, phase, released, commits, validLen, epoch>>
  BY DEF PairedPlan, Machine!BeginTransaction, Machine!machine
<1>3. /\ txn' = [txn EXCEPT ![t] = [mode |-> mode, prefix |-> validLen, rows |-> QueryRows(inv),
                                    epoch |-> epoch, mutated |-> FALSE]]
      /\ e = epoch /\ prefix = validLen
  BY DEF PairedPlan, Machine!BeginTransaction, MatchInvocationCursor
<1>4. /\ PairedFields \cup {"kind", "pc"} \subseteq DOMAIN client'
      /\ client'.kind = "paired" /\ client'.pc = "planned" /\ client'.invocation = inv
      /\ client'.ran = client.ran
  BY <1>1, <1>2 DEF PairedState, PairedFields
<1>5. \A u \in Txns : InFlight(u)'
  <2> TAKE u \in Txns
  <2>1. u = t
    BY OneTxn
  <2>2. txn'[u] = [mode |-> mode, prefix |-> prefix, rows |-> QueryRows(inv),
                   epoch |-> e, mutated |-> FALSE]
    BY <1>3, <2>1 DEF PairInv
  <2>3. inv.mode = mode /\ inv.epoch = e /\ inv.prefix = prefix
    OBVIOUS
  <2> HIDE DEF inv
  <2> QED
    BY <1>2, <1>3, <1>4, <2>2, <2>3 DEF InFlight, MatchInvocationCursor, QueryRows
<1>6. DOMAIN txn' = Txns /\ txn' = [u \in Txns |-> txn'[u]]
  BY <1>3 DEF PairInv
<1>7. PairedState'
  BY <1>1, <1>2, <1>4, <1>5 DEF PairedState, Machine!Mutable, BothOpen, Opened, NoPrograms
<1> QED
  BY <1>2, <1>4, <1>6, <1>7 DEF PairInv

\* Dispatch runs the program of the invocation's mode: on success both stay
\* open, on failure the machine is not poisoned yet.
LEMMA DispatchKeepsPairInv ==
    ASSUME PairInv, NEW t \in Txns, PairedDispatch(t)
    PROVE  PairInv'
<1> DEFINE slot == SlotOf(client.invocation.mode)
<1>1. client.pc = "planned" /\ client.kind = "paired" /\ PairedState
  BY PairedPc DEF PairedDispatch
<1>2. PICK supplied, o :
        /\ o \in ExecuteResidentStep(device, program[slot], supplied)
        /\ program' = [program EXCEPT ![slot] = o.inner]
        /\ client' = [client EXCEPT !.pc = IF o.ok THEN "ran" ELSE "failed",
                                    !.warm = IF o.ok THEN @ \cup {slot} ELSE @,
                                    !.ran = IF o.ok THEN Append(@, RowsOf(client.invocation))
                                            ELSE @]
  BY DEF PairedDispatch
<1>3. /\ txn' = [txn EXCEPT ![t].mutated = TRUE]
      /\ UNCHANGED <<phase, released, commits, validLen, epoch>>
  BY DEF PairedDispatch, Machine!RecordPossibleMutation, Machine!machine
<1>4. /\ PairedFields \cup {"kind", "pc"} \subseteq DOMAIN client'
      /\ client'.kind = "paired" /\ client'.invocation = client.invocation
      /\ client'.pc = (IF o.ok THEN "ran" ELSE "failed")
      /\ client'.ran = (IF o.ok THEN Append(client.ran, RowsOf(client.invocation)) ELSE client.ran)
  BY <1>1, <1>2 DEF PairedState, PairedFields
<1>5. phase # "Poisoned" /\ InFlight(t) /\ BothOpen(program)
  BY <1>1 DEF PairedState
<1>6. slot \in {"main", "decode"}
  BY DEF SlotOf
<1>7. o.ok => BothOpen(program') /\ program' # NoPrograms
  <2> SUFFICES ASSUME o.ok PROVE BothOpen(program') /\ program' # NoPrograms
    OBVIOUS
  <2>1. Opened(program[slot])
    BY <1>5, <1>6 DEF BothOpen
  <2>2. Opened(o.inner)
    BY <1>2, <2>1, StepStaysOpen DEF Opened
  <2> HIDE DEF slot
  <2> QED
    BY <1>2, <1>5, <1>6, <2>2 DEF BothOpen, NoPrograms
<1>8. \A u \in Txns : InFlight(u)'
  <2> TAKE u \in Txns
  <2>1. u = t
    BY OneTxn
  <2>2. txn'[u] = [txn[t] EXCEPT !.mutated = TRUE]
    BY <1>3, <2>1 DEF PairInv
  <2>3. txn'[u] = [mode |-> client.invocation.mode, prefix |-> client.invocation.prefix,
                   rows |-> QueryRows(client.invocation), epoch |-> client.invocation.epoch,
                   mutated |-> TRUE]
    <3>1. PICK m, p, r, e, b :
            /\ txn[t] = [mode |-> m, prefix |-> p, rows |-> r, epoch |-> e, mutated |-> b]
            /\ b \in BOOLEAN /\ m = client.invocation.mode /\ p = client.invocation.prefix
            /\ r = QueryRows(client.invocation) /\ e = client.invocation.epoch
      BY <1>5 DEF InFlight
    <3>2. PICK f : f = txn[t]
      OBVIOUS
    <3>3. f \in [mode : {m}, prefix : {p}, rows : {r}, epoch : {e}, mutated : BOOLEAN]
      BY <3>1, <3>2
    <3>4. PICK g : g = [f EXCEPT !.mutated = TRUE]
      OBVIOUS
    <3>5. g \in [mode : {m}, prefix : {p}, rows : {r}, epoch : {e}, mutated : BOOLEAN]
      BY <3>3, <3>4
    <3>6. g.mutated = TRUE
      BY <3>3, <3>4
    <3>7. g = [mode |-> m, prefix |-> p, rows |-> r, epoch |-> e, mutated |-> TRUE]
      BY <3>5, <3>6
    <3> QED
      BY <2>2, <3>1, <3>2, <3>4, <3>7
  <2>4. client'.pc # "planned"
    BY <1>4
  <2> QED
    BY <1>3, <1>4, <1>5, <2>3, <2>4 DEF InFlight, MatchInvocationCursor, QueryRows
<1>9. DOMAIN txn' = Txns /\ txn' = [u \in Txns |-> txn'[u]]
  BY <1>3 DEF PairInv
<1>10. client'.ran = IF client'.pc = "ran" THEN Append(commits', RowsOf(client'.invocation))
                     ELSE commits'
  BY <1>1, <1>3, <1>4 DEF PairedState, RowsOf
<1>11. PairedState'
  <2>1. client'.pc \in {"ran", "failed"} /\ (client'.pc = "ran" => o.ok)
    BY <1>4
  <2>2. BothOpen(program)' <=> BothOpen(program')
    BY DEF BothOpen, Opened
  <2>3. (client.ran = IF client.pc = "ran" THEN Append(commits, RowsOf(client.invocation))
                      ELSE commits)'
    BY <1>10 DEF RowsOf, QueryRows
  <2> QED
    BY <1>3, <1>4, <1>5, <1>7, <1>8, <2>1, <2>2, <2>3 DEF PairedState, NoPrograms
<1> QED
  BY <1>3, <1>4, <1>9, <1>11 DEF PairInv

\* Commit appends to the history exactly the rows the device ran.
LEMMA CommitKeepsPairInv ==
    ASSUME PairInv, NEW t \in Txns, PairedCommit(t)
    PROVE  PairInv'
<1>1. client.pc = "ran" /\ client.kind = "paired" /\ PairedState
  BY PairedPc DEF PairedCommit
<1>2. /\ client' = [client EXCEPT !.pc = "settled", !.reuses = @ + 1, !.steps = @ + 1]
      /\ UNCHANGED <<program, released, txn>>
      /\ commits' = Append(commits, [epoch |-> txn[t].epoch, prefix |-> txn[t].prefix,
                                     rows |-> txn[t].rows])
      /\ phase' \in {"Prefill", "Decode"}
  BY DEF PairedCommit, Machine!Commit, Machine!Advance
<1>3. phase # "Poisoned" /\ InFlight(t) /\ program # NoPrograms /\ BothOpen(program)
  BY <1>1 DEF PairedState
<1>4. commits' = client.ran
  BY <1>1, <1>2, <1>3 DEF PairedState, InFlight, RowsOf
<1>5. /\ PairedFields \cup {"kind", "pc"} \subseteq DOMAIN client'
      /\ client'.kind = "paired" /\ client'.pc = "settled" /\ client'.ran = client.ran
  BY <1>1, <1>2 DEF PairedState, PairedFields
<1>6. PairedState'
  BY <1>2, <1>3, <1>4, <1>5 DEF PairedState, BothOpen, Opened, NoPrograms
<1> QED
  BY <1>2, <1>5, <1>6 DEF PairInv

\* A failed dispatch poisons the machine, which still is where the plan was
\* made, and releases both programs.
LEMMA FailKeepsPairInv ==
    ASSUME PairInv, NEW t \in Txns, PairedFail(t)
    PROVE  PairInv'
<1>1. client.pc = "failed" /\ client.kind = "paired" /\ PairedState
  BY PairedPc DEF PairedFail
<1>2. phase # "Poisoned" /\ InFlight(t)
  BY <1>1 DEF PairedState
<1>3. Machine!Mutable /\ Machine!Matches(txn[t])
  BY <1>2 DEF PairInv, InFlight, MatchInvocationCursor, Machine!Mutable, Machine!Matches
<1>4. /\ client' = [client EXCEPT !.pc = "settled", !.steps = @ + 1]
      /\ program' = NoPrograms
      /\ UNCHANGED <<released, txn, commits>>
      /\ phase' = "Poisoned"
  BY <1>3 DEF PairedFail, ReleaseAll, Machine!Fail
<1>5. /\ PairedFields \cup {"kind", "pc"} \subseteq DOMAIN client'
      /\ client'.kind = "paired" /\ client'.pc = "settled" /\ client'.ran = client.ran
  BY <1>1, <1>4 DEF PairedState, PairedFields
<1>6. PairedState'
  BY <1>1, <1>4, <1>5 DEF PairedState, NoPrograms
<1> QED
  BY <1>4, <1>5, <1>6 DEF PairInv

\* Returning, resetting and tearing down.
LEMMA RestKeepsPairInv ==
    ASSUME PairInv, (\E t \in Txns : PairedReturn(t)) \/ PairedReset \/ PairedTeardown
    PROVE  PairInv'
<1>1. CASE \E t \in Txns : PairedReturn(t)
  <2>1. PICK t \in Txns : PairedReturn(t)
    BY <1>1
  <2>2. client.pc = "settled" /\ client.kind = "paired" /\ PairedState
    BY <2>1, PairedPc DEF PairedReturn
  <2>3. /\ client' = [client EXCEPT !.pc = "idle"]
        /\ UNCHANGED <<program, released, phase, commits>>
        /\ txn' = [txn EXCEPT ![t] = Machine!NoTxn]
    BY <2>1 DEF PairedReturn, Machine!DropTransaction, Machine!machine
  <2>4. /\ PairedFields \cup {"kind", "pc"} \subseteq DOMAIN client'
        /\ client'.kind = "paired" /\ client'.pc = "idle" /\ client'.ran = client.ran
    BY <2>2, <2>3 DEF PairedState, PairedFields
  <2>5. DOMAIN txn' = Txns /\ txn' = [u \in Txns |-> txn'[u]]
    BY <2>3 DEF PairInv
  <2>6. PairedState'
    BY <2>2, <2>3, <2>4 DEF PairedState, BothOpen, Opened, NoPrograms
  <2> QED
    BY <2>3, <2>4, <2>5, <2>6 DEF PairInv
<1>2. CASE PairedReset
  <2>1. client.pc = "idle" /\ client.kind = "paired" /\ PairedState
    BY <1>2, PairedPc DEF PairedReset, Using
  <2>2. /\ client' = [client EXCEPT !.resets = @ + 1, !.steps = @ + 1]
        /\ UNCHANGED <<program, released, commits, txn>>
        /\ phase # "Poisoned" /\ phase' = "Fresh"
    BY <1>2 DEF PairedReset, Machine!LogicalReset, Machine!Mutable
  <2>3. /\ PairedFields \cup {"kind", "pc"} \subseteq DOMAIN client'
        /\ client'.kind = "paired" /\ client'.pc = "idle" /\ client'.ran = client.ran
    BY <2>1, <2>2 DEF PairedState, PairedFields
  <2>4. PairedState'
    BY <2>1, <2>2, <2>3 DEF PairedState, BothOpen, Opened, NoPrograms
  <2> QED
    BY <2>2, <2>3, <2>4 DEF PairInv
<1>3. CASE PairedTeardown
  BY <1>3, OtherSession DEF PairedTeardown, NoClient
<1> QED
  BY <1>1, <1>2, <1>3

\* Every step keeps the invariant.
LEMMA PairNext == PairInv /\ [Next]_vars => PairInv'
<1> SUFFICES ASSUME PairInv, [Next]_vars PROVE PairInv'
  OBVIOUS
<1>1. ASSUME NEW t \in Txns,
             \E mode \in {"Prefill", "ScalarDecode"}, e \in 1..MaxEpoch, prefix \in 0..Capacity :
                PairedPlan(t, [mode |-> mode, epoch |-> e, prefix |-> prefix])
      PROVE  PairInv'
  BY <1>1, PlanKeepsPairInv
<1>2. CASE UNCHANGED vars
  BY <1>2 DEF vars, hostVars, machineVars, PairInv, PairedState, InFlight,
              MatchInvocationCursor, BothOpen, Opened, NoPrograms
<1>3. CASE Next
  BY <1>1, <1>3, OthersKeepPairInv, PrepareKeepsPairInv, DispatchKeepsPairInv,
     CommitKeepsPairInv, FailKeepsPairInv, RestKeepsPairInv, Zenon DEF Next
<1> QED
  BY <1>2, <1>3

\* execute_invocation, fail_unproven and release_all: between invocations the
\* sequence is poisoned exactly when both programs have been released, and
\* otherwise both are open.
THEOREM FailurePoisonsPair == Spec => []FailurePoisonsAndReleasesPair
<1>1. PairInv => FailurePoisonsAndReleasesPair
  BY DEF PairInv, PairedState, BothOpen, Opened, Open, FailurePoisonsAndReleasesPair
<1> QED
  BY <1>1, PairInit, PairNext, PTL DEF Spec

\* What the paired programs executed on the device is what the sequence machine
\* committed, row by row and in order.
THEOREM ExecutionIsCommitted == Spec => []ExecutedIsCommitted
<1>1. PairInv => ExecutedIsCommitted
  BY DEF PairInv, PairedState, ExecutedIsCommitted
<1> QED
  BY <1>1, PairInit, PairNext, PTL DEF Spec

-----------------------------------------------------------------------------
(* Orders.                                                                  *)

\* A non-empty set of naturals has a least element.
LEMMA LeastNatural ==
    ASSUME NEW T \in SUBSET Nat, T # {}
    PROVE  \E m \in T : \A k \in T : m <= k
<1>1. PICK m \in T : \A k \in T : ~(<<k, m>> \in OpToRel(<, Nat))
  BY NatLessThanWellFounded, WFMin, Zenon
<1>2. \A k \in T : ~(k < m)
  BY <1>1 DEF OpToRel
<1> QED
  BY <1>2

\* A strict total order, as a set of pairs.
StrictOrder(R, S) ==
    /\ \A x \in S : <<x, x>> \notin R
    /\ \A x, y, z \in S : <<x, y>> \in R /\ <<y, z>> \in R => <<x, z>> \in R
    /\ \A x, y \in S : x = y \/ <<x, y>> \in R \/ <<y, x>> \in R

\* A sequence that names every element of S once.
Enumerates(s, S) ==
    /\ DOMAIN s = 1..Cardinality(S)
    /\ Len(s) = Cardinality(S)
    /\ \A i \in DOMAIN s : s[i] \in S
    /\ \A i, j \in DOMAIN s : s[i] = s[j] => i = j
    /\ \A x \in S : \E i \in DOMAIN s : s[i] = x

\* Sorting a finite set enumerates it.
LEMMA SortedEnumerates ==
    ASSUME NEW S, IsFiniteSet(S), NEW R, StrictOrder(R, S)
    PROVE  Enumerates(SortedBy(S, R), S)
<1> DEFINE below(x) == {y \in S : <<y, x>> \in R}
           n == Cardinality(S)
           rank == [x \in S |-> Cardinality(below(x))]
           s == SortedBy(S, R)
<1>0. n \in Nat
  BY FS_CardinalityType
<1>1. \A x \in S : IsFiniteSet(below(x)) /\ Cardinality(below(x)) \in Nat
  <2> TAKE x \in S
  <2>1. IsFiniteSet(below(x))
    <3>1. below(x) \in SUBSET S
      OBVIOUS
    <3> QED
      BY <3>1, FS_Subset
  <2> QED
    BY <2>1, FS_CardinalityType
<1>2. \A x, y \in S : <<x, y>> \in R => Cardinality(below(x)) < Cardinality(below(y))
  <2> SUFFICES ASSUME NEW x \in S, NEW y \in S, <<x, y>> \in R
               PROVE  Cardinality(below(x)) < Cardinality(below(y))
    OBVIOUS
  <2>1. below(x) \in SUBSET below(y) /\ x \in below(y) /\ x \notin below(x)
    BY DEF StrictOrder
  <2>2. IsFiniteSet(below(y)) /\ Cardinality(below(x)) \in Nat /\ Cardinality(below(y)) \in Nat
    BY <1>1
  <2> HIDE DEF below
  <2>3. Cardinality(below(x)) <= Cardinality(below(y))
    BY <2>1, <2>2, FS_Subset
  <2>4. Cardinality(below(x)) # Cardinality(below(y))
    BY <2>1, <2>2, FS_Subset
  <2> QED
    BY <2>2, <2>3, <2>4
<1>3. \A x \in S : Cardinality(below(x)) < n
  <2> TAKE x \in S
  <2>1. below(x) \in SUBSET S /\ x \notin below(x)
    BY DEF StrictOrder
  <2>2. Cardinality(below(x)) \in Nat
    BY <1>1
  <2> HIDE DEF below
  <2>3. Cardinality(below(x)) <= n /\ Cardinality(below(x)) # n
    BY <2>1, FS_Subset
  <2> QED
    BY <2>2, <2>3, <1>0
<1>4. rank \in Injection(S, 0..(n - 1))
  <2>1. rank \in [S -> 0..(n - 1)]
    <3> HIDE DEF below, n
    <3>1. \A x \in S : Cardinality(below(x)) \in 0..(n - 1)
      BY <1>0, <1>1, <1>3
    <3> QED
      BY <3>1
  <2>2. \A x, y \in S : rank[x] = rank[y] => x = y
    <3> SUFFICES ASSUME NEW x \in S, NEW y \in S, rank[x] = rank[y] PROVE x = y
      OBVIOUS
    <3>1. Cardinality(below(x)) = Cardinality(below(y))
      OBVIOUS
    <3> HIDE DEF below
    <3>2. ~(<<x, y>> \in R) /\ ~(<<y, x>> \in R)
      BY <1>1, <1>2, <3>1
    <3> QED
      BY <3>2 DEF StrictOrder
  <2> QED
    BY <2>1, <2>2 DEF Injection, IsInjective
<1>5. \A i \in 1..n : \E x \in S : rank[x] = i - 1
  <2>1. IsFiniteSet(0..(n - 1)) /\ Cardinality(0..(n - 1)) = n
    BY <1>0, FS_Interval
  <2> HIDE DEF rank
  <2>2. rank \in Surjection(S, 0..(n - 1))
    BY <1>4, <2>1, FS_Injection
  <2>3. \A i \in 1..n : i - 1 \in 0..(n - 1)
    BY <1>0
  <2> QED
    BY <2>2, <2>3 DEF Surjection
<1>6. \A i \in 1..n : s[i] \in S /\ rank[s[i]] = i - 1
  <2> SUFFICES ASSUME NEW i \in 1..n PROVE s[i] \in S /\ rank[s[i]] = i - 1
    OBVIOUS
  <2>1. s[i] = CHOOSE x \in S : Cardinality({y \in S : <<y, x>> \in R}) = i - 1
    BY DEF SortedBy
  <2>2. \E x \in S : Cardinality({y \in S : <<y, x>> \in R}) = i - 1
    BY <1>5
  <2>3. s[i] \in S /\ Cardinality({y \in S : <<y, s[i]>> \in R}) = i - 1
    <3> HIDE DEF s
    <3> QED
      BY <2>1, <2>2, Zenon
  <2> HIDE DEF s
  <2> QED
    BY <2>3
<1>7. DOMAIN s = 1..n /\ s \in Seq(S) /\ Len(s) = n
  <2> DEFINE e(i) == CHOOSE x \in S : Cardinality({y \in S : <<y, x>> \in R}) = i - 1
  <2>1. s = [i \in 1..n |-> s[i]]
    <3>1. s = [i \in 1..n |-> e(i)]
      BY DEF SortedBy
    <3> HIDE DEF e, s, n
    <3> QED
      BY <3>1
  <2> HIDE DEF s
  <2>2. s \in [1..n -> S]
    <3> HIDE DEF n
    <3> QED
      BY <1>6, <2>1
  <2> QED
    BY <1>0, <2>2
<1>8. \A i, j \in DOMAIN s : s[i] = s[j] => i = j
  <2> SUFFICES ASSUME NEW i \in 1..n, NEW j \in 1..n, s[i] = s[j] PROVE i = j
    BY <1>7
  <2>1. rank[s[i]] = i - 1 /\ rank[s[j]] = j - 1
    BY <1>6
  <2> HIDE DEF rank, s
  <2> QED
    BY <2>1, <1>0
<1>9. \A x \in S : \E i \in DOMAIN s : s[i] = x
  <2> SUFFICES ASSUME NEW x \in S PROVE \E i \in 1..n : s[i] = x
    BY <1>7
  <2>1. rank[x] \in 0..(n - 1)
    BY <1>4 DEF Injection
  <2> DEFINE i == rank[x] + 1
  <2>2. i \in 1..n /\ i - 1 = rank[x]
    BY <1>0, <2>1
  <2>3. rank[s[i]] = rank[x] /\ s[i] \in S
    <3> HIDE DEF rank, s, i
    <3> QED
      BY <1>6, <2>2
  <2> HIDE DEF rank, s
  <2>4. s[i] = x
    BY <1>4, <2>3 DEF Injection, IsInjective
  <2> QED
    BY <2>2, <2>4
<1> QED
  BY <1>6, <1>7, <1>8, <1>9 DEF Enumerates

\* Pairs of naturals in lexicographic order.
LEMMA PrecedesOrder ==
    ASSUME NEW S \in SUBSET (Nat \X Nat)
    PROVE  StrictOrder({p \in S \X S : Precedes(p[1], p[2])}, S)
<1> DEFINE R == {p \in S \X S : Precedes(p[1], p[2])}
<1>1. \A x, y \in S : <<x, y>> \in R <=> Precedes(x, y)
  OBVIOUS
<1> HIDE DEF R
<1>2. \A x \in S : x = <<x[1], x[2]>> /\ x[1] \in Nat /\ x[2] \in Nat
  OBVIOUS
<1>3. \A x \in S : ~Precedes(x, x)
  BY <1>2 DEF Precedes
<1>4. \A x, y, z \in S : Precedes(x, y) /\ Precedes(y, z) => Precedes(x, z)
  BY <1>2 DEF Precedes
<1>5. \A x, y \in S : x = y \/ Precedes(x, y) \/ Precedes(y, x)
  <2> SUFFICES ASSUME NEW x \in S, NEW y \in S, ~Precedes(x, y), ~Precedes(y, x) PROVE x = y
    OBVIOUS
  <2>1. x[1] = y[1] /\ x[2] = y[2]
    BY <1>2 DEF Precedes
  <2> QED
    BY <1>2, <2>1
<1>6. StrictOrder(R, S)
  BY <1>1, <1>3, <1>4, <1>5 DEF StrictOrder
<1> QED
  BY <1>6 DEF R

\* A non-empty set of pairs has a first one.
LEMMA FirstOfIs ==
    ASSUME NEW S \in SUBSET (Nat \X Nat), S # {}
    PROVE  FirstOf(S) \in S
<1> DEFINE left == {p[1] : p \in S}
<1>1. PICK a \in left : \A k \in left : a <= k
  <2>1. left \in SUBSET Nat /\ left # {}
    OBVIOUS
  <2> HIDE DEF left
  <2> QED
    BY <2>1, LeastNatural
<1> DEFINE right == {p[2] : p \in {q \in S : q[1] = a}}
<1>2. PICK b \in right : \A k \in right : b <= k
  <2>1. right \in SUBSET Nat /\ right # {}
    OBVIOUS
  <2> HIDE DEF right
  <2> QED
    BY <2>1, LeastNatural
<1>3. PICK p \in S : p[1] = a /\ p[2] = b
  OBVIOUS
<1>4. \A q \in S : q = <<q[1], q[2]>> /\ q[1] \in Nat /\ q[2] \in Nat
  OBVIOUS
<1>5. \A q \in S : q = p \/ Precedes(p, q)
  <2> SUFFICES ASSUME NEW q \in S, ~Precedes(p, q) PROVE q = p
    OBVIOUS
  <2>1. a <= q[1]
    BY <1>1
  <2>2. q[1] = a
    BY <1>3, <1>4, <2>1 DEF Precedes
  <2>3. b <= q[2]
    BY <1>2, <2>2
  <2>4. q[2] = b
    BY <1>3, <1>4, <2>2, <2>3 DEF Precedes
  <2> QED
    BY <1>3, <1>4, <2>2, <2>4
<1> QED
  BY <1>5, Zenon DEF FirstOf

\* The values of a function on a finite set are finitely many.
LEMMA ImageFinite ==
    ASSUME NEW S, IsFiniteSet(S), NEW f
    PROVE  IsFiniteSet({f[x] : x \in S})
<1> DEFINE T == {f[x] : x \in S}
           g == [x \in S |-> f[x]]
<1>1. g \in Surjection(S, T)
  BY DEF Surjection
<1> HIDE DEF g, T
<1>2. IsFiniteSet(T)
  BY <1>1, FS_Surjection
<1> QED
  BY <1>2 DEF T

-----------------------------------------------------------------------------
(* Slots and keys of a descriptor of the catalog.                           *)

\* Its places are pairs of naturals, and finitely many.
LEMMA PlacesFinite ==
    ASSUME NEW name \in Names
    PROVE  /\ SlotPlaces(Catalog[name]) \in SUBSET (Nat \X Nat)
           /\ IsFiniteSet(SlotPlaces(Catalog[name]))
<1> DEFINE d == Catalog[name]
           row(k) == {k} \X DOMAIN d.kernels[k].slots
<1>1. IsList(d.kernels) /\ \A k \in DOMAIN d.kernels : IsList(d.kernels[k].slots)
  BY CatalogAssumption DEF Names
<1> HIDE DEF d
<1>2. \A s : IsList(s) => Len(s) \in Nat /\ DOMAIN s = 1..Len(s)
  BY DEF IsList
<1>3. IsFiniteSet(DOMAIN d.kernels) /\ DOMAIN d.kernels \in SUBSET Nat
  <2>1. Len(d.kernels) \in Nat /\ DOMAIN d.kernels = 1..Len(d.kernels)
    BY <1>1, <1>2
  <2> QED
    BY <2>1, FS_Interval
<1>4. ASSUME NEW k \in DOMAIN d.kernels
      PROVE  IsFiniteSet(row(k)) /\ row(k) \in SUBSET (Nat \X Nat)
  <2>1. Len(d.kernels[k].slots) \in Nat /\ DOMAIN d.kernels[k].slots = 1..Len(d.kernels[k].slots)
    BY <1>1, <1>2
  <2>2. IsFiniteSet(DOMAIN d.kernels[k].slots)
    BY <2>1, FS_Interval
  <2>3. IsFiniteSet({k})
    BY FS_Singleton
  <2>4. IsFiniteSet(row(k))
    BY <2>2, <2>3, FS_Product
  <2> QED
    BY <1>3, <2>1, <2>4
<1> DEFINE rows == {row(k) : k \in DOMAIN d.kernels}
<1>5. SlotPlaces(d) = UNION rows
  BY DEF SlotPlaces
<1> HIDE DEF row
<1>6. IsFiniteSet(rows)
  <2> DEFINE f == [k \in DOMAIN d.kernels |-> row(k)]
  <2>1. rows = {f[k] : k \in DOMAIN d.kernels}
    OBVIOUS
  <2> HIDE DEF rows, f
  <2> QED
    BY <1>3, <2>1, ImageFinite
<1>7. \A T \in rows : IsFiniteSet(T) /\ T \in SUBSET (Nat \X Nat)
  BY <1>4
<1> HIDE DEF rows
<1>8. IsFiniteSet(UNION rows) /\ UNION rows \in SUBSET (Nat \X Nat)
  BY <1>6, <1>7, FS_UNION
<1> QED
  BY <1>5, <1>8 DEF d

\* Its keys are pairs of naturals, and finitely many.
LEMMA KeysFinite ==
    ASSUME NEW name \in Names
    PROVE  /\ Keys(Catalog[name]) \in SUBSET (Nat \X Nat)
           /\ IsFiniteSet(Keys(Catalog[name]))
<1> DEFINE d == Catalog[name]
<1>1. IsFiniteSet(SlotPlaces(d))
  BY PlacesFinite
<1>2. \A s \in Slots(d) : s.buffer \in Nat /\ s.version \in Nat
  BY CatalogAssumption DEF Names
<1> HIDE DEF d
<1>3. Keys(d) = {Key(SlotAt(d, p)) : p \in SlotPlaces(d)}
  BY DEF Keys, Slots
<1>4. IsFiniteSet(Keys(d))
  <2> DEFINE f == [p \in SlotPlaces(d) |-> Key(SlotAt(d, p))]
  <2>1. Keys(d) = {f[p] : p \in SlotPlaces(d)}
    BY <1>3
  <2> HIDE DEF f
  <2> QED
    BY <1>1, <2>1, ImageFinite
<1>5. Keys(d) \in SUBSET (Nat \X Nat)
  BY <1>2 DEF Keys, Key
<1> QED
  BY <1>4, <1>5 DEF d

\* What slot_metadata_by_key finds.
LEMMA MetaIs ==
    ASSUME NEW d, NEW k \in Keys(d)
    PROVE  Meta(d, k) \in Slots(d) /\ Key(Meta(d, k)) = k
<1>1. \E s \in Slots(d) : Key(s) = k
  BY DEF Keys
<1> QED
  BY <1>1, Zenon DEF Meta

\* The orders in which handles are handed out and weights are uploaded.
LEMMA KeysEnumerated ==
    ASSUME NEW name \in Names, NEW S \in SUBSET Keys(Catalog[name])
    PROVE  Enumerates(Sorted(S, Precedes), S)
<1>1. IsFiniteSet(S) /\ S \in SUBSET (Nat \X Nat)
  BY KeysFinite, FS_Subset
<1> QED
  BY <1>1, PrecedesOrder, SortedEnumerates DEF Sorted

\* Buffers sorted by id are each listed once.
LEMMA AscendingEnumerates ==
    ASSUME NEW ids \in SUBSET Nat, IsFiniteSet(ids)
    PROVE  Enumerates(Ascending(ids), ids)
<1> DEFINE R == {p \in ids \X ids : p[1] < p[2]}
<1>1. StrictOrder(R, ids)
  <2>1. \A x, y \in ids : <<x, y>> \in R <=> x < y
    OBVIOUS
  <2> HIDE DEF R
  <2> QED
    BY <2>1 DEF StrictOrder
<1> QED
  BY <1>1, SortedEnumerates DEF Ascending, Sorted

\* So are the PerProgram keys, in the order new_with_share visits them.
LEMMA PerProgramEnumerated ==
    ASSUME NEW name \in Names
    PROVE  Enumerates(PerProgramOrder(Catalog[name]), KeysOf(Catalog[name], "PerProgram"))
<1> DEFINE d == Catalog[name]
           S == KeysOf(d, "PerProgram")
           places(k) == {p \in SlotPlaces(d) : Key(SlotAt(d, p)) = k}
           first(k) == FirstOf(places(k))
           R == {p \in S \X S : Precedes(first(p[1]), first(p[2]))}
<1>1. SlotPlaces(d) \in SUBSET (Nat \X Nat)
  BY PlacesFinite
<1>2. IsFiniteSet(S)
  <2>1. S \in SUBSET Keys(d)
    BY DEF KeysOf
  <2> QED
    BY <2>1, KeysFinite, FS_Subset
<1>3. \A k \in S : first(k) \in places(k)
  <2> SUFFICES ASSUME NEW k \in S PROVE first(k) \in places(k)
    OBVIOUS
  <2>1. places(k) # {}
    <3>1. k \in Keys(d)
      BY DEF KeysOf
    <3> HIDE DEF d
    <3> QED
      BY <3>1 DEF Keys, Slots
  <2>2. places(k) \in SUBSET (Nat \X Nat)
    BY <1>1
  <2> HIDE DEF places
  <2> QED
    BY <2>1, <2>2, FirstOfIs
<1> DEFINE F == {first(k) : k \in S}
           P == {p \in F \X F : Precedes(p[1], p[2])}
<1>4. F \in SUBSET (Nat \X Nat)
  <2> HIDE DEF first, d, S
  <2> QED
    BY <1>1, <1>3
<1>5. StrictOrder(P, F)
  <2> HIDE DEF F
  <2> QED
    BY <1>4, PrecedesOrder
<1>6. StrictOrder(R, S)
  <2>1. \A x, y \in S : first(x) = first(y) => x = y
    <3> HIDE DEF first, d, S
    <3> QED
      BY <1>3
  <2> HIDE DEF first, S
  <2>2. \A x, y \in S : <<x, y>> \in R <=> <<first(x), first(y)>> \in P
    OBVIOUS
  <2>3. \A x \in S : first(x) \in F
    OBVIOUS
  <2> HIDE DEF R, P, F
  <2> QED
    BY <1>5, <2>1, <2>2, <2>3, Zenon DEF StrictOrder
<1>7. PerProgramOrder(d) = SortedBy(S, R)
  BY DEF PerProgramOrder, Sorted
<1> HIDE DEF R, S, d
<1>8. Enumerates(SortedBy(S, R), S)
  BY <1>2, <1>6, SortedEnumerates
<1> QED
  BY <1>7, <1>8 DEF S, d

\* validate_slot: the slots of one buffer have one lifetime and one
\* initialization, and one semantic value is held by one buffer.
LEMMA SlotsOfOneBuffer ==
    ASSUME NEW d, Validate(d), NEW r \in Slots(d), NEW s \in Slots(d), r.buffer = s.buffer
    PROVE  r.life = s.life /\ r.init = s.init
<1>1. ValidateSlot(d, r) /\ ValidateSlot(d, s)
  BY DEF Validate, ValidatedKernels
<1> DEFINE f == FirstSlot(d, r.buffer)
<1>2. r.life = f.life /\ r.init = f.init
  BY <1>1 DEF ValidateSlot
<1>3. s.life = f.life /\ s.init = f.init
  BY <1>1 DEF ValidateSlot
<1> QED
  BY <1>2, <1>3

\* Two versions of one buffer agree on lifetime and initialization.
LEMMA KeysOfOneBuffer ==
    ASSUME NEW d, Validate(d), NEW j \in Keys(d), NEW k \in Keys(d), j[1] = k[1]
    PROVE  Meta(d, j).life = Meta(d, k).life /\ Meta(d, j).init = Meta(d, k).init
<1>1. /\ Meta(d, j) \in Slots(d) /\ Key(Meta(d, j)) = j
      /\ Meta(d, k) \in Slots(d) /\ Key(Meta(d, k)) = k
  BY MetaIs
<1>2. Meta(d, j).buffer = Meta(d, k).buffer
  BY <1>1 DEF Key
<1> QED
  BY <1>1, <1>2, SlotsOfOneBuffer

-----------------------------------------------------------------------------
(* The device.                                                              *)

\* No zero-fill of a fresh buffer fails, and execute_descriptor is given no
\* repeating program: each of these leaves a handle nobody owns.
NoLeakingCalls ==
    /\ "zero" \notin Faults
    /\ \A name \in OneShots : ~Catalog[name].repeating

Contents == {"module", "junk", "zero", "host", "made", "old"}

SoundDevice(dev) ==
    /\ DOMAIN dev = {"backend", "memory", "loads", "allocs", "uploads"}
    /\ dev.loads \in Nat /\ dev.allocs \in Nat /\ dev.uploads \in Nat
    /\ DOMAIN dev.memory \subseteq 1..(dev.loads + dev.allocs)
    /\ \A h \in DOMAIN dev.memory : dev.memory[h] \in Contents

\* Nothing but contents differs.
SameDevice(e, dev) ==
    /\ SoundDevice(e) /\ e.backend = dev.backend
    /\ e.loads = dev.loads /\ e.allocs = dev.allocs
    /\ DOMAIN e.memory = DOMAIN dev.memory

\* The device's counters are as they were.
SameCounters(e, dev) ==
    e.loads = dev.loads /\ e.allocs = dev.allocs /\ e.uploads = dev.uploads
    /\ e.backend = dev.backend

\* These handles are live, and without leaking calls no other.
Leftover(dev, handles) ==
    /\ SoundDevice(dev)
    /\ handles \subseteq DOMAIN dev.memory
    /\ NoLeakingCalls => DOMAIN dev.memory = handles

\* A map extended with another one.
LEMMA OverlayIs ==
    ASSUME NEW f, NEW g
    PROVE  /\ DOMAIN Overlay(f, g) = DOMAIN f \cup DOMAIN g
           /\ \A x \in DOMAIN f : Overlay(f, g)[x] = f[x]
           /\ \A x \in DOMAIN g \ DOMAIN f : Overlay(f, g)[x] = g[x]
BY DEF Overlay

\* Filling live handles, or new ones below the counters.
LEMMA FilledIs ==
    ASSUME NEW dev, SoundDevice(dev), NEW contents,
           DOMAIN contents \subseteq 1..(dev.loads + dev.allocs),
           \A h \in DOMAIN contents : contents[h] \in Contents
    PROVE  /\ SoundDevice(Filled(dev, contents))
           /\ DOMAIN Filled(dev, contents).memory = DOMAIN dev.memory \cup DOMAIN contents
           /\ Filled(dev, contents).loads = dev.loads
           /\ Filled(dev, contents).allocs = dev.allocs
           /\ Filled(dev, contents).uploads = dev.uploads
           /\ Filled(dev, contents).backend = dev.backend
<1> DEFINE m == Overlay(contents, dev.memory)
           e == [dev EXCEPT !.memory = m]
<1>1. Filled(dev, contents) = e
  BY DEF Filled
<1>2. /\ DOMAIN m = DOMAIN dev.memory \cup DOMAIN contents
      /\ \A h \in DOMAIN m : m[h] \in Contents
  <2>1. /\ DOMAIN m = DOMAIN contents \cup DOMAIN dev.memory
        /\ \A h \in DOMAIN contents : m[h] = contents[h]
        /\ \A h \in DOMAIN dev.memory \ DOMAIN contents : m[h] = dev.memory[h]
    BY OverlayIs
  <2> HIDE DEF m
  <2>2. \A h \in DOMAIN dev.memory : dev.memory[h] \in Contents
    BY DEF SoundDevice
  <2> QED
    BY <2>1, <2>2
<1> HIDE DEF m
<1>3. /\ DOMAIN e = DOMAIN dev /\ e.memory = m /\ e.loads = dev.loads /\ e.allocs = dev.allocs
      /\ e.uploads = dev.uploads /\ e.backend = dev.backend
  BY DEF SoundDevice
<1> HIDE DEF e
<1>4. SoundDevice(e)
  BY <1>2, <1>3 DEF SoundDevice
<1> QED
  BY <1>1, <1>2, <1>3, <1>4

\* Copies, launches and clears into live handles.
LEMMA FilledLive ==
    ASSUME NEW dev, SoundDevice(dev), NEW handles \in SUBSET DOMAIN dev.memory,
           NEW content \in Contents
    PROVE  /\ SameDevice(Filled(dev, [h \in handles |-> content]), dev)
           /\ Filled(dev, [h \in handles |-> content]).uploads = dev.uploads
<1> DEFINE c == [h \in handles |-> content]
<1>1. /\ DOMAIN c = handles /\ \A h \in DOMAIN c : c[h] \in Contents
  OBVIOUS
<1>2. handles \subseteq 1..(dev.loads + dev.allocs)
  BY DEF SoundDevice
<1> HIDE DEF c
<1> DEFINE e == Filled(dev, c)
<1>3. SameDevice(e, dev) /\ e.uploads = dev.uploads
  <2>1. /\ SoundDevice(e) /\ DOMAIN e.memory = DOMAIN dev.memory \cup DOMAIN c
        /\ e.loads = dev.loads /\ e.allocs = dev.allocs
        /\ e.uploads = dev.uploads /\ e.backend = dev.backend
    BY <1>1, <1>2, FilledIs
  <2> HIDE DEF e
  <2>2. DOMAIN e.memory = DOMAIN dev.memory
    BY <1>1, <2>1
  <2> QED
    BY <2>1, <2>2 DEF SameDevice
<1> QED
  BY <1>3 DEF c

\* release_buffer: the handles are gone and the counters stay.
LEMMA FreedIs ==
    ASSUME NEW dev, SoundDevice(dev), NEW handles
    PROVE  /\ SoundDevice(Freed(dev, handles))
           /\ DOMAIN Freed(dev, handles).memory = DOMAIN dev.memory \ handles
           /\ Freed(dev, handles).loads = dev.loads
           /\ Freed(dev, handles).allocs = dev.allocs
           /\ Freed(dev, handles).uploads = dev.uploads
           /\ Freed(dev, handles).backend = dev.backend
<1> DEFINE m == [h \in DOMAIN dev.memory \ handles |-> dev.memory[h]]
           e == [dev EXCEPT !.memory = m]
<1>1. Freed(dev, handles) = e
  BY DEF Freed
<1>2. /\ DOMAIN m = DOMAIN dev.memory \ handles
      /\ \A h \in DOMAIN m : m[h] \in Contents
  BY DEF SoundDevice
<1> HIDE DEF m
<1>3. /\ DOMAIN e = DOMAIN dev /\ e.memory = m /\ e.loads = dev.loads /\ e.allocs = dev.allocs
      /\ e.uploads = dev.uploads /\ e.backend = dev.backend
  BY DEF SoundDevice
<1> HIDE DEF e
<1>4. SoundDevice(e)
  BY <1>2, <1>3 DEF SoundDevice
<1> QED
  BY <1>1, <1>2, <1>3, <1>4

-----------------------------------------------------------------------------
(* Handing out handles in an order.                                         *)

\* Positions among the first n whose key is not held already.
Fresh(order, held, n) == {i \in 1..n : order[i] \notin DOMAIN held}

\* What must be allocated is finite.
LEMMA FreshFinite ==
    ASSUME NEW order, NEW held, NEW n \in Nat
    PROVE  /\ IsFiniteSet(Fresh(order, held, n))
           /\ Cardinality(Fresh(order, held, n)) \in Nat
<1>1. Fresh(order, held, n) \in SUBSET (1..n)
  BY DEF Fresh
<1>2. IsFiniteSet(Fresh(order, held, n))
  BY <1>1, FS_Interval, FS_Subset
<1> QED
  BY <1>2, FS_CardinalityType

\* Going further down an order never needs less.
LEMMA FreshGrows ==
    ASSUME NEW order, NEW held, NEW m \in Nat, NEW n \in Nat, m <= n
    PROVE  Cardinality(Fresh(order, held, m)) <= Cardinality(Fresh(order, held, n))
<1>1. Fresh(order, held, m) \in SUBSET Fresh(order, held, n)
  BY DEF Fresh
<1> QED
  BY <1>1, FreshFinite, FS_Subset

\* One more key that is not held needs one more buffer.
LEMMA FreshNext ==
    ASSUME NEW order, NEW held, NEW i \in Nat \ {0}, order[i] \notin DOMAIN held
    PROVE  Cardinality(Fresh(order, held, i)) = Cardinality(Fresh(order, held, i - 1)) + 1
<1>1. Fresh(order, held, i) = Fresh(order, held, i - 1) \cup {i}
      /\ i \notin Fresh(order, held, i - 1)
  BY DEF Fresh
<1>2. i - 1 \in Nat
  OBVIOUS
<1> QED
  BY <1>1, <1>2, FreshFinite, FS_AddElement

\* n allocations, and no other count.
Allocated(e, dev, n) ==
    /\ e.allocs = dev.allocs + n
    /\ e.loads = dev.loads /\ e.uploads = dev.uploads /\ e.backend = dev.backend

\* What a sequence and a handle table hold at some positions.
Firsts(order, n) == {order[i] : i \in 1..n}
HandlesAt(h, places) == {h[i] : i \in places}

\* A fresh handle is above every id handed out before, and fresh handles are
\* distinct and below the allocation counter they are counted in.
LEMMA HandlesForIs ==
    ASSUME NEW dev, SoundDevice(dev), NEW order, NEW held, NEW N \in Nat,
           DOMAIN order = 1..N
    PROVE  /\ DOMAIN HandlesFor(dev, order, held) = 1..N
           /\ \A i \in 1..N : order[i] \in DOMAIN held =>
                  HandlesFor(dev, order, held)[i] = held[order[i]]
           /\ \A i \in 1..N : order[i] \notin DOMAIN held =>
                  /\ HandlesFor(dev, order, held)[i] \in Nat
                  /\ HandlesFor(dev, order, held)[i] > dev.loads + dev.allocs
                  /\ HandlesFor(dev, order, held)[i]
                        <= dev.loads + dev.allocs + Cardinality(Fresh(order, held, i))
           /\ \A i, j \in 1..N : i < j /\ order[i] \notin DOMAIN held /\ order[j] \notin DOMAIN held
                  => HandlesFor(dev, order, held)[i] < HandlesFor(dev, order, held)[j]
<1> DEFINE h == HandlesFor(dev, order, held)
           count(n) == Cardinality(Fresh(order, held, n))
<1>1. DOMAIN h = 1..N
  BY DEF HandlesFor
<1>2. \A i \in 1..N : order[i] \in DOMAIN held => h[i] = held[order[i]]
  BY DEF HandlesFor
<1>3. \A i \in 1..N : order[i] \notin DOMAIN held => h[i] = dev.loads + dev.allocs + 1 + count(i - 1)
  BY DEF HandlesFor, NextHandle, Fresh
<1>4. \A i \in 1..N : i \in Nat \ {0} /\ i \in Nat /\ i - 1 \in Nat
  OBVIOUS
<1> HIDE DEF h
<1>5. \A i \in 1..N : count(i) \in Nat /\ count(i - 1) \in Nat
  BY <1>4, FreshFinite
<1>6. \A i \in 1..N : order[i] \notin DOMAIN held => count(i) = count(i - 1) + 1
  BY <1>4, FreshNext
<1>7. \A i, j \in 1..N : i < j => count(i) <= count(j - 1)
  <2> SUFFICES ASSUME NEW i \in 1..N, NEW j \in 1..N, i < j PROVE count(i) <= count(j - 1)
    OBVIOUS
  <2>1. i \in Nat /\ j - 1 \in Nat /\ i <= j - 1
    OBVIOUS
  <2> QED
    BY <2>1, FreshGrows
<1>8. dev.loads \in Nat /\ dev.allocs \in Nat
  BY DEF SoundDevice
<1> HIDE DEF count
<1>9. \A i \in 1..N : order[i] \notin DOMAIN held =>
         h[i] \in Nat /\ h[i] > dev.loads + dev.allocs /\ h[i] <= dev.loads + dev.allocs + count(i)
  BY <1>3, <1>5, <1>6, <1>8
<1>10. \A i, j \in 1..N : i < j /\ order[i] \notin DOMAIN held /\ order[j] \notin DOMAIN held
                             => h[i] < h[j]
  <2> SUFFICES ASSUME NEW i \in 1..N, NEW j \in 1..N, i < j,
                      order[i] \notin DOMAIN held, order[j] \notin DOMAIN held
               PROVE  h[i] < h[j]
    OBVIOUS
  <2>1. h[i] = dev.loads + dev.allocs + 1 + count(i - 1)
        /\ h[j] = dev.loads + dev.allocs + 1 + count(j - 1)
    BY <1>3
  <2>2. count(i) \in Nat /\ count(i - 1) \in Nat /\ count(j - 1) \in Nat
        /\ count(i) = count(i - 1) + 1 /\ count(i) <= count(j - 1)
    BY <1>5, <1>6, <1>7
  <2> QED
    BY <1>8, <2>1, <2>2
<1> QED
  BY <1>1, <1>2, <1>9, <1>10 DEF h, count

\* The device after the first n keys have their handles: only the fresh ones
\* are new, and each is above every handle that was live.
Obtained(e, dev, order, held, n) ==
    LET h == HandlesFor(dev, order, held)
        fresh == Fresh(order, held, n)
    IN  /\ SoundDevice(e)
        /\ DOMAIN e.memory = DOMAIN dev.memory \cup HandlesAt(h, fresh)
        /\ \A i \in fresh : h[i] \notin DOMAIN dev.memory
        /\ Allocated(e, dev, Cardinality(fresh))

\* Allocating and zero-filling down an order.
LEMMA WithBuffersIs ==
    ASSUME NEW dev, SoundDevice(dev), NEW order, NEW held, NEW N \in Nat,
           DOMAIN order = 1..N, NEW n \in 0..N, NEW zeroed \in SUBSET (1..n),
           \A i \in zeroed : order[i] \in DOMAIN held => held[order[i]] \in DOMAIN dev.memory
    PROVE  Obtained(WithBuffers(dev, order, held, n, zeroed), dev, order, held, n)
<1> DEFINE h == HandlesFor(dev, order, held)
           fresh == Fresh(order, held, n)
           more == [dev EXCEPT !.allocs = @ + Cardinality(fresh)]
           given == {h[i] : i \in fresh \cup zeroed}
           contents == [x \in given |-> IF \E i \in zeroed : h[i] = x THEN "zero" ELSE "junk"]
<1>1. WithBuffers(dev, order, held, n, zeroed) = Filled(more, contents)
  BY DEF WithBuffers, Fresh
<1>2. Cardinality(fresh) \in Nat
  BY FreshFinite
<1>3. /\ dev.loads \in Nat /\ dev.allocs \in Nat /\ dev.uploads \in Nat
      /\ DOMAIN dev.memory \subseteq 1..(dev.loads + dev.allocs)
  BY DEF SoundDevice
<1>4. \A i \in fresh : /\ h[i] \in Nat /\ h[i] > dev.loads + dev.allocs
                       /\ h[i] <= dev.loads + dev.allocs + Cardinality(fresh)
  <2> SUFFICES ASSUME NEW i \in fresh
               PROVE  /\ h[i] \in Nat /\ h[i] > dev.loads + dev.allocs
                      /\ h[i] <= dev.loads + dev.allocs + Cardinality(fresh)
    OBVIOUS
  <2>1. i \in 1..N /\ order[i] \notin DOMAIN held /\ i \in Nat /\ n \in Nat /\ i <= n
    BY DEF Fresh
  <2>2. Cardinality(Fresh(order, held, i)) <= Cardinality(fresh)
        /\ Cardinality(Fresh(order, held, i)) \in Nat
    BY <2>1, FreshGrows, FreshFinite
  <2>3. /\ h[i] \in Nat /\ h[i] > dev.loads + dev.allocs
        /\ h[i] <= dev.loads + dev.allocs + Cardinality(Fresh(order, held, i))
    BY <2>1, HandlesForIs
  <2> HIDE DEF h, fresh
  <2> QED
    BY <1>2, <1>3, <2>2, <2>3
<1>5. \A i \in zeroed : i \in fresh \/ h[i] \in DOMAIN dev.memory
  <2> SUFFICES ASSUME NEW i \in zeroed, i \notin fresh PROVE h[i] \in DOMAIN dev.memory
    OBVIOUS
  <2>1. i \in 1..N /\ order[i] \in DOMAIN held
    BY DEF Fresh
  <2>2. h[i] = held[order[i]]
    BY <2>1, HandlesForIs
  <2> QED
    BY <2>1, <2>2
<1> HIDE DEF h, fresh
<1>6. /\ SoundDevice(more) /\ more.loads = dev.loads /\ more.memory = dev.memory
      /\ more.allocs = dev.allocs + Cardinality(fresh) /\ more.uploads = dev.uploads
      /\ more.backend = dev.backend
  <2>1. /\ DOMAIN more = DOMAIN dev /\ more.loads = dev.loads /\ more.memory = dev.memory
        /\ more.allocs = dev.allocs + Cardinality(fresh) /\ more.uploads = dev.uploads
        /\ more.backend = dev.backend
    BY DEF SoundDevice
  <2> HIDE DEF more
  <2>2. DOMAIN dev.memory \subseteq 1..(more.loads + more.allocs)
    BY <1>2, <1>3, <2>1
  <2> QED
    BY <1>2, <2>1, <2>2 DEF SoundDevice
<1>7. DOMAIN contents = given /\ \A x \in DOMAIN contents : contents[x] \in Contents
  BY DEF Contents
<1>8. given \subseteq 1..(more.loads + more.allocs)
  <2> HIDE DEF more
  <2> DEFINE top == dev.loads + dev.allocs + Cardinality(fresh)
  <2>0. more.loads + more.allocs = top
    BY <1>2, <1>3, <1>6
  <2>1. ASSUME NEW i \in fresh PROVE h[i] \in 1..top
    BY <1>2, <1>3, <1>4, <2>1
  <2>2. ASSUME NEW i \in zeroed, i \notin fresh PROVE h[i] \in 1..top
    <3>1. h[i] \in 1..(dev.loads + dev.allocs)
      BY <1>3, <1>5, <2>2
    <3> QED
      BY <1>2, <1>3, <3>1
  <2> HIDE DEF top
  <2> QED
    BY <2>0, <2>1, <2>2
<1>9. DOMAIN dev.memory \cup given = DOMAIN dev.memory \cup {h[i] : i \in fresh}
  BY <1>5
<1>10. \A i \in fresh : h[i] \notin DOMAIN dev.memory
  BY <1>3, <1>4
<1> HIDE DEF more, contents, given
<1>11. /\ SoundDevice(Filled(more, contents))
       /\ DOMAIN Filled(more, contents).memory = DOMAIN more.memory \cup DOMAIN contents
       /\ Filled(more, contents).loads = more.loads
       /\ Filled(more, contents).allocs = more.allocs
       /\ Filled(more, contents).uploads = more.uploads
       /\ Filled(more, contents).backend = more.backend
  BY <1>6, <1>7, <1>8, FilledIs
<1>12. DOMAIN dev.memory \cup given = DOMAIN dev.memory \cup HandlesAt(h, fresh)
  BY <1>9 DEF HandlesAt
<1> QED
  BY <1>1, <1>6, <1>7, <1>12, <1>10, <1>11 DEF h, fresh, Allocated, Obtained

\* The mapping of the first n keys of an enumeration.
LEMMA MappingIs ==
    ASSUME NEW order, NEW S, Enumerates(order, S), NEW h, NEW n \in 0..Cardinality(S)
    PROVE  /\ DOMAIN Mapping(h, order, n) = Firsts(order, n)
           /\ \A i \in 1..n : Mapping(h, order, n)[order[i]] = h[i]
<1>1. DOMAIN Mapping(h, order, n) = Firsts(order, n)
  BY DEF Mapping, Firsts
<1>2. ASSUME NEW i \in 1..n PROVE Mapping(h, order, n)[order[i]] = h[i]
  <2>1. \A j \in 1..n : order[j] = order[i] => j = i
    BY DEF Enumerates
  <2>2. (CHOOSE j \in 1..n : order[j] = order[i]) = i
    BY <2>1
  <2> QED
    BY <2>2 DEF Mapping
<1> QED
  BY <1>1, <1>2

-----------------------------------------------------------------------------
(* What an open program owns.                                               *)

ProgramFields == {"desc", "module", "sharedModule", "buffers", "shared", "pool",
                  "params", "final", "eorRead", "closed"}

\* The keys whose handles are the program's own, mapped or pooled.
HeldKeys(inner) == (DOMAIN inner.buffers \ inner.shared) \cup DOMAIN inner.pool
HandleOf(inner, k) == IF k \in DOMAIN inner.buffers THEN inner.buffers[k] ELSE inner.pool[k]

\* Every PerProgram buffer is mapped, a per-execution buffer is mapped or pooled
\* but not both, only PerProgram buffers are shared, and no handle is held twice.
MapsSound(inner) ==
    /\ KeysOf(Desc(inner), "PerProgram") \subseteq DOMAIN inner.buffers
    /\ DOMAIN inner.buffers \cup DOMAIN inner.pool \subseteq Keys(Desc(inner))
    /\ DOMAIN inner.buffers \cap DOMAIN inner.pool = {}
    /\ DOMAIN inner.pool \cap KeysOf(Desc(inner), "PerProgram") = {}
    /\ inner.shared \subseteq KeysOf(Desc(inner), "PerProgram")
HandlesDistinct(inner) ==
    /\ \A j, k \in HeldKeys(inner) : HandleOf(inner, j) = HandleOf(inner, k) => j = k
    /\ ~inner.sharedModule => \A k \in HeldKeys(inner) : HandleOf(inner, k) # inner.module
SoundProgram(inner) ==
    /\ DOMAIN inner = ProgramFields
    /\ inner.desc \in Names /\ Validate(Desc(inner))
    /\ inner.closed = FALSE
    /\ MapsSound(inner) /\ HandlesDistinct(inner)

\* A device and one of its open programs, when the handles of R are others'.
Safe(dev, inner, R) ==
    /\ SoundProgram(inner)
    /\ Leftover(dev, OwnedHandles(inner) \cup R)
    /\ OwnedHandles(inner) \cap R = {}
    /\ \A k \in inner.shared : inner.buffers[k] \in R
    /\ inner.sharedModule => inner.module \in R

\* What no operation of a program changes: its descriptor, its module, what it
\* shares and its PerProgram mapping.
SameShare(a, b) ==
    /\ a.desc = b.desc /\ a.module = b.module /\ a.sharedModule = b.sharedModule
    /\ a.shared = b.shared
    /\ \A k \in KeysOf(Desc(b), "PerProgram") : a.buffers[k] = b.buffers[k]

OwnModule(inner) == IF inner.sharedModule THEN {} ELSE {inner.module}

\* owned_handles by key, and the module unless it is shared.
LEMMA OwnedIs ==
    ASSUME NEW inner, MapsSound(inner)
    PROVE  OwnedHandles(inner) = {HandleOf(inner, k) : k \in HeldKeys(inner)} \cup OwnModule(inner)
<1>1. OwnedBuffers(inner) = {inner.buffers[k] : k \in DOMAIN inner.buffers \ inner.shared}
  BY DEF OwnedBuffers, Handles
<1>2. Handles(inner.pool) = {inner.pool[k] : k \in DOMAIN inner.pool}
  BY DEF Handles
<1>3. \A k \in DOMAIN inner.pool : k \notin DOMAIN inner.buffers
  BY DEF MapsSound
<1>4. {HandleOf(inner, k) : k \in HeldKeys(inner)} = OwnedBuffers(inner) \cup Handles(inner.pool)
  BY <1>1, <1>2, <1>3 DEF HandleOf, HeldKeys
<1> QED
  BY <1>4 DEF OwnedHandles, OwnModule

\* A step from one safe state to another: each handle the program then holds is
\* one it held under the same key, or a new one above every live handle.
LEMMA StaysSafe ==
    ASSUME NEW dev, NEW inner, NEW R, Safe(dev, inner, R),
           NEW e, SoundDevice(e), NEW next,
           DOMAIN next = ProgramFields, next.closed = FALSE, SameShare(next, inner),
           MapsSound(next),
           \A k \in HeldKeys(next) :
              \/ k \in HeldKeys(inner) /\ HandleOf(next, k) = HandleOf(inner, k)
              \/ HandleOf(next, k) \notin DOMAIN dev.memory,
           \A j, k \in HeldKeys(next) :
              /\ HandleOf(next, j) \notin DOMAIN dev.memory
              /\ HandleOf(next, j) = HandleOf(next, k)
              => j = k,
           OwnedHandles(next) \cup R \subseteq DOMAIN e.memory,
           NoLeakingCalls => DOMAIN e.memory \subseteq OwnedHandles(next) \cup R
    PROVE  Safe(e, next, R)
<1>1. /\ MapsSound(inner) /\ HandlesDistinct(inner) /\ OwnedHandles(inner) \cap R = {}
      /\ OwnedHandles(inner) \cup R \subseteq DOMAIN dev.memory
      /\ inner.desc \in Names /\ Validate(Desc(inner))
  BY DEF Safe, SoundProgram, Leftover
<1>2. OwnedHandles(inner) = {HandleOf(inner, k) : k \in HeldKeys(inner)} \cup OwnModule(inner)
      /\ OwnedHandles(next) = {HandleOf(next, k) : k \in HeldKeys(next)} \cup OwnModule(next)
  BY <1>1, OwnedIs
<1>3. OwnModule(next) = OwnModule(inner) /\ Desc(next) = Desc(inner)
  BY DEF OwnModule, SameShare, Desc
<1>4. \A k \in HeldKeys(inner) : HandleOf(inner, k) \in DOMAIN dev.memory
  BY <1>1, <1>2
<1>5. \A j, k \in HeldKeys(next) : HandleOf(next, j) = HandleOf(next, k) => j = k
  <2> SUFFICES ASSUME NEW j \in HeldKeys(next), NEW k \in HeldKeys(next),
                      HandleOf(next, j) = HandleOf(next, k)
               PROVE  j = k
    OBVIOUS
  <2>1. CASE HandleOf(next, j) \notin DOMAIN dev.memory
    BY <2>1
  <2>2. CASE HandleOf(next, j) \in DOMAIN dev.memory
    <3>1. /\ j \in HeldKeys(inner) /\ HandleOf(next, j) = HandleOf(inner, j)
          /\ k \in HeldKeys(inner) /\ HandleOf(next, k) = HandleOf(inner, k)
      BY <2>2
    <3> QED
      BY <1>1, <3>1 DEF HandlesDistinct
  <2> QED
    BY <2>1, <2>2
<1>6. ~next.sharedModule => \A k \in HeldKeys(next) : HandleOf(next, k) # next.module
  <2> SUFFICES ASSUME ~next.sharedModule, NEW k \in HeldKeys(next)
               PROVE  HandleOf(next, k) # next.module
    OBVIOUS
  <2>1. ~inner.sharedModule /\ next.module = inner.module /\ inner.module \in DOMAIN dev.memory
    BY <1>1, <1>2 DEF SameShare, OwnModule
  <2> QED
    BY <1>1, <2>1 DEF HandlesDistinct
<1>7. OwnedHandles(next) \cap R = {}
  <2> SUFFICES ASSUME NEW k \in HeldKeys(next) PROVE HandleOf(next, k) \notin R
    BY <1>1, <1>2, <1>3
  <2> QED
    BY <1>1, <1>2
<1>8. \A k \in next.shared : next.buffers[k] \in R
  BY DEF Safe, SoundProgram, MapsSound, SameShare
<1>9. next.sharedModule => next.module \in R
  BY DEF Safe, SameShare
<1>10. SoundProgram(next)
  BY <1>1, <1>3, <1>5, <1>6 DEF SoundProgram, HandlesDistinct, SameShare
<1>11. Leftover(e, OwnedHandles(next) \cup R)
  BY DEF Leftover
<1> QED
  BY <1>7, <1>8, <1>9, <1>10, <1>11 DEF Safe

\* New contents in a safe state.
LEMMA StaysSafeSame ==
    ASSUME NEW dev, NEW inner, NEW R, Safe(dev, inner, R), NEW e, SameDevice(e, dev)
    PROVE  Safe(e, inner, R)
BY DEF Safe, Leftover, SameDevice

\* A closed program maps at most what was shared with it.
ClosedProgram(inner) ==
    /\ DOMAIN inner = ProgramFields
    /\ inner.closed = TRUE
    /\ DOMAIN inner.buffers \subseteq inner.shared /\ DOMAIN inner.pool = {}

\* release_all_handles leaves what others own.
LEMMA ReleaseIs ==
    ASSUME NEW dev, NEW inner, NEW R, Safe(dev, inner, R)
    PROVE  LET r == ReleaseAllHandles(dev, inner)
           IN  Leftover(r.dev, R) /\ SameCounters(r.dev, dev)
<1> DEFINE r == ReleaseAllHandles(dev, inner)
<1>1. r.dev = Freed(dev, OwnedHandles(inner))
  BY DEF ReleaseAllHandles
<1>2. SoundDevice(dev) /\ OwnedHandles(inner) \cap R = {}
      /\ OwnedHandles(inner) \cup R \subseteq DOMAIN dev.memory
      /\ (NoLeakingCalls => DOMAIN dev.memory = OwnedHandles(inner) \cup R)
  BY DEF Safe, Leftover
<1>3. /\ SoundDevice(r.dev) /\ DOMAIN r.dev.memory = DOMAIN dev.memory \ OwnedHandles(inner)
      /\ SameCounters(r.dev, dev)
  BY <1>1, <1>2, FreedIs DEF SameCounters
<1> QED
  BY <1>2, <1>3 DEF Leftover

\* A failing handler closes the program and leaves what others own.
ClosedBy(o, dev, inner, R) ==
    /\ o.ok = FALSE /\ o.reads = {}
    /\ Leftover(o.dev, R) /\ SameCounters(o.dev, dev)
    /\ ClosedProgram(o.inner)
    /\ o.inner.desc = inner.desc /\ o.inner.shared = inner.shared

\* abandon releases what the program owns and closes it.
LEMMA AbandonIs ==
    ASSUME NEW dev, NEW inner, NEW R, Safe(dev, inner, R)
    PROVE  ClosedBy(Abandon(dev, inner), dev, inner, R)
<1> DEFINE r == ReleaseAllHandles(dev, inner)
           o == Abandon(dev, inner)
<1>1. o.ok = FALSE /\ o.dev = r.dev /\ o.inner = [r.inner EXCEPT !.closed = TRUE] /\ o.reads = {}
  BY DEF Abandon
<1>2. Leftover(r.dev, R) /\ SameCounters(r.dev, dev)
  BY ReleaseIs
<1>3. DOMAIN inner = ProgramFields
  BY DEF Safe, SoundProgram
<1> DEFINE b == [k \in DOMAIN inner.buffers \cap inner.shared |-> inner.buffers[k]]
<1>4. r.inner = [inner EXCEPT !.buffers = b, !.pool = <<>>]
  BY DEF ReleaseAllHandles
<1>5. DOMAIN b = DOMAIN inner.buffers \cap inner.shared /\ DOMAIN <<>> = {}
  OBVIOUS
<1> HIDE DEF r, o, b
<1>6. /\ DOMAIN r.inner = ProgramFields /\ r.inner.buffers = b /\ r.inner.pool = <<>>
      /\ r.inner.desc = inner.desc /\ r.inner.shared = inner.shared
  BY <1>3, <1>4 DEF ProgramFields
<1>7. /\ DOMAIN o.inner = ProgramFields /\ o.inner.buffers = b /\ o.inner.pool = <<>>
      /\ o.inner.desc = inner.desc /\ o.inner.shared = inner.shared /\ o.inner.closed = TRUE
  BY <1>1, <1>6 DEF ProgramFields
<1>8. ClosedProgram(o.inner)
  BY <1>5, <1>7 DEF ClosedProgram
<1> QED
  BY <1>1, <1>2, <1>7, <1>8 DEF o, ClosedBy, SameCounters

\* Recycling per-execution buffers: into the pool, or back to the device.
Recycled(r, dev, inner, R, keys, usePool) ==
    /\ Safe(r.dev, r.inner, R) /\ SameShare(r.inner, inner)
    /\ SameCounters(r.dev, dev)
    /\ DOMAIN r.inner.buffers = DOMAIN inner.buffers \ keys
    /\ DOMAIN r.inner.pool = DOMAIN inner.pool \cup
           (IF usePool THEN keys \cap DOMAIN inner.buffers ELSE {})

\* release_buffer and return_buffer_to_pool for the keys of a step.
LEMMA RecycleIs ==
    ASSUME NEW dev, NEW inner, NEW R, Safe(dev, inner, R), NEW usePool \in BOOLEAN,
           NEW keys, \A k \in keys \cap DOMAIN inner.buffers : k \notin KeysOf(Desc(inner), "PerProgram")
    PROVE  Recycled(Recycle(dev, inner, keys, usePool), dev, inner, R, keys, usePool)
<1> DEFINE r == Recycle(dev, inner, keys, usePool)
           left == [k \in DOMAIN inner.buffers \ keys |-> inner.buffers[k]]
           gone == [k \in keys \cap DOMAIN inner.buffers |-> inner.buffers[k]]
           over == Overlay(gone, inner.pool)
           next == r.inner
<1>1. /\ SoundProgram(inner) /\ MapsSound(inner) /\ HandlesDistinct(inner)
      /\ DOMAIN inner = ProgramFields
      /\ SoundDevice(dev) /\ OwnedHandles(inner) \cap R = {} /\ inner.closed = FALSE
      /\ OwnedHandles(inner) \cup R \subseteq DOMAIN dev.memory
      /\ (NoLeakingCalls => DOMAIN dev.memory = OwnedHandles(inner) \cup R)
  BY DEF Safe, SoundProgram, Leftover
<1>2. /\ DOMAIN left = DOMAIN inner.buffers \ keys
      /\ \A k \in DOMAIN left : left[k] = inner.buffers[k]
      /\ DOMAIN gone = keys \cap DOMAIN inner.buffers
      /\ \A k \in DOMAIN gone : gone[k] = inner.buffers[k]
  OBVIOUS
<1>3. /\ DOMAIN over = DOMAIN gone \cup DOMAIN inner.pool
      /\ \A k \in DOMAIN gone : over[k] = gone[k]
      /\ \A k \in DOMAIN inner.pool : over[k] = inner.pool[k]
  <2>1. DOMAIN gone \cap DOMAIN inner.pool = {}
    BY <1>1 DEF MapsSound
  <2> HIDE DEF gone
  <2>2. /\ DOMAIN over = DOMAIN gone \cup DOMAIN inner.pool
        /\ \A k \in DOMAIN gone : over[k] = gone[k]
        /\ \A k \in DOMAIN inner.pool \ DOMAIN gone : over[k] = inner.pool[k]
    BY OverlayIs
  <2> QED
    BY <2>1, <2>2
<1>4. CASE usePool
  <2>1. r.dev = dev /\ next = [inner EXCEPT !.buffers = left, !.pool = over]
    BY <1>4 DEF Recycle
  <2> HIDE DEF r, left, gone, over
  <2>2. /\ DOMAIN next = ProgramFields /\ next.buffers = left /\ next.pool = over
        /\ next.closed = FALSE /\ next.desc = inner.desc /\ next.shared = inner.shared
        /\ next.module = inner.module /\ next.sharedModule = inner.sharedModule
    BY <1>1, <2>1 DEF ProgramFields
  <2> HIDE DEF next
  <2>3. Desc(next) = Desc(inner)
    BY <2>2 DEF Desc
  <2>4. SameShare(next, inner)
    BY <1>1, <1>2, <2>2 DEF SameShare, MapsSound
  <2>5. MapsSound(next)
    BY <1>1, <1>2, <1>3, <2>2, <2>3 DEF MapsSound
  <2>6. HeldKeys(next) = HeldKeys(inner)
    BY <1>1, <1>2, <1>3, <2>2 DEF HeldKeys, MapsSound
  <2>7. \A k \in HeldKeys(next) : HandleOf(next, k) = HandleOf(inner, k)
    BY <1>1, <1>2, <1>3, <2>2, <2>6 DEF HeldKeys, HandleOf, MapsSound
  <2>8. OwnedHandles(next) = OwnedHandles(inner)
    <3>1. OwnModule(next) = OwnModule(inner)
      BY <2>2 DEF OwnModule
    <3>2. {HandleOf(next, k) : k \in HeldKeys(next)} = {HandleOf(inner, k) : k \in HeldKeys(inner)}
      BY <2>6, <2>7
    <3> QED
      BY <1>1, <2>5, <3>1, <3>2, OwnedIs
  <2>9. \A k \in HeldKeys(inner) : HandleOf(inner, k) \in DOMAIN dev.memory
    BY <1>1, OwnedIs
  <2>10. Safe(dev, next, R)
    BY <1>1, <2>2, <2>4, <2>5, <2>6, <2>7, <2>8, <2>9, StaysSafe
  <2>11. SameCounters(dev, dev)
    BY DEF SameCounters
  <2>12. DOMAIN next.pool = DOMAIN inner.pool \cup (keys \cap DOMAIN inner.buffers)
    BY <1>2, <1>3, <2>2
  <2>13. DOMAIN next.buffers = DOMAIN inner.buffers \ keys
    BY <1>2, <2>2
  <2> QED
    BY <1>4, <2>1, <2>4, <2>10, <2>11, <2>12, <2>13 DEF next, r, Recycled
<1>5. CASE ~usePool
  <2>1. r.dev = Freed(dev, Handles(gone)) /\ next = [inner EXCEPT !.buffers = left]
    BY <1>5 DEF Recycle
  <2>2. Handles(gone) = {inner.buffers[k] : k \in keys \cap DOMAIN inner.buffers}
    BY <1>2 DEF Handles
  <2> HIDE DEF r, left, gone, over
  <2>3. /\ DOMAIN next = ProgramFields /\ next.buffers = left /\ next.pool = inner.pool
        /\ next.closed = FALSE /\ next.desc = inner.desc /\ next.shared = inner.shared
        /\ next.module = inner.module /\ next.sharedModule = inner.sharedModule
    BY <1>1, <2>1 DEF ProgramFields
  <2> HIDE DEF next
  <2>4. Desc(next) = Desc(inner)
    BY <2>3 DEF Desc
  <2>5. SameShare(next, inner)
    BY <1>1, <1>2, <2>3 DEF SameShare, MapsSound
  <2>6. MapsSound(next)
    BY <1>1, <1>2, <2>3, <2>4 DEF MapsSound
  <2>7. /\ HeldKeys(next) = HeldKeys(inner) \ (keys \cap DOMAIN inner.buffers)
        /\ keys \cap DOMAIN inner.buffers \subseteq HeldKeys(inner)
    BY <1>1, <1>2, <2>3 DEF HeldKeys, MapsSound
  <2>8. \A k \in HeldKeys(next) : HandleOf(next, k) = HandleOf(inner, k)
    BY <1>1, <1>2, <2>3, <2>7 DEF HeldKeys, HandleOf, MapsSound
  <2>9. OwnedHandles(next) = OwnedHandles(inner) \ Handles(gone)
    <3>1. OwnModule(next) = OwnModule(inner)
      BY <2>3 DEF OwnModule
    <3>2. {HandleOf(next, k) : k \in HeldKeys(next)} = {HandleOf(inner, k) : k \in HeldKeys(next)}
      BY <2>8
    <3>3. Handles(gone) = {HandleOf(inner, k) : k \in keys \cap DOMAIN inner.buffers}
      BY <2>2 DEF HandleOf
    <3>4. OwnModule(inner) \cap Handles(gone) = {}
      BY <1>1, <2>7, <3>3 DEF OwnModule, HandlesDistinct
    <3>5. \A j \in HeldKeys(next) : HandleOf(inner, j) \notin Handles(gone)
      BY <1>1, <2>7, <3>3 DEF HandlesDistinct
    <3>6. OwnedHandles(next) = {HandleOf(inner, k) : k \in HeldKeys(next)} \cup OwnModule(inner)
      BY <2>6, <3>1, <3>2, OwnedIs
    <3>7. OwnedHandles(inner) = {HandleOf(inner, k) : k \in HeldKeys(inner)} \cup OwnModule(inner)
      BY <1>1, OwnedIs
    <3>8. {HandleOf(inner, k) : k \in HeldKeys(inner)} \ Handles(gone)
            = {HandleOf(inner, k) : k \in HeldKeys(next)}
      BY <2>7, <3>3, <3>5
    <3> QED
      BY <3>4, <3>6, <3>7, <3>8
  <2>10. /\ SoundDevice(r.dev) /\ DOMAIN r.dev.memory = DOMAIN dev.memory \ Handles(gone)
         /\ SameCounters(r.dev, dev)
    BY <1>1, <2>1, FreedIs DEF SameCounters
  <2>11. /\ Handles(gone) \subseteq OwnedHandles(inner)
    <3>1. Handles(gone) \subseteq {HandleOf(inner, k) : k \in HeldKeys(inner)}
      BY <2>2, <2>7 DEF HandleOf
    <3> QED
      BY <1>1, <3>1, OwnedIs
  <2>12. /\ OwnedHandles(next) \cup R \subseteq DOMAIN r.dev.memory
         /\ NoLeakingCalls => DOMAIN r.dev.memory \subseteq OwnedHandles(next) \cup R
    BY <1>1, <2>9, <2>10, <2>11
  <2>13. \A k \in HeldKeys(inner) : HandleOf(inner, k) \in DOMAIN dev.memory
    BY <1>1, OwnedIs
  <2>14. \A k \in HeldKeys(next) : k \in HeldKeys(inner) /\ HandleOf(next, k) \in DOMAIN dev.memory
    BY <2>7, <2>8, <2>13
  <2>15. Safe(r.dev, next, R)
    BY <2>3, <2>5, <2>6, <2>8, <2>10, <2>12, <2>14, StaysSafe
  <2>16. DOMAIN next.buffers = DOMAIN inner.buffers \ keys /\ DOMAIN next.pool = DOMAIN inner.pool \cup {}
    BY <1>2, <2>3
  <2> QED
    BY <1>5, <2>5, <2>10, <2>15, <2>16 DEF next, r, Recycled
<1> QED
  BY <1>4, <1>5

-----------------------------------------------------------------------------
(* allocate_step_buffers.                                                   *)

\* The session with the first n keys of the order mapped, m of them out of the
\* pool.
MappedTo(dev, inner, order, held, n, m) ==
    [inner EXCEPT !.buffers = Overlay(Mapping(HandlesFor(dev, order, held), order, n), @),
                  !.pool = [k \in DOMAIN inner.pool \ {order[i] : i \in 1..m} |-> inner.pool[k]]]

Placed(e, next, dev, inner, R, order, held, n, m) ==
    /\ Safe(e, next, R) /\ SameShare(next, inner)
    /\ Allocated(e, dev, Cardinality(Fresh(order, held, m)))
    /\ DOMAIN next.buffers = DOMAIN inner.buffers \cup Firsts(order, n)
    /\ DOMAIN next.pool = DOMAIN inner.pool \ Firsts(order, m)

\* Mapping the first buffers of a step keeps the program safe; a handle is lost only
\* between its allocation and a zero-fill that fails.
LEMMA MappedIs ==
    ASSUME NEW dev, NEW inner, NEW R, Safe(dev, inner, R),
           NEW todo, IsFiniteSet(todo),
           todo \subseteq Keys(Desc(inner)) \ KeysOf(Desc(inner), "PerProgram"),
           todo \cap DOMAIN inner.buffers = {},
           NEW order, Enumerates(order, todo),
           NEW held, DOMAIN held = DOMAIN inner.pool \cap todo,
           \A k \in DOMAIN held : held[k] = inner.pool[k],
           NEW n \in 0..Cardinality(todo), NEW m \in 0..Cardinality(todo), n <= m,
           NoLeakingCalls => n = m,
           NEW zeroed \in SUBSET (1..m)
    PROVE  Placed(WithBuffers(dev, order, held, m, zeroed),
                  MappedTo(dev, inner, order, held, n, m), dev, inner, R, order, held, n, m)
<1> DEFINE e == WithBuffers(dev, order, held, m, zeroed)
           next == MappedTo(dev, inner, order, held, n, m)
           N == Cardinality(todo)
           h == HandlesFor(dev, order, held)
           map == Mapping(h, order, n)
           b == Overlay(map, inner.buffers)
           p == [k \in DOMAIN inner.pool \ {order[i] : i \in 1..m} |-> inner.pool[k]]
           mapped == {order[i] : i \in 1..n}
           fresh == Fresh(order, held, m)
<1>0. N \in Nat /\ n \in 0..N /\ m \in 0..N /\ n <= m
  BY FS_CardinalityType
<1>1. /\ SoundProgram(inner) /\ MapsSound(inner) /\ HandlesDistinct(inner)
      /\ DOMAIN inner = ProgramFields
      /\ SoundDevice(dev) /\ OwnedHandles(inner) \cap R = {} /\ inner.closed = FALSE
      /\ OwnedHandles(inner) \cup R \subseteq DOMAIN dev.memory
      /\ (NoLeakingCalls => DOMAIN dev.memory = OwnedHandles(inner) \cup R)
  BY DEF Safe, SoundProgram, Leftover
<1>2. /\ DOMAIN order = 1..N
      /\ \A i \in 1..N : order[i] \in todo
      /\ \A i, j \in 1..N : order[i] = order[j] => i = j
      /\ \A k \in todo : \E i \in 1..N : order[i] = k
  BY DEF Enumerates
<1>3. /\ OwnedHandles(inner) = {HandleOf(inner, k) : k \in HeldKeys(inner)} \cup OwnModule(inner)
      /\ \A k \in HeldKeys(inner) : HandleOf(inner, k) \in DOMAIN dev.memory
  BY <1>1, OwnedIs
<1>4. /\ DOMAIN h = 1..N
      /\ \A i \in 1..N : order[i] \in DOMAIN held => h[i] = held[order[i]]
      /\ \A i \in 1..N : order[i] \notin DOMAIN held => h[i] > dev.loads + dev.allocs /\ h[i] \in Nat
      /\ \A i, j \in 1..N : i < j /\ order[i] \notin DOMAIN held /\ order[j] \notin DOMAIN held
             => h[i] < h[j]
  BY <1>0, <1>1, <1>2, HandlesForIs
<1>5. /\ DOMAIN map = mapped
      /\ \A i \in 1..n : map[order[i]] = h[i]
  <2> HIDE DEF h
  <2>0. n \in 0..Cardinality(todo)
    OBVIOUS
  <2>1. /\ DOMAIN Mapping(h, order, n) = Firsts(order, n)
        /\ \A i \in 1..n : Mapping(h, order, n)[order[i]] = h[i]
    BY <2>0, MappingIs
  <2> QED
    BY <2>1 DEF Firsts
<1>6. \A k \in DOMAIN held : held[k] \in DOMAIN dev.memory /\ k \in HeldKeys(inner)
                             /\ HandleOf(inner, k) = held[k]
  BY <1>1, <1>3 DEF HeldKeys, HandleOf, MapsSound
<1>7. /\ SoundDevice(e)
      /\ DOMAIN e.memory = DOMAIN dev.memory \cup {h[i] : i \in fresh}
      /\ \A i \in fresh : h[i] \notin DOMAIN dev.memory
      /\ e.allocs = dev.allocs + Cardinality(fresh)
      /\ e.loads = dev.loads /\ e.uploads = dev.uploads /\ e.backend = dev.backend
  <2>1. m \in 0..N /\ \A i \in zeroed : order[i] \in DOMAIN held => held[order[i]] \in DOMAIN dev.memory
    BY <1>6
  <2> HIDE DEF N
  <2>2. /\ SoundDevice(dev) /\ N \in Nat /\ DOMAIN order = 1..N
        /\ zeroed \in SUBSET (1..m)
    BY <1>0, <1>1, <1>2
  <2> HIDE DEF e, h, fresh
  <2>3. Obtained(WithBuffers(dev, order, held, m, zeroed), dev, order, held, m)
    BY <2>1, <2>2, WithBuffersIs
  <2> QED
    BY <2>3 DEF Obtained, e, h, fresh, Allocated, HandlesAt
<1>8. /\ DOMAIN b = mapped \cup DOMAIN inner.buffers
      /\ \A i \in 1..n : b[order[i]] = h[i]
      /\ \A k \in DOMAIN inner.buffers : b[k] = inner.buffers[k]
  <2>1. /\ DOMAIN b = DOMAIN map \cup DOMAIN inner.buffers
        /\ \A k \in DOMAIN map : b[k] = map[k]
        /\ \A k \in DOMAIN inner.buffers \ DOMAIN map : b[k] = inner.buffers[k]
    BY OverlayIs
  <2>2. DOMAIN map \cap DOMAIN inner.buffers = {}
    BY <1>0, <1>2, <1>5
  <2> HIDE DEF b, map, h
  <2>3. \A i \in 1..n : order[i] \in DOMAIN map
    BY <1>5
  <2> QED
    BY <1>5, <2>1, <2>2, <2>3
<1>9. /\ DOMAIN p = DOMAIN inner.pool \ {order[i] : i \in 1..m}
      /\ \A k \in DOMAIN p : p[k] = inner.pool[k]
  OBVIOUS
<1>10. next = [inner EXCEPT !.buffers = b, !.pool = p]
  BY DEF MappedTo
<1> HIDE DEF b, p, map, h, e, next, N, fresh
<1>11. /\ DOMAIN next = ProgramFields /\ next.buffers = b /\ next.pool = p
       /\ next.closed = FALSE /\ next.desc = inner.desc /\ next.shared = inner.shared
       /\ next.module = inner.module /\ next.sharedModule = inner.sharedModule
  BY <1>1, <1>10 DEF ProgramFields
<1>12. Desc(next) = Desc(inner)
  BY <1>11 DEF Desc
<1>13. SameShare(next, inner)
  BY <1>1, <1>8, <1>11 DEF SameShare, MapsSound
<1>14. \A i \in 1..m : order[i] \in todo /\ i \in 1..N
  BY <1>0, <1>2
<1>15. mapped \subseteq todo /\ mapped \subseteq {order[i] : i \in 1..m}
  BY <1>0, <1>14
<1>16. MapsSound(next)
  BY <1>1, <1>8, <1>9, <1>11, <1>12, <1>15 DEF MapsSound
<1>17. \A k \in HeldKeys(next) :
          \/ k \in HeldKeys(inner) /\ HandleOf(next, k) = HandleOf(inner, k)
          \/ \E i \in fresh : i \in 1..n /\ k = order[i] /\ HandleOf(next, k) = h[i]
  <2> SUFFICES ASSUME NEW k \in HeldKeys(next)
               PROVE  \/ k \in HeldKeys(inner) /\ HandleOf(next, k) = HandleOf(inner, k)
                      \/ \E i \in fresh : i \in 1..n /\ k = order[i] /\ HandleOf(next, k) = h[i]
    OBVIOUS
  <2>1. CASE k \in mapped
    <3>1. PICK i \in 1..n : k = order[i]
      BY <2>1
    <3>2. HandleOf(next, k) = h[i] /\ i \in 1..m /\ i \in 1..N
      BY <1>0, <1>8, <1>11, <2>1, <3>1 DEF HandleOf
    <3>3. CASE k \in DOMAIN held
      BY <1>4, <1>6, <3>1, <3>2, <3>3
    <3>4. CASE k \notin DOMAIN held
      BY <3>1, <3>2, <3>4 DEF fresh, Fresh
    <3> QED
      BY <3>3, <3>4
  <2>2. CASE k \notin mapped
    <3>1. k \in DOMAIN inner.buffers \ inner.shared \/ k \in DOMAIN p
      BY <1>8, <1>11, <2>2 DEF HeldKeys
    <3> QED
      BY <1>1, <1>8, <1>9, <1>11, <2>2, <3>1 DEF HeldKeys, HandleOf, MapsSound
  <2> QED
    BY <2>1, <2>2
<1>18. \A j, k \in HeldKeys(next) :
          HandleOf(next, j) \notin DOMAIN dev.memory /\ HandleOf(next, j) = HandleOf(next, k)
          => j = k
  <2> SUFFICES ASSUME NEW j \in HeldKeys(next), NEW k \in HeldKeys(next),
                      HandleOf(next, j) \notin DOMAIN dev.memory,
                      HandleOf(next, j) = HandleOf(next, k)
               PROVE  j = k
    OBVIOUS
  <2>1. PICK i \in fresh : i \in 1..n /\ j = order[i] /\ HandleOf(next, j) = h[i]
    BY <1>3, <1>17
  <2>2. PICK l \in fresh : l \in 1..n /\ k = order[l] /\ HandleOf(next, k) = h[l]
    BY <1>3, <1>17
  <2>3. i \in 1..N /\ l \in 1..N /\ order[i] \notin DOMAIN held /\ order[l] \notin DOMAIN held
    BY <1>0 DEF fresh, Fresh
  <2>4. ~(i < l) /\ ~(l < i)
    BY <1>4, <2>1, <2>2, <2>3
  <2> QED
    BY <2>1, <2>2, <2>3, <2>4
<1>19. OwnedHandles(next) = {HandleOf(next, k) : k \in HeldKeys(next)} \cup OwnModule(inner)
  <2>1. OwnModule(next) = OwnModule(inner)
    BY <1>11 DEF OwnModule
  <2> QED
    BY <1>16, <2>1, OwnedIs
<1>20. OwnedHandles(next) \cup R \subseteq DOMAIN e.memory
  <2>1. \A k \in HeldKeys(next) : HandleOf(next, k) \in DOMAIN e.memory
    BY <1>3, <1>7, <1>17
  <2> QED
    BY <1>1, <1>3, <1>7, <1>19, <2>1
<1>21. ASSUME NoLeakingCalls PROVE DOMAIN e.memory \subseteq OwnedHandles(next) \cup R
  <2>1. n = m
    BY <1>21
  <2>2. ASSUME NEW k \in HeldKeys(inner) PROVE HandleOf(inner, k) \in OwnedHandles(next)
    <3>1. CASE k \in mapped
      <4>1. PICK i \in 1..n : k = order[i]
        BY <3>1
      <4>2. k \in todo /\ i \in 1..N
        BY <1>0, <1>15, <3>1
      <4>3. k \in DOMAIN inner.pool /\ k \in DOMAIN held
        BY <2>2, <4>2 DEF HeldKeys
      <4>4. HandleOf(inner, k) = h[i]
        BY <1>4, <1>6, <4>1, <4>2, <4>3
      <4>5. k \in HeldKeys(next) /\ HandleOf(next, k) = h[i]
        <5>1. k \notin inner.shared
          BY <1>1, <4>2 DEF MapsSound
        <5>2. k \in DOMAIN b /\ b[k] = h[i]
          BY <1>8, <3>1, <4>1
        <5> QED
          BY <1>11, <5>1, <5>2 DEF HeldKeys, HandleOf
      <4> QED
        BY <1>19, <4>4, <4>5
    <3>2. CASE k \notin mapped
      <4>1. k \in HeldKeys(next) /\ HandleOf(next, k) = HandleOf(inner, k)
        <5>1. CASE k \in DOMAIN inner.buffers
          BY <1>8, <1>11, <2>2, <5>1, <1>1 DEF HeldKeys, HandleOf, MapsSound
        <5>2. CASE k \notin DOMAIN inner.buffers
          <6>1. k \in DOMAIN inner.pool /\ k \in DOMAIN p
            BY <1>9, <2>1, <2>2, <3>2, <5>2 DEF HeldKeys
          <6>2. k \notin DOMAIN b
            BY <1>8, <3>2, <5>2
          <6> QED
            BY <1>9, <1>11, <5>2, <6>1, <6>2 DEF HeldKeys, HandleOf
        <5> QED
          BY <5>1, <5>2
      <4> QED
        BY <1>19, <4>1
    <3> QED
      BY <3>1, <3>2
  <2>3. ASSUME NEW i \in fresh PROVE h[i] \in OwnedHandles(next)
    <3>1. i \in 1..n /\ i \in 1..N /\ order[i] \in todo
      BY <1>0, <1>2, <2>1, <2>3 DEF fresh, Fresh
    <3>2. order[i] \notin inner.shared
      BY <1>1, <3>1 DEF MapsSound
    <3>3. order[i] \in DOMAIN b /\ b[order[i]] = h[i]
      BY <1>8, <3>1
    <3>4. order[i] \in HeldKeys(next) /\ HandleOf(next, order[i]) = h[i]
      BY <1>11, <3>2, <3>3 DEF HeldKeys, HandleOf
    <3> QED
      BY <1>19, <3>4
  <2> QED
    BY <1>1, <1>3, <1>7, <1>19, <1>21, <2>2, <2>3
<1>22. Safe(e, next, R)
  <2>1. \A k \in HeldKeys(next) :
          \/ k \in HeldKeys(inner) /\ HandleOf(next, k) = HandleOf(inner, k)
          \/ HandleOf(next, k) \notin DOMAIN dev.memory
    BY <1>7, <1>17
  <2> QED
    BY <1>7, <1>11, <1>13, <1>16, <1>18, <1>20, <1>21, <2>1, StaysSafe
<1>23. /\ DOMAIN next.buffers = DOMAIN inner.buffers \cup Firsts(order, n)
       /\ DOMAIN next.pool = DOMAIN inner.pool \ Firsts(order, m)
  BY <1>8, <1>9, <1>11 DEF Firsts
<1> QED
  BY <1>7, <1>13, <1>22, <1>23 DEF e, next, fresh, Allocated, Placed

-----------------------------------------------------------------------------
(* One step.                                                                *)

\* What an operation of a program leaves: the program still safe, sharing what
\* it shared, on a device that loaded nothing.
Kept(e, next, dev, inner, R) ==
    /\ Safe(e, next, R) /\ SameShare(next, inner)
    /\ e.loads = dev.loads /\ e.backend = dev.backend

\* Two operations in a row.
LEMMA KeptTransitive ==
    ASSUME NEW dev, NEW inner, NEW R, NEW e, NEW next, NEW f, NEW last,
           Kept(e, next, dev, inner, R), Kept(f, last, e, next, R)
    PROVE  Kept(f, last, dev, inner, R)
<1>1. Desc(next) = Desc(inner)
  BY DEF Kept, SameShare, Desc
<1> QED
  BY <1>1 DEF Kept, SameShare

\* An operation that only changes contents.
LEMMA KeptSame ==
    ASSUME NEW dev, NEW inner, NEW R, Safe(dev, inner, R), NEW e, SameDevice(e, dev)
    PROVE  Kept(e, inner, dev, inner, R)
<1>1. Safe(e, inner, R)
  BY StaysSafeSame
<1> QED
  BY <1>1 DEF Kept, SameShare, SameDevice

\* A program that has not run yet, and one whose step buffers are all obtained.
Cold(inner) ==
    DOMAIN inner.buffers = KeysOf(Desc(inner), "PerProgram") /\ DOMAIN inner.pool = {}
Warm(inner) == DOMAIN inner.buffers \cup DOMAIN inner.pool = Keys(Desc(inner))

\* allocate_step_buffers: everything mapped and the pool empty, at the price of
\* the per-execution buffers the first time and of nothing later.
Stocked(a, dev, inner, R) ==
    /\ a.ok \in BOOLEAN
    /\ Kept(a.dev, a.inner, dev, inner, R) /\ a.dev.uploads = dev.uploads
    /\ a.ok => /\ DOMAIN a.inner.buffers = Keys(Desc(inner))
               /\ DOMAIN a.inner.pool = {}
               /\ Cold(inner) => a.dev.allocs = dev.allocs + Cardinality(PerExecution(Desc(inner)))
               /\ Warm(inner) => a.dev.allocs = dev.allocs

\* allocate_step_buffers.
LEMMA AllocateIs ==
    ASSUME NEW dev, NEW inner, NEW R, Safe(dev, inner, R), NEW usePool \in BOOLEAN,
           usePool \/ DOMAIN inner.pool = {},
           NEW a \in AllocateStepBuffers(dev, inner, usePool)
    PROVE  Stocked(a, dev, inner, R)
<1> DEFINE d == Desc(inner)
           todo == {k \in Keys(d) \ KeysOf(d, "PerProgram") : k \notin DOMAIN inner.buffers}
           order == Sorted(todo, Precedes)
           held == Checkout(inner, todo, usePool)
           N == Cardinality(todo)
           zeroed(n) == {i \in 1..n : NeedsZero(d, order[i])}
           E(m, z) == WithBuffers(dev, order, held, m, z)
           P(n, m) == MappedTo(dev, inner, order, held, n, m)
<1>1. /\ inner.desc \in Names /\ SoundDevice(dev) /\ MapsSound(inner)
  BY DEF Safe, SoundProgram, Leftover
<1>2. todo \in SUBSET Keys(d) /\ IsFiniteSet(todo)
  <2>1. todo \in SUBSET Keys(d)
    OBVIOUS
  <2> QED
    BY <1>1, <2>1, KeysFinite, FS_Subset DEF Desc
<1>3. Enumerates(order, todo) /\ N \in Nat
  <2>1. todo \in SUBSET Keys(Catalog[inner.desc])
    BY <1>2 DEF Desc
  <2> HIDE DEF todo
  <2> QED
    BY <1>1, <1>2, <2>1, KeysEnumerated, FS_CardinalityType
<1>4. /\ todo \subseteq Keys(d) \ KeysOf(d, "PerProgram")
      /\ todo \cap DOMAIN inner.buffers = {}
  OBVIOUS
<1>5. DOMAIN held = DOMAIN inner.pool \cap todo /\ \A k \in DOMAIN held : held[k] = inner.pool[k]
  BY DEF Checkout
<1>6. Len(order) = N /\ DOMAIN order = 1..N
  BY <1>3 DEF Enumerates
<1> HIDE DEF d, todo, order, held, N
<1>7. ASSUME NEW n \in 0..N, NEW m \in 0..N, n <= m, NoLeakingCalls => n = m,
             NEW z \in SUBSET (1..m)
      PROVE  Placed(E(m, z), P(n, m), dev, inner, R, order, held, n, m)
  BY <1>2, <1>3, <1>4, <1>5, <1>7, MappedIs DEF d, N
<1>8. ASSUME NEW n \in 0..N, NEW m \in 0..N, n <= m, NoLeakingCalls => n = m,
             NEW z \in SUBSET (1..m)
      PROVE  Kept(E(m, z), P(n, m), dev, inner, R) /\ E(m, z).uploads = dev.uploads
  <2> DEFINE e == E(m, z)
             next == P(n, m)
  <2>1. /\ Safe(e, next, R) /\ SameShare(next, inner)
        /\ Allocated(e, dev, Cardinality(Fresh(order, held, m)))
        /\ DOMAIN next.buffers = DOMAIN inner.buffers \cup Firsts(order, n)
        /\ DOMAIN next.pool = DOMAIN inner.pool \ Firsts(order, m)
    BY <1>7, <1>8 DEF Placed
  <2> HIDE DEF E, P
  <2> QED
    BY <2>1 DEF Allocated, Kept
<1>9. \/ \E n \in 0..(N - 1) : a = Refused(E(n, zeroed(n)), P(n, n))
      \/ \E n \in 1..N : MayFail("zero") /\ a = Refused(E(n, zeroed(n - 1)), P(n - 1, n))
      \/ a = Done(E(N, zeroed(N)), P(N, N), {})
  <2>1. a \in MapInOrder(dev, inner, order, held)
    BY DEF AllocateStepBuffers, d, todo, order, held
  <2> QED
    BY <1>6, <2>1 DEF MapInOrder, MappedTo, d
<1>10. CASE \E n \in 0..(N - 1) : a = Refused(E(n, zeroed(n)), P(n, n))
  <2>1. PICK n \in 0..(N - 1) : a = Refused(E(n, zeroed(n)), P(n, n))
    BY <1>10
  <2>2. n \in 0..N /\ n <= n /\ zeroed(n) \in SUBSET (1..n)
    BY <1>3
  <2>3. Kept(E(n, zeroed(n)), P(n, n), dev, inner, R) /\ E(n, zeroed(n)).uploads = dev.uploads
    BY <1>8, <2>2
  <2> HIDE DEF E, P
  <2> QED
    BY <2>1, <2>3 DEF Refused, Stocked
<1>11. CASE \E n \in 1..N : MayFail("zero") /\ a = Refused(E(n, zeroed(n - 1)), P(n - 1, n))
  <2>1. PICK n \in 1..N : MayFail("zero") /\ a = Refused(E(n, zeroed(n - 1)), P(n - 1, n))
    BY <1>11
  <2>2. n \in 0..N /\ n - 1 \in 0..N /\ n - 1 <= n /\ ~NoLeakingCalls
        /\ zeroed(n - 1) \in SUBSET (1..n)
    BY <1>3, <2>1 DEF MayFail, NoLeakingCalls
  <2>3. /\ Kept(E(n, zeroed(n - 1)), P(n - 1, n), dev, inner, R)
        /\ E(n, zeroed(n - 1)).uploads = dev.uploads
    BY <1>8, <2>2
  <2> HIDE DEF E, P
  <2> QED
    BY <2>1, <2>3 DEF Refused, Stocked
<1>12. CASE a = Done(E(N, zeroed(N)), P(N, N), {})
  <2> DEFINE e == E(N, zeroed(N))
             next == P(N, N)
  <2>1. N \in 0..N /\ N <= N /\ zeroed(N) \in SUBSET (1..N)
    BY <1>3
  <2>2. Kept(e, next, dev, inner, R) /\ e.uploads = dev.uploads
    BY <1>8, <2>1
  <2>3. /\ Allocated(e, dev, Cardinality(Fresh(order, held, N)))
        /\ DOMAIN next.buffers = DOMAIN inner.buffers \cup Firsts(order, N)
        /\ DOMAIN next.pool = DOMAIN inner.pool \ Firsts(order, N)
    BY <1>7, <2>1 DEF Placed
  <2>4. Firsts(order, N) = todo
    BY <1>3, <1>6 DEF Firsts, Enumerates
  <2> HIDE DEF E, P
  <2> HIDE DEF e, next
  <2>5. DOMAIN next.buffers = Keys(d)
    BY <1>1, <2>3, <2>4 DEF MapsSound, todo, d
  <2>6. DOMAIN next.pool = {}
    BY <1>1, <2>3, <2>4 DEF MapsSound, todo, d
  <2>7. ASSUME Cold(inner) PROVE e.allocs = dev.allocs + Cardinality(PerExecution(d))
    <3>1. todo = PerExecution(d) /\ DOMAIN held = {}
      BY <1>5, <2>7 DEF Cold, PerExecution, todo, d
    <3>2. Fresh(order, held, N) = 1..N
      BY <3>1 DEF Fresh
    <3>3. Cardinality(1..N) = N
      BY <1>3, FS_Interval
    <3> QED
      BY <2>3, <3>1, <3>2, <3>3 DEF Allocated, N
  <2>8. ASSUME Warm(inner) PROVE e.allocs = dev.allocs
    <3>1. todo \subseteq DOMAIN held
      BY <1>5, <2>8 DEF Warm, todo, d
    <3>2. Fresh(order, held, N) = {}
      BY <1>3, <1>6, <3>1 DEF Fresh, Enumerates
    <3>3. Cardinality(Fresh(order, held, N)) = 0 /\ dev.allocs \in Nat
      BY <1>1, <3>2, FS_EmptySet DEF SoundDevice
    <3> QED
      BY <2>3, <3>3 DEF Allocated
  <2>9. a.ok = TRUE /\ a.dev = e /\ a.inner = next
    BY <1>12 DEF Done, e, next
  <2> QED
    BY <2>2, <2>5, <2>6, <2>7, <2>8, <2>9 DEF Stocked, d
<1> QED
  BY <1>9, <1>10, <1>11, <1>12

-----------------------------------------------------------------------------
(* The launches of a step.                                                  *)

\* Nothing but contents differs, and nothing counts as an upload.
Refreshed(e, dev) == SameDevice(e, dev) /\ e.uploads = dev.uploads

\* Two changes of contents in a row.
LEMMA RefreshedTransitive ==
    ASSUME NEW dev, NEW e, NEW f, Refreshed(e, dev), Refreshed(f, e)
    PROVE  Refreshed(f, dev)
BY DEF Refreshed, SameDevice

\* Writing into live handles changes contents only.
LEMMA FilledRefreshes ==
    ASSUME NEW dev, SoundDevice(dev), NEW handles \in SUBSET DOMAIN dev.memory,
           NEW content \in Contents
    PROVE  Refreshed(Filled(dev, [h \in handles |-> content]), dev)
BY FilledLive DEF Refreshed

\* What a program maps, pools or was loaded with is live.
HandlesLive(dev, inner) ==
    /\ \A k \in DOMAIN inner.buffers : inner.buffers[k] \in DOMAIN dev.memory
    /\ \A k \in DOMAIN inner.pool : inner.pool[k] \in DOMAIN dev.memory
    /\ inner.module \in DOMAIN dev.memory

\* Whatever a safe program can reach is live.
LEMMA SafeLive ==
    ASSUME NEW dev, NEW inner, NEW R, Safe(dev, inner, R)
    PROVE  HandlesLive(dev, inner)
<1>1. /\ OwnedHandles(inner) \cup R \subseteq DOMAIN dev.memory
      /\ \A k \in inner.shared : inner.buffers[k] \in R
      /\ inner.sharedModule => inner.module \in R
      /\ MapsSound(inner)
  BY DEF Safe, Leftover, SoundProgram
<1>2. \A k \in HeldKeys(inner) : HandleOf(inner, k) \in DOMAIN dev.memory
  BY <1>1, OwnedIs
<1>3. \A k \in DOMAIN inner.buffers : inner.buffers[k] \in DOMAIN dev.memory
  BY <1>1, <1>2 DEF HeldKeys, HandleOf
<1>4. \A k \in DOMAIN inner.pool : inner.pool[k] \in DOMAIN dev.memory
  BY <1>1, <1>2 DEF HeldKeys, HandleOf, MapsSound
<1>5. inner.module \in DOMAIN dev.memory
  BY <1>1, OwnedIs DEF OwnModule
<1> QED
  BY <1>3, <1>4, <1>5 DEF HandlesLive

\* copy_in of mapped buffers.
LEMMA CopiedInIs ==
    ASSUME NEW dev, SoundDevice(dev), NEW inner, NEW keys,
           \A k \in keys : inner.buffers[k] \in DOMAIN dev.memory
    PROVE  Refreshed(CopiedIn(dev, inner, keys), dev)
<1> DEFINE handles == {inner.buffers[k] : k \in keys}
<1>1. handles \in SUBSET DOMAIN dev.memory
  OBVIOUS
<1>2. CopiedIn(dev, inner, keys) = Filled(dev, [h \in handles |-> "host"])
  BY DEF CopiedIn
<1> HIDE DEF handles
<1> QED
  BY <1>1, <1>2, FilledRefreshes DEF Contents

\* Ageing the step's buffers changes contents only.
LEMMA AgedIs ==
    ASSUME NEW dev, SoundDevice(dev), NEW inner
    PROVE  Refreshed(Aged(dev, inner), dev)
<1> DEFINE held == Overlay(inner.buffers, inner.pool)
           step == {held[k] : k \in {j \in DOMAIN held : Meta(Desc(inner), j).life # "PerProgram"}}
           handles == step \cap DOMAIN dev.memory
<1>1. Aged(dev, inner) = Filled(dev, [h \in handles |-> "old"])
  BY DEF Aged
<1>2. handles \in SUBSET DOMAIN dev.memory
  OBVIOUS
<1> HIDE DEF handles
<1> QED
  BY <1>1, <1>2, FilledRefreshes DEF Contents

\* One launch of the schedule, from what the earlier ones left.
RunStep(inner, mode, byteInputs, x, n) ==
    LET d == Desc(inner)
        l == d.launches[n]
    IN Launched(IF mode = "PerStep"
                THEN CopiedIn(x.dev, inner, DeclaredInputs(d.kernels[l.kernel], byteInputs))
                ELSE x.dev,
                inner, mode, l, x.seen)
Ran(f, dev, inner, mode, byteInputs, m) ==
    f = [n \in 0..m |-> IF n = 0 THEN [dev |-> dev, seen |-> {}]
                        ELSE RunStep(inner, mode, byteInputs, f[n - 1], n)]

\* The prefixes of the schedule can be run one after another.
LEMMA RanExists ==
    ASSUME NEW dev, NEW inner, NEW mode, NEW byteInputs, NEW L \in Nat
    PROVE  \E f : Ran(f, dev, inner, mode, byteInputs, L)
<1> DEFINE First == [dev |-> dev, seen |-> {}]
           Bad == {m \in Nat : ~\E f : Ran(f, dev, inner, mode, byteInputs, m)}
<1>1. Bad = {}
  <2> SUFFICES ASSUME Bad # {} PROVE FALSE
    OBVIOUS
  <2>1. PICK m \in Bad : \A k \in Bad : m <= k
    <3>1. Bad \in SUBSET Nat
      OBVIOUS
    <3> QED
      BY <3>1, LeastNatural
  <2>2. m \in Nat /\ ~\E f : Ran(f, dev, inner, mode, byteInputs, m)
    OBVIOUS
  <2>3. CASE m = 0
    <3> DEFINE f == [n \in 0..0 |-> First]
    <3>1. f = [n \in 0..0 |-> IF n = 0 THEN First ELSE RunStep(inner, mode, byteInputs, f[n - 1], n)]
      OBVIOUS
    <3>2. Ran(f, dev, inner, mode, byteInputs, 0)
      BY <3>1 DEF Ran
    <3> QED
      BY <2>2, <2>3, <3>2
  <2>4. CASE m > 0
    <3>1. m - 1 \in Nat /\ m - 1 \notin Bad
      <4> HIDE DEF Bad
      <4> QED
        BY <2>1, <2>2, <2>4
    <3>2. PICK g : Ran(g, dev, inner, mode, byteInputs, m - 1)
      BY <3>1
    <3> DEFINE f == [n \in 0..m |-> IF n = 0 THEN First
                                    ELSE RunStep(inner, mode, byteInputs, g[n - 1], n)]
               e == [n \in 0..m |-> IF n = 0 THEN First
                                    ELSE RunStep(inner, mode, byteInputs, f[n - 1], n)]
    <3>3. \A n \in 0..(m - 1) : g[n] = f[n]
      <4> SUFFICES ASSUME NEW n \in 0..(m - 1) PROVE g[n] = f[n]
        OBVIOUS
      <4>1. g[n] = IF n = 0 THEN First ELSE RunStep(inner, mode, byteInputs, g[n - 1], n)
        BY <3>2 DEF Ran
      <4>2. n \in 0..m
        BY <2>2
      <4> HIDE DEF First
      <4>3. f[n] = IF n = 0 THEN First ELSE RunStep(inner, mode, byteInputs, g[n - 1], n)
        BY <4>2
      <4> QED
        BY <4>1, <4>3
    <3>4. \A n \in 0..m : f[n] = e[n]
      <4> SUFFICES ASSUME NEW n \in 0..m PROVE f[n] = e[n]
        OBVIOUS
      <4>1. n # 0 => n - 1 \in 0..(m - 1)
        BY <2>2
      <4>2. n # 0 => g[n - 1] = f[n - 1]
        BY <3>3, <4>1
      <4> DEFINE y == f[n - 1]
      <4>3. e[n] = IF n = 0 THEN First ELSE RunStep(inner, mode, byteInputs, y, n)
        OBVIOUS
      <4>4. f[n] = IF n = 0 THEN First ELSE RunStep(inner, mode, byteInputs, g[n - 1], n)
        OBVIOUS
      <4> HIDE DEF f, e, First
      <4> QED
        BY <4>2, <4>3, <4>4
    <3>5. f = e
      BY <3>4
    <3>6. Ran(f, dev, inner, mode, byteInputs, m)
      BY <3>5 DEF Ran
    <3> QED
      BY <2>2, <3>6
  <2> QED
    BY <2>2, <2>3, <2>4
<1> QED
  BY <1>1

\* The recursive function of RunLaunches, unfolded.
LEMMA LaunchesRun ==
    ASSUME NEW dev, NEW inner, NEW mode, NEW byteInputs, Len(Desc(inner).launches) \in Nat
    PROVE  \E f : /\ Ran(f, dev, inner, mode, byteInputs, Len(Desc(inner).launches))
                  /\ RunLaunches(dev, inner, mode, byteInputs) = f[Len(Desc(inner).launches)]
<1> DEFINE L == Len(Desc(inner).launches)
           F == CHOOSE f : Ran(f, dev, inner, mode, byteInputs, L)
<1>1. Ran(F, dev, inner, mode, byteInputs, L)
  <2>1. \E f : Ran(f, dev, inner, mode, byteInputs, L)
    BY RanExists
  <2> QED
    BY <2>1
<1>2. RunLaunches(dev, inner, mode, byteInputs) = F[L]
  BY DEF RunLaunches, Ran, RunStep
<1> QED
  BY <1>1, <1>2

\* A kernel's slots are the program's, so what a launch copies in or writes is
\* mapped.
LEMMA RunStepIs ==
    ASSUME NEW inner, inner.desc \in Names, Validate(Desc(inner)),
           DOMAIN inner.buffers = Keys(Desc(inner)),
           NEW mode, NEW byteInputs, NEW n \in DOMAIN Desc(inner).launches,
           NEW x, SoundDevice(x.dev),
           \A k \in Keys(Desc(inner)) : inner.buffers[k] \in DOMAIN x.dev.memory
    PROVE  Refreshed(RunStep(inner, mode, byteInputs, x, n).dev, x.dev)
<1> DEFINE d == Desc(inner)
           l == d.launches[n]
           slots == Range(d.kernels[l.kernel].slots)
           copied == IF mode = "PerStep"
                     THEN CopiedIn(x.dev, inner, DeclaredInputs(d.kernels[l.kernel], byteInputs))
                     ELSE x.dev
           written == {Key(s) : s \in {r \in slots : r.role # "Input"}}
           handles == {inner.buffers[k] : k \in written}
<1>1. l.kernel \in DOMAIN d.kernels
  BY DEF Validate, ValidatedLaunchesAndRoots
<1>2. slots \subseteq Slots(d)
  <2> SUFFICES ASSUME NEW j \in DOMAIN d.kernels[l.kernel].slots
               PROVE  d.kernels[l.kernel].slots[j] \in Slots(d)
    BY DEF Range
  <2> DEFINE p == <<l.kernel, j>>
  <2>1. p \in SlotPlaces(d)
    BY <1>1 DEF SlotPlaces
  <2>2. SlotAt(d, p) = d.kernels[l.kernel].slots[j]
    BY DEF SlotAt
  <2> QED
    BY <2>1, <2>2 DEF Slots
<1>3. Refreshed(copied, x.dev)
  <2>1. CASE mode = "PerStep"
    <3> DEFINE keys == DeclaredInputs(d.kernels[l.kernel], byteInputs)
    <3>1. keys \subseteq Keys(d)
      BY <1>2 DEF DeclaredInputs, Keys
    <3> HIDE DEF keys, d
    <3>2. \A k \in keys : inner.buffers[k] \in DOMAIN x.dev.memory
      BY <3>1 DEF d
    <3>3. Refreshed(CopiedIn(x.dev, inner, keys), x.dev)
      BY <3>2, CopiedInIs
    <3> QED
      BY <2>1, <3>3 DEF keys
  <2>2. CASE mode # "PerStep"
    BY <2>2 DEF Refreshed, SameDevice
  <2> QED
    BY <2>1, <2>2
<1>4. written \subseteq Keys(d)
  BY <1>2 DEF Keys
<1>5. RunStep(inner, mode, byteInputs, x, n).dev = Filled(copied, [h \in handles |-> "made"])
  BY DEF RunStep, Launched
<1> HIDE DEF copied, written, d
<1>6. SoundDevice(copied) /\ handles \in SUBSET DOMAIN copied.memory
  BY <1>3, <1>4 DEF Refreshed, SameDevice, d
<1> HIDE DEF handles
<1>7. Refreshed(Filled(copied, [h \in handles |-> "made"]), copied)
  BY <1>6, FilledRefreshes DEF Contents
<1> QED
  BY <1>3, <1>5, <1>7, RefreshedTransitive

\* The launches of a step write mapped buffers and nothing else.
LEMMA RunLaunchesIs ==
    ASSUME NEW dev, NEW inner, NEW R, Safe(dev, inner, R),
           DOMAIN inner.buffers = Keys(Desc(inner)), NEW mode, NEW byteInputs
    PROVE  Refreshed(RunLaunches(dev, inner, mode, byteInputs).dev, dev)
<1> DEFINE d == Desc(inner)
           L == Len(d.launches)
<1>1. /\ inner.desc \in Names /\ Validate(d) /\ SoundDevice(dev)
      /\ \A k \in Keys(d) : inner.buffers[k] \in DOMAIN dev.memory
  BY SafeLive DEF Safe, SoundProgram, Leftover, HandlesLive
<1>2. L \in Nat /\ DOMAIN d.launches = 1..L
  <2>1. IsList(d.launches)
    BY <1>1, CatalogAssumption DEF Names, Desc
  <2> QED
    BY <2>1 DEF IsList
<1>3. PICK f : /\ Ran(f, dev, inner, mode, byteInputs, L)
               /\ RunLaunches(dev, inner, mode, byteInputs) = f[L]
  BY <1>2, LaunchesRun
<1>4. /\ \A n \in 0..L : f[n] = IF n = 0 THEN [dev |-> dev, seen |-> {}]
                                ELSE RunStep(inner, mode, byteInputs, f[n - 1], n)
  BY <1>3 DEF Ran
<1> HIDE DEF L
<1> DEFINE Bad == {n \in 0..L : ~Refreshed(f[n].dev, dev)}
<1>5. Bad = {}
  <2> SUFFICES ASSUME Bad # {} PROVE FALSE
    OBVIOUS
  <2>1. PICK m \in Bad : \A k \in Bad : m <= k
    <3>1. Bad \in SUBSET Nat
      BY <1>2
    <3> QED
      BY <3>1, LeastNatural
  <2>2. m \in 0..L /\ ~Refreshed(f[m].dev, dev)
    OBVIOUS
  <2>3. m # 0
    BY <1>1, <1>2, <1>4, <2>2 DEF Refreshed, SameDevice
  <2>4. m \in DOMAIN d.launches /\ m - 1 \in 0..L /\ m - 1 < m
    BY <1>2, <2>2, <2>3
  <2>5. Refreshed(f[m - 1].dev, dev)
    <3>1. m - 1 \notin Bad
      <4> HIDE DEF Bad
      <4> QED
        BY <1>2, <2>1, <2>2, <2>4
    <3> QED
      BY <2>4, <3>1
  <2> DEFINE x == f[m - 1]
  <2>6. f[m] = RunStep(inner, mode, byteInputs, x, m)
    BY <1>4, <2>2, <2>3
  <2> HIDE DEF x, Bad, d
  <2>7. SoundDevice(x.dev) /\ \A k \in Keys(d) : inner.buffers[k] \in DOMAIN x.dev.memory
    BY <1>1, <2>5 DEF Refreshed, SameDevice, x
  <2>8. Refreshed(RunStep(inner, mode, byteInputs, x, m).dev, x.dev)
    BY <1>1, <2>4, <2>7, RunStepIs DEF d
  <2> QED
    BY <2>2, <2>5, <2>6, <2>8, RefreshedTransitive DEF x
<1> QED
  BY <1>2, <1>3, <1>5

\* The fields of a refusal.
LEMMA RefusedIs ==
    ASSUME NEW dev, NEW inner
    PROVE  /\ Refused(dev, inner).ok = FALSE /\ Refused(dev, inner).reads = {}
           /\ Refused(dev, inner).dev = dev /\ Refused(dev, inner).inner = inner
BY DEF Refused

-----------------------------------------------------------------------------
(* The end of a step.                                                       *)

\* Observations are per-execution buffers.
LEMMA ObservedPerExecution ==
    ASSUME NEW d, Validate(d), NEW i \in DOMAIN d.results, Key(d.results[i]) \in Keys(d)
    PROVE  Key(d.results[i]) \notin KeysOf(d, "PerProgram")
<1> DEFINE r == d.results[i]
           k == Key(r)
<1>1. PICK s \in Slots(d) : s.buffer = r.buffer /\ s.life = "ObservationPoint"
  BY DEF Validate, ValidatedResults
<1>2. Meta(d, k) \in Slots(d) /\ Key(Meta(d, k)) = k
  BY MetaIs
<1>3. Meta(d, k).buffer = s.buffer
  BY <1>1, <1>2 DEF Key
<1>4. Meta(d, k).life = "ObservationPoint"
  BY <1>1, <1>2, <1>3, SlotsOfOneBuffer
<1> QED
  BY <1>4 DEF KeysOf

\* A step that got as far as its sync: the program still safe, its buffers in
\* the pool or the pool empty.
Ended(o, dev, inner, R, usePool) ==
    /\ o.ok \in BOOLEAN
    /\ Kept(o.dev, o.inner, dev, inner, R) /\ SameCounters(o.dev, dev)
    /\ o.ok => IF usePool THEN Warm(o.inner) ELSE DOMAIN o.inner.pool = {}

\* sync, readback and recycling at the end of a step.
LEMMA FinishIs ==
    ASSUME NEW run, NEW inner, NEW R, Safe(run.dev, inner, R),
           DOMAIN inner.buffers = Keys(Desc(inner)), DOMAIN inner.pool = {},
           NEW keep, NEW usePool \in BOOLEAN,
           NEW o \in FinishStep(run, inner, keep, usePool)
    PROVE  Ended(o, run.dev, inner, R, usePool)
<1> DEFINE d == Desc(inner)
           observed == {Key(d.results[i]) : i \in DOMAIN d.results}
           kept == IF keep THEN {Key(d.endOfRun[i]) : i \in DOMAIN d.endOfRun} ELSE {}
           recycled == observed \cup (KeysOf(d, "PerStep") \ kept)
           r == Recycle(run.dev, inner, recycled, usePool)
<1>1. Validate(d)
  BY DEF Safe, SoundProgram
<1>2. \A k \in recycled \cap DOMAIN inner.buffers : k \notin KeysOf(d, "PerProgram")
  <2> SUFFICES ASSUME NEW k \in recycled, k \in Keys(d)
               PROVE  k \notin KeysOf(d, "PerProgram")
    OBVIOUS
  <2>1. CASE k \in observed
    <3>1. PICK i \in DOMAIN d.results : k = Key(d.results[i])
      BY <2>1
    <3> QED
      BY <1>1, <3>1, ObservedPerExecution
  <2>2. CASE k \in KeysOf(d, "PerStep")
    BY <2>2 DEF KeysOf
  <2> QED
    BY <2>1, <2>2
<1>3. \/ o = Refused(run.dev, inner)
      \/ o = Refused(r.dev, r.inner)
      \/ o = Done(r.dev, r.inner, run.seen)
  BY DEF FinishStep, Finished, FailsIf, Fails
<1> HIDE DEF recycled, d
<1>4. Recycled(r, run.dev, inner, R, recycled, usePool)
  BY <1>2, RecycleIs DEF d
<1> HIDE DEF r
<1>5. Kept(r.dev, r.inner, run.dev, inner, R) /\ SameCounters(r.dev, run.dev)
  BY <1>4 DEF Recycled, Kept, SameCounters
<1>6. IF usePool THEN Warm(r.inner) ELSE DOMAIN r.inner.pool = {}
  <2>1. /\ DOMAIN r.inner.buffers = DOMAIN inner.buffers \ recycled
        /\ DOMAIN r.inner.pool = DOMAIN inner.pool \cup
              (IF usePool THEN recycled \cap DOMAIN inner.buffers ELSE {})
        /\ Desc(r.inner) = Desc(inner)
    BY <1>4 DEF Recycled, SameShare, Desc
  <2> QED
    BY <2>1 DEF Warm
<1>7. Kept(run.dev, inner, run.dev, inner, R) /\ SameCounters(run.dev, run.dev)
  BY DEF Kept, SameShare, SameCounters
<1>8. CASE o = Refused(run.dev, inner)
  BY <1>7, <1>8 DEF Ended, Refused
<1>9. CASE o = Refused(r.dev, r.inner)
  BY <1>5, <1>9 DEF Ended, Refused
<1>10. CASE o = Done(r.dev, r.inner, run.seen)
  BY <1>5, <1>6, <1>10 DEF Ended, Done
<1> QED
  BY <1>3, <1>8, <1>9, <1>10

-----------------------------------------------------------------------------
(* execute_inner.                                                           *)

\* What a step leaves: a safe program; when it succeeds, buffers in the pool or
\* none there, and the first time the per-execution buffers allocated.
Executed(o, dev, inner, R, usePool) ==
    /\ o.ok \in BOOLEAN
    /\ Kept(o.dev, o.inner, dev, inner, R) /\ o.dev.uploads = dev.uploads
    /\ o.ok => /\ IF usePool THEN Warm(o.inner) ELSE DOMAIN o.inner.pool = {}
               /\ Cold(inner) => o.dev.allocs = dev.allocs + Cardinality(PerExecution(Desc(inner)))
               /\ Warm(inner) => o.dev.allocs = dev.allocs

\* copy_resident_inputs.
LEMMA CopyResidentIs ==
    ASSUME NEW dev, NEW inner, NEW R, Safe(dev, inner, R),
           DOMAIN inner.buffers = Keys(Desc(inner)), NEW supplied \in BOOLEAN,
           NEW c \in CopyResidentInputs(dev, inner, supplied)
    PROVE  c.ok \in BOOLEAN /\ c.inner = inner /\ Refreshed(c.dev, dev)
<1> DEFINE keys == ResidentInputs(Desc(inner))
           e == CopiedIn(dev, inner, keys)
<1>1. \/ c = Done(e, inner, {})
      \/ c = Refused(dev, inner)
  BY DEF CopyResidentInputs, FailsIf, Fails
<1>2. SoundDevice(dev) /\ \A k \in DOMAIN inner.buffers : inner.buffers[k] \in DOMAIN dev.memory
  BY SafeLive DEF Safe, Leftover, HandlesLive
<1>3. keys \subseteq DOMAIN inner.buffers
  BY DEF ResidentInputs, KeysOf
<1> HIDE DEF keys
<1>4. Refreshed(e, dev)
  BY <1>2, <1>3, CopiedInIs
<1>5. Refreshed(dev, dev)
  BY <1>2 DEF Refreshed, SameDevice
<1> HIDE DEF e
<1>6. CASE c = Done(e, inner, {})
  BY <1>4, <1>6 DEF Done
<1>7. CASE c = Refused(dev, inner)
  BY <1>5, <1>7 DEF Refused
<1> QED
  BY <1>1, <1>6, <1>7

\* From the buffers of a step on.
LEMMA AfterBuffers ==
    ASSUME NEW a, NEW R, Safe(a.dev, a.inner, R), a.ok = TRUE,
           DOMAIN a.inner.buffers = Keys(Desc(a.inner)), DOMAIN a.inner.pool = {},
           NEW mode, NEW keep, NEW usePool \in BOOLEAN, NEW byteInputs, NEW supplied \in BOOLEAN,
           NEW c, c.inner = a.inner, c.ok = TRUE, Refreshed(c.dev, a.dev),
           NEW o \in FinishStep(RunLaunches(c.dev, c.inner, mode, byteInputs), c.inner, keep, usePool)
    PROVE  Ended(o, a.dev, a.inner, R, usePool)
<1> DEFINE run == RunLaunches(c.dev, c.inner, mode, byteInputs)
<1>1. Safe(c.dev, a.inner, R)
  BY StaysSafeSame DEF Refreshed
<1>2. Refreshed(run.dev, c.dev)
  BY <1>1, RunLaunchesIs
<1> HIDE DEF run
<1>3. Refreshed(run.dev, a.dev)
  BY <1>2, RefreshedTransitive
<1>4. Safe(run.dev, a.inner, R)
  BY <1>3, StaysSafeSame DEF Refreshed
<1>5. Ended(o, run.dev, a.inner, R, usePool)
  BY <1>4, FinishIs DEF run
<1> QED
  BY <1>3, <1>5 DEF Ended, Kept, SameCounters, Refreshed, SameDevice

\* Every outcome of a step, whichever stage of it failed.
LEMMA ExecuteInnerIs ==
    ASSUME NEW dev, NEW inner, NEW R, Safe(dev, inner, R), NEW mode, NEW keep,
           NEW usePool \in BOOLEAN, usePool \/ DOMAIN inner.pool = {},
           NEW byteInputs, NEW supplied \in BOOLEAN,
           NEW o \in ExecuteInner(dev, inner, mode, keep, usePool, byteInputs, supplied)
    PROVE  Executed(o, dev, inner, R, usePool)
<1> DEFINE finish(c) == FinishStep(RunLaunches(c.dev, c.inner, mode, byteInputs), c.inner,
                                   keep, usePool)
           copies == /\ mode = "PerStep"
                     /\ \E k \in Range(Desc(inner).kernels) : DeclaredInputs(k, byteInputs) # {}
           launch(c) == FailsIf("launch", c.dev, c.inner)
                        \cup (IF copies THEN FailsIf("copy", c.dev, c.inner) ELSE {})
                        \cup (IF copies /\ ~supplied THEN Fails(c.dev, c.inner) ELSE finish(c))
           from(a) == IF mode = "ResidentStep"
                      THEN CopyResidentInputs(a.dev, a.inner, supplied) ELSE {a}
           turn(c) == IF ~c.ok THEN {c} ELSE launch(c)
           body(a) == IF ~a.ok THEN {a} ELSE UNION {turn(c) : c \in from(a)}
           aged == Aged(dev, inner)
<1>1. PICK a \in AllocateStepBuffers(aged, inner, usePool) :
        \/ ~a.ok /\ o = a
        \/ /\ a.ok
           /\ \E c \in from(a) :
                 \/ ~c.ok /\ o = c
                 \/ c.ok /\ (o = Refused(c.dev, c.inner) \/ o \in finish(c))
  <2>1. o \in UNION {body(a) : a \in AllocateStepBuffers(aged, inner, usePool)}
    BY Zenon DEF ExecuteInner
  <2> HIDE DEF body
  <2>2. PICK a \in AllocateStepBuffers(aged, inner, usePool) : o \in body(a)
    BY <2>1
  <2> HIDE DEF launch, from, aged
  <2>3. (~a.ok /\ o = a) \/ (a.ok /\ \E c \in from(a) : o \in turn(c))
    <3> HIDE DEF turn
    <3> QED
      BY <2>2 DEF body
  <2>5. \A c : o \in turn(c) => (~c.ok /\ o = c) \/ (c.ok /\ o \in launch(c))
    BY DEF turn
  <2>4. \A c : o \in launch(c) => o = Refused(c.dev, c.inner) \/ o \in finish(c)
    <3> HIDE DEF finish, copies
    <3> QED
      BY DEF launch, FailsIf, Fails
  <2> HIDE DEF turn
  <2> QED
    BY <2>3, <2>4, <2>5
<1> HIDE DEF finish, aged, copies, launch, turn, body
<1>2. SoundDevice(dev) /\ Refreshed(aged, dev)
  BY AgedIs DEF Safe, Leftover, aged
<1>3. Safe(aged, inner, R)
  BY <1>2, StaysSafeSame DEF Refreshed
<1>4. Stocked(a, aged, inner, R)
  BY <1>3, AllocateIs
<1>5. /\ Kept(a.dev, a.inner, dev, inner, R) /\ a.dev.uploads = dev.uploads
      /\ Safe(a.dev, a.inner, R) /\ Desc(a.inner) = Desc(inner) /\ SameShare(a.inner, inner)
  BY <1>2, <1>4 DEF Stocked, Kept, Refreshed, SameDevice, SameShare, Desc
<1>6. CASE ~a.ok /\ o = a
  <2>1. o.ok = FALSE
    BY <1>4, <1>6 DEF Stocked
  <2> QED
    BY <1>5, <1>6, <2>1 DEF Executed
<1>7. ASSUME a.ok, NEW c \in from(a),
             \/ ~c.ok /\ o = c
             \/ c.ok /\ (o = Refused(c.dev, c.inner) \/ o \in finish(c))
      PROVE  Executed(o, dev, inner, R, usePool)
  <2>1. /\ a.ok = TRUE /\ DOMAIN a.inner.buffers = Keys(Desc(a.inner))
        /\ DOMAIN a.inner.pool = {}
        /\ Cold(inner) => a.dev.allocs = dev.allocs + Cardinality(PerExecution(Desc(inner)))
        /\ Warm(inner) => a.dev.allocs = dev.allocs
    BY <1>2, <1>4, <1>5, <1>7 DEF Stocked, Refreshed, SameDevice
  <2>2. c.ok \in BOOLEAN /\ c.inner = a.inner /\ Refreshed(c.dev, a.dev)
    <3>1. CASE mode = "ResidentStep"
      <4>1. c \in CopyResidentInputs(a.dev, a.inner, supplied)
        BY <1>7, <3>1 DEF from
      <4> QED
        BY <1>5, <2>1, <4>1, CopyResidentIs
    <3>2. CASE mode # "ResidentStep"
      <4>1. c = a
        BY <1>7, <3>2 DEF from
      <4>2. SoundDevice(a.dev)
        BY <1>5 DEF Safe, Leftover
      <4> QED
        BY <2>1, <4>1, <4>2 DEF Refreshed, SameDevice
    <3> QED
      BY <3>1, <3>2
  <2>3. Kept(c.dev, c.inner, dev, inner, R) /\ c.dev.uploads = dev.uploads
    <3>1. Safe(c.dev, a.inner, R)
      BY <1>5, <2>2, StaysSafeSame DEF Refreshed
    <3> QED
      BY <1>5, <2>2, <3>1 DEF Kept, Refreshed, SameDevice
  <2>4. CASE ~c.ok /\ o = c
    <3>1. o.ok = FALSE
      BY <2>2, <2>4
    <3> QED
      BY <2>3, <2>4, <3>1 DEF Executed
  <2>5. CASE o = Refused(c.dev, c.inner)
    BY <2>3, <2>5 DEF Refused, Executed
  <2>6. CASE c.ok /\ o \in finish(c)
    <3>1. c.ok = TRUE
      BY <2>2, <2>6
    <3>2. o \in FinishStep(RunLaunches(c.dev, c.inner, mode, byteInputs), c.inner, keep, usePool)
      BY <2>6 DEF finish
    <3>3. Ended(o, a.dev, a.inner, R, usePool)
      BY <1>5, <2>1, <2>2, <3>1, <3>2, AfterBuffers
    <3>4. Kept(o.dev, o.inner, a.dev, a.inner, R) /\ SameCounters(o.dev, a.dev) /\ o.ok \in BOOLEAN
      BY <3>3 DEF Ended
    <3>5. Kept(o.dev, o.inner, dev, inner, R)
      BY <1>5, <3>4, KeptTransitive
    <3>6. o.dev.uploads = dev.uploads /\ o.dev.allocs = a.dev.allocs
      BY <1>5, <3>4 DEF SameCounters
    <3>7. o.ok => IF usePool THEN Warm(o.inner) ELSE DOMAIN o.inner.pool = {}
      BY <3>3 DEF Ended
    <3> QED
      BY <2>1, <3>4, <3>5, <3>6, <3>7 DEF Executed
  <2> QED
    BY <1>7, <2>4, <2>5, <2>6
<1> QED
  BY <1>1, <1>6, <1>7

-----------------------------------------------------------------------------
(* The execution surfaces.                                                  *)

\* The flags of a program own nothing.
LEMMA FlagsKept ==
    ASSUME NEW dev, NEW inner, NEW R, NEW e, NEW next, Kept(e, next, dev, inner, R),
           NEW last, DOMAIN last = ProgramFields, last.desc = next.desc,
           last.module = next.module, last.sharedModule = next.sharedModule,
           last.buffers = next.buffers, last.shared = next.shared,
           last.pool = next.pool, last.closed = next.closed
    PROVE  Kept(e, last, dev, inner, R)
<1>1. Desc(last) = Desc(next) /\ OwnedHandles(last) = OwnedHandles(next)
      /\ HeldKeys(last) = HeldKeys(next)
      /\ \A k : HandleOf(last, k) = HandleOf(next, k)
  BY DEF Desc, OwnedHandles, OwnedBuffers, HeldKeys, HandleOf
<1>2. SoundProgram(last)
  BY <1>1 DEF Kept, Safe, SoundProgram, MapsSound, HandlesDistinct
<1> QED
  BY <1>1, <1>2 DEF Kept, Safe, SameShare

\* Setting a flag of a program leaves its maps alone.
LEMMA FlagsSet ==
    ASSUME NEW inner, DOMAIN inner = ProgramFields
    PROVE  /\ LET a == [inner EXCEPT !.params = TRUE]
              IN  /\ DOMAIN a = ProgramFields /\ a.desc = inner.desc
                  /\ a.module = inner.module /\ a.sharedModule = inner.sharedModule
                  /\ a.buffers = inner.buffers /\ a.shared = inner.shared
                  /\ a.pool = inner.pool /\ a.closed = inner.closed
           /\ LET b == [inner EXCEPT !.final = TRUE]
              IN  /\ DOMAIN b = ProgramFields /\ b.desc = inner.desc
                  /\ b.module = inner.module /\ b.sharedModule = inner.sharedModule
                  /\ b.buffers = inner.buffers /\ b.shared = inner.shared
                  /\ b.pool = inner.pool /\ b.closed = inner.closed
           /\ LET c == [inner EXCEPT !.eorRead = TRUE]
              IN  /\ DOMAIN c = ProgramFields /\ c.desc = inner.desc
                  /\ c.module = inner.module /\ c.sharedModule = inner.sharedModule
                  /\ c.buffers = inner.buffers /\ c.shared = inner.shared
                  /\ c.pool = inner.pool /\ c.closed = inner.closed
BY DEF ProgramFields

\* What a failing handler left of a program: closed, and nothing of its own live.
Shut(o, inner, R) ==
    /\ o.ok = FALSE
    /\ Leftover(o.dev, R) /\ ClosedProgram(o.inner)
    /\ o.inner.desc = inner.desc /\ o.inner.shared = inner.shared

\* A handler's outcome: refused, done, or failed and closed.
Settled(o, dev, inner, R) ==
    /\ o.ok \in BOOLEAN /\ o.dev.backend = dev.backend
    /\ \/ o.ok = FALSE /\ o.dev = dev /\ o.inner = inner
       \/ o.ok = TRUE /\ Kept(o.dev, o.inner, dev, inner, R)
       \/ Shut(o, inner, R)

\* A handler that fails closes the program and releases what it owns.
LEMMA ClosingIs ==
    ASSUME NEW dev, NEW inner, NEW R, NEW e, e.ok \in BOOLEAN, Kept(e.dev, e.inner, dev, inner, R),
           NEW o, o = IF e.ok THEN e ELSE Abandon(e.dev, e.inner)
    PROVE  /\ Settled(o, dev, inner, R)
           /\ o.ok = e.ok /\ (o.ok => o = e)
           /\ o.dev.uploads = e.dev.uploads
           /\ ~o.ok => Shut(o, inner, R) /\ Leftover(o.dev, R)
<1>1. CASE e.ok
  <2>1. e.ok = TRUE /\ o = e
    BY <1>1
  <2> QED
    BY <2>1 DEF Settled, Kept
<1>2. CASE ~e.ok
  <2>1. e.ok = FALSE /\ o = Abandon(e.dev, e.inner)
    BY <1>2
  <2>2. Safe(e.dev, e.inner, R)
    BY DEF Kept
  <2>3. ClosedBy(o, e.dev, e.inner, R)
    BY <2>1, <2>2, AbandonIs
  <2>4. Shut(o, inner, R)
    BY <2>3 DEF ClosedBy, Shut, Kept, SameShare
  <2>5. o.dev.backend = dev.backend /\ o.dev.uploads = e.dev.uploads /\ o.ok = FALSE
        /\ Leftover(o.dev, R)
    BY <2>3 DEF ClosedBy, SameCounters, Kept
  <2> QED
    BY <2>1, <2>4, <2>5 DEF Settled
<1> QED
  BY <1>1, <1>2

\* execute_resident_step, as prepared and paired sessions call it.
Stepped(o, dev, inner, R) ==
    /\ Settled(o, dev, inner, R)
    /\ o.dev.uploads = dev.uploads
    /\ o.ok => /\ Warm(o.inner)
               /\ Cold(inner) => o.dev.allocs = dev.allocs + Cardinality(PerExecution(Desc(inner)))
               /\ Warm(inner) => o.dev.allocs = dev.allocs

\* execute_resident_step.
LEMMA ResidentStepIs ==
    ASSUME NEW dev, NEW inner, NEW R, Safe(dev, inner, R), NEW supplied \in BOOLEAN,
           NEW o \in ExecuteResidentStep(dev, inner, supplied)
    PROVE  Stepped(o, dev, inner, R)
<1>1. CASE o = Refused(dev, inner)
  BY <1>1 DEF Refused, Stepped, Settled
<1>2. CASE o \in Closing(ExecuteInner(dev, inner, "ResidentStep", FALSE, TRUE, {}, supplied))
  <2>1. PICK e \in ExecuteInner(dev, inner, "ResidentStep", FALSE, TRUE, {}, supplied) :
          o = IF e.ok THEN e ELSE Abandon(e.dev, e.inner)
    BY <1>2 DEF Closing
  <2>2. Executed(e, dev, inner, R, TRUE)
    BY <2>1, ExecuteInnerIs
  <2>3. e.ok \in BOOLEAN /\ Kept(e.dev, e.inner, dev, inner, R) /\ e.dev.uploads = dev.uploads
    BY <2>2 DEF Executed
  <2>4. /\ Settled(o, dev, inner, R) /\ o.ok = e.ok /\ (o.ok => o = e)
        /\ o.dev.uploads = e.dev.uploads
    BY <2>1, <2>3, ClosingIs
  <2> QED
    BY <2>2, <2>3, <2>4 DEF Stepped, Executed
<1> QED
  BY <1>1, <1>2 DEF ExecuteResidentStep

\* execute_step and execute_final_step, of a program that pools nothing.
LEMMA ExecuteStepIs ==
    ASSUME NEW dev, NEW inner, NEW R, Safe(dev, inner, R), DOMAIN inner.pool = {},
           NEW keep, NEW o \in ExecuteStep(dev, inner, keep)
    PROVE  Settled(o, dev, inner, R) /\ DOMAIN o.inner.pool = {}
<1>1. CASE o = Refused(dev, inner)
  BY <1>1 DEF Refused, Settled
<1>2. CASE \E e \in ExecuteInner(dev, inner, "OnceInit", keep, FALSE, {}, TRUE) :
             LET c == IF e.ok THEN e ELSE Abandon(e.dev, e.inner)
             IN  o = IF c.ok /\ keep THEN [c EXCEPT !.inner.final = TRUE] ELSE c
  <2>1. PICK e \in ExecuteInner(dev, inner, "OnceInit", keep, FALSE, {}, TRUE) :
             LET c == IF e.ok THEN e ELSE Abandon(e.dev, e.inner)
             IN  o = IF c.ok /\ keep THEN [c EXCEPT !.inner.final = TRUE] ELSE c
    BY <1>2
  <2> DEFINE c == IF e.ok THEN e ELSE Abandon(e.dev, e.inner)
  <2>2. o = IF c.ok /\ keep THEN [c EXCEPT !.inner.final = TRUE] ELSE c
    BY <2>1
  <2>3. Executed(e, dev, inner, R, FALSE)
    BY <2>1, ExecuteInnerIs
  <2>4. e.ok \in BOOLEAN /\ Kept(e.dev, e.inner, dev, inner, R)
        /\ (e.ok => DOMAIN e.inner.pool = {})
    BY <2>3 DEF Executed
  <2> HIDE DEF c
  <2>5. /\ Settled(c, dev, inner, R) /\ c.ok = e.ok /\ (c.ok => c = e)
    BY <2>4, ClosingIs DEF c
  <2>6. DOMAIN c.inner.pool = {}
    BY <2>4, <2>5 DEF Settled, Shut, ClosedProgram
  <2>7. CASE ~(c.ok /\ keep)
    BY <2>2, <2>5, <2>6, <2>7
  <2>8. CASE c.ok /\ keep
    <3> DEFINE last == [c.inner EXCEPT !.final = TRUE]
    <3>1. c.ok = TRUE /\ c = e /\ Kept(c.dev, c.inner, dev, inner, R)
      BY <2>4, <2>5, <2>8
    <3>2. o = [c EXCEPT !.inner = last]
      BY <2>2, <2>8
    <3>3. o.ok = c.ok /\ o.dev = c.dev /\ o.inner = last
      BY <3>2
    <3>4. DOMAIN c.inner = ProgramFields
      BY <3>1 DEF Kept, Safe, SoundProgram
    <3>5. /\ DOMAIN last = ProgramFields /\ last.desc = c.inner.desc
          /\ last.module = c.inner.module /\ last.sharedModule = c.inner.sharedModule
          /\ last.buffers = c.inner.buffers /\ last.shared = c.inner.shared
          /\ last.pool = c.inner.pool /\ last.closed = c.inner.closed
      BY <3>4, FlagsSet
    <3> HIDE DEF last
    <3>6. Kept(c.dev, last, dev, inner, R)
      BY <3>1, <3>5, FlagsKept
    <3> QED
      BY <2>5, <2>6, <3>1, <3>3, <3>5, <3>6 DEF Settled
  <2> QED
    BY <2>7, <2>8
<1> QED
  BY <1>1, <1>2 DEF ExecuteStep, Closing

\* read_end_of_run recycles step buffers only.
LEMMA ReadEndOfRunIs ==
    ASSUME NEW dev, NEW inner, NEW R, Safe(dev, inner, R), DOMAIN inner.pool = {},
           NEW o \in ReadEndOfRun(dev, inner)
    PROVE  Settled(o, dev, inner, R) /\ DOMAIN o.inner.pool = {}
<1> DEFINE d == Desc(inner)
           keys == {Key(d.endOfRun[i]) : i \in DOMAIN d.endOfRun}
           steps == keys \cap KeysOf(d, "PerStep")
           found == {<<"final", k, dev.memory[inner.buffers[k]]>> : k \in keys \cap DOMAIN inner.buffers}
           r == Recycle(dev, inner, steps, FALSE)
           last == [r.inner EXCEPT !.eorRead = TRUE]
<1>1. \/ o = Refused(dev, inner)
      \/ \E e : /\ e = Refused(dev, inner) \/ e = Refused(r.dev, r.inner) \/ e = Done(r.dev, last, found)
                /\ o = IF e.ok THEN e ELSE Abandon(e.dev, e.inner)
  BY DEF ReadEndOfRun, Closing, FailsIf, Fails
<1>2. \A k \in steps \cap DOMAIN inner.buffers : k \notin KeysOf(d, "PerProgram")
  BY DEF KeysOf
<1> HIDE DEF steps, found
<1>3. Recycled(r, dev, inner, R, steps, FALSE)
  BY <1>2, RecycleIs DEF d
<1> HIDE DEF r
<1>4. Kept(r.dev, r.inner, dev, inner, R) /\ DOMAIN r.inner.pool = {} /\ DOMAIN r.inner = ProgramFields
  BY <1>3 DEF Recycled, Kept, SameCounters, Safe, SoundProgram
<1>5. /\ DOMAIN last = ProgramFields /\ last.desc = r.inner.desc
      /\ last.module = r.inner.module /\ last.sharedModule = r.inner.sharedModule
      /\ last.buffers = r.inner.buffers /\ last.shared = r.inner.shared
      /\ last.pool = r.inner.pool /\ last.closed = r.inner.closed
  BY <1>4, FlagsSet
<1> HIDE DEF last
<1>6. Kept(r.dev, last, dev, inner, R) /\ DOMAIN last.pool = {}
  BY <1>4, <1>5, FlagsKept
<1>7. Kept(dev, inner, dev, inner, R)
  BY DEF Kept, SameShare
<1>8. CASE o = Refused(dev, inner)
  BY <1>8 DEF Refused, Settled
<1>9. ASSUME NEW e,
             e = Refused(dev, inner) \/ e = Refused(r.dev, r.inner) \/ e = Done(r.dev, last, found),
             o = IF e.ok THEN e ELSE Abandon(e.dev, e.inner)
      PROVE  Settled(o, dev, inner, R) /\ DOMAIN o.inner.pool = {}
  <2>1. e.ok \in BOOLEAN /\ Kept(e.dev, e.inner, dev, inner, R) /\ DOMAIN e.inner.pool = {}
    <3>1. CASE e = Refused(dev, inner)
      BY <1>7, <3>1 DEF Refused
    <3>2. CASE e = Refused(r.dev, r.inner)
      BY <1>4, <3>2 DEF Refused
    <3>3. CASE e = Done(r.dev, last, found)
      BY <1>6, <3>3 DEF Done
    <3> QED
      BY <1>9, <3>1, <3>2, <3>3
  <2>2. Settled(o, dev, inner, R) /\ o.ok = e.ok /\ (o.ok => o = e)
    BY <1>9, <2>1, ClosingIs
  <2>3. DOMAIN o.inner.pool = {}
    <3>1. CASE o.ok
      BY <2>1, <2>2, <3>1
    <3>2. CASE ~o.ok
      BY <2>2, <3>2 DEF Settled, Shut, ClosedProgram
    <3> QED
      BY <3>1, <3>2
  <2> QED
    BY <2>2, <2>3
<1> QED
  BY <1>1, <1>8, <1>9

\* reset_prompt clears live buffers.
LEMMA ClearIs ==
    ASSUME NEW dev, NEW inner, NEW R, Safe(dev, inner, R), NEW o \in ClearResidentState(dev, inner)
    PROVE  /\ Settled(o, dev, inner, R) /\ o.dev.uploads = dev.uploads
           /\ o.ok => o.inner = inner /\ o.dev.allocs = dev.allocs
<1> DEFINE state == ResidentState(inner)
           handles == {inner.buffers[k] : k \in state}
           f == Filled(dev, [h \in handles |-> "zero"])
<1>1. \/ o = Refused(dev, inner)
      \/ \E e : /\ e = Refused(dev, inner) \/ e = Done(f, inner, {})
                /\ o = IF e.ok THEN e ELSE Abandon(e.dev, e.inner)
  BY DEF ClearResidentState, Closing, FailsIf, Fails
<1>2. SoundDevice(dev) /\ handles \in SUBSET DOMAIN dev.memory
  <2>1. SoundDevice(dev) /\ \A k \in DOMAIN inner.buffers : inner.buffers[k] \in DOMAIN dev.memory
    BY SafeLive DEF Safe, Leftover, HandlesLive
  <2>2. state \subseteq DOMAIN inner.buffers
    BY DEF ResidentState
  <2> HIDE DEF state
  <2> QED
    BY <2>1, <2>2
<1> HIDE DEF handles
<1>3. Refreshed(f, dev)
  BY <1>2, FilledRefreshes DEF Contents
<1> HIDE DEF f
<1>4. Kept(f, inner, dev, inner, R) /\ f.uploads = dev.uploads /\ f.allocs = dev.allocs
  BY <1>3, KeptSame DEF Refreshed, SameDevice
<1>5. Kept(dev, inner, dev, inner, R)
  BY DEF Kept, SameShare
<1>6. CASE o = Refused(dev, inner)
  BY <1>6 DEF Refused, Settled
<1>7. ASSUME NEW e, e = Refused(dev, inner) \/ e = Done(f, inner, {}),
             o = IF e.ok THEN e ELSE Abandon(e.dev, e.inner)
      PROVE  /\ Settled(o, dev, inner, R) /\ o.dev.uploads = dev.uploads
             /\ o.ok => o.inner = inner /\ o.dev.allocs = dev.allocs
  <2>1. /\ e.ok \in BOOLEAN /\ Kept(e.dev, e.inner, dev, inner, R)
        /\ e.dev.uploads = dev.uploads /\ e.inner = inner /\ e.dev.allocs = dev.allocs
    <3>1. CASE e = Refused(dev, inner)
      BY <1>5, <3>1 DEF Refused
    <3>2. CASE e = Done(f, inner, {})
      BY <1>4, <3>2 DEF Done
    <3> QED
      BY <1>7, <3>1, <3>2
  <2>2. /\ Settled(o, dev, inner, R) /\ o.ok = e.ok /\ (o.ok => o = e)
        /\ o.dev.uploads = e.dev.uploads
    BY <1>7, <2>1, ClosingIs
  <2> QED
    BY <2>1, <2>2
<1> QED
  BY <1>1, <1>6, <1>7

-----------------------------------------------------------------------------
(* Weights.                                                                 *)

\* The counter adds what was uploaded; nothing else but contents differs.
Delivered(e, dev, keys) ==
    SameDevice(e, dev) /\ e.uploads = dev.uploads + Cardinality(keys)

\* Uploading weights writes live handles and counts them.
LEMMA UploadedIs ==
    ASSUME NEW dev, SoundDevice(dev), NEW inner, NEW keys, IsFiniteSet(keys),
           \A k \in keys : inner.buffers[k] \in DOMAIN dev.memory
    PROVE  Delivered(Uploaded(dev, inner, keys), dev, keys)
<1> DEFINE f == CopiedIn(dev, inner, keys)
           e == [f EXCEPT !.uploads = @ + Cardinality(keys)]
<1>1. Refreshed(f, dev)
  BY CopiedInIs
<1>2. Uploaded(dev, inner, keys) = e
  BY DEF Uploaded
<1>3. Cardinality(keys) \in Nat
  BY FS_CardinalityType
<1> HIDE DEF f
<1>4. SoundDevice(f)
  BY <1>1 DEF Refreshed, SameDevice
<1>5. /\ DOMAIN e = DOMAIN f /\ e.loads = f.loads /\ e.allocs = f.allocs /\ e.memory = f.memory
      /\ e.backend = f.backend /\ e.uploads = f.uploads + Cardinality(keys)
  BY <1>4 DEF SoundDevice
<1> HIDE DEF e
<1>6. SoundDevice(e)
  BY <1>3, <1>4, <1>5 DEF SoundDevice
<1> QED
  BY <1>1, <1>2, <1>5, <1>6 DEF Delivered, Refreshed, SameDevice

\* weight_key and key_for_buffer: the key of a weight's buffer is a weight.
LEMMA KeyOfIs ==
    ASSUME NEW d, Validate(d), NEW k \in Params(d)
    PROVE  /\ KeyOf(d, k[1]) \in Keys(d) /\ KeyOf(d, k[1])[1] = k[1]
           /\ KeyOf(d, k[1]) \in Params(d) /\ KeyOf(d, k[1]) \in KeysOf(d, "PerProgram")
           /\ OneVersionEach(Params(d)) => KeyOf(d, k[1]) = k
<1> DEFINE j == KeyOf(d, k[1])
<1>1. k \in Keys(d) /\ Meta(d, k).life = "PerProgram" /\ Meta(d, k).init = "HostProvided"
  BY DEF Params, KeysOf
<1>2. j \in Keys(d) /\ j[1] = k[1]
  BY <1>1 DEF KeyOf
<1> HIDE DEF j
<1>3. Meta(d, j).life = "PerProgram" /\ Meta(d, j).init = "HostProvided"
  BY <1>1, <1>2, KeysOfOneBuffer
<1>4. j \in Params(d) /\ j \in KeysOf(d, "PerProgram")
  BY <1>2, <1>3 DEF Params, KeysOf
<1>5. OneVersionEach(Params(d)) => j = k
  BY <1>2, <1>4 DEF OneVersionEach
<1> QED
  BY <1>2, <1>4, <1>5 DEF j

\* The weights of a descriptor are finitely many.
LEMMA ParamsFinite ==
    ASSUME NEW name \in Names
    PROVE  /\ Params(Catalog[name]) \subseteq Keys(Catalog[name])
           /\ IsFiniteSet(Params(Catalog[name])) /\ Cardinality(Params(Catalog[name])) \in Nat
           /\ Buffers(Params(Catalog[name])) \in SUBSET Nat
           /\ IsFiniteSet(Buffers(Params(Catalog[name])))
<1> DEFINE P == Params(Catalog[name])
<1>1. P \in SUBSET Keys(Catalog[name])
  BY DEF Params, KeysOf
<1>2. IsFiniteSet(P) /\ Cardinality(P) \in Nat
  BY <1>1, KeysFinite, FS_Subset, FS_CardinalityType
<1>3. P \in SUBSET (Nat \X Nat)
  BY <1>1, KeysFinite
<1> HIDE DEF P
<1>4. Buffers(P) \in SUBSET Nat
  BY <1>3 DEF Buffers
<1>5. IsFiniteSet(Buffers(P))
  <2> DEFINE f == [k \in P |-> k[1]]
  <2>1. Buffers(P) = {f[k] : k \in P}
    BY DEF Buffers
  <2> HIDE DEF f
  <2> QED
    BY <1>2, <2>1, ImageFinite
<1> QED
  BY <1>1, <1>2, <1>4, <1>5 DEF P

\* execute and execute_with_weight_bytes.
LEMMA ExecuteIs ==
    ASSUME NEW dev, NEW inner, NEW R, Safe(dev, inner, R), DOMAIN inner.pool = {},
           NEW bytes, NEW sized, NEW supplied \in BOOLEAN,
           NEW o \in Execute(dev, inner, bytes, sized, supplied)
    PROVE  /\ Settled(o, dev, inner, R) /\ DOMAIN o.inner.pool = {}
           /\ ~o.ok => Desc(inner).repeating \/ Leftover(o.dev, R)
<1> DEFINE d == Desc(inner)
           order == Ascending(bytes)
           reached == {n \in 0..Len(order) : \A i \in 1..n : ByteWeightFits(inner, order[i], sized)}
           keys(n) == {KeyOf(d, order[i]) : i \in 1..n}
           up(n) == Uploaded(dev, inner, keys(n))
           stops == {n \in reached : n < Len(order) /\ (n + 1 \notin reached \/ MayFail("copy"))}
           run(n) == ExecuteInner(up(n), inner, "PerStep", FALSE, FALSE, bytes, supplied)
           all == {Refused(up(n), inner) : n \in stops} \cup UNION {run(n) : n \in reached \cap {Len(order)}}
<1>1. CASE o = Refused(dev, inner) /\ Desc(inner).repeating
  BY <1>1 DEF Refused, Settled
<1>2. CASE o \in Closing(all)
  <2>1. PICK e \in all : o = IF e.ok THEN e ELSE Abandon(e.dev, e.inner)
    BY <1>2 DEF Closing
  <2> HIDE DEF up, run, order
  <2>2. PICK n \in reached : e = Refused(up(n), inner) \/ e \in run(n)
    BY <2>1
  <2> HIDE DEF all, stops
  <2>3. \A i \in 1..n : KeyOf(d, order[i]) \in Keys(d) /\ KeyOf(d, order[i]) \in DOMAIN inner.buffers
    <3> SUFFICES ASSUME NEW i \in 1..n
                 PROVE KeyOf(d, order[i]) \in Keys(d) /\ KeyOf(d, order[i]) \in DOMAIN inner.buffers
      OBVIOUS
    <3>1. PICK k \in Params(d) : k[1] = order[i]
      BY <2>2 DEF ByteWeightFits, WeightKey
    <3>2. Validate(d) /\ KeysOf(d, "PerProgram") \subseteq DOMAIN inner.buffers
      BY DEF Safe, SoundProgram, MapsSound
    <3> QED
      BY <3>1, <3>2, KeyOfIs
  <2>4. keys(n) \in SUBSET Keys(d) /\ keys(n) \subseteq DOMAIN inner.buffers
    BY <2>3
  <2>5. IsFiniteSet(keys(n))
    <3>1. inner.desc \in Names
      BY DEF Safe, SoundProgram
    <3> HIDE DEF keys
    <3> QED
      BY <2>4, <3>1, KeysFinite, FS_Subset DEF Desc
  <2>6. /\ SoundDevice(dev)
        /\ \A k \in keys(n) : inner.buffers[k] \in DOMAIN dev.memory
    BY <2>4, SafeLive DEF Safe, Leftover, HandlesLive
  <2> HIDE DEF keys, reached
  <2>7. Delivered(up(n), dev, keys(n))
    BY <2>5, <2>6, UploadedIs DEF up
  <2>8. Safe(up(n), inner, R) /\ Kept(up(n), inner, dev, inner, R)
    BY <2>7, StaysSafeSame, KeptSame DEF Delivered
  <2>9. CASE e = Refused(up(n), inner)
    <3>1. e.ok = FALSE /\ e.ok \in BOOLEAN /\ e.dev = up(n) /\ e.inner = inner
      BY <2>9 DEF Refused
    <3>2. Settled(o, dev, inner, R) /\ o.ok = e.ok /\ Leftover(o.dev, R)
      BY <2>1, <2>8, <3>1, ClosingIs
    <3> QED
      BY <3>1, <3>2 DEF Settled, Shut, ClosedProgram
  <2>10. CASE e \in run(n)
    <3>1. Executed(e, up(n), inner, R, FALSE)
      BY <2>8, <2>10, ExecuteInnerIs DEF run
    <3>2. e.ok \in BOOLEAN /\ Kept(e.dev, e.inner, dev, inner, R)
          /\ (e.ok => DOMAIN e.inner.pool = {})
      <4>1. Kept(e.dev, e.inner, up(n), inner, R)
        BY <3>1 DEF Executed
      <4>2. Kept(e.dev, e.inner, dev, inner, R)
        BY <2>8, <4>1, KeptTransitive
      <4> QED
        BY <3>1, <4>2 DEF Executed
    <3>3. Settled(o, dev, inner, R) /\ o.ok = e.ok /\ (o.ok => o = e)
          /\ (~o.ok => Leftover(o.dev, R))
      BY <2>1, <3>2, ClosingIs
    <3> QED
      BY <3>2, <3>3 DEF Settled, Shut, ClosedProgram
  <2> QED
    BY <2>2, <2>9, <2>10
<1> QED
  BY <1>1, <1>2 DEF Execute, ExecuteInOrder, Safe, SoundProgram

\* A sorted sequence as a function on its indices.
LEMMA SortedFunction ==
    ASSUME NEW S, NEW R
    PROVE  SortedBy(S, R) = [i \in 1..Cardinality(S) |-> SortedBy(S, R)[i]]
<1> DEFINE e(i) == CHOOSE x \in S : Cardinality({y \in S : <<y, x>> \in R}) = i - 1
           f == [i \in 1..Cardinality(S) |-> e(i)]
<1>1. SortedBy(S, R) = f
  BY DEF SortedBy
<1> HIDE DEF e
<1>2. f = [i \in 1..Cardinality(S) |-> f[i]]
  OBVIOUS
<1> HIDE DEF f
<1> QED
  BY <1>1, <1>2

\* The byte weights, then the others.
LEMMA UploadOrder ==
    ASSUME NEW A \in SUBSET Nat, IsFiniteSet(A), NEW B \in SUBSET Nat, IsFiniteSet(B)
    PROVE  LET order == Ascending(A) \o Ascending(B)
           IN  /\ Len(order) \in Nat
               /\ \A i \in 1..Len(order) : order[i] \in A \cup B
               /\ \A x \in A \cup B : \E i \in 1..Len(order) : order[i] = x
<1> DEFINE a == Ascending(A)
           b == Ascending(B)
<1>1. Enumerates(a, A) /\ Enumerates(b, B)
  BY AscendingEnumerates
<1>2. Cardinality(A) \in Nat /\ Cardinality(B) \in Nat
  BY FS_CardinalityType
<1>3. /\ a = [i \in 1..Cardinality(A) |-> a[i]]
      /\ b = [i \in 1..Cardinality(B) |-> b[i]]
  BY SortedFunction DEF Ascending, Sorted
<1> HIDE DEF a, b
<1>4. a \in Seq(A) /\ b \in Seq(B) /\ Len(a) = Cardinality(A) /\ Len(b) = Cardinality(B)
  <2>1. /\ DOMAIN a = 1..Cardinality(A) /\ Len(a) = Cardinality(A) /\ \A i \in DOMAIN a : a[i] \in A
        /\ DOMAIN b = 1..Cardinality(B) /\ Len(b) = Cardinality(B) /\ \A i \in DOMAIN b : b[i] \in B
    BY <1>1 DEF Enumerates
  <2>2. a \in [1..Cardinality(A) -> A] /\ b \in [1..Cardinality(B) -> B]
    BY <1>3, <2>1
  <2> QED
    BY <1>2, <2>1, <2>2
<1>5. /\ \A x \in A : \E i \in 1..Len(a) : a[i] = x
      /\ \A x \in B : \E i \in 1..Len(b) : b[i] = x
      /\ \A i \in 1..Len(a) : a[i] \in A
      /\ \A i \in 1..Len(b) : b[i] \in B
  BY <1>1, <1>4 DEF Enumerates
<1> DEFINE order == a \o b
<1>6. /\ Len(order) = Len(a) + Len(b)
      /\ \A i \in 1..Len(order) : order[i] = IF i <= Len(a) THEN a[i] ELSE b[i - Len(a)]
  BY <1>4
<1> HIDE DEF order
<1>7. Len(order) \in Nat /\ Len(a) \in Nat /\ Len(b) \in Nat
  BY <1>2, <1>4, <1>6
<1>8. \A i \in 1..Len(order) : order[i] \in A \cup B
  <2> SUFFICES ASSUME NEW i \in 1..Len(order) PROVE order[i] \in A \cup B
    OBVIOUS
  <2>1. CASE i <= Len(a)
    BY <1>5, <1>6, <1>7, <2>1
  <2>2. CASE ~(i <= Len(a))
    <3>1. i - Len(a) \in 1..Len(b)
      BY <1>6, <1>7, <2>2
    <3> QED
      BY <1>5, <1>6, <2>2, <3>1
  <2> QED
    BY <2>1, <2>2
<1>9. \A x \in A \cup B : \E i \in 1..Len(order) : order[i] = x
  <2> SUFFICES ASSUME NEW x \in A \cup B PROVE \E i \in 1..Len(order) : order[i] = x
    OBVIOUS
  <2>1. CASE x \in A
    <3>1. PICK i \in 1..Len(a) : a[i] = x
      BY <1>5, <2>1
    <3>2. i \in 1..Len(order) /\ i <= Len(a)
      BY <1>6, <1>7
    <3> QED
      BY <1>6, <3>1, <3>2
  <2>2. CASE x \in B
    <3>1. PICK i \in 1..Len(b) : b[i] = x
      BY <1>5, <2>2
    <3> DEFINE j == i + Len(a)
    <3>2. j \in 1..Len(order) /\ ~(j <= Len(a)) /\ j - Len(a) = i
      BY <1>6, <1>7
    <3> HIDE DEF j
    <3> QED
      BY <1>6, <3>1, <3>2
  <2> QED
    BY <2>1, <2>2
<1> QED
  BY <1>7, <1>8, <1>9 DEF order, a, b

\* init_params: on success every weight the program does not share has been
\* uploaded, once.
Initialized(o, dev, inner, R) ==
    /\ Settled(o, dev, inner, R)
    /\ o.ok => /\ o.dev.uploads = dev.uploads + Cardinality(Params(Desc(inner)) \ inner.shared)
               /\ o.dev.allocs = dev.allocs
               /\ o.inner.buffers = inner.buffers /\ o.inner.pool = inner.pool
    /\ ~o.ok => ~Desc(inner).repeating \/ inner.params \/ Shut(o, inner, R)

\* The device and the unchanged program when init_params_inner stops or ends.
LEMMA InitInnerIs ==
    ASSUME NEW dev, NEW inner, NEW R, Safe(dev, inner, R),
           NEW bytes \in SUBSET Nat, IsFiniteSet(bytes), NEW given, NEW sized,
           NEW e \in InitParamsInner(dev, inner, bytes, given, sized)
    PROVE  /\ e.ok \in BOOLEAN /\ e.inner = inner
           /\ SameDevice(e.dev, dev)
           /\ e.ok => e.dev.uploads = dev.uploads + Cardinality(Params(Desc(inner)) \ inner.shared)
<1> DEFINE d == Desc(inner)
           P == Params(d)
           rest == Buffers(P) \ bytes
           order == Ascending(bytes) \o Ascending(rest)
           fits(id) == IF id \in bytes THEN ByteWeightFits(inner, id, sized)
                       ELSE Uploads(inner, id) => id \in given /\ KeyOf(d, id) \in DOMAIN inner.buffers
           reached == {n \in 0..Len(order) : \A i \in 1..n : fits(order[i])}
           keys(n) == {KeyOf(d, order[i]) : i \in {j \in 1..n : Uploads(inner, order[j])}}
           up(n) == Uploaded(dev, inner, keys(n))
           after(n, ok) == [ok |-> ok, dev |-> up(n), inner |-> inner, reads |-> {}]
<1>1. /\ inner.desc \in Names /\ Validate(d) /\ SoundDevice(dev)
      /\ KeysOf(d, "PerProgram") \subseteq DOMAIN inner.buffers
      /\ \A k \in DOMAIN inner.buffers : inner.buffers[k] \in DOMAIN dev.memory
  BY SafeLive DEF Safe, SoundProgram, MapsSound, Leftover, HandlesLive
<1>2. CASE e = [ok |-> FALSE, dev |-> dev, inner |-> inner, reads |-> {}]
  BY <1>1, <1>2 DEF SameDevice
<1>3. CASE /\ OneVersionEach(P)
           /\ \E n \in reached : e = after(n, FALSE) \/ (n = Len(order) /\ e = after(n, TRUE))
  <2> HIDE DEF order, after
  <2>1. PICK n \in reached : e = after(n, FALSE) \/ (n = Len(order) /\ e = after(n, TRUE))
    BY <1>3
  <2> HIDE DEF reached, keys, fits, P, rest, d
  <2>2. P \subseteq Keys(d) /\ IsFiniteSet(P) /\ Buffers(P) \in SUBSET Nat /\ IsFiniteSet(Buffers(P))
    BY <1>1, ParamsFinite DEF P, d, Desc
  <2>3. rest \in SUBSET Nat /\ IsFiniteSet(rest)
    <3>1. rest \in SUBSET Buffers(P)
      BY DEF rest
    <3> QED
      BY <2>2, <3>1, FS_Subset
  <2>4. /\ Len(order) \in Nat
        /\ \A i \in 1..Len(order) : order[i] \in bytes \cup rest
        /\ \A x \in bytes \cup rest : \E i \in 1..Len(order) : order[i] = x
    BY <2>3, UploadOrder DEF order
  <2>5. n \in 0..Len(order) /\ \A i \in 1..n : fits(order[i])
    BY DEF reached
  <2>6. \A i \in 1..n : \E k \in P : k[1] = order[i]
    <3> SUFFICES ASSUME NEW i \in 1..n PROVE \E k \in P : k[1] = order[i]
      OBVIOUS
    <3>1. CASE order[i] \in bytes
      BY <2>5, <3>1 DEF fits, ByteWeightFits, WeightKey, P, d
    <3>2. CASE order[i] \notin bytes
      <4>1. i \in 1..Len(order)
        BY <2>4, <2>5
      <4>2. order[i] \in Buffers(P)
        BY <2>4, <3>2, <4>1 DEF rest
      <4> QED
        BY <4>2 DEF Buffers
    <3> QED
      BY <3>1, <3>2
  <2>7. \A k \in P : KeyOf(d, k[1]) = k /\ k \in KeysOf(d, "PerProgram")
    <3> SUFFICES ASSUME NEW k \in P PROVE KeyOf(d, k[1]) = k /\ k \in KeysOf(d, "PerProgram")
      OBVIOUS
    <3> QED
      BY <1>1, <1>3, KeyOfIs DEF P
  <2>8. keys(n) \in SUBSET P
    BY <2>6, <2>7 DEF keys
  <2>9. IsFiniteSet(keys(n)) /\ \A k \in keys(n) : inner.buffers[k] \in DOMAIN dev.memory
    <3>1. \A k \in keys(n) : k \in DOMAIN inner.buffers
      BY <1>1, <2>7, <2>8
    <3> QED
      BY <1>1, <2>2, <2>8, <3>1, FS_Subset
  <2>10. Delivered(up(n), dev, keys(n))
    BY <1>1, <2>9, UploadedIs
  <2>11. ASSUME n = Len(order) PROVE keys(n) = P \ inner.shared
    <3>1. \A i \in 1..n : Uploads(inner, order[i]) <=> KeyOf(d, order[i]) \notin inner.shared
      BY DEF Uploads, d
    <3>2. ASSUME NEW k \in P, k \notin inner.shared PROVE k \in keys(n)
      <4>1. k[1] \in bytes \cup rest
        BY DEF Buffers, rest
      <4>2. PICK i \in 1..n : order[i] = k[1]
        BY <2>4, <2>11, <4>1
      <4>3. KeyOf(d, order[i]) = k
        BY <2>7, <4>2
      <4> QED
        BY <3>1, <3>2, <4>3 DEF keys
    <3>3. ASSUME NEW k \in keys(n) PROVE k \in P /\ k \notin inner.shared
      <4>1. PICK i \in 1..n : Uploads(inner, order[i]) /\ k = KeyOf(d, order[i])
        BY DEF keys
      <4> QED
        BY <2>8, <3>1, <4>1
    <3> QED
      BY <3>2, <3>3
  <2> HIDE DEF up
  <2>12. CASE e = after(n, FALSE)
    BY <2>10, <2>12 DEF after, Delivered
  <2>13. CASE n = Len(order) /\ e = after(n, TRUE)
    BY <2>10, <2>11, <2>13 DEF after, Delivered, P, d
  <2> QED
    BY <2>1, <2>12, <2>13
<1> QED
  <2>1. CASE ~OneVersionEach(P) \/ bytes \cap given # {}
    BY <1>2, <2>1 DEF InitParamsInner
  <2>2. CASE ~(~OneVersionEach(P) \/ bytes \cap given # {})
    <3>1. e \in UploadInOrder(dev, inner, bytes, given, sized, order)
      BY <2>2 DEF InitParamsInner
    <3> HIDE DEF order
    <3>2. \E n \in reached : e = after(n, FALSE) \/ (n = Len(order) /\ e = after(n, TRUE))
      BY <3>1 DEF UploadInOrder
    <3> QED
      BY <1>3, <2>2, <3>2 DEF order
  <2> QED
    BY <2>1, <2>2

\* init_params and init_params_with_weight_bytes.
LEMMA InitParamsIs ==
    ASSUME NEW dev, NEW inner, NEW R, Safe(dev, inner, R),
           NEW bytes \in SUBSET Nat, IsFiniteSet(bytes), NEW given, NEW sized,
           NEW o \in InitParams(dev, inner, bytes, given, sized)
    PROVE  Initialized(o, dev, inner, R)
<1>1. CASE o = Refused(dev, inner) /\ (~Desc(inner).repeating \/ inner.params)
  BY <1>1 DEF Refused, Initialized, Settled
<1>2. CASE \E e \in InitParamsInner(dev, inner, bytes, given, sized) :
             LET c == IF e.ok THEN e ELSE Abandon(e.dev, e.inner)
             IN  o = IF c.ok THEN [c EXCEPT !.inner.params = TRUE] ELSE c
  <2>1. PICK e \in InitParamsInner(dev, inner, bytes, given, sized) :
             LET c == IF e.ok THEN e ELSE Abandon(e.dev, e.inner)
             IN  o = IF c.ok THEN [c EXCEPT !.inner.params = TRUE] ELSE c
    BY <1>2
  <2> DEFINE c == IF e.ok THEN e ELSE Abandon(e.dev, e.inner)
  <2>2. o = IF c.ok THEN [c EXCEPT !.inner.params = TRUE] ELSE c
    BY <2>1
  <2>3. /\ e.ok \in BOOLEAN /\ e.inner = inner
        /\ SameDevice(e.dev, dev)
        /\ e.ok => e.dev.uploads = dev.uploads + Cardinality(Params(Desc(inner)) \ inner.shared)
    BY <2>1, InitInnerIs
  <2>4. Kept(e.dev, inner, dev, inner, R)
    BY <2>3, KeptSame
  <2> HIDE DEF c
  <2>5. /\ Settled(c, dev, inner, R) /\ c.ok = e.ok /\ (c.ok => c = e)
        /\ ~c.ok => Shut(c, inner, R)
    BY <2>3, <2>4, ClosingIs DEF c
  <2>6. CASE ~c.ok
    BY <2>2, <2>5, <2>6 DEF Initialized
  <2>7. CASE c.ok
    <3> DEFINE last == [inner EXCEPT !.params = TRUE]
    <3>1. c = e /\ c.ok = TRUE
      BY <2>3, <2>5, <2>7
    <3>2. o = [c EXCEPT !.inner.params = TRUE]
      BY <2>2, <2>7
    <3>3. o.ok = TRUE /\ o.dev = e.dev /\ o.inner = last
      BY <2>3, <3>1, <3>2
    <3>4. DOMAIN inner = ProgramFields
      BY DEF Safe, SoundProgram
    <3>5. /\ DOMAIN last = ProgramFields /\ last.desc = inner.desc
          /\ last.module = inner.module /\ last.sharedModule = inner.sharedModule
          /\ last.buffers = inner.buffers /\ last.shared = inner.shared
          /\ last.pool = inner.pool /\ last.closed = inner.closed
      BY <3>4, FlagsSet
    <3> HIDE DEF last
    <3>6. Kept(e.dev, last, dev, inner, R)
      BY <2>4, <3>5, FlagsKept
    <3>7. e.dev.backend = dev.backend /\ e.dev.allocs = dev.allocs
      BY <2>3 DEF SameDevice
    <3> QED
      BY <2>3, <3>1, <3>3, <3>5, <3>6, <3>7 DEF Initialized, Settled
  <2> QED
    BY <2>6, <2>7
<1> QED
  BY <1>1, <1>2 DEF InitParams, Closing

-----------------------------------------------------------------------------
(* The only program of a session.                                           *)

Sole(dev, inner) ==
    \/ Safe(dev, inner, {})
    \/ ClosedProgram(inner) /\ inner.desc \in Names /\ Leftover(dev, {})

\* A handler's outcome when no other program is open.
LEMMA SettledSole ==
    ASSUME NEW dev, NEW inner, Safe(dev, inner, {}), NEW o, Settled(o, dev, inner, {})
    PROVE  Sole(o.dev, o.inner)
BY DEF Settled, Sole, Shut, Safe, SoundProgram, Kept

\* Uploading into a closed program moves nothing and frees what is gone.
LEMMA ClosedInitIs ==
    ASSUME NEW dev, NEW inner, ClosedProgram(inner), inner.desc \in Names, Leftover(dev, {}),
           NEW bytes, NEW given, NEW sized,
           NEW o \in InitParams(dev, inner, bytes, given, sized)
    PROVE  /\ ClosedProgram(o.inner) /\ o.inner.desc \in Names /\ Leftover(o.dev, {})
           /\ o.dev.backend = dev.backend
<1> DEFINE d == Desc(inner)
           P == Params(d)
           order == Ascending(bytes) \o Ascending(Buffers(P) \ bytes)
           fits(id) == IF id \in bytes THEN ByteWeightFits(inner, id, sized)
                       ELSE Uploads(inner, id) => id \in given /\ KeyOf(d, id) \in DOMAIN inner.buffers
           reached == {n \in 0..Len(order) : \A i \in 1..n : fits(order[i])}
           keys(n) == {KeyOf(d, order[i]) : i \in {j \in 1..n : Uploads(inner, order[j])}}
           up(n) == Uploaded(dev, inner, keys(n))
           after(n, ok) == [ok |-> ok, dev |-> up(n), inner |-> inner, reads |-> {}]
           good(e) == /\ ClosedProgram(e.inner) /\ e.inner.desc \in Names /\ Leftover(e.dev, {})
                      /\ e.dev.backend = dev.backend
<1>1. CASE o = Refused(dev, inner)
  BY <1>1 DEF Refused
<1>2. ASSUME NEW e \in InitParamsInner(dev, inner, bytes, given, sized)
      PROVE  e.inner = inner /\ SameDevice(e.dev, dev)
  <2>1. CASE e = [ok |-> FALSE, dev |-> dev, inner |-> inner, reads |-> {}]
    BY <2>1 DEF SameDevice, Leftover
  <2>2. ASSUME NEW n \in reached, e = after(n, FALSE) \/ e = after(n, TRUE)
        PROVE  e.inner = inner /\ SameDevice(e.dev, dev)
    <3>1. keys(n) = {}
      <4> SUFFICES ASSUME NEW i \in 1..n, Uploads(inner, order[i]) PROVE FALSE
        OBVIOUS
      <4> HIDE DEF order
      <4>1. fits(order[i])
        OBVIOUS
      <4>2. KeyOf(d, order[i]) \in DOMAIN inner.buffers
        BY <4>1 DEF ByteWeightFits
      <4> QED
        BY <4>2 DEF ClosedProgram, Uploads
    <3> HIDE DEF keys, reached, order
    <3>2. Delivered(up(n), dev, keys(n))
      BY <3>1, UploadedIs, FS_EmptySet DEF Leftover
    <3> QED
      BY <2>2, <3>2 DEF Delivered
  <2>3. CASE OneVersionEach(P) /\ ~(bytes \cap given # {})
    <3>1. e \in UploadInOrder(dev, inner, bytes, given, sized, order)
      BY <2>3 DEF InitParamsInner
    <3> HIDE DEF order
    <3>2. \E n \in reached : e = after(n, FALSE) \/ e = after(n, TRUE)
      BY <3>1 DEF UploadInOrder
    <3> QED
      BY <2>2, <3>2 DEF order
  <2> QED
    BY <2>1, <2>3 DEF InitParamsInner
<1>3. ASSUME NEW e, e.inner = inner, SameDevice(e.dev, dev)
      PROVE  good(Abandon(e.dev, e.inner)) /\ good(e)
  <2> DEFINE r == ReleaseAllHandles(e.dev, inner)
             b == [k \in DOMAIN inner.buffers \cap inner.shared |-> inner.buffers[k]]
  <2>1. r.dev = Freed(e.dev, OwnedHandles(inner)) /\ r.inner = [inner EXCEPT !.buffers = b, !.pool = <<>>]
    BY DEF ReleaseAllHandles
  <2>2. DOMAIN b \subseteq inner.shared /\ DOMAIN <<>> = {}
    OBVIOUS
  <2>3. Abandon(e.dev, inner).dev = r.dev /\ Abandon(e.dev, inner).inner = [r.inner EXCEPT !.closed = TRUE]
    BY DEF Abandon
  <2> HIDE DEF r, b
  <2>4. /\ DOMAIN r.inner = ProgramFields /\ r.inner.buffers = b /\ r.inner.pool = <<>>
        /\ r.inner.shared = inner.shared /\ r.inner.desc = inner.desc
    BY <2>1 DEF ClosedProgram, ProgramFields
  <2>5. ClosedProgram(Abandon(e.dev, inner).inner) /\ Abandon(e.dev, inner).inner.desc = inner.desc
    BY <2>2, <2>3, <2>4 DEF ClosedProgram, ProgramFields
  <2>6. SoundDevice(e.dev) /\ (NoLeakingCalls => DOMAIN e.dev.memory = {}) /\ e.dev.backend = dev.backend
    BY <1>3 DEF SameDevice, Leftover
  <2>7. Leftover(r.dev, {}) /\ r.dev.backend = dev.backend
    BY <2>1, <2>6, FreedIs DEF Leftover
  <2>8. good(e)
    BY <1>3, <2>6 DEF Leftover
  <2> QED
    BY <1>3, <2>3, <2>5, <2>7, <2>8
<1>4. CASE \E e \in InitParamsInner(dev, inner, bytes, given, sized) :
             LET c == IF e.ok THEN e ELSE Abandon(e.dev, e.inner)
             IN  o = IF c.ok THEN [c EXCEPT !.inner.params = TRUE] ELSE c
  <2>1. PICK e \in InitParamsInner(dev, inner, bytes, given, sized) :
             LET c == IF e.ok THEN e ELSE Abandon(e.dev, e.inner)
             IN  o = IF c.ok THEN [c EXCEPT !.inner.params = TRUE] ELSE c
    BY <1>4
  <2> DEFINE c == IF e.ok THEN e ELSE Abandon(e.dev, e.inner)
  <2>2. o = IF c.ok THEN [c EXCEPT !.inner.params = TRUE] ELSE c
    BY <2>1
  <2>3. good(c)
    BY <1>2, <1>3, <2>1
  <2> HIDE DEF c
  <2>4. CASE ~c.ok
    BY <2>2, <2>3, <2>4
  <2>5. CASE c.ok
    <3>1. o.dev = c.dev /\ o.inner = [c.inner EXCEPT !.params = TRUE]
      BY <2>2, <2>5
    <3>2. ClosedProgram(o.inner) /\ o.inner.desc = c.inner.desc
      BY <2>3, <3>1 DEF ClosedProgram, ProgramFields
    <3> QED
      BY <2>3, <3>1, <3>2
  <2> QED
    BY <2>4, <2>5
<1> QED
  BY <1>1, <1>4 DEF InitParams, Closing

-----------------------------------------------------------------------------
(* Creation.                                                                *)

\* What a failed creation frees: the buffers it allocated and its module.
CreatedSoFar(dev, order, held, m, own) ==
    HandlesAt(HandlesFor(dev, order, held), Fresh(order, held, m)) \cup own

\* A failing creation leaves what others own.
Undone(e, dev, R) == Leftover(e, R) /\ e.backend = dev.backend /\ e.uploads = dev.uploads

\* Undoing a creation: only a failing zero-fill loses the handle it was for.
LEMMA CreationFails ==
    ASSUME NEW dev, NEW R, NEW own, R \cap own = {}, Leftover(dev, R \cup own),
           NEW order, NEW held, NEW N \in Nat, DOMAIN order = 1..N,
           NEW n \in 0..N, NEW m \in 0..n, NoLeakingCalls => m = n,
           NEW zeroed \in SUBSET (1..n), \A i \in zeroed : order[i] \notin DOMAIN held
    PROVE  Undone(Freed(WithBuffers(dev, order, held, n, zeroed),
                        CreatedSoFar(dev, order, held, m, own)), dev, R)
<1> DEFINE w == WithBuffers(dev, order, held, n, zeroed)
           h == HandlesFor(dev, order, held)
           gone == CreatedSoFar(dev, order, held, m, own)
           e == Freed(w, gone)
<1>1. Obtained(w, dev, order, held, n)
  <2>1. SoundDevice(dev)
    BY DEF Leftover
  <2> QED
    BY <2>1, WithBuffersIs
<1>2. Fresh(order, held, m) \subseteq Fresh(order, held, n)
  BY DEF Fresh
<1>3. /\ SoundDevice(w)
      /\ DOMAIN w.memory = DOMAIN dev.memory \cup HandlesAt(h, Fresh(order, held, n))
      /\ \A i \in Fresh(order, held, n) : h[i] \notin DOMAIN dev.memory
      /\ w.backend = dev.backend /\ w.uploads = dev.uploads
  BY <1>1 DEF Obtained, Allocated
<1> HIDE DEF w, h
<1>4. gone = HandlesAt(h, Fresh(order, held, m)) \cup own
  BY DEF CreatedSoFar, h
<1> HIDE DEF gone
<1>5. /\ SoundDevice(e) /\ DOMAIN e.memory = DOMAIN w.memory \ gone
      /\ e.backend = dev.backend /\ e.uploads = dev.uploads
  BY <1>3, FreedIs
<1> HIDE DEF e
<1>6. R \cap gone = {}
  BY <1>2, <1>3, <1>4 DEF Leftover, HandlesAt
<1>7. R \subseteq DOMAIN e.memory
  BY <1>3, <1>5, <1>6 DEF Leftover
<1>8. NoLeakingCalls => DOMAIN e.memory = R
  <2> SUFFICES ASSUME NoLeakingCalls PROVE DOMAIN e.memory \subseteq R
    BY <1>7
  <2>1. DOMAIN dev.memory = R \cup own /\ m = n
    BY DEF Leftover
  <2> QED
    BY <1>3, <1>4, <1>5, <2>1
<1>9. Leftover(e, R) /\ e.backend = dev.backend /\ e.uploads = dev.uploads
  BY <1>5, <1>7, <1>8 DEF Leftover
<1> QED
  BY <1>9 DEF Undone, e, w, gone

\* The ProgramInner new_with_share builds.
NewInner(name, module, isShared, buffers, offers) ==
    [desc |-> name, module |-> module, sharedModule |-> isShared,
     buffers |-> buffers, shared |-> offers, pool |-> <<>>,
     params |-> FALSE, final |-> FALSE, eorRead |-> FALSE, closed |-> FALSE]

\* A creation's outcome: nothing of it left, or a safe program that has not run.
Created(o, dev, name, module, isShared, held, R) ==
    /\ o.ok \in BOOLEAN
    /\ o.dev.backend = dev.backend /\ o.dev.uploads = dev.uploads
    /\ ~o.ok => Leftover(o.dev, R)
    /\ o.ok => /\ Safe(o.dev, o.inner, R) /\ Cold(o.inner) /\ DOMAIN o.inner.pool = {}
               /\ o.inner.desc = name /\ o.inner.module = module
               /\ o.inner.sharedModule = isShared /\ o.inner.shared = DOMAIN held
               /\ o.inner.params = FALSE
               /\ \A k \in DOMAIN held : o.inner.buffers[k] = held[k]

\* A program with every PerProgram key mapped, shared or fresh.
LEMMA CreationEnds ==
    ASSUME NEW dev, NEW R, NEW name \in Names, Validate(Catalog[name]),
           NEW isShared \in BOOLEAN, NEW module,
           isShared => module \in R, ~isShared => module \notin R,
           Leftover(dev, R \cup IF isShared THEN {} ELSE {module}),
           NEW order, Enumerates(order, KeysOf(Catalog[name], "PerProgram")),
           NEW held, DOMAIN held \subseteq KeysOf(Catalog[name], "PerProgram"),
           \A k \in DOMAIN held : held[k] \in R,
           NEW N \in Nat, N = Cardinality(KeysOf(Catalog[name], "PerProgram")),
           NEW zeroed \in SUBSET (1..N), \A i \in zeroed : order[i] \notin DOMAIN held,
           NEW o, o = Done(WithBuffers(dev, order, held, N, zeroed),
                           NewInner(name, module, isShared,
                                    Mapping(HandlesFor(dev, order, held), order, N),
                                    DOMAIN held), {})
    PROVE  Created(o, dev, name, module, isShared, held, R)
<1> DEFINE w == WithBuffers(dev, order, held, N, zeroed)
           h == HandlesFor(dev, order, held)
           map == Mapping(h, order, N)
           inner == NewInner(name, module, isShared, map, DOMAIN held)
           own == IF isShared THEN {} ELSE {module}
           keys == KeysOf(Catalog[name], "PerProgram")
           fresh == Fresh(order, held, N)
<1>1. DOMAIN order = 1..N
  BY DEF Enumerates
<1>2. Obtained(w, dev, order, held, N)
  <2>1. SoundDevice(dev) /\ N \in 0..N
    BY DEF Leftover
  <2> QED
    BY <1>1, <2>1, WithBuffersIs
<1>3. /\ SoundDevice(w)
      /\ DOMAIN w.memory = DOMAIN dev.memory \cup HandlesAt(h, fresh)
      /\ \A i \in fresh : h[i] \notin DOMAIN dev.memory
      /\ w.backend = dev.backend /\ w.uploads = dev.uploads
  BY <1>2 DEF Obtained, Allocated
<1>4. /\ \A i \in 1..N : order[i] \in DOMAIN held => h[i] = held[order[i]]
      /\ \A i, j \in 1..N : i < j /\ order[i] \notin DOMAIN held /\ order[j] \notin DOMAIN held
             => h[i] \in Nat /\ h[j] \in Nat /\ h[i] < h[j]
  <2>1. SoundDevice(dev)
    BY DEF Leftover
  <2> HIDE DEF h
  <2> QED
    BY <1>1, <2>1, HandlesForIs DEF h
<1>5. DOMAIN map = Firsts(order, N) /\ \A i \in 1..N : map[order[i]] = h[i]
  <2>1. N \in 0..Cardinality(keys)
    OBVIOUS
  <2> HIDE DEF h
  <2> QED
    BY <2>1, MappingIs
<1>6. DOMAIN map = keys
  <2>1. (\A i \in 1..N : order[i] \in keys) /\ (\A x \in keys : \E i \in 1..N : order[i] = x)
    BY <1>1 DEF Enumerates
  <2> HIDE DEF map, keys
  <2>2. Firsts(order, N) = keys
    BY <2>1 DEF Firsts
  <2> QED
    BY <1>5, <2>2
<1>7. fresh = {i \in 1..N : order[i] \notin DOMAIN held}
  BY DEF Fresh
<1> HIDE DEF w, h, map, fresh
<1>8. o.ok = TRUE /\ o.dev = w /\ o.inner = inner
  BY DEF Done, w, h, map
<1>9. /\ DOMAIN inner = ProgramFields /\ inner.desc = name /\ inner.module = module
      /\ inner.sharedModule = isShared /\ inner.buffers = map /\ inner.shared = DOMAIN held
      /\ inner.pool = <<>> /\ inner.closed = FALSE /\ inner.params = FALSE
  BY DEF NewInner, ProgramFields
<1>10. DOMAIN inner.pool = {}
  BY <1>9
<1> HIDE DEF inner
<1>11. Desc(inner) = Catalog[name] /\ keys \subseteq Keys(Catalog[name])
  BY <1>9 DEF Desc, KeysOf
<1>12. MapsSound(inner)
  BY <1>6, <1>9, <1>10, <1>11 DEF MapsSound
<1>13. HeldKeys(inner) = keys \ DOMAIN held /\ \A k \in HeldKeys(inner) : HandleOf(inner, k) = map[k]
  BY <1>6, <1>9, <1>10 DEF HeldKeys, HandleOf
<1>14. \A k \in keys \ DOMAIN held : \E i \in fresh : order[i] = k /\ map[k] = h[i]
  BY <1>1, <1>5, <1>7 DEF Enumerates
<1>15. \A k \in DOMAIN held : map[k] = held[k]
  BY <1>1, <1>4, <1>5 DEF Enumerates
<1>16. OwnModule(inner) = own
  BY <1>9 DEF OwnModule
<1>17. \A i \in fresh : order[i] \in keys \ DOMAIN held /\ map[order[i]] = h[i]
  BY <1>1, <1>5, <1>7 DEF Enumerates
<1>18. OwnedHandles(inner) = HandlesAt(h, fresh) \cup own
  <2>1. OwnedHandles(inner) = {HandleOf(inner, k) : k \in HeldKeys(inner)} \cup OwnModule(inner)
    BY <1>12, OwnedIs
  <2>2. {HandleOf(inner, k) : k \in HeldKeys(inner)} = HandlesAt(h, fresh)
    BY <1>13, <1>14, <1>17 DEF HandlesAt
  <2> QED
    BY <1>16, <2>1, <2>2
<1>19. HandlesDistinct(inner)
  <2>1. ASSUME NEW j \in HeldKeys(inner), NEW k \in HeldKeys(inner),
               HandleOf(inner, j) = HandleOf(inner, k)
        PROVE  j = k
    <3>1. PICK a \in fresh : order[a] = j /\ map[j] = h[a]
      BY <1>13, <1>14
    <3>2. PICK b \in fresh : order[b] = k /\ map[k] = h[b]
      BY <1>13, <1>14
    <3>3. h[a] = h[b] /\ a \in 1..N /\ b \in 1..N
      BY <1>7, <1>13, <2>1, <3>1, <3>2
    <3>4. ~(a < b) /\ ~(b < a)
      BY <1>4, <1>7, <3>3
    <3>5. a = b
      BY <3>3, <3>4
    <3> QED
      BY <3>1, <3>2, <3>5
  <2>2. ~inner.sharedModule => \A k \in HeldKeys(inner) : HandleOf(inner, k) # inner.module
    <3> SUFFICES ASSUME ~isShared, NEW k \in HeldKeys(inner) PROVE HandleOf(inner, k) # module
      BY <1>9
    <3>1. module \in DOMAIN dev.memory
      BY DEF Leftover
    <3> QED
      BY <1>3, <1>13, <1>14, <3>1
  <2> QED
    BY <2>1, <2>2 DEF HandlesDistinct
<1>20. SoundProgram(inner)
  BY <1>9, <1>11, <1>12, <1>19 DEF SoundProgram
<1>21. R \cup own \subseteq DOMAIN dev.memory /\ (NoLeakingCalls => DOMAIN dev.memory = R \cup own)
  BY DEF Leftover
<1>22. OwnedHandles(inner) \cap R = {}
  BY <1>3, <1>18, <1>21 DEF HandlesAt
<1>23. Leftover(w, OwnedHandles(inner) \cup R)
  BY <1>3, <1>18, <1>21 DEF Leftover
<1>24. Safe(w, inner, R)
  BY <1>9, <1>15, <1>20, <1>22, <1>23 DEF Safe
<1>25. Cold(inner)
  BY <1>6, <1>9, <1>10, <1>11 DEF Cold
<1> QED
  BY <1>3, <1>8, <1>9, <1>10, <1>15, <1>24, <1>25 DEF Created

\* Every outcome of the loop over the slots.
LEMMA CreateBuffersIs ==
    ASSUME NEW dev, NEW R, NEW name \in Names, Validate(Catalog[name]), NEW share,
           NEW isShared \in BOOLEAN, NEW module,
           isShared => module \in R, ~isShared => module \notin R,
           Leftover(dev, R \cup IF isShared THEN {} ELSE {module}),
           NEW order, Enumerates(order, KeysOf(Catalog[name], "PerProgram")),
           NEW held, DOMAIN held \subseteq KeysOf(Catalog[name], "PerProgram"),
           \A k \in DOMAIN held : held[k] \in R,
           NEW o \in CreateBuffers(dev, name, share, module, isShared, order, held)
    PROVE  Created(o, dev, name, module, isShared, held, R)
<1> DEFINE d == Catalog[name]
           offers == DOMAIN held
           h == HandlesFor(dev, order, held)
           zeroed(n) == {i \in 1..n : order[i] \notin offers /\ NeedsZero(d, order[i])}
           own == IF isShared THEN {} ELSE {module}
           owned(n) == {h[i] : i \in {j \in 1..n : order[j] \notin offers}} \cup own
           N == Cardinality(KeysOf(d, "PerProgram"))
           fails(n, m) == Failed(Freed(WithBuffers(dev, order, held, n, zeroed(m)), owned(m)))
           ends(n) == Done(WithBuffers(dev, order, held, n, zeroed(n)),
                           NewInner(name, module, isShared, Mapping(h, order, n), offers), {})
<1>1. \/ \E n \in 0..Len(order) : o = fails(n, n)
      \/ \E n \in 0..Len(order) : n > 0 /\ MayFail("zero") /\ o = fails(n, n - 1)
      \/ o = ends(Len(order))
  BY Zenon DEF CreateBuffers, NewInner
<1>2. Len(order) = N /\ DOMAIN order = 1..N
  BY DEF Enumerates
<1>3. N \in Nat
  <2>1. IsFiniteSet(KeysOf(d, "PerProgram"))
    BY KeysFinite, FS_Subset DEF KeysOf
  <2> QED
    BY <2>1, FS_CardinalityType
<1>4. \A n : owned(n) = CreatedSoFar(dev, order, held, n, own)
  BY DEF CreatedSoFar, HandlesAt, Fresh
<1>5. R \cap own = {}
  OBVIOUS
<1> HIDE DEF h, owned
<1>6. ASSUME NEW n \in 0..N, NEW m \in 0..n, NoLeakingCalls => m = n, o = fails(n, m)
      PROVE  Created(o, dev, name, module, isShared, held, R)
  <2>1. zeroed(m) \in SUBSET (1..n) /\ \A i \in zeroed(m) : order[i] \notin offers
    BY <1>3
  <2> HIDE DEF zeroed
  <2> DEFINE e == Freed(WithBuffers(dev, order, held, n, zeroed(m)), owned(m))
  <2>2. Undone(e, dev, R)
    <3>1. Leftover(dev, R \cup own)
      OBVIOUS
    <3>2. owned(m) = CreatedSoFar(dev, order, held, m, own)
      BY <1>4
    <3> HIDE DEF own, N, d
    <3> QED
      BY <1>2, <1>3, <1>5, <1>6, <2>1, <3>1, <3>2, CreationFails
  <2>3. o.ok = FALSE /\ o.dev = e
    BY <1>6 DEF Failed
  <2> HIDE DEF e
  <2> QED
    BY <2>2, <2>3 DEF Created, Undone
<1>7. CASE o = ends(Len(order))
  <2>1. zeroed(N) \in SUBSET (1..N) /\ \A i \in zeroed(N) : order[i] \notin offers
    OBVIOUS
  <2>2. o = ends(N)
    BY <1>2, <1>7
  <2> HIDE DEF zeroed
  <2> QED
    BY <1>3, <2>1, <2>2, CreationEnds DEF h
<1>8. ASSUME NEW n \in 0..N, n > 0, MayFail("zero"), o = fails(n, n - 1)
      PROVE  Created(o, dev, name, module, isShared, held, R)
  <2>1. n - 1 \in 0..n /\ ~NoLeakingCalls
    BY <1>3, <1>8 DEF NoLeakingCalls, MayFail
  <2> HIDE DEF fails
  <2> QED
    BY <1>6, <1>8, <2>1
<1>9. ASSUME NEW n \in 0..N, o = fails(n, n)
      PROVE  Created(o, dev, name, module, isShared, held, R)
  <2>1. n \in 0..n
    BY <1>3
  <2> HIDE DEF fails
  <2> QED
    BY <1>6, <1>9, <2>1
<1> HIDE DEF fails, ends
<1> QED
  BY <1>1, <1>2, <1>7, <1>8, <1>9

\* What is offered to a new program is live and belongs to others.
FairShare(share, name, R) ==
    /\ share.image = Catalog[name].image => share.module \in R
    /\ \A k \in DOMAIN OfferedHandles(Catalog[name], share) :
          OfferedHandles(Catalog[name], share)[k] \in R

\* new_with_share.
Born(o, dev, name, share, R) ==
    /\ o.ok \in BOOLEAN
    /\ o.dev.backend = dev.backend /\ o.dev.uploads = dev.uploads
    /\ ~o.ok => Leftover(o.dev, R)
    /\ o.ok => /\ Safe(o.dev, o.inner, R) /\ Cold(o.inner) /\ DOMAIN o.inner.pool = {}
               /\ o.inner.desc = name /\ Catalog[name].backend = dev.backend
               /\ o.inner.sharedModule = (share.image = Catalog[name].image)
               /\ o.inner.sharedModule => o.inner.module = share.module
               /\ o.inner.shared = DOMAIN OfferedHandles(Catalog[name], share)
               /\ \A k \in o.inner.shared :
                     o.inner.buffers[k] = OfferedHandles(Catalog[name], share)[k]
               /\ o.inner.params = FALSE

\* new_with_share frees what it took when it fails, and else returns a safe program.
LEMMA NewIs ==
    ASSUME NEW dev, NEW R, Leftover(dev, R), NEW name \in Names, NEW share,
           FairShare(share, name, R), NEW o \in NewWithShare(dev, name, share)
    PROVE  Born(o, dev, name, share, R)
<1> DEFINE d == Catalog[name]
           isShared == share.image = d.image
           module == IF isShared THEN share.module ELSE NextHandle(dev)
           more == [dev EXCEPT !.loads = @ + 1]
           contents == [x \in {module} |-> "module"]
           loaded == IF isShared THEN dev ELSE Filled(more, contents)
           held == OfferedHandles(d, share)
           order == PerProgramOrder(d)
           own == IF isShared THEN {} ELSE {module}
<1>1. \/ o = Failed(dev)
      \/ /\ d.backend = dev.backend /\ Validate(d)
         /\ o \in CreateBuffers(loaded, name, share, module, isShared, order, held)
  BY Zenon DEF NewWithShare
<1>2. CASE o = Failed(dev)
  <2>1. o.ok = FALSE /\ o.dev = dev
    BY <1>2 DEF Failed
  <2> QED
    BY <2>1 DEF Born
<1>3. CASE d.backend = dev.backend /\ Validate(d)
           /\ o \in CreateBuffers(loaded, name, share, module, isShared, order, held)
  <2>1. isShared \in BOOLEAN
    OBVIOUS
  <2>2. Enumerates(order, KeysOf(d, "PerProgram"))
    BY PerProgramEnumerated
  <2>3. DOMAIN held \subseteq KeysOf(d, "PerProgram") /\ \A k \in DOMAIN held : held[k] \in R
    <3>1. DOMAIN held \subseteq KeysOf(d, "PerProgram")
      BY DEF OfferedHandles
    <3> HIDE DEF held
    <3> QED
      BY <3>1 DEF FairShare, held
  <2>4. isShared => module \in R
    BY DEF FairShare
  <2>5. ~isShared => module = dev.loads + dev.allocs + 1
    BY DEF NextHandle
  <2>6. SoundDevice(dev) /\ R \subseteq DOMAIN dev.memory
    BY DEF Leftover
  <2>7. ~isShared => module \notin DOMAIN dev.memory
    <3> HIDE DEF isShared, module
    <3> QED
      BY <2>5, <2>6 DEF SoundDevice
  <2>8. ~isShared => /\ SoundDevice(loaded)
                     /\ DOMAIN loaded.memory = DOMAIN dev.memory \cup {module}
                     /\ loaded.backend = dev.backend /\ loaded.uploads = dev.uploads
    <3> SUFFICES ASSUME ~isShared
                 PROVE  /\ SoundDevice(Filled(more, contents))
                        /\ DOMAIN Filled(more, contents).memory = DOMAIN dev.memory \cup {module}
                        /\ Filled(more, contents).backend = dev.backend
                        /\ Filled(more, contents).uploads = dev.uploads
      OBVIOUS
    <3>1. /\ DOMAIN more = DOMAIN dev /\ more.loads = dev.loads + 1 /\ more.memory = dev.memory
          /\ more.allocs = dev.allocs /\ more.uploads = dev.uploads
          /\ more.backend = dev.backend
      BY <2>6 DEF SoundDevice
    <3> HIDE DEF more
    <3>2. SoundDevice(more)
      <4>1. \A h \in DOMAIN dev.memory : h \in 1..(dev.loads + 1 + dev.allocs)
        BY <2>6 DEF SoundDevice
      <4>2. \A h \in DOMAIN more.memory : more.memory[h] \in Contents
        BY <2>6, <3>1 DEF SoundDevice
      <4>3. more.loads \in Nat /\ more.allocs \in Nat /\ more.uploads \in Nat
        BY <2>6, <3>1 DEF SoundDevice
      <4>4. DOMAIN more = {"backend", "memory", "loads", "allocs", "uploads"}
        BY <2>6, <3>1 DEF SoundDevice
      <4> QED
        BY <3>1, <4>1, <4>2, <4>3, <4>4 DEF SoundDevice
    <3>3. module \in 1..(more.loads + more.allocs)
      <4> HIDE DEF module, isShared
      <4> QED
        BY <2>5, <2>6, <3>1 DEF SoundDevice
    <3>4. DOMAIN contents = {module} /\ \A x \in DOMAIN contents : contents[x] \in Contents
      BY DEF Contents
    <3> HIDE DEF contents, module, isShared
    <3>5. /\ SoundDevice(Filled(more, contents))
          /\ DOMAIN Filled(more, contents).memory = DOMAIN more.memory \cup DOMAIN contents
          /\ Filled(more, contents).uploads = more.uploads
          /\ Filled(more, contents).backend = more.backend
      BY <3>2, <3>3, <3>4, FilledIs
    <3> QED
      BY <3>1, <3>4, <3>5
  <2>9. isShared => loaded = dev
    OBVIOUS
  <2>e. isShared => module = share.module
    OBVIOUS
  <2> HIDE DEF loaded, module, order, held
  <2>10. Leftover(loaded, R \cup IF isShared THEN {} ELSE {module})
         /\ loaded.backend = dev.backend /\ loaded.uploads = dev.uploads
    <3> HIDE DEF isShared
    <3> QED
      BY <2>6, <2>8, <2>9 DEF Leftover
  <2>11. ~isShared => module \notin R
    BY <2>6, <2>7
  <2>12. Created(o, loaded, name, module, isShared, held, R)
    <3> HIDE DEF isShared
    <3> QED
      BY <1>3, <2>1, <2>2, <2>3, <2>4, <2>10, <2>11, CreateBuffersIs
  <2> QED
    BY <1>3, <2>e, <2>10, <2>12 DEF Created, Born, held
<1> QED
  BY <1>1, <1>2, <1>3

\* A session of its own shares nothing.
LEMMA NoShareIsFair ==
    ASSUME NEW name \in Names, NEW R
    PROVE  /\ DOMAIN OfferedHandles(Catalog[name], NoShare) = {}
           /\ Catalog[name].image # "" => FairShare(NoShare, name, R)
<1>1. DOMAIN OfferedHandles(Catalog[name], NoShare) = {}
  BY DEF OfferedHandles, NoShare
<1>2. NoShare.image = ""
  BY DEF NoShare
<1> QED
  BY <1>1, <1>2 DEF FairShare

\* A non-empty finite set has a last element.
LEMMA LastExists ==
    ASSUME NEW S, IsFiniteSet(S), S # {}, NEW R, StrictOrder(R, S)
    PROVE  \E m \in S : \A x \in S : x = m \/ <<x, m>> \in R
<1> DEFINE above(x) == {y \in S : <<x, y>> \in R}
           counts == {Cardinality(above(x)) : x \in S}
<1>1. \A x \in S : IsFiniteSet(above(x)) /\ Cardinality(above(x)) \in Nat
  <2> TAKE x \in S
  <2>1. IsFiniteSet(above(x))
    <3>1. above(x) \in SUBSET S
      OBVIOUS
    <3> QED
      BY <3>1, FS_Subset
  <2> QED
    BY <2>1, FS_CardinalityType
<1>2. PICK m \in S : \A x \in S : Cardinality(above(m)) <= Cardinality(above(x))
  <2> HIDE DEF above
  <2>1. counts \in SUBSET Nat /\ counts # {}
    BY <1>1
  <2>2. PICK c \in counts : \A k \in counts : c <= k
    <3> HIDE DEF counts
    <3> QED
      BY <2>1, LeastNatural
  <2> QED
    BY <2>2
<1>3. ASSUME NEW x \in S, x # m, <<x, m>> \notin R PROVE FALSE
  <2>1. <<m, x>> \in R
    BY <1>3 DEF StrictOrder
  <2>2. above(x) \in SUBSET above(m) /\ x \in above(m) /\ x \notin above(x)
    BY <2>1 DEF StrictOrder
  <2>3. IsFiniteSet(above(m)) /\ Cardinality(above(x)) \in Nat /\ Cardinality(above(m)) \in Nat
    BY <1>1
  <2> HIDE DEF above
  <2>4. Cardinality(above(x)) <= Cardinality(above(m)) /\ Cardinality(above(x)) # Cardinality(above(m))
    BY <2>2, <2>3, FS_Subset
  <2> QED
    BY <1>2, <2>3, <2>4
<1> QED
  BY <1>3

\* The last of some keys of a descriptor.
LEMMA LastKey ==
    ASSUME NEW name \in Names, NEW S \in SUBSET Keys(Catalog[name]), S # {}
    PROVE  (CHOOSE k \in S : \A j \in S : j = k \/ Precedes(j, k)) \in S
<1> DEFINE R == {p \in S \X S : Precedes(p[1], p[2])}
<1>1. S \in SUBSET (Nat \X Nat) /\ IsFiniteSet(S)
  BY KeysFinite, FS_Subset
<1>2. StrictOrder(R, S)
  BY <1>1, PrecedesOrder
<1>3. \E m \in S : \A x \in S : x = m \/ <<x, m>> \in R
  <2> HIDE DEF R
  <2> QED
    BY <1>1, <1>2, LastExists
<1>4. \E m \in S : \A x \in S : x = m \/ Precedes(x, m)
  BY <1>3
<1> QED
  BY <1>4, Zenon

-----------------------------------------------------------------------------
(* Releasing.                                                               *)

\* Releasing what an open program owns, whether or not what it shares is live.
LEMMA FreedLeaves ==
    ASSUME NEW dev, NEW inner, NEW R, Leftover(dev, OwnedHandles(inner) \cup R),
           OwnedHandles(inner) \cap R = {}, NEW closed, inner.closed = closed, ~closed
    PROVE  Leftover(Teardown(dev, inner), R) /\ Leftover(Release(dev, inner).dev, R)
<1> DEFINE r == ReleaseAllHandles(dev, inner)
           own == OwnedHandles(inner)
<1>1. Teardown(dev, inner) = r.dev /\ Release(dev, inner).dev = r.dev
  BY DEF Teardown, Release, ReleaseAllHandles
<1>2. r.dev = Freed(dev, own)
  BY DEF ReleaseAllHandles
<1> HIDE DEF r, own
<1>3. SoundDevice(dev) /\ own \cup R \subseteq DOMAIN dev.memory
      /\ (NoLeakingCalls => DOMAIN dev.memory = own \cup R) /\ own \cap R = {}
  BY DEF Leftover, own
<1>4. SoundDevice(Freed(dev, own)) /\ DOMAIN Freed(dev, own).memory = DOMAIN dev.memory \ own
  BY <1>3, FreedIs
<1>5. Leftover(r.dev, R)
  BY <1>2, <1>3, <1>4 DEF Leftover
<1> QED
  BY <1>1, <1>5

\* Teardown and release of the only program leave nothing.
LEMMA TeardownSole ==
    ASSUME NEW dev, NEW inner, Sole(dev, inner)
    PROVE  /\ Leftover(Teardown(dev, inner), {})
           /\ Leftover(IF inner.closed THEN dev ELSE Release(dev, inner).dev, {})
<1>1. CASE Safe(dev, inner, {})
  <2>1. inner.closed = FALSE /\ Leftover(dev, OwnedHandles(inner) \cup {})
    BY <1>1 DEF Safe, SoundProgram
  <2> QED
    BY <2>1, FreedLeaves
<1>2. CASE ClosedProgram(inner) /\ Leftover(dev, {})
  BY <1>2 DEF ClosedProgram, Teardown
<1> QED
  BY <1>1, <1>2 DEF Sole

\* A closed program refuses to run.
LEMMA ClosedRefuses ==
    ASSUME NEW dev, NEW inner, inner.closed = TRUE
    PROVE  /\ \A bytes, sized, supplied :
                 Execute(dev, inner, bytes, sized, supplied) = {Refused(dev, inner)}
           /\ \A keep : ExecuteStep(dev, inner, keep) = {Refused(dev, inner)}
           /\ ReadEndOfRun(dev, inner) = {Refused(dev, inner)}
           /\ \A supplied : ExecuteResidentStep(dev, inner, supplied) = {Refused(dev, inner)}
           /\ ClearResidentState(dev, inner) = {Refused(dev, inner)}
<1>1. \A bytes, sized, supplied :
         Execute(dev, inner, bytes, sized, supplied) = {Refused(dev, inner)}
  BY DEF Execute
<1>2. \A keep : ExecuteStep(dev, inner, keep) = {Refused(dev, inner)}
  BY DEF ExecuteStep
<1>3. ReadEndOfRun(dev, inner) = {Refused(dev, inner)}
  BY DEF ReadEndOfRun, EndOfRunReadable
<1>4. \A supplied : ExecuteResidentStep(dev, inner, supplied) = {Refused(dev, inner)}
  BY DEF ExecuteResidentStep
<1>5. ClearResidentState(dev, inner) = {Refused(dev, inner)}
  BY DEF ClearResidentState
<1> QED
  BY <1>1, <1>2, <1>3, <1>4, <1>5

-----------------------------------------------------------------------------
(* The sessions on one program.                                             *)

\* No session is open, and nothing is live.
IdleHandles(dev, prog) == prog = NoPrograms /\ Leftover(dev, {})

\* A program session: its program is open and safe, or closed and nothing is
\* live; it pools nothing.
ProgramHandles(dev, prog) ==
    /\ DOMAIN prog = {"main"} /\ Sole(dev, prog["main"])
    /\ DOMAIN prog["main"].pool = {}

\* The counters of a prepared session: what prepare uploaded, and while the
\* program is open nothing loaded and only the first step's buffers allocated.
Metered(dev, inner, c) ==
    /\ dev.uploads = c.uploadsAt + Cardinality(Params(Desc(inner)))
    /\ ~inner.closed =>
          /\ dev.loads = c.loadsAt
          /\ IF c.reuses = 0
             THEN Cold(inner) /\ dev.allocs = c.allocsAt
             ELSE /\ Warm(inner)
                  /\ dev.allocs = c.allocsAt + Cardinality(PerExecution(Desc(inner)))
PreparedFields == {"kind", "pc", "steps", "reuses", "resets", "loadsAt", "allocsAt",
                   "uploadsAt", "first", "afterReset"}
PreparedHandles(dev, prog, c) ==
    /\ DOMAIN c = PreparedFields /\ c.reuses \in Nat /\ c.loadsAt \in Nat /\ c.allocsAt \in Nat
    /\ DOMAIN prog = {"main"} /\ Sole(dev, prog["main"]) /\ Metered(dev, prog["main"], c)

\* new_with_share for a session of its own.
LEMMA NewAlone ==
    ASSUME NEW dev, Leftover(dev, {}), NEW name \in Names,
           NEW o \in NewWithShare(dev, name, NoShare)
    PROVE  /\ Born(o, dev, name, NoShare, {})
           /\ o.ok => o.inner.shared = {} /\ o.inner.sharedModule = FALSE
<1>1. CASE Catalog[name].image = ""
  <2>1. ~Validate(Catalog[name])
    BY <1>1 DEF Validate, ValidatedLaunchesAndRoots
  <2>2. o = Failed(dev)
    BY <2>1 DEF NewWithShare
  <2> QED
    BY <2>2 DEF Failed, Born
<1>2. CASE Catalog[name].image # ""
  <2>1. FairShare(NoShare, name, {}) /\ DOMAIN OfferedHandles(Catalog[name], NoShare) = {}
    BY <1>2, NoShareIsFair
  <2>2. Born(o, dev, name, NoShare, {})
    BY <2>1, NewIs
  <2>3. NoShare.image = ""
    BY DEF NoShare
  <2> QED
    BY <1>2, <2>1, <2>2, <2>3 DEF Born
<1> QED
  BY <1>1, <1>2

\* create_program_session.
LEMMA CreateSafe ==
    ASSUME IdleHandles(device, program), client = NoClient, CreateProgramSession
    PROVE  \/ client' = NoClient /\ IdleHandles(device', program')
           \/ client'.kind = "program" /\ ProgramHandles(device', program')
<1>0. PICK name \in Names : \E o \in NewWithShare(device, name, NoShare) :
        OpenedWith(o, [kind |-> "program", pc |-> "idle", steps |-> 0])
  BY DEF CreateProgramSession
<1>1. PICK o \in NewWithShare(device, name, NoShare) :
        OpenedWith(o, [kind |-> "program", pc |-> "idle", steps |-> 0])
  BY <1>0
<1>2. Born(o, device, name, NoShare, {})
  BY NewAlone DEF IdleHandles
<1>3. CASE o.ok
  <2>1. /\ client'.kind = "program" /\ device' = o.dev
        /\ program' = [main |-> o.inner]
    BY <1>1, <1>3 DEF OpenedWith, Only
  <2>2. DOMAIN program' = {"main"} /\ program'["main"] = o.inner
    BY <2>1
  <2> QED
    BY <1>2, <1>3, <2>1, <2>2 DEF Born, ProgramHandles, Sole
<1>4. CASE ~o.ok
  BY <1>1, <1>2, <1>4 DEF OpenedWith, Born, IdleHandles
<1> QED
  BY <1>3, <1>4

\* execute_descriptor.
LEMMA OneShotSafe ==
    ASSUME IdleHandles(device, program), ExecuteDescriptor
    PROVE  IdleHandles(device', program') /\ UNCHANGED client
<1>0. PICK name \in OneShots, supplied \in BOOLEAN :
        \E o \in NewWithShare(device, name, NoShare) :
        IF ~o.ok THEN device' = o.dev /\ UNCHANGED reads
        ELSE \E e \in Execute(o.dev, o.inner, {}, TRUE, supplied) :
                /\ device' = IF e.ok THEN Teardown(e.dev, e.inner) ELSE e.dev
                /\ reads' = e.reads
  BY DEF ExecuteDescriptor
<1>1. PICK o \in NewWithShare(device, name, NoShare) :
        IF ~o.ok THEN device' = o.dev
        ELSE \E e \in Execute(o.dev, o.inner, {}, TRUE, supplied) :
                device' = IF e.ok THEN Teardown(e.dev, e.inner) ELSE e.dev
  BY <1>0
<1>2. UNCHANGED <<program, client>>
  BY DEF ExecuteDescriptor
<1>3. name \in Names
  BY HostAssumption
<1>4. Born(o, device, name, NoShare, {})
  BY <1>3, NewAlone DEF IdleHandles
<1>5. CASE ~o.ok
  BY <1>1, <1>2, <1>4, <1>5 DEF Born, IdleHandles
<1>6. CASE o.ok
  <2>1. PICK e \in Execute(o.dev, o.inner, {}, TRUE, supplied) :
          device' = IF e.ok THEN Teardown(e.dev, e.inner) ELSE e.dev
    BY <1>1, <1>6
  <2>2. Safe(o.dev, o.inner, {}) /\ DOMAIN o.inner.pool = {} /\ o.inner.desc = name
    BY <1>4, <1>6 DEF Born
  <2>3. /\ Settled(e, o.dev, o.inner, {})
        /\ ~e.ok => Desc(o.inner).repeating \/ Leftover(e.dev, {})
    BY <2>2, ExecuteIs
  <2>4. CASE e.ok
    <3>1. Sole(e.dev, e.inner)
      BY <2>2, <2>3, SettledSole
    <3>2. Leftover(device', {})
      BY <2>1, <2>4, <3>1, TeardownSole
    <3> QED
      BY <1>2, <3>2 DEF IdleHandles
  <2>5. CASE ~e.ok
    <3>1. device' = e.dev /\ Sole(e.dev, e.inner)
      BY <2>1, <2>2, <2>3, <2>5, SettledSole
    <3>2. SoundDevice(device')
      BY <3>1 DEF Sole, Safe, Leftover
    <3>3. NoLeakingCalls => Leftover(device', {})
      BY <2>2, <2>3, <2>5, <3>1 DEF NoLeakingCalls, Desc
    <3>4. Leftover(device', {})
      BY <3>2, <3>3 DEF Leftover
    <3> QED
      BY <1>2, <3>4 DEF IdleHandles
  <2> QED
    BY <2>4, <2>5
<1> QED
  BY <1>5, <1>6

\* What an outcome of a program's handler leaves, open program or closed.
SoleAfter(o) == Sole(o.dev, o.inner) /\ DOMAIN o.inner.pool = {}

\* The weights a program session is offered.
LEMMA PresentedWeights ==
    ASSUME NEW inner, inner.desc \in Names
    PROVE  \A bytes \in {{}, ParamIds(Desc(inner))} : bytes \in SUBSET Nat /\ IsFiniteSet(bytes)
<1>1. ParamIds(Desc(inner)) \in SUBSET Nat /\ IsFiniteSet(ParamIds(Desc(inner)))
  BY ParamsFinite DEF ParamIds, Desc
<1> QED
  BY <1>1, FS_EmptySet

\* The handlers of a program session.
LEMMA ProgramStepIs ==
    ASSUME NEW dev, NEW inner, Sole(dev, inner), DOMAIN inner.pool = {}, NEW o,
           \/ \E bytes \in {{}, ParamIds(Desc(inner))} : \E given, sized :
                 o \in InitParams(dev, inner, bytes, given, sized)
           \/ \E bytes, sized : \E supplied \in BOOLEAN : o \in Execute(dev, inner, bytes, sized, supplied)
           \/ \E keep : o \in ExecuteStep(dev, inner, keep)
           \/ o \in ReadEndOfRun(dev, inner)
    PROVE  SoleAfter(o)
<1>1. CASE Safe(dev, inner, {})
  <2>1. ASSUME NEW bytes \in {{}, ParamIds(Desc(inner))}, NEW given, NEW sized,
               o \in InitParams(dev, inner, bytes, given, sized)
        PROVE  SoleAfter(o)
    <3>1. bytes \in SUBSET Nat /\ IsFiniteSet(bytes)
      BY <1>1, PresentedWeights DEF Safe, SoundProgram
    <3>2. Initialized(o, dev, inner, {})
      BY <1>1, <2>1, <3>1, InitParamsIs
    <3>3. Settled(o, dev, inner, {}) /\ (o.ok => o.inner.pool = inner.pool)
      BY <3>2 DEF Initialized
    <3>4. DOMAIN o.inner.pool = {}
      BY <3>3 DEF Settled, Shut, ClosedProgram
    <3>5. Sole(o.dev, o.inner)
      BY <1>1, <3>3, SettledSole
    <3> QED
      BY <3>4, <3>5 DEF SoleAfter
  <2>2. ASSUME Settled(o, dev, inner, {}) /\ DOMAIN o.inner.pool = {}
        PROVE  SoleAfter(o)
    BY <1>1, <2>2, SettledSole DEF SoleAfter
  <2>3. CASE \E bytes, sized : \E supplied \in BOOLEAN : o \in Execute(dev, inner, bytes, sized, supplied)
    BY <1>1, <2>2, <2>3, ExecuteIs
  <2>4. CASE \E keep : o \in ExecuteStep(dev, inner, keep)
    BY <1>1, <2>2, <2>4, ExecuteStepIs
  <2>5. CASE o \in ReadEndOfRun(dev, inner)
    BY <1>1, <2>2, <2>5, ReadEndOfRunIs
  <2> QED
    BY <2>1, <2>3, <2>4, <2>5
<1>2. CASE ClosedProgram(inner) /\ inner.desc \in Names /\ Leftover(dev, {})
  <2>1. inner.closed = TRUE
    BY <1>2 DEF ClosedProgram
  <2>2. ASSUME NEW bytes, NEW given, NEW sized, o \in InitParams(dev, inner, bytes, given, sized)
        PROVE  SoleAfter(o)
    <3>1. ClosedProgram(o.inner) /\ o.inner.desc \in Names /\ Leftover(o.dev, {})
      BY <1>2, <2>2, ClosedInitIs
    <3> QED
      BY <3>1 DEF SoleAfter, Sole, ClosedProgram
  <2>3. ASSUME o.dev = dev, o.inner = inner PROVE SoleAfter(o)
    BY <2>3 DEF SoleAfter
  <2>4. CASE \/ \E bytes, sized : \E supplied \in BOOLEAN : o \in Execute(dev, inner, bytes, sized, supplied)
             \/ \E keep : o \in ExecuteStep(dev, inner, keep)
             \/ o \in ReadEndOfRun(dev, inner)
    <3>1. o = Refused(dev, inner)
      <4>1. \A bytes, sized, supplied :
               Execute(dev, inner, bytes, sized, supplied) = {Refused(dev, inner)}
        BY <2>1, ClosedRefuses
      <4>2. \A keep : ExecuteStep(dev, inner, keep) = {Refused(dev, inner)}
        BY <2>1, ClosedRefuses
      <4>3. ReadEndOfRun(dev, inner) = {Refused(dev, inner)}
        BY <2>1, ClosedRefuses
      <4> QED
        BY <2>4, <4>1, <4>2, <4>3
    <3> QED
      BY <2>3, <3>1, RefusedIs
  <2> QED
    BY <2>2, <2>4
<1> QED
  BY <1>1, <1>2 DEF Sole

\* The handlers of a program session as steps of the host.
LEMMA ProgramSafe ==
    ASSUME ProgramHandles(device, program), client.kind = "program", "kind" \in DOMAIN client,
           ProgramInitParams \/ ProgramExecute \/ ProgramExecuteStep \/ ProgramReadEndOfRun
    PROVE  ProgramHandles(device', program') /\ client'.kind = "program"
<1> DEFINE inner == program["main"]
<1>1. client' = [client EXCEPT !.steps = @ + 1]
  BY DEF ProgramInitParams, ProgramExecute, ProgramExecuteStep, ProgramReadEndOfRun, Step
<1>2. client'.kind = "program"
  BY <1>1
<1>3. PICK o :
        /\ Apply(o)
        /\ \/ \E bytes \in {{}, ParamIds(Desc(inner))} : \E given, sized :
                 o \in InitParams(device, inner, bytes, given, sized)
           \/ \E bytes, sized : \E supplied \in BOOLEAN : o \in Execute(device, inner, bytes, sized, supplied)
           \/ \E keep : o \in ExecuteStep(device, inner, keep)
           \/ o \in ReadEndOfRun(device, inner)
  <2>1. CASE ProgramInitParams
    <3>1. PICK bytes \in {{}, ParamIds(Desc(inner))}, sized \in BOOLEAN :
              \E given \in Offers(ParamIds(Desc(inner)) \ bytes) :
               Step(InitParams(device, inner, bytes, given, sized))
      BY <2>1 DEF ProgramInitParams
    <3> QED
      BY <3>1 DEF Step
  <2>2. CASE ProgramExecute
    <3>1. PICK bytes \in {{}, ParamIds(Desc(inner))}, sized \in BOOLEAN, supplied \in BOOLEAN :
               Step(Execute(device, inner, bytes, sized, supplied))
      BY <2>2 DEF ProgramExecute
    <3> QED
      BY <3>1 DEF Step
  <2>3. CASE ProgramExecuteStep
    BY <2>3 DEF ProgramExecuteStep, Step
  <2>4. CASE ProgramReadEndOfRun
    BY <2>4 DEF ProgramReadEndOfRun, Step
  <2> QED
    BY <2>1, <2>2, <2>3, <2>4
<1>4. SoleAfter(o)
  BY <1>3, ProgramStepIs DEF ProgramHandles
<1>5. device' = o.dev /\ program' = [main |-> o.inner]
  BY <1>3 DEF Apply, Only
<1>6. DOMAIN program' = {"main"} /\ program'["main"] = o.inner
  BY <1>5
<1> QED
  BY <1>2, <1>4, <1>5, <1>6 DEF SoleAfter, ProgramHandles

\* The payloads a caller may present are finite sets of buffers.
LEMMA PresentedIs ==
    ASSUME NEW ids \in SUBSET Nat, IsFiniteSet(ids), NEW w \in Presented(ids)
    PROVE  w.bytes \in SUBSET Nat /\ IsFiniteSet(w.bytes)
<1>1. w.bytes \in SUBSET ids
  BY DEF Presented, Offers
<1> QED
  BY <1>1, FS_Subset

\* prepare and prepare_with_weight_bytes.
LEMMA PrepareSafe ==
    ASSUME IdleHandles(device, program), client = NoClient, PrepareResident
    PROVE  \/ client' = NoClient /\ IdleHandles(device', program')
           \/ client'.kind = "prepared" /\ PreparedHandles(device', program', client')
<1> DEFINE session(o, i) ==
               [kind |-> "prepared", pc |-> "idle", steps |-> 0,
                reuses |-> 0, resets |-> 0, loadsAt |-> i.dev.loads,
                allocsAt |-> i.dev.allocs, uploadsAt |-> o.dev.uploads,
                first |-> {}, afterReset |-> TRUE]
<1>0. PICK name \in {n \in Names : CanPrepare(Catalog[n])} :
        \E o \in NewWithShare(device, name, NoShare), w \in Presented(ParamIds(Catalog[name])) :
          IF ~o.ok THEN OpenedWith(o, NoClient)
          ELSE \E i \in InitParams(o.dev, o.inner, w.bytes, w.given, TRUE) :
                  OpenedWith(i, session(o, i))
  BY DEF PrepareResident
<1> HIDE DEF session
<1>1. PICK o \in NewWithShare(device, name, NoShare), w \in Presented(ParamIds(Catalog[name])) :
          IF ~o.ok THEN OpenedWith(o, NoClient)
          ELSE \E i \in InitParams(o.dev, o.inner, w.bytes, w.given, TRUE) :
                  OpenedWith(i, session(o, i))
  BY <1>0
<1>2. /\ Born(o, device, name, NoShare, {})
      /\ o.ok => o.inner.shared = {} /\ o.inner.sharedModule = FALSE
  BY NewAlone DEF IdleHandles
<1>3. CASE ~o.ok
  BY <1>1, <1>2, <1>3 DEF OpenedWith, Born, IdleHandles
<1>4. CASE o.ok
  <2>1. PICK i \in InitParams(o.dev, o.inner, w.bytes, w.given, TRUE) : OpenedWith(i, session(o, i))
    BY <1>1, <1>4
  <2>2. w.bytes \in SUBSET Nat /\ IsFiniteSet(w.bytes)
    <3>1. ParamIds(Catalog[name]) \in SUBSET Nat /\ IsFiniteSet(ParamIds(Catalog[name]))
      BY ParamsFinite DEF ParamIds
    <3> QED
      BY <3>1, PresentedIs
  <2>3. /\ Safe(o.dev, o.inner, {}) /\ Cold(o.inner) /\ DOMAIN o.inner.pool = {}
        /\ o.inner.desc = name /\ o.inner.params = FALSE
    BY <1>2, <1>4 DEF Born
  <2>4. Initialized(i, o.dev, o.inner, {})
    BY <2>2, <2>3, InitParamsIs
  <2>5. Desc(o.inner) = Catalog[name] /\ Catalog[name].repeating
    BY <2>3 DEF Desc, CanPrepare
  <2>6. CASE ~i.ok
    <3>1. Leftover(i.dev, {})
      BY <2>3, <2>4, <2>5, <2>6 DEF Initialized, Shut
    <3> QED
      BY <2>1, <2>6, <3>1 DEF OpenedWith, IdleHandles
  <2>7. CASE i.ok
    <3>1. Kept(i.dev, i.inner, o.dev, o.inner, {})
      BY <2>4, <2>7 DEF Initialized, Settled, Shut
    <3>2. /\ i.dev.uploads = o.dev.uploads + Cardinality(Params(Desc(o.inner)))
          /\ i.inner.buffers = o.inner.buffers /\ i.inner.pool = o.inner.pool
      <4>1. Params(Desc(o.inner)) \ o.inner.shared = Params(Desc(o.inner))
        BY <1>2, <1>4
      <4> QED
        BY <2>4, <2>7, <4>1 DEF Initialized
    <3>3. i.inner.desc = o.inner.desc /\ Safe(i.dev, i.inner, {}) /\ SoundDevice(i.dev)
      BY <3>1 DEF Kept, SameShare, Safe, Leftover
    <3>4. Desc(i.inner) = Desc(o.inner) /\ Cold(i.inner)
      BY <2>3, <3>2, <3>3 DEF Desc, Cold
    <3>5. /\ device' = i.dev /\ program' = [main |-> i.inner] /\ client' = session(o, i)
      BY <2>1, <2>7 DEF OpenedWith, Only
    <3>6. DOMAIN program' = {"main"} /\ program'["main"] = i.inner
      BY <3>5
    <3>7. /\ DOMAIN client' = PreparedFields /\ client'.kind = "prepared"
          /\ client'.reuses = 0 /\ client'.loadsAt = i.dev.loads
          /\ client'.allocsAt = i.dev.allocs /\ client'.uploadsAt = o.dev.uploads
      BY <3>5 DEF session, PreparedFields
    <3>8. Metered(i.dev, i.inner, client')
      BY <3>2, <3>4, <3>7 DEF Metered
    <3>9. PreparedHandles(i.dev, program', client')
      BY <3>3, <3>6, <3>7, <3>8 DEF PreparedHandles, Sole, SoundDevice
    <3> QED
      BY <3>5, <3>7, <3>9
  <2> QED
    BY <2>6, <2>7
<1> QED
  BY <1>3, <1>4

\* execute_step of a prepared session.
LEMMA PreparedStepSafe ==
    ASSUME PreparedHandles(device, program, client), client.kind = "prepared", PreparedStep
    PROVE  client'.kind = "prepared" /\ PreparedHandles(device', program', client')
<1> DEFINE inner == program["main"]
<1>1. PICK supplied \in BOOLEAN : \E o \in ExecuteResidentStep(device, inner, supplied) :
        /\ Apply(o)
        /\ client' = [client EXCEPT
                 !.steps = @ + 1,
                 !.reuses = IF o.ok THEN @ + 1 ELSE @,
                 !.first = IF o.ok /\ @ = {} THEN o.reads ELSE @,
                 !.afterReset = FALSE]
  BY DEF PreparedStep
<1>2. PICK o \in ExecuteResidentStep(device, inner, supplied) :
        /\ Apply(o)
        /\ client' = [client EXCEPT
                 !.steps = @ + 1,
                 !.reuses = IF o.ok THEN @ + 1 ELSE @,
                 !.first = IF o.ok /\ @ = {} THEN o.reads ELSE @,
                 !.afterReset = FALSE]
  BY <1>1
<1>3. device' = o.dev /\ program' = [main |-> o.inner]
  BY <1>2 DEF Apply, Only
<1>4. DOMAIN program' = {"main"} /\ program'["main"] = o.inner
  BY <1>3
<1>5. /\ DOMAIN client = PreparedFields /\ client.reuses \in Nat
      /\ client.loadsAt \in Nat /\ client.allocsAt \in Nat
      /\ Sole(device, inner) /\ Metered(device, inner, client)
  BY DEF PreparedHandles
<1>6. /\ DOMAIN client' = PreparedFields /\ client'.kind = client.kind
      /\ client'.reuses = (IF o.ok THEN client.reuses + 1 ELSE client.reuses)
      /\ client'.loadsAt = client.loadsAt /\ client'.allocsAt = client.allocsAt
      /\ client'.uploadsAt = client.uploadsAt
  BY <1>2, <1>5 DEF PreparedFields
<1> HIDE DEF inner
<1>7. CASE Safe(device, inner, {})
  <2>1. Stepped(o, device, inner, {})
    BY <1>7, ResidentStepIs
  <2>2. Settled(o, device, inner, {}) /\ o.dev.uploads = device.uploads /\ o.ok \in BOOLEAN
    BY <2>1 DEF Stepped, Settled
  <2>3. Sole(o.dev, o.inner)
    BY <1>7, <2>2, SettledSole
  <2>4. inner.closed = FALSE /\ inner.desc \in Names
    BY <1>7 DEF Safe, SoundProgram
  <2>5. o.inner.desc = inner.desc /\ Desc(o.inner) = Desc(inner)
    BY <2>2 DEF Settled, Shut, Kept, SameShare, Desc
  <2>6. CASE o.ok
    <3>1. Kept(o.dev, o.inner, device, inner, {}) /\ Warm(o.inner)
      BY <2>1, <2>2, <2>6 DEF Settled, Shut, Stepped
    <3>2. o.dev.loads = device.loads
      BY <3>1 DEF Kept
    <3>3. o.dev.allocs = client.allocsAt + Cardinality(PerExecution(Desc(inner)))
      BY <1>5, <2>1, <2>4, <2>6 DEF Stepped, Metered
    <3>4. client'.reuses \in Nat /\ client'.reuses # 0
      BY <1>5, <1>6, <2>6
    <3>5. Metered(o.dev, o.inner, client')
      BY <1>5, <1>6, <2>2, <2>4, <2>5, <3>1, <3>2, <3>3, <3>4 DEF Metered
    <3> QED
      BY <1>3, <1>4, <1>5, <1>6, <2>3, <3>4, <3>5 DEF PreparedHandles
  <2>7. CASE ~o.ok
    <3>1. (o.dev = device /\ o.inner = inner) \/ o.inner.closed = TRUE
      BY <2>2, <2>7 DEF Settled, Shut, ClosedProgram
    <3>2. Metered(o.dev, o.inner, client')
      BY <1>5, <1>6, <2>2, <2>5, <2>7, <3>1 DEF Metered
    <3> QED
      BY <1>3, <1>4, <1>5, <1>6, <2>3, <2>7, <3>2 DEF PreparedHandles
  <2> QED
    BY <2>6, <2>7
<1>8. CASE ClosedProgram(inner) /\ inner.desc \in Names /\ Leftover(device, {})
  <2>1. \A s : ExecuteResidentStep(device, inner, s) = {Refused(device, inner)}
    BY <1>8, ClosedRefuses DEF ClosedProgram
  <2>2. o.ok = FALSE /\ o.dev = device /\ o.inner = inner
    BY <2>1 DEF Refused
  <2>3. Metered(o.dev, o.inner, client')
    BY <1>5, <1>6, <2>2 DEF Metered
  <2> QED
    BY <1>3, <1>4, <1>5, <1>6, <2>2, <2>3 DEF PreparedHandles
<1> QED
  BY <1>5, <1>7, <1>8 DEF Sole

\* reset_prompt.
LEMMA ResetSafe ==
    ASSUME PreparedHandles(device, program, client), client.kind = "prepared", ResetPrompt
    PROVE  client'.kind = "prepared" /\ PreparedHandles(device', program', client')
<1> DEFINE inner == program["main"]
<1>1. PICK o \in ClearResidentState(device, inner) :
        /\ Apply(o)
        /\ client' = [client EXCEPT !.steps = @ + 1,
                                    !.resets = IF o.ok THEN @ + 1 ELSE @,
                                    !.afterReset = o.ok]
  BY DEF ResetPrompt
<1>3. device' = o.dev /\ program' = [main |-> o.inner]
  BY <1>1 DEF Apply, Only
<1>4. DOMAIN program' = {"main"} /\ program'["main"] = o.inner
  BY <1>3
<1>5. /\ DOMAIN client = PreparedFields /\ client.reuses \in Nat
      /\ client.loadsAt \in Nat /\ client.allocsAt \in Nat
      /\ Sole(device, inner) /\ Metered(device, inner, client)
  BY DEF PreparedHandles
<1>6. /\ DOMAIN client' = PreparedFields /\ client'.kind = client.kind
      /\ client'.reuses = client.reuses
      /\ client'.loadsAt = client.loadsAt /\ client'.allocsAt = client.allocsAt
      /\ client'.uploadsAt = client.uploadsAt
  BY <1>1, <1>5 DEF PreparedFields
<1> HIDE DEF inner
<1>7. CASE Safe(device, inner, {})
  <2>1. /\ Settled(o, device, inner, {}) /\ o.dev.uploads = device.uploads
        /\ o.ok => o.inner = inner /\ o.dev.allocs = device.allocs
    BY <1>7, ClearIs
  <2>2. Sole(o.dev, o.inner)
    BY <1>7, <2>1, SettledSole
  <2>3. o.inner.desc = inner.desc /\ Desc(o.inner) = Desc(inner)
    BY <2>1 DEF Settled, Shut, Kept, SameShare, Desc
  <2>4. \/ o.dev = device /\ o.inner = inner
        \/ o.inner = inner /\ o.dev.loads = device.loads /\ o.dev.allocs = device.allocs
        \/ o.inner.closed = TRUE
    BY <2>1 DEF Settled, Shut, Kept, ClosedProgram
  <2>5. Metered(o.dev, o.inner, client')
    BY <1>5, <1>6, <2>1, <2>3, <2>4 DEF Metered
  <2> QED
    BY <1>3, <1>4, <1>5, <1>6, <2>2, <2>5 DEF PreparedHandles
<1>8. CASE ClosedProgram(inner) /\ inner.desc \in Names /\ Leftover(device, {})
  <2>1. ClearResidentState(device, inner) = {Refused(device, inner)}
    BY <1>8, ClosedRefuses DEF ClosedProgram
  <2>2. o.ok = FALSE /\ o.dev = device /\ o.inner = inner
    BY <2>1 DEF Refused
  <2>3. Metered(o.dev, o.inner, client')
    BY <1>5, <1>6, <2>2 DEF Metered
  <2> QED
    BY <1>3, <1>4, <1>5, <1>6, <2>2, <2>3 DEF PreparedHandles
<1> QED
  BY <1>5, <1>7, <1>8 DEF Sole

\* teardown of a program session and of a prepared one.
LEMMA TeardownSafe ==
    ASSUME ProgramTeardown => Sole(device, program["main"]),
           PreparedTeardown => Sole(device, program["main"]),
           ProgramTeardown \/ PreparedTeardown
    PROVE  client' = NoClient /\ IdleHandles(device', program')
<1>1. CASE ProgramTeardown
  <2>1. Leftover(Teardown(device, program["main"]), {})
    BY <1>1, TeardownSole
  <2> QED
    BY <1>1, <2>1 DEF ProgramTeardown, IdleHandles
<1>2. CASE PreparedTeardown
  <2>1. Leftover(IF program["main"].closed THEN device
                 ELSE Release(device, program["main"]).dev, {})
    BY <1>2, TeardownSole
  <2> QED
    BY <1>2, <2>1 DEF PreparedTeardown, IdleHandles
<1> QED
  BY <1>1, <1>2

-----------------------------------------------------------------------------
(* The two programs of a paired session.                                    *)

\* What the decode program shares is a PerProgram buffer, or the module, of
\* the prefill program.
SharedFrom(decode, main) ==
    /\ \A k \in decode.shared :
          \E j \in KeysOf(Desc(main), "PerProgram") : decode.buffers[k] = main.buffers[j]
    /\ decode.sharedModule => decode.module = main.module

\* Both programs open: the prefill program shares nothing, the decode program
\* only with it, and what each owns is live and its own.
Paired(dev, main, decode) ==
    /\ SoundProgram(main) /\ SoundProgram(decode)
    /\ Leftover(dev, OwnedHandles(main) \cup OwnedHandles(decode))
    /\ OwnedHandles(main) \cap OwnedHandles(decode) = {}
    /\ main.shared = {} /\ main.sharedModule = FALSE
    /\ SharedFrom(decode, main)

\* A program that shares nothing owns its module and its PerProgram buffers.
LEMMA OwnsMapped ==
    ASSUME NEW main, SoundProgram(main), main.shared = {}, main.sharedModule = FALSE
    PROVE  /\ main.module \in OwnedHandles(main)
           /\ \A k \in DOMAIN main.buffers : main.buffers[k] \in OwnedHandles(main)
           /\ KeysOf(Desc(main), "PerProgram") \subseteq DOMAIN main.buffers
<1>1. main.module \in OwnedHandles(main)
  BY DEF OwnedHandles
<1>2. \A k \in DOMAIN main.buffers : main.buffers[k] \in OwnedHandles(main)
  BY DEF OwnedHandles, OwnedBuffers, Handles
<1>3. KeysOf(Desc(main), "PerProgram") \subseteq DOMAIN main.buffers
  BY DEF SoundProgram, MapsSound
<1> QED
  BY <1>1, <1>2, <1>3

\* Each program of a pair is safe beside the handles of the other.
LEMMA PairedSafe ==
    ASSUME NEW dev, NEW main, NEW decode, Paired(dev, main, decode)
    PROVE  /\ Safe(dev, main, OwnedHandles(decode))
           /\ Safe(dev, decode, OwnedHandles(main))
<1> DEFINE A == OwnedHandles(main)
           B == OwnedHandles(decode)
<1>1. /\ SoundProgram(main) /\ SoundProgram(decode) /\ Leftover(dev, A \cup B) /\ A \cap B = {}
      /\ main.shared = {} /\ main.sharedModule = FALSE /\ SharedFrom(decode, main)
  BY DEF Paired
<1>2. /\ main.module \in A /\ \A k \in DOMAIN main.buffers : main.buffers[k] \in A
      /\ KeysOf(Desc(main), "PerProgram") \subseteq DOMAIN main.buffers
  BY <1>1, OwnsMapped
<1> HIDE DEF A, B
<1>3. A \cup B = B \cup A
  OBVIOUS
<1>4. Safe(dev, main, B)
  BY <1>1 DEF Safe, A, B
<1>5. \A k \in decode.shared : decode.buffers[k] \in A
  BY <1>1, <1>2 DEF SharedFrom
<1>6. decode.sharedModule => decode.module \in A
  BY <1>1, <1>2 DEF SharedFrom
<1>7. Leftover(dev, B \cup A) /\ B \cap A = {}
  BY <1>1, <1>3
<1>8. Safe(dev, decode, A)
  BY <1>1, <1>5, <1>6, <1>7 DEF Safe, B
<1> QED
  BY <1>4, <1>8 DEF A, B

\* One of them runs.
LEMMA MainSteps ==
    ASSUME NEW dev, NEW main, NEW decode, Paired(dev, main, decode),
           NEW e, NEW next, Kept(e, next, dev, main, OwnedHandles(decode))
    PROVE  Paired(e, next, decode)
<1>1. /\ SoundProgram(next) /\ Leftover(e, OwnedHandles(next) \cup OwnedHandles(decode))
      /\ OwnedHandles(next) \cap OwnedHandles(decode) = {}
  BY DEF Kept, Safe
<1>2. next.shared = {} /\ next.sharedModule = FALSE /\ next.desc = main.desc
      /\ next.module = main.module
      /\ \A k \in KeysOf(Desc(main), "PerProgram") : next.buffers[k] = main.buffers[k]
  BY DEF Kept, SameShare, Paired
<1>3. Desc(next) = Desc(main)
  BY <1>2 DEF Desc
<1>4. SharedFrom(decode, next)
  BY <1>2, <1>3 DEF SharedFrom, Paired
<1> QED
  BY <1>1, <1>2, <1>4 DEF Paired

\* The decode program runs: the prefill program keeps what they share.
LEMMA DecodeSteps ==
    ASSUME NEW dev, NEW main, NEW decode, Paired(dev, main, decode),
           NEW e, NEW next, Kept(e, next, dev, decode, OwnedHandles(main))
    PROVE  Paired(e, main, next)
<1>1. /\ SoundProgram(next) /\ Leftover(e, OwnedHandles(next) \cup OwnedHandles(main))
      /\ OwnedHandles(next) \cap OwnedHandles(main) = {}
  BY DEF Kept, Safe
<1>2. next.shared = decode.shared /\ next.sharedModule = decode.sharedModule
      /\ next.module = decode.module
      /\ \A k \in KeysOf(Desc(decode), "PerProgram") : next.buffers[k] = decode.buffers[k]
  BY DEF Kept, SameShare
<1>3. decode.shared \subseteq KeysOf(Desc(decode), "PerProgram")
  BY DEF Paired, SoundProgram, MapsSound
<1>4. SharedFrom(next, main)
  BY <1>2, <1>3 DEF SharedFrom, Paired
<1>5. OwnedHandles(next) \cup OwnedHandles(main) = OwnedHandles(main) \cup OwnedHandles(next)
      /\ OwnedHandles(main) \cap OwnedHandles(next) = {}
  BY <1>1
<1> QED
  BY <1>1, <1>4, <1>5 DEF Paired

\* The offer of a program that has not run and shares nothing: buffers of its
\* own, and every PerProgram buffer a program with the same values needs.
FullOffer(main, name) ==
    LET offered == OfferedHandles(Catalog[name], SharedOffer(main)) IN
    /\ FairShare(SharedOffer(main), name, OwnedHandles(main))
    /\ SharedOffer(main).module = main.module
    /\ \A k \in DOMAIN offered :
          \E j \in KeysOf(Desc(main), "PerProgram") : offered[k] = main.buffers[j]
    /\ PersistentSemantics(Desc(main)) = PersistentSemantics(Catalog[name])
          => DOMAIN offered = KeysOf(Catalog[name], "PerProgram")

\* shared_offer of a prefill program that has just been initialized.
LEMMA OfferIs ==
    ASSUME NEW main, SoundProgram(main), main.shared = {}, main.sharedModule = FALSE,
           DOMAIN main.buffers = KeysOf(Desc(main), "PerProgram"), NEW name \in Names
    PROVE  FullOffer(main, name)
<1> DEFINE d == Desc(main)
           keys == {k \in DOMAIN main.buffers : Meta(d, k).life = "PerProgram"}
           held(v) == {k \in keys : Meta(d, k).sem = v}
           last(v) == CHOOSE k \in held(v) : \A j \in held(v) : j = k \/ Precedes(j, k)
           values == {Meta(d, k).sem : k \in keys}
           table == [v \in values |-> [handle |-> main.buffers[last(v)], meta |-> Meta(d, last(v))]]
           offered == OfferedHandles(Catalog[name], SharedOffer(main))
<1>1. SharedOffer(main) = [module |-> main.module, image |-> d.image, buffers |-> table]
  BY DEF SharedOffer
<1>2. keys = KeysOf(d, "PerProgram") /\ keys \subseteq Keys(d)
  BY DEF KeysOf
<1>3. \A v \in values : last(v) \in KeysOf(d, "PerProgram")
  <2> SUFFICES ASSUME NEW v \in values PROVE last(v) \in KeysOf(d, "PerProgram")
    OBVIOUS
  <2>1. held(v) \in SUBSET Keys(d) /\ held(v) # {} /\ held(v) \subseteq KeysOf(d, "PerProgram")
    BY <1>2
  <2>2. main.desc \in Names
    BY DEF SoundProgram
  <2> HIDE DEF held
  <2>3. last(v) \in held(v)
    BY <2>1, <2>2, LastKey DEF Desc
  <2> QED
    BY <2>1, <2>3
<1> HIDE DEF last, held
<1>4. DOMAIN table = values /\ \A v \in values : table[v].handle = main.buffers[last(v)]
  OBVIOUS
<1> HIDE DEF table
<1>5. SharedOffer(main).module = main.module /\ SharedOffer(main).buffers = table
  BY <1>1
<1>6. DOMAIN offered = {j \in KeysOf(Catalog[name], "PerProgram") : Meta(Catalog[name], j).sem \in values}
  BY <1>4, <1>5 DEF OfferedHandles
<1>7. \A k \in DOMAIN offered : offered[k] = table[Meta(Catalog[name], k).sem].handle
  BY <1>5, <1>6 DEF OfferedHandles
<1> HIDE DEF offered, values
<1>8. \A k \in DOMAIN offered : \E j \in KeysOf(d, "PerProgram") : offered[k] = main.buffers[j]
  BY <1>3, <1>4, <1>6, <1>7
<1>9. values = PersistentSemantics(d)
  BY <1>2 DEF PersistentSemantics, values
<1>10. PersistentSemantics(d) = PersistentSemantics(Catalog[name])
          => DOMAIN offered = KeysOf(Catalog[name], "PerProgram")
  BY <1>6, <1>9 DEF PersistentSemantics
<1>11. /\ main.module \in OwnedHandles(main)
       /\ \A k \in DOMAIN main.buffers : main.buffers[k] \in OwnedHandles(main)
  BY OwnsMapped
<1>12. \A k \in DOMAIN offered : offered[k] \in OwnedHandles(main)
  BY <1>8, <1>11
<1>13. FairShare(SharedOffer(main), name, OwnedHandles(main))
  BY <1>5, <1>11, <1>12 DEF FairShare, offered
<1> QED
  BY <1>5, <1>8, <1>10, <1>13 DEF FullOffer, offered

\* A program created and initialized: nothing of it left, or a program that
\* has not run, with its weights.
Readied(w, dev, inner, R) ==
    /\ w.ok \in BOOLEAN
    /\ ~w.ok => Leftover(w.dev, R) /\ w.inner.closed = TRUE
    /\ w.ok => /\ Kept(w.dev, w.inner, dev, inner, R) /\ Cold(w.inner)
               /\ w.inner.buffers = inner.buffers
               /\ w.dev.uploads = dev.uploads + Cardinality(Params(Desc(inner)) \ inner.shared)

\* init_params right after new_with_share.
LEMMA ReadiedIs ==
    ASSUME NEW dev, NEW inner, NEW R, Safe(dev, inner, R), Cold(inner), DOMAIN inner.pool = {},
           inner.params = FALSE, Desc(inner).repeating,
           NEW bytes \in SUBSET Nat, IsFiniteSet(bytes), NEW given,
           NEW w \in InitParams(dev, inner, bytes, given, TRUE)
    PROVE  Readied(w, dev, inner, R)
<1>1. Initialized(w, dev, inner, R)
  BY InitParamsIs
<1>2. w.ok \in BOOLEAN
  BY <1>1 DEF Initialized, Settled
<1>3. CASE ~w.ok
  BY <1>1, <1>2, <1>3 DEF Initialized, Shut, Readied, ClosedProgram
<1>4. CASE w.ok
  <2>1. Kept(w.dev, w.inner, dev, inner, R)
    BY <1>1, <1>4 DEF Initialized, Settled, Shut
  <2>2. /\ w.dev.uploads = dev.uploads + Cardinality(Params(Desc(inner)) \ inner.shared)
        /\ w.inner.buffers = inner.buffers /\ w.inner.pool = inner.pool
    BY <1>1, <1>4 DEF Initialized
  <2>3. Desc(w.inner) = Desc(inner)
    BY <2>1 DEF Kept, SameShare, Desc
  <2>4. Cold(w.inner)
    BY <2>2, <2>3 DEF Cold
  <2> QED
    BY <1>2, <1>4, <2>1, <2>2, <2>4 DEF Readied
<1> QED
  BY <1>3, <1>4

\* prepare of a paired session.
PairBorn(o, dev, prefill, decode) ==
    /\ ~o.ok => Leftover(o.dev, {})
    /\ o.ok => /\ DOMAIN o.program = {"main", "decode"}
               /\ Paired(o.dev, o.program["main"], o.program["decode"])
               /\ Cold(o.program["main"]) /\ Cold(o.program["decode"])
               /\ o.program["main"].desc = prefill /\ o.program["decode"].desc = decode
               /\ o.dev.uploads = dev.uploads + Cardinality(Params(Catalog[prefill]))

\* prepare_pair: both programs with their weights, or nothing of either.
LEMMA PairOutcomesAre ==
    ASSUME NEW dev, Leftover(dev, {}), NEW prefill \in Names, NEW decode \in Names,
           ValidatePair(Catalog[prefill], Catalog[decode]),
           NEW bytes \in SUBSET Nat, IsFiniteSet(bytes), NEW given,
           NEW o \in PairOutcomes(dev, prefill, decode, bytes, given)
    PROVE  PairBorn(o, dev, prefill, decode)
<1> DEFINE failed(d) == [ok |-> FALSE, dev |-> d]
           last(w, x) == IF ~x.ok THEN failed(Teardown(Teardown(x.dev, x.inner), w.inner))
                         ELSE [ok |-> TRUE, dev |-> x.dev,
                               program |-> [main |-> w.inner, decode |-> x.inner]]
           third(w, q) == IF ~q.ok THEN {failed(Teardown(q.dev, w.inner))}
                          ELSE {last(w, x) : x \in InitParams(q.dev, q.inner, bytes, given, TRUE)}
           second(w) == IF ~w.ok THEN {failed(w.dev)}
                        ELSE UNION {third(w, q) :
                                q \in NewWithShare(w.dev, decode, SharedOffer(w.inner))}
           first(p) == IF ~p.ok THEN {failed(p.dev)}
                       ELSE UNION {second(w) : w \in InitParams(p.dev, p.inner, bytes, given, TRUE)}
<1>1. o \in UNION {first(p) : p \in NewWithShare(dev, prefill, NoShare)}
  BY Zenon DEF PairOutcomes
<1>2. ASSUME NEW d, Leftover(d, {}), o = failed(d) PROVE PairBorn(o, dev, prefill, decode)
  <2>1. o.ok = FALSE /\ o.dev = d
    BY <1>2
  <2> QED
    BY <1>2, <2>1 DEF PairBorn
<1> HIDE DEF failed, first, second, third, last
<1>3. PICK p \in NewWithShare(dev, prefill, NoShare) : o \in first(p)
  BY <1>1
<1>4. /\ Born(p, dev, prefill, NoShare, {})
      /\ p.ok => p.inner.shared = {} /\ p.inner.sharedModule = FALSE
  BY NewAlone
<1>5. CASE ~p.ok
  BY <1>2, <1>3, <1>4, <1>5 DEF Born, first
<1>6. CASE p.ok
  <2>1. PICK w \in InitParams(p.dev, p.inner, bytes, given, TRUE) : o \in second(w)
    BY <1>3, <1>6 DEF first
  <2>2. /\ Safe(p.dev, p.inner, {}) /\ Cold(p.inner) /\ DOMAIN p.inner.pool = {}
        /\ p.inner.desc = prefill /\ p.inner.params = FALSE /\ p.dev.uploads = dev.uploads
    BY <1>4, <1>6 DEF Born
  <2>3. Desc(p.inner) = Catalog[prefill]
        /\ Catalog[prefill].repeating /\ Catalog[decode].repeating
        /\ PersistentSemantics(Catalog[prefill]) = PersistentSemantics(Catalog[decode])
    BY <2>2 DEF Desc, ValidatePair
  <2>4. Readied(w, p.dev, p.inner, {})
    BY <2>2, <2>3, ReadiedIs
  <2>5. CASE ~w.ok
    BY <1>2, <2>1, <2>4, <2>5 DEF Readied, second
  <2>6. CASE w.ok
    <3> DEFINE A == OwnedHandles(w.inner)
    <3>1. PICK q \in NewWithShare(w.dev, decode, SharedOffer(w.inner)) : o \in third(w, q)
      BY <2>1, <2>6 DEF second
    <3>2. /\ Kept(w.dev, w.inner, p.dev, p.inner, {}) /\ Cold(w.inner)
          /\ w.dev.uploads = p.dev.uploads + Cardinality(Params(Desc(p.inner)) \ p.inner.shared)
      BY <2>4, <2>6 DEF Readied
    <3>3. /\ Safe(w.dev, w.inner, {}) /\ w.inner.desc = prefill
          /\ w.inner.shared = {} /\ w.inner.sharedModule = FALSE
      BY <1>4, <1>6, <2>2, <3>2 DEF Kept, SameShare
    <3>4. SoundProgram(w.inner) /\ Desc(w.inner) = Catalog[prefill] /\ Leftover(w.dev, A)
          /\ DOMAIN w.inner.buffers = KeysOf(Desc(w.inner), "PerProgram")
      <4>1. A \cup {} = A
        OBVIOUS
      <4> HIDE DEF A
      <4>2. Leftover(w.dev, A \cup {})
        BY <3>3 DEF Safe, A
      <4> QED
        BY <3>2, <3>3, <4>1, <4>2 DEF Safe, Desc, Cold
    <3>5. w.dev.uploads = dev.uploads + Cardinality(Params(Catalog[prefill]))
      <4>1. Params(Desc(p.inner)) \ p.inner.shared = Params(Catalog[prefill])
        BY <1>4, <1>6, <2>3
      <4> QED
        BY <2>2, <3>2, <4>1
    <3>6. FullOffer(w.inner, decode)
      BY <3>3, <3>4, OfferIs
    <3> HIDE DEF A
    <3>7. Born(q, w.dev, decode, SharedOffer(w.inner), A)
      BY <3>4, <3>6, NewIs DEF FullOffer, A
    <3>8. ASSUME NEW d, Leftover(d, A) PROVE Leftover(Teardown(d, w.inner), {})
      <4>1. A \cup {} = A /\ A \cap {} = {} /\ w.inner.closed = FALSE
        BY <3>4 DEF SoundProgram
      <4> QED
        BY <3>8, <4>1, FreedLeaves DEF A
    <3>9. CASE ~q.ok
      <4>1. Leftover(q.dev, A)
        BY <3>7, <3>9 DEF Born
      <4>2. o = failed(Teardown(q.dev, w.inner))
        BY <3>1, <3>9 DEF third
      <4> QED
        BY <1>2, <3>8, <4>1, <4>2
    <3>10. CASE q.ok
      <4>1. PICK x \in InitParams(q.dev, q.inner, bytes, given, TRUE) : o = last(w, x)
        BY <3>1, <3>10 DEF third
      <4>2. /\ Safe(q.dev, q.inner, A) /\ Cold(q.inner) /\ DOMAIN q.inner.pool = {}
            /\ q.inner.desc = decode /\ q.inner.params = FALSE /\ q.dev.uploads = w.dev.uploads
            /\ q.inner.sharedModule => q.inner.module = SharedOffer(w.inner).module
            /\ q.inner.shared = DOMAIN OfferedHandles(Catalog[decode], SharedOffer(w.inner))
            /\ \A k \in q.inner.shared :
                 q.inner.buffers[k] = OfferedHandles(Catalog[decode], SharedOffer(w.inner))[k]
        BY <3>7, <3>10 DEF Born
      <4>3. Desc(q.inner) = Catalog[decode]
        BY <4>2 DEF Desc
      <4>4. Readied(x, q.dev, q.inner, A)
        BY <2>3, <4>2, <4>3, ReadiedIs
      <4>5. CASE ~x.ok
        <5>1. Leftover(x.dev, A) /\ x.inner.closed = TRUE
          BY <4>4, <4>5 DEF Readied
        <5>2. Teardown(x.dev, x.inner) = x.dev
          BY <5>1 DEF Teardown
        <5>3. o = failed(Teardown(x.dev, w.inner))
          BY <4>1, <4>5, <5>2 DEF last
        <5> QED
          BY <1>2, <3>8, <5>1, <5>3
      <4>6. CASE x.ok
        <5>1. /\ Kept(x.dev, x.inner, q.dev, q.inner, A) /\ Cold(x.inner)
              /\ x.inner.buffers = q.inner.buffers
              /\ x.dev.uploads = q.dev.uploads + Cardinality(Params(Desc(q.inner)) \ q.inner.shared)
          BY <4>4, <4>6 DEF Readied
        <5>2. /\ Safe(x.dev, x.inner, A) /\ x.inner.desc = decode
              /\ x.inner.shared = q.inner.shared /\ x.inner.sharedModule = q.inner.sharedModule
              /\ x.inner.module = q.inner.module
          BY <4>2, <5>1 DEF Kept, SameShare
        <5>3. SharedFrom(x.inner, w.inner)
          BY <3>6, <4>2, <5>1, <5>2 DEF FullOffer, SharedFrom
        <5>4. Leftover(x.dev, A \cup OwnedHandles(x.inner)) /\ A \cap OwnedHandles(x.inner) = {}
          <6>1. A \cup OwnedHandles(x.inner) = OwnedHandles(x.inner) \cup A
            OBVIOUS
          <6> QED
            BY <5>2, <6>1 DEF Safe
        <5>5. Paired(x.dev, w.inner, x.inner)
          BY <3>3, <3>4, <5>2, <5>3, <5>4 DEF Paired, Safe, A
        <5>6. x.dev.uploads = dev.uploads + Cardinality(Params(Catalog[prefill]))
          <6>1. q.inner.shared = KeysOf(Catalog[decode], "PerProgram")
            BY <2>3, <3>4, <3>6, <4>2 DEF FullOffer
          <6>2. Params(Desc(q.inner)) \ q.inner.shared = {}
            BY <4>3, <6>1 DEF Params
          <6>3. x.dev.uploads = q.dev.uploads + 0
            BY <5>1, <6>2, FS_EmptySet
          <6>4. SoundDevice(x.dev) /\ SoundDevice(w.dev)
            BY <5>5, <3>4 DEF Paired, Leftover
          <6>5. w.dev.uploads \in Nat
            BY <6>4 DEF SoundDevice
          <6>6. x.dev.uploads = w.dev.uploads
            BY <4>2, <6>3, <6>5
          <6> QED
            BY <3>5, <6>6
        <5>7. o.ok = TRUE /\ o.dev = x.dev /\ o.program = [main |-> w.inner, decode |-> x.inner]
          BY <4>1, <4>6 DEF last
        <5>8. DOMAIN o.program = {"main", "decode"}
              /\ o.program["main"] = w.inner /\ o.program["decode"] = x.inner
          BY <5>7
        <5> QED
          BY <3>2, <3>3, <5>1, <5>2, <5>5, <5>6, <5>7, <5>8 DEF PairBorn
      <4> QED
        BY <4>5, <4>6
    <3> QED
      BY <3>9, <3>10
  <2> QED
    BY <2>5, <2>6
<1> QED
  BY <1>5, <1>6

-----------------------------------------------------------------------------
(* A paired session.                                                        *)

\* A failed program beside the one that is still open.
OneOpen(dev, shut, open) ==
    /\ ClosedProgram(shut) /\ shut.desc \in Names
    /\ SoundProgram(open) /\ Leftover(dev, OwnedHandles(open))

\* The per-execution buffers of the programs that ran.
Warmup(c) ==
    (IF "main" \in c.warm THEN Cardinality(PerExecution(Catalog[c.pair[1]])) ELSE 0)
    + (IF "decode" \in c.warm THEN Cardinality(PerExecution(Catalog[c.pair[2]])) ELSE 0)

\* While both are open: nothing loaded since prepare, and allocated only what
\* each needed the first time it ran.
PairMetered(dev, main, decode, c) ==
    /\ dev.loads = c.loadsAt /\ dev.allocs = c.allocsAt + Warmup(c)
    /\ IF "main" \in c.warm THEN Warm(main) ELSE Cold(main)
    /\ IF "decode" \in c.warm THEN Warm(decode) ELSE Cold(decode)

PairClient(c) ==
    /\ DOMAIN c = PairedFields \cup {"pair", "loadsAt", "allocsAt", "uploadsAt"}
    /\ c.loadsAt \in Nat /\ c.allocsAt \in Nat /\ c.pair \in Names \X Names

\* Both programs of the pair, with its weights on the device once.
PairOnce(dev, prog, c) ==
    /\ DOMAIN prog = {"main", "decode"}
    /\ prog["main"].desc = c.pair[1] /\ prog["decode"].desc = c.pair[2]
    /\ dev.uploads = c.uploadsAt + Cardinality(Params(Catalog[c.pair[1]]))

\* Nothing is left of the programs of a poisoned sequence.  Otherwise both are
\* open, unless a dispatch has just failed: then the other one is.
PairedHandles(dev, prog, c) ==
    /\ PairClient(c)
    /\ prog = NoPrograms => Leftover(dev, {})
    /\ prog # NoPrograms =>
          /\ PairOnce(dev, prog, c)
          /\ \/ Paired(dev, prog["main"], prog["decode"])
             \/ /\ c.pc = "failed"
                /\ \/ OneOpen(dev, prog["main"], prog["decode"])
                   \/ OneOpen(dev, prog["decode"], prog["main"])
          /\ c.pc # "failed" => PairMetered(dev, prog["main"], prog["decode"], c)

\* The per-execution buffers are counted by a natural number.
LEMMA PerExecutionFinite ==
    ASSUME NEW name \in Names
    PROVE  Cardinality(PerExecution(Catalog[name])) \in Nat
<1>1. PerExecution(Catalog[name]) \in SUBSET Keys(Catalog[name])
  BY DEF PerExecution
<1> QED
  BY <1>1, KeysFinite, FS_Subset, FS_CardinalityType

\* prepare.
LEMMA PreparePairSafe ==
    ASSUME IdleHandles(device, program), client = NoClient, PreparePaired
    PROVE  \/ client' = NoClient /\ IdleHandles(device', program')
           \/ client'.kind = "paired" /\ PairedHandles(device', program', client')
<1>0. PICK pair \in {p \in Pairs : ValidatePair(Catalog[p[1]], Catalog[p[2]])} :
       \E w \in Presented(ParamIds(Catalog[pair[1]]) \cup ParamIds(Catalog[pair[2]])) :
       \E o \in PairOutcomes(device, pair[1], pair[2], w.bytes, w.given) :
          /\ device' = o.dev
          /\ IF o.ok
             THEN /\ program' = o.program
                  /\ client' = [kind |-> "paired", pc |-> "idle", steps |-> 0,
                                reuses |-> 0, resets |-> 0, pair |-> pair, warm |-> {},
                                invocation |-> <<>>, ran |-> <<>>, loadsAt |-> o.dev.loads,
                                allocsAt |-> o.dev.allocs, uploadsAt |-> device.uploads]
             ELSE UNCHANGED <<program, client>>
  BY DEF PreparePaired
<1>1. PICK w \in Presented(ParamIds(Catalog[pair[1]]) \cup ParamIds(Catalog[pair[2]])) :
       \E o \in PairOutcomes(device, pair[1], pair[2], w.bytes, w.given) :
          /\ device' = o.dev
          /\ IF o.ok
             THEN /\ program' = o.program
                  /\ client' = [kind |-> "paired", pc |-> "idle", steps |-> 0,
                                reuses |-> 0, resets |-> 0, pair |-> pair, warm |-> {},
                                invocation |-> <<>>, ran |-> <<>>, loadsAt |-> o.dev.loads,
                                allocsAt |-> o.dev.allocs, uploadsAt |-> device.uploads]
             ELSE UNCHANGED <<program, client>>
  BY <1>0
<1>2. PICK o \in PairOutcomes(device, pair[1], pair[2], w.bytes, w.given) :
          /\ device' = o.dev
          /\ IF o.ok
             THEN /\ program' = o.program
                  /\ client' = [kind |-> "paired", pc |-> "idle", steps |-> 0,
                                reuses |-> 0, resets |-> 0, pair |-> pair, warm |-> {},
                                invocation |-> <<>>, ran |-> <<>>, loadsAt |-> o.dev.loads,
                                allocsAt |-> o.dev.allocs, uploadsAt |-> device.uploads]
             ELSE UNCHANGED <<program, client>>
  BY <1>1
<1>3. pair \in Names \X Names /\ pair[1] \in Names /\ pair[2] \in Names
      /\ ValidatePair(Catalog[pair[1]], Catalog[pair[2]])
  BY HostAssumption
<1>4. w.bytes \in SUBSET Nat /\ IsFiniteSet(w.bytes)
  <2> DEFINE a == ParamIds(Catalog[pair[1]])
             b == ParamIds(Catalog[pair[2]])
  <2>1. a \in SUBSET Nat /\ IsFiniteSet(a) /\ b \in SUBSET Nat /\ IsFiniteSet(b)
    BY <1>3, ParamsFinite DEF ParamIds
  <2> HIDE DEF a, b
  <2>2. a \cup b \in SUBSET Nat /\ IsFiniteSet(a \cup b)
    BY <2>1, FS_Union
  <2>3. w \in Presented(a \cup b)
    BY DEF a, b
  <2> QED
    BY <2>2, <2>3, PresentedIs
<1>5. PairBorn(o, device, pair[1], pair[2])
  BY <1>3, <1>4, PairOutcomesAre DEF IdleHandles
<1>6. CASE ~o.ok
  BY <1>2, <1>5, <1>6 DEF IdleHandles, PairBorn
<1>7. CASE o.ok
  <2>1. /\ DOMAIN program' = {"main", "decode"}
        /\ Paired(device', program'["main"], program'["decode"])
        /\ Cold(program'["main"]) /\ Cold(program'["decode"])
        /\ program'["main"].desc = pair[1] /\ program'["decode"].desc = pair[2]
        /\ device'.uploads = device.uploads + Cardinality(Params(Catalog[pair[1]]))
    BY <1>2, <1>5, <1>7 DEF PairBorn
  <2>2. client' = [kind |-> "paired", pc |-> "idle", steps |-> 0,
                   reuses |-> 0, resets |-> 0, pair |-> pair, warm |-> {},
                   invocation |-> <<>>, ran |-> <<>>, loadsAt |-> device'.loads,
                   allocsAt |-> device'.allocs, uploadsAt |-> device.uploads]
    BY <1>2, <1>7
  <2>3. device'.loads \in Nat /\ device'.allocs \in Nat
    BY <2>1 DEF Paired, Leftover, SoundDevice
  <2>4. /\ client'.kind = "paired" /\ client'.warm = {} /\ client'.pair = pair
        /\ client'.loadsAt = device'.loads /\ client'.allocsAt = device'.allocs
        /\ client'.uploadsAt = device.uploads /\ client'.pc = "idle"
    BY <2>2
  <2>5. PairClient(client')
    BY <1>3, <2>2, <2>3 DEF PairClient, PairedFields
  <2>6. PairOnce(device', program', client')
    BY <2>1, <2>4 DEF PairOnce
  <2>7. Warmup(client') = 0
    BY <2>4 DEF Warmup
  <2>8. PairMetered(device', program'["main"], program'["decode"], client')
    BY <2>1, <2>3, <2>4, <2>7 DEF PairMetered
  <2>9. program' # NoPrograms
    <3>1. DOMAIN program' = {"main", "decode"}
      BY <2>1
    <3>2. DOMAIN NoPrograms = {}
      BY DEF NoPrograms
    <3> QED
      BY <3>1, <3>2
  <2> QED
    BY <2>1, <2>4, <2>5, <2>6, <2>8, <2>9 DEF PairedHandles
<1> QED
  BY <1>6, <1>7

\* A step of the client that touches neither programs nor device, nor what is
\* measured.
LEMMA ClientSteps ==
    ASSUME PairedHandles(device, program, client), UNCHANGED <<device, program>>,
           PairClient(client'), client.pc # "failed", client'.pc # "failed",
           client'.warm = client.warm, client'.pair = client.pair,
           client'.loadsAt = client.loadsAt, client'.allocsAt = client.allocsAt,
           client'.uploadsAt = client.uploadsAt
    PROVE  PairedHandles(device', program', client')
BY DEF PairedHandles, PairOnce, PairMetered, Warmup

\* Planning, committing, returning and resetting a paired session.
LEMMA PlainSteps ==
    ASSUME PairedHandles(device, program, client), client.kind = "paired", PairInv,
           \/ \E t \in Txns :
                \/ \E mode, e, prefix : PairedPlan(t, [mode |-> mode, epoch |-> e, prefix |-> prefix])
                \/ PairedCommit(t) \/ PairedReturn(t)
           \/ PairedReset
    PROVE  PairedHandles(device', program', client') /\ client'.kind = "paired"
<1>1. DOMAIN client = PairedFields \cup {"pair", "loadsAt", "allocsAt", "uploadsAt"}
      /\ PairClient(client)
  BY DEF PairedHandles, PairClient
<1>2. CASE \E t \in Txns : \E mode, e, prefix :
             PairedPlan(t, [mode |-> mode, epoch |-> e, prefix |-> prefix])
  <2>1. PICK inv : /\ client.pc = "idle" /\ UNCHANGED <<device, program>>
                   /\ client' = [client EXCEPT !.pc = "planned", !.invocation = inv]
    BY <1>2 DEF PairedPlan
  <2> QED
    BY <1>1, <2>1, ClientSteps DEF PairClient, PairedFields
<1>3. CASE \E t \in Txns : PairedCommit(t)
  <2>1. /\ client.pc = "ran" /\ UNCHANGED <<device, program>>
        /\ client' = [client EXCEPT !.pc = "settled", !.reuses = @ + 1, !.steps = @ + 1]
    BY <1>3 DEF PairedCommit
  <2> QED
    BY <1>1, <2>1, ClientSteps DEF PairClient, PairedFields
<1>4. CASE \E t \in Txns : PairedReturn(t)
  <2>1. /\ client.pc = "settled" /\ UNCHANGED <<device, program>>
        /\ client' = [client EXCEPT !.pc = "idle"]
    BY <1>4 DEF PairedReturn
  <2> QED
    BY <1>1, <2>1, ClientSteps DEF PairClient, PairedFields
<1>5. CASE PairedReset
  <2>1. /\ client.pc = "idle" /\ UNCHANGED <<device, program>>
        /\ client' = [client EXCEPT !.resets = @ + 1, !.steps = @ + 1]
    BY <1>5 DEF PairedReset
  <2> QED
    BY <1>1, <2>1, ClientSteps DEF PairClient, PairedFields
<1> QED
  BY <1>2, <1>3, <1>4, <1>5

\* release_all: whatever the failed dispatch closed, nothing stays live.
LEMMA ReleaseAllFrees ==
    ASSUME PairedHandles(device, program, client), ReleaseAll
    PROVE  IdleHandles(device', program')
<1> DEFINE torn(dev, slot) == IF slot \in DOMAIN program THEN Teardown(dev, program[slot]) ELSE dev
<1>1. device' = torn(torn(device, "decode"), "main") /\ program' = NoPrograms
  BY DEF ReleaseAll
<1>2. CASE program = NoPrograms
  <2>1. DOMAIN program = {}
    BY <1>2 DEF NoPrograms
  <2>2. device' = device
    BY <1>1, <2>1
  <2> QED
    BY <1>1, <1>2, <2>2 DEF IdleHandles, PairedHandles
<1>3. CASE program # NoPrograms
  <2> DEFINE main == program["main"]
             decode == program["decode"]
  <2>1. device' = Teardown(Teardown(device, decode), main)
    BY <1>1, <1>3 DEF PairedHandles, PairOnce
  <2>2. \/ Paired(device, main, decode)
        \/ OneOpen(device, main, decode) \/ OneOpen(device, decode, main)
    BY <1>3 DEF PairedHandles
  <2> HIDE DEF main, decode
  <2>3. ASSUME NEW d, NEW inner, NEW R, SoundProgram(inner),
               Leftover(d, OwnedHandles(inner) \cup R), OwnedHandles(inner) \cap R = {}
        PROVE  Leftover(Teardown(d, inner), R)
    <3>1. inner.closed = FALSE
      BY <2>3 DEF SoundProgram
    <3> QED
      BY <2>3, <3>1, FreedLeaves
  <2>4. ASSUME NEW d, NEW inner, ClosedProgram(inner) PROVE Teardown(d, inner) = d
    BY <2>4 DEF ClosedProgram, Teardown
  <2>5. ASSUME NEW d, NEW inner, SoundProgram(inner), Leftover(d, OwnedHandles(inner))
        PROVE  Leftover(Teardown(d, inner), {})
    <3>1. OwnedHandles(inner) \cup {} = OwnedHandles(inner) /\ OwnedHandles(inner) \cap {} = {}
      OBVIOUS
    <3>2. Leftover(d, OwnedHandles(inner) \cup {})
      BY <2>5, <3>1
    <3> QED
      BY <2>3, <2>5, <3>1, <3>2
  <2>6. CASE Paired(device, main, decode)
    <3>1. OwnedHandles(main) \cup OwnedHandles(decode) = OwnedHandles(decode) \cup OwnedHandles(main)
      OBVIOUS
    <3>2. /\ SoundProgram(main) /\ SoundProgram(decode)
          /\ Leftover(device, OwnedHandles(decode) \cup OwnedHandles(main))
          /\ OwnedHandles(decode) \cap OwnedHandles(main) = {}
      BY <2>6, <3>1 DEF Paired
    <3>3. Leftover(Teardown(device, decode), OwnedHandles(main))
      BY <2>3, <3>2
    <3>4. Leftover(Teardown(Teardown(device, decode), main), {})
      BY <2>5, <3>2, <3>3
    <3> QED
      BY <1>1, <2>1, <3>4 DEF IdleHandles
  <2>7. CASE OneOpen(device, main, decode)
    <3>1. Leftover(Teardown(device, decode), {})
      BY <2>5, <2>7 DEF OneOpen
    <3>2. Teardown(Teardown(device, decode), main) = Teardown(device, decode)
      BY <2>4, <2>7 DEF OneOpen
    <3> QED
      BY <1>1, <2>1, <3>1, <3>2 DEF IdleHandles
  <2>8. CASE OneOpen(device, decode, main)
    <3>1. Teardown(device, decode) = device
      BY <2>4, <2>8 DEF OneOpen
    <3>2. Leftover(Teardown(device, main), {})
      BY <2>5, <2>8 DEF OneOpen
    <3> QED
      BY <1>1, <2>1, <3>1, <3>2 DEF IdleHandles
  <2> QED
    BY <2>2, <2>6, <2>7, <2>8
<1> QED
  BY <1>2, <1>3

\* Failing and tearing down.
LEMMA EndingSafe ==
    ASSUME PairedHandles(device, program, client), client.kind = "paired",
           (\E t \in Txns : PairedFail(t)) \/ PairedTeardown
    PROVE  \/ client' = NoClient /\ IdleHandles(device', program')
           \/ client'.kind = "paired" /\ PairedHandles(device', program', client')
<1>1. CASE PairedTeardown
  BY <1>1, ReleaseAllFrees DEF PairedTeardown
<1>2. CASE \E t \in Txns : PairedFail(t)
  <2>1. ReleaseAll /\ client' = [client EXCEPT !.pc = "settled", !.steps = @ + 1]
    BY <1>2 DEF PairedFail
  <2>2. IdleHandles(device', program')
    BY <2>1, ReleaseAllFrees
  <2>3. PairClient(client') /\ client'.kind = "paired"
    BY <2>1 DEF PairedHandles, PairClient, PairedFields
  <2> QED
    BY <2>2, <2>3 DEF PairedHandles, IdleHandles
<1> QED
  BY <1>1, <1>2

\* One of the programs of a pair, `ran`, after which the pair is main and
\* decode: both go on, or the one that failed is closed.
PairStepped(o, dev, ran, main, decode) ==
    /\ o.ok \in BOOLEAN /\ o.dev.uploads = dev.uploads /\ o.inner.desc = ran.desc
    /\ o.ok => /\ Paired(o.dev, main, decode) /\ o.dev.loads = dev.loads /\ Warm(o.inner)
               /\ Cold(ran) => o.dev.allocs = dev.allocs + Cardinality(PerExecution(Desc(ran)))
               /\ Warm(ran) => o.dev.allocs = dev.allocs
    /\ ~o.ok => \/ Paired(o.dev, main, decode)
                \/ OneOpen(o.dev, main, decode) \/ OneOpen(o.dev, decode, main)

\* A prefill step.
LEMMA MainRuns ==
    ASSUME NEW dev, NEW main, NEW decode, Paired(dev, main, decode), NEW supplied \in BOOLEAN,
           NEW o \in ExecuteResidentStep(dev, main, supplied)
    PROVE  PairStepped(o, dev, main, o.inner, decode)
<1>1. Safe(dev, main, OwnedHandles(decode))
  BY PairedSafe
<1>2. Stepped(o, dev, main, OwnedHandles(decode))
  BY <1>1, ResidentStepIs
<1>3. /\ o.dev.uploads = dev.uploads /\ o.ok \in BOOLEAN
      /\ o.ok => /\ Warm(o.inner)
                 /\ Cold(main) => o.dev.allocs = dev.allocs + Cardinality(PerExecution(Desc(main)))
                 /\ Warm(main) => o.dev.allocs = dev.allocs
      /\ \/ o.ok = FALSE /\ o.dev = dev /\ o.inner = main
         \/ o.ok = TRUE /\ Kept(o.dev, o.inner, dev, main, OwnedHandles(decode))
         \/ Shut(o, main, OwnedHandles(decode))
  BY <1>2 DEF Stepped, Settled
<1>4. SoundProgram(main) /\ SoundProgram(decode)
  BY DEF Paired
<1>5. CASE o.ok = FALSE /\ o.dev = dev /\ o.inner = main
  BY <1>3, <1>5 DEF PairStepped
<1>6. CASE o.ok = TRUE /\ Kept(o.dev, o.inner, dev, main, OwnedHandles(decode))
  <2>1. Paired(o.dev, o.inner, decode)
    BY <1>6, MainSteps
  <2>2. o.dev.loads = dev.loads /\ o.inner.desc = main.desc
    BY <1>6 DEF Kept, SameShare
  <2> QED
    BY <1>3, <1>6, <2>1, <2>2 DEF PairStepped
<1>7. CASE Shut(o, main, OwnedHandles(decode))
  <2>1. o.ok = FALSE /\ o.inner.desc = main.desc
    BY <1>7 DEF Shut
  <2>2. OneOpen(o.dev, o.inner, decode)
    BY <1>4, <1>7 DEF Shut, OneOpen, SoundProgram
  <2> QED
    BY <1>3, <2>1, <2>2 DEF PairStepped
<1> QED
  BY <1>3, <1>5, <1>6, <1>7

\* A decode step.
LEMMA DecodeRuns ==
    ASSUME NEW dev, NEW main, NEW decode, Paired(dev, main, decode), NEW supplied \in BOOLEAN,
           NEW o \in ExecuteResidentStep(dev, decode, supplied)
    PROVE  PairStepped(o, dev, decode, main, o.inner)
<1>1. Safe(dev, decode, OwnedHandles(main))
  BY PairedSafe
<1>2. Stepped(o, dev, decode, OwnedHandles(main))
  BY <1>1, ResidentStepIs
<1>3. /\ o.dev.uploads = dev.uploads /\ o.ok \in BOOLEAN
      /\ o.ok => /\ Warm(o.inner)
                 /\ Cold(decode) => o.dev.allocs = dev.allocs + Cardinality(PerExecution(Desc(decode)))
                 /\ Warm(decode) => o.dev.allocs = dev.allocs
      /\ \/ o.ok = FALSE /\ o.dev = dev /\ o.inner = decode
         \/ o.ok = TRUE /\ Kept(o.dev, o.inner, dev, decode, OwnedHandles(main))
         \/ Shut(o, decode, OwnedHandles(main))
  BY <1>2 DEF Stepped, Settled
<1>4. SoundProgram(main) /\ SoundProgram(decode)
  BY DEF Paired
<1>5. CASE o.ok = FALSE /\ o.dev = dev /\ o.inner = decode
  BY <1>3, <1>5 DEF PairStepped
<1>6. CASE o.ok = TRUE /\ Kept(o.dev, o.inner, dev, decode, OwnedHandles(main))
  <2>1. Paired(o.dev, main, o.inner)
    BY <1>6, DecodeSteps
  <2>2. o.dev.loads = dev.loads /\ o.inner.desc = decode.desc
    BY <1>6 DEF Kept, SameShare
  <2> QED
    BY <1>3, <1>6, <2>1, <2>2 DEF PairStepped
<1>7. CASE Shut(o, decode, OwnedHandles(main))
  <2>1. o.ok = FALSE /\ o.inner.desc = decode.desc
    BY <1>7 DEF Shut
  <2>2. OneOpen(o.dev, o.inner, main)
    BY <1>4, <1>7 DEF Shut, OneOpen, SoundProgram
  <2> QED
    BY <1>3, <2>1, <2>2 DEF PairStepped
<1> QED
  BY <1>3, <1>5, <1>6, <1>7

\* A program is warm from its first step on, and what that step allocated is
\* its share of the pair's warm-up.
LEMMA WarmUp ==
    ASSUME NEW dev, NEW main, NEW decode, NEW c, PairClient(c), SoundDevice(dev),
           PairMetered(dev, main, decode, c),
           main.desc = c.pair[1], decode.desc = c.pair[2],
           NEW slot \in {"main", "decode"}, NEW next, NEW o, o.ok = TRUE,
           next.warm = c.warm \cup {slot}, next.pair = c.pair,
           next.loadsAt = c.loadsAt, next.allocsAt = c.allocsAt,
           o.dev.loads = dev.loads, Warm(o.inner),
           LET ran == IF slot = "main" THEN main ELSE decode IN
              /\ Cold(ran) => o.dev.allocs = dev.allocs + Cardinality(PerExecution(Desc(ran)))
              /\ Warm(ran) => o.dev.allocs = dev.allocs
    PROVE  IF slot = "main" THEN PairMetered(o.dev, o.inner, decode, next)
                            ELSE PairMetered(o.dev, main, o.inner, next)
<1> DEFINE a == Cardinality(PerExecution(Catalog[c.pair[1]]))
           b == Cardinality(PerExecution(Catalog[c.pair[2]]))
<1>1. c.pair[1] \in Names /\ c.pair[2] \in Names /\ c.allocsAt \in Nat
  BY DEF PairClient
<1>2. a \in Nat /\ b \in Nat
  BY <1>1, PerExecutionFinite
<1>3. Desc(main) = Catalog[c.pair[1]] /\ Desc(decode) = Catalog[c.pair[2]]
  BY DEF Desc
<1>4. Warmup(c) = (IF "main" \in c.warm THEN a ELSE 0) + (IF "decode" \in c.warm THEN b ELSE 0)
  BY DEF Warmup
<1>5. Warmup(next) = (IF "main" \in next.warm THEN a ELSE 0)
                     + (IF "decode" \in next.warm THEN b ELSE 0)
  BY DEF Warmup
<1>6. slot = "main" =>
        /\ Cold(main) => o.dev.allocs = dev.allocs + a
        /\ Warm(main) => o.dev.allocs = dev.allocs
  BY <1>3
<1>7. slot = "decode" =>
        /\ Cold(decode) => o.dev.allocs = dev.allocs + b
        /\ Warm(decode) => o.dev.allocs = dev.allocs
  BY <1>3
<1>8. /\ dev.loads = c.loadsAt /\ dev.allocs = c.allocsAt + Warmup(c)
      /\ "main" \in c.warm => Warm(main)
      /\ "main" \notin c.warm => Cold(main)
      /\ "decode" \in c.warm => Warm(decode)
      /\ "decode" \notin c.warm => Cold(decode)
  BY DEF PairMetered
<1> HIDE DEF a, b
<1>9. CASE slot = "main"
  <2>1. o.dev.allocs = next.allocsAt + Warmup(next)
    BY <1>1, <1>2, <1>4, <1>5, <1>6, <1>8, <1>9
  <2> QED
    BY <1>8, <1>9, <2>1 DEF PairMetered
<1>10. CASE slot = "decode"
  <2>1. o.dev.allocs = next.allocsAt + Warmup(next)
    BY <1>1, <1>2, <1>4, <1>5, <1>7, <1>8, <1>10
  <2> QED
    BY <1>8, <1>10, <2>1 DEF PairMetered
<1> QED
  BY <1>9, <1>10

\* execute_prefill or execute_decode.
LEMMA DispatchSafe ==
    ASSUME PairInv, PairedHandles(device, program, client), client.kind = "paired",
           NEW t \in Txns, PairedDispatch(t)
    PROVE  client'.kind = "paired" /\ PairedHandles(device', program', client')
<1> DEFINE slot == SlotOf(client.invocation.mode)
           main == program["main"]
           decode == program["decode"]
<1>1. client.pc = "planned" /\ PairedState
  BY PairedPc DEF PairedDispatch
<1>2. program # NoPrograms
  BY <1>1 DEF PairedState
<1>3. /\ PairClient(client) /\ PairOnce(device, program, client)
      /\ Paired(device, main, decode) /\ PairMetered(device, main, decode, client)
  BY <1>1, <1>2 DEF PairedHandles
<1>4. DOMAIN program = {"main", "decode"} /\ slot \in {"main", "decode"}
      /\ main.desc = client.pair[1] /\ decode.desc = client.pair[2]
  BY <1>3 DEF PairOnce, SlotOf
<1>5. PICK supplied \in BOOLEAN : \E o \in ExecuteResidentStep(device, program[slot], supplied) :
          /\ device' = o.dev /\ reads' = o.reads
          /\ program' = [program EXCEPT ![slot] = o.inner]
          /\ client' = [client EXCEPT !.pc = IF o.ok THEN "ran" ELSE "failed",
                                      !.warm = IF o.ok THEN @ \cup {slot} ELSE @,
                                      !.ran = IF o.ok THEN Append(@, RowsOf(client.invocation))
                                              ELSE @]
  BY DEF PairedDispatch
<1>6. PICK o \in ExecuteResidentStep(device, program[slot], supplied) :
          /\ device' = o.dev /\ reads' = o.reads
          /\ program' = [program EXCEPT ![slot] = o.inner]
          /\ client' = [client EXCEPT !.pc = IF o.ok THEN "ran" ELSE "failed",
                                      !.warm = IF o.ok THEN @ \cup {slot} ELSE @,
                                      !.ran = IF o.ok THEN Append(@, RowsOf(client.invocation))
                                              ELSE @]
  BY <1>5
<1>7. DOMAIN client = PairedFields \cup {"pair", "loadsAt", "allocsAt", "uploadsAt"}
  BY <1>3 DEF PairClient
<1>8. /\ client'.kind = "paired" /\ client'.pc = (IF o.ok THEN "ran" ELSE "failed")
      /\ client'.warm = (IF o.ok THEN client.warm \cup {slot} ELSE client.warm)
      /\ client'.pair = client.pair /\ client'.loadsAt = client.loadsAt
      /\ client'.allocsAt = client.allocsAt /\ client'.uploadsAt = client.uploadsAt
      /\ DOMAIN client' = DOMAIN client
  BY <1>6, <1>7 DEF PairedFields
<1>9. PairClient(client')
  BY <1>3, <1>8 DEF PairClient
<1>10. program' # NoPrograms /\ DOMAIN program' = {"main", "decode"}
  <2>1. DOMAIN program' = {"main", "decode"}
    BY <1>4, <1>6
  <2>2. DOMAIN NoPrograms = {}
    BY DEF NoPrograms
  <2> QED
    BY <2>1, <2>2
<1>11. SoundDevice(device)
  BY <1>3 DEF Paired, Leftover
<1> HIDE DEF slot
<1>12. ASSUME PairStepped(o, device, program[slot], program'["main"], program'["decode"]),
              o.ok => PairMetered(device', program'["main"], program'["decode"], client'),
              program'["main"].desc = main.desc, program'["decode"].desc = decode.desc
       PROVE  PairedHandles(device', program', client')
  <2>1. PairOnce(device', program', client')
    BY <1>3, <1>4, <1>6, <1>8, <1>10, <1>12 DEF PairOnce, PairStepped
  <2>2. o.ok => Paired(device', program'["main"], program'["decode"])
    BY <1>6, <1>12 DEF PairStepped
  <2>3. ~o.ok => \/ Paired(device', program'["main"], program'["decode"])
                 \/ OneOpen(device', program'["main"], program'["decode"])
                 \/ OneOpen(device', program'["decode"], program'["main"])
    BY <1>6, <1>12 DEF PairStepped
  <2>4. ~o.ok => client'.pc = "failed"
    BY <1>8
  <2>5. o.ok \/ ~o.ok
    OBVIOUS
  <2>6. o.ok \in BOOLEAN
    BY <1>12 DEF PairStepped
  <2>7. client'.pc # "failed" => o.ok
    BY <1>8
  <2> QED
    BY <1>9, <1>10, <1>12, <2>1, <2>2, <2>3, <2>4, <2>7 DEF PairedHandles
<1>13. CASE slot = "main"
  <2>1. PairStepped(o, device, main, o.inner, decode)
    BY <1>3, <1>6, <1>13, MainRuns
  <2>2. program'["main"] = o.inner /\ program'["decode"] = decode /\ program[slot] = main
    BY <1>4, <1>6, <1>13
  <2>3. o.ok => PairMetered(o.dev, o.inner, decode, client')
    <3> SUFFICES ASSUME o.ok PROVE PairMetered(o.dev, o.inner, decode, client')
      OBVIOUS
    <3>1. o.ok = TRUE /\ o.dev.loads = device.loads /\ Warm(o.inner)
          /\ (Cold(main) => o.dev.allocs = device.allocs + Cardinality(PerExecution(Desc(main))))
          /\ (Warm(main) => o.dev.allocs = device.allocs)
      BY <2>1 DEF PairStepped
    <3>2. client'.warm = client.warm \cup {"main"}
      BY <1>8, <1>13
    <3> HIDE DEF main, decode
    <3> QED
      BY <1>3, <1>4, <1>8, <1>11, <3>1, <3>2, WarmUp
  <2>4. o.inner.desc = main.desc
    BY <2>1 DEF PairStepped
  <2> QED
    BY <1>6, <1>8, <1>12, <2>1, <2>2, <2>3, <2>4
<1>14. CASE slot = "decode"
  <2>1. PairStepped(o, device, decode, main, o.inner)
    BY <1>3, <1>6, <1>14, DecodeRuns
  <2>2. program'["decode"] = o.inner /\ program'["main"] = main /\ program[slot] = decode
    BY <1>4, <1>6, <1>14
  <2>3. o.ok => PairMetered(o.dev, main, o.inner, client')
    <3> SUFFICES ASSUME o.ok PROVE PairMetered(o.dev, main, o.inner, client')
      OBVIOUS
    <3>1. o.ok = TRUE /\ o.dev.loads = device.loads /\ Warm(o.inner)
          /\ (Cold(decode) => o.dev.allocs = device.allocs + Cardinality(PerExecution(Desc(decode))))
          /\ (Warm(decode) => o.dev.allocs = device.allocs)
      BY <2>1 DEF PairStepped
    <3>2. client'.warm = client.warm \cup {"decode"}
      BY <1>8, <1>14
    <3>3. "decode" \in {"main", "decode"} /\ "decode" # "main"
      OBVIOUS
    <3> HIDE DEF main, decode
    <3>4. IF "decode" = "main" THEN PairMetered(o.dev, o.inner, decode, client')
                               ELSE PairMetered(o.dev, main, o.inner, client')
      BY <1>3, <1>4, <1>8, <1>11, <3>1, <3>2, <3>3, WarmUp
    <3> QED
      BY <3>3, <3>4
  <2>4. o.inner.desc = decode.desc
    BY <2>1 DEF PairStepped
  <2> QED
    BY <1>6, <1>8, <1>12, <2>1, <2>2, <2>3, <2>4
<1> QED
  BY <1>4, <1>13, <1>14

-----------------------------------------------------------------------------
(* The sequence machine inside the host.                                    *)

\* What the machine's type takes: plans made within the capacity.
MachineInv == Machine!TypeOK /\ Machine!LivePlansFit

\* The bounds of the machine are positive.
LEMMA CapacityIs == Capacity \in Nat \ {0} /\ MaxEpoch \in Nat \ {0}
                    /\ PromptRows \in Nat \ {0}
BY HostAssumption DEF Capacity

\* The machine starts within its types.
LEMMA MachineInit == Init => MachineInv
<1> SUFFICES ASSUME Machine!Init PROVE MachineInv
  BY DEF Init
<1>1. /\ validLen \in 0..Capacity /\ epoch \in 1..MaxEpoch
      /\ phase \in Machine!Phases /\ released \in BOOLEAN /\ reported \in BOOLEAN
      /\ lastCommit \in Machine!Commits \cup {Machine!NoCommit}
  <2>1. 0 \in 0..Capacity /\ 1 \in 1..MaxEpoch
    BY CapacityIs
  <2>2. /\ validLen = 0 /\ epoch = 1 /\ phase = "Fresh" /\ released = FALSE
        /\ reported = FALSE /\ lastCommit = Machine!NoCommit
    BY DEF Machine!Init
  <2> QED
    BY <2>1, <2>2 DEF Machine!Phases
<1>2. txn \in [Txns -> Machine!Plan \cup {Machine!NoTxn}]
      /\ \A t \in Txns : txn[t] = Machine!NoTxn
  BY DEF Machine!Init
<1>3. commits \in Seq(Machine!Commits)
  BY DEF Machine!Init
<1> QED
  BY <1>1, <1>2, <1>3 DEF MachineInv, Machine!TypeOK, Machine!LivePlansFit

\* A step that leaves the machine alone.
LEMMA MachineRests == ASSUME MachineInv, UNCHANGED machineVars PROVE MachineInv'
BY DEF MachineInv, machineVars, Machine!TypeOK, Machine!LivePlansFit

\* prepare starts a fresh machine.
LEMMA PrepareMachine == ASSUME PreparePaired PROVE MachineInv'
<1>1. /\ validLen' \in 0..Capacity /\ epoch' \in 1..MaxEpoch
      /\ phase' \in Machine!Phases /\ released' \in BOOLEAN /\ reported' \in BOOLEAN
      /\ lastCommit' \in Machine!Commits \cup {Machine!NoCommit}
  <2>1. 0 \in 0..Capacity /\ 1 \in 1..MaxEpoch
    BY CapacityIs
  <2>2. /\ validLen' = 0 /\ epoch' = 1 /\ phase' = "Fresh" /\ released' = FALSE
        /\ reported' = FALSE /\ lastCommit' = Machine!NoCommit
    BY DEF PreparePaired
  <2> QED
    BY <2>1, <2>2 DEF Machine!Phases
<1>2. txn' \in [Txns -> Machine!Plan \cup {Machine!NoTxn}]
      /\ \A t \in Txns : txn'[t] = Machine!NoTxn
  BY DEF PreparePaired
<1>3. commits' \in Seq(Machine!Commits)
  BY DEF PreparePaired
<1> QED
  BY <1>1, <1>2, <1>3 DEF MachineInv, Machine!TypeOK, Machine!LivePlansFit

\* Planning stays within the capacity.
LEMMA PlanMachine ==
    ASSUME MachineInv, NEW t \in Txns, NEW mode \in {"Prefill", "ScalarDecode"}, NEW e, NEW prefix,
           PairedPlan(t, [mode |-> mode, epoch |-> e, prefix |-> prefix])
    PROVE  MachineInv'
<1> DEFINE rows == QueryRows([mode |-> mode, epoch |-> e, prefix |-> prefix])
           plan == [mode |-> mode, prefix |-> validLen, rows |-> rows,
                    epoch |-> epoch, mutated |-> FALSE]
<1>1. rows \in Nat
  BY CapacityIs DEF QueryRows
<1>2. validLen \in Nat /\ epoch \in Nat
  BY CapacityIs DEF MachineInv, Machine!TypeOK
<1>3. plan \in Machine!Plan
  BY <1>1, <1>2 DEF Machine!Plan, Machine!Modes
<1>4. txn' = [txn EXCEPT ![t] = plan] /\ validLen + rows <= Capacity
      /\ UNCHANGED <<validLen, epoch, phase, released, lastCommit, commits, reported>>
  BY DEF PairedPlan, Machine!BeginTransaction, Machine!Admits, Machine!machine
<1>5. plan.prefix = validLen /\ plan.rows = rows
  OBVIOUS
<1> HIDE DEF plan, rows
<1>6. Machine!TypeOK'
  BY <1>3, <1>4 DEF MachineInv, Machine!TypeOK
<1>7. Machine!LivePlansFit'
  BY <1>4, <1>5 DEF MachineInv, Machine!TypeOK, Machine!LivePlansFit
<1> QED
  BY <1>6, <1>7 DEF MachineInv

\* Dispatch marks the plan; returning drops it.
LEMMA MarkMachine ==
    ASSUME MachineInv, NEW t \in Txns,
           Machine!RecordPossibleMutation(t) \/ Machine!DropTransaction(t)
    PROVE  MachineInv'
<1>1. UNCHANGED <<validLen, epoch, phase, released, lastCommit, commits, reported>>
  BY DEF Machine!RecordPossibleMutation, Machine!DropTransaction, Machine!machine
<1>2. txn \in [Txns -> Machine!Plan \cup {Machine!NoTxn}]
  BY DEF MachineInv, Machine!TypeOK
<1>3. txn' \in [Txns -> Machine!Plan \cup {Machine!NoTxn}]
      /\ \A u \in Txns : txn'[u] # Machine!NoTxn =>
             txn[u] # Machine!NoTxn /\ txn'[u].prefix = txn[u].prefix /\ txn'[u].rows = txn[u].rows
  <2>1. CASE Machine!DropTransaction(t)
    BY <1>2, <2>1 DEF Machine!DropTransaction
  <2>2. CASE Machine!RecordPossibleMutation(t)
    <3>1. txn[t] # Machine!NoTxn /\ txn' = [txn EXCEPT ![t].mutated = TRUE]
      BY <2>2 DEF Machine!RecordPossibleMutation
    <3>2. txn[t] \in Machine!Plan
      BY <1>2, <3>1
    <3> DEFINE marked == [txn[t] EXCEPT !.mutated = TRUE]
    <3>3. marked \in Machine!Plan /\ marked.prefix = txn[t].prefix /\ marked.rows = txn[t].rows
      BY <3>2 DEF Machine!Plan
    <3>4. txn' = [txn EXCEPT ![t] = marked]
      BY <3>1
    <3> HIDE DEF marked
    <3> QED
      BY <1>2, <3>1, <3>3, <3>4
  <2> QED
    BY <2>1, <2>2
<1>4. Machine!TypeOK'
  BY <1>1, <1>3 DEF MachineInv, Machine!TypeOK
<1>5. Machine!LivePlansFit'
  BY <1>3 DEF MachineInv, Machine!LivePlansFit
<1> QED
  BY <1>4, <1>5 DEF MachineInv

\* Commit, fail and reset.
LEMMA MoveMachine ==
    ASSUME MachineInv,
           (\E t \in Txns : Machine!Commit(t) \/ Machine!Fail(t)) \/ Machine!LogicalReset
    PROVE  MachineInv'
<1>1. ASSUME NEW t \in Txns, Machine!Commit(t) PROVE MachineInv'
  <2>1. txn[t] \in Machine!Plan
    BY <1>1 DEF Machine!Commit, MachineInv, Machine!TypeOK
  <2> DEFINE facts == [epoch |-> txn[t].epoch, prefix |-> txn[t].prefix, rows |-> txn[t].rows]
  <2>2. facts \in Machine!Commits /\ txn[t].prefix + txn[t].rows \in Nat
    BY <2>1 DEF Machine!Plan, Machine!Commits
  <2>3. txn[t].prefix + txn[t].rows <= Capacity
    BY <1>1 DEF Machine!Commit, MachineInv, Machine!LivePlansFit
  <2>4. /\ validLen' = txn[t].prefix + txn[t].rows /\ lastCommit' = facts
        /\ commits' = Append(commits, facts) /\ phase' \in Machine!Phases
        /\ UNCHANGED <<epoch, released, txn, reported>>
    BY <1>1 DEF Machine!Commit, Machine!Advance, Machine!Phases
  <2> HIDE DEF facts
  <2>5. validLen' \in 0..Capacity
    BY <2>2, <2>3, <2>4, CapacityIs
  <2>6. commits' \in Seq(Machine!Commits)
    BY <2>2, <2>4 DEF MachineInv, Machine!TypeOK
  <2> QED
    BY <2>2, <2>4, <2>5, <2>6 DEF MachineInv, Machine!TypeOK, Machine!LivePlansFit
<1>2. ASSUME NEW t \in Txns, Machine!Fail(t) PROVE MachineInv'
  <2>1. phase' \in Machine!Phases /\ reported' \in BOOLEAN
        /\ UNCHANGED <<validLen, epoch, released, lastCommit, txn, commits>>
    BY <1>2 DEF Machine!Fail, Machine!Phases, MachineInv, Machine!TypeOK
  <2> QED
    BY <2>1 DEF MachineInv, Machine!TypeOK, Machine!LivePlansFit
<1>3. CASE Machine!LogicalReset
  <2>1. /\ validLen' = 0 /\ epoch' = epoch + 1 /\ epoch < MaxEpoch /\ phase' = "Fresh"
        /\ lastCommit' = Machine!NoCommit /\ UNCHANGED <<released, txn, commits, reported>>
    BY <1>3 DEF Machine!LogicalReset
  <2>2. validLen' \in 0..Capacity /\ epoch' \in 1..MaxEpoch
    BY <2>1, CapacityIs DEF MachineInv, Machine!TypeOK
  <2> QED
    BY <2>1, <2>2 DEF MachineInv, Machine!TypeOK, Machine!LivePlansFit, Machine!Phases
<1> QED
  BY <1>1, <1>2, <1>3

\* Every step of the host keeps the machine within its types.
LEMMA MachineNext == MachineInv /\ [Next]_vars => MachineInv'
<1> SUFFICES ASSUME MachineInv, [Next]_vars PROVE MachineInv'
  OBVIOUS
<1>1. CASE \/ \E selection \in Backends \cup {"Auto"}, requires \in BOOLEAN,
                 admitted \in SUBSET Backends, found \in 0..2 :
                 NewHost(selection, requires, admitted, found)
           \/ CreateProgramSession \/ ExecuteDescriptor
           \/ ProgramInitParams \/ ProgramExecute
           \/ ProgramExecuteStep \/ ProgramReadEndOfRun \/ ProgramTeardown
           \/ PrepareResident \/ PreparedStep \/ ResetPrompt \/ PreparedTeardown
           \/ PairedTeardown
  <2>1. UNCHANGED machineVars
    BY <1>1, Zenon DEF NewHost, CreateProgramSession, ExecuteDescriptor, ProgramInitParams,
       ProgramExecute, ProgramExecuteStep, ProgramReadEndOfRun, ProgramTeardown, PrepareResident,
       PreparedStep, ResetPrompt, PreparedTeardown, PairedTeardown, OpenedWith, Step, Apply
  <2> QED
    BY <2>1, MachineRests
<1>2. ASSUME NEW t \in Txns,
             \/ \E mode \in {"Prefill", "ScalarDecode"}, e \in 1..MaxEpoch, prefix \in 0..Capacity :
                   PairedPlan(t, [mode |-> mode, epoch |-> e, prefix |-> prefix])
             \/ PairedDispatch(t) \/ PairedCommit(t) \/ PairedFail(t) \/ PairedReturn(t)
      PROVE  MachineInv'
  <2>1. CASE \E mode \in {"Prefill", "ScalarDecode"}, e \in 1..MaxEpoch, prefix \in 0..Capacity :
               PairedPlan(t, [mode |-> mode, epoch |-> e, prefix |-> prefix])
    BY <2>1, PlanMachine
  <2>2. CASE PairedDispatch(t)
    BY <2>2, MarkMachine DEF PairedDispatch
  <2>3. CASE PairedCommit(t)
    BY <2>3, MoveMachine DEF PairedCommit
  <2>4. CASE PairedFail(t)
    BY <2>4, MoveMachine DEF PairedFail
  <2>5. CASE PairedReturn(t)
    BY <2>5, MarkMachine DEF PairedReturn
  <2> QED
    BY <1>2, <2>1, <2>2, <2>3, <2>4, <2>5
<1>3. CASE PairedReset
  BY <1>3, MoveMachine DEF PairedReset
<1>4. CASE UNCHANGED vars
  BY <1>4, MachineRests DEF vars
<1> QED
  BY <1>1, <1>2, <1>3, <1>4, PrepareMachine, Zenon DEF Next

-----------------------------------------------------------------------------
(* The invariant of the host.                                               *)

\* What is live, by the kind of session that is open.
SessionHandles(dev, prog, c) ==
    /\ c.kind \in {"none", "program", "prepared", "paired"}
    /\ c.kind = "none" => c = NoClient /\ IdleHandles(dev, prog)
    /\ c.kind = "program" => ProgramHandles(dev, prog)
    /\ c.kind = "prepared" => PreparedHandles(dev, prog, c)
    /\ c.kind = "paired" => PairedHandles(dev, prog, c)

HandleInv ==
    /\ PairInv /\ MachineInv
    /\ host \in {"closed", "cpu", "device"}
    /\ host = "closed" => client.kind = "none"
    /\ SessionHandles(device, program, client)

\* A new device holds nothing.
LEMMA NewDevice == ASSUME NEW backend PROVE Leftover(Empty(backend), {})
BY DEF Leftover, SoundDevice, Empty

\* With no session open, nothing is live.
LEMMA NoSession ==
    ASSUME NEW dev, NEW prog, IdleHandles(dev, prog)
    PROVE  SessionHandles(dev, prog, NoClient)
BY DEF SessionHandles, NoClient

\* The host starts with nothing live.
LEMMA HandleInit == Init => HandleInv
<1> SUFFICES ASSUME Init PROVE HandleInv
  OBVIOUS
<1>1. IdleHandles(device, program) /\ client = NoClient /\ host = "closed"
  BY NewDevice DEF Init, IdleHandles
<1>2. SessionHandles(device, program, client) /\ client.kind = "none"
  BY <1>1, NoSession DEF NoClient
<1> QED
  BY <1>1, <1>2, PairInit, MachineInit DEF HandleInv

\* Selecting a device and opening a session.
LEMMA OpeningSafe ==
    ASSUME HandleInv,
           \/ \E selection \in Backends \cup {"Auto"}, requires \in BOOLEAN,
                 admitted \in SUBSET Backends, found \in 0..2 :
                 NewHost(selection, requires, admitted, found)
           \/ CreateProgramSession \/ ExecuteDescriptor \/ PrepareResident \/ PreparePaired
    PROVE  /\ SessionHandles(device', program', client')
           /\ host' \in {"closed", "cpu", "device"} /\ (host' = "closed" => client'.kind = "none")
<1>1. CASE \E selection \in Backends \cup {"Auto"}, requires \in BOOLEAN,
              admitted \in SUBSET Backends, found \in 0..2 :
              NewHost(selection, requires, admitted, found)
  <2>1. PICK selection, requires, admitted, found : NewHost(selection, requires, admitted, found)
    BY <1>1
  <2>2. /\ host = "closed" /\ UNCHANGED <<program, client>> /\ host' \in {"cpu", "device"}
        /\ device' = device \/ \E b : device' = Empty(b)
    BY <2>1 DEF NewHost
  <2>3. client = NoClient /\ IdleHandles(device, program)
    BY <2>2 DEF HandleInv, SessionHandles
  <2>4. IdleHandles(device', program')
    BY <2>2, <2>3, NewDevice DEF IdleHandles
  <2> QED
    BY <2>2, <2>3, <2>4, NoSession
<1>2. CASE CreateProgramSession \/ ExecuteDescriptor \/ PrepareResident \/ PreparePaired
  <2>1. CanOpen /\ host' = host
    BY <1>2, Zenon DEF CreateProgramSession, ExecuteDescriptor, PrepareResident, PreparePaired,
                       OpenedWith
  <2>2. client = NoClient /\ host = "device" /\ IdleHandles(device, program)
    BY <2>1 DEF CanOpen, HandleInv, SessionHandles, NoClient
  <2>3. SessionHandles(device', program', client')
    <3>1. CASE CreateProgramSession
      BY <2>2, <3>1, CreateSafe, NoSession DEF SessionHandles
    <3>2. CASE ExecuteDescriptor
      BY <2>2, <3>2, OneShotSafe, NoSession
    <3>3. CASE PrepareResident
      BY <2>2, <3>3, PrepareSafe, NoSession DEF SessionHandles
    <3>4. CASE PreparePaired
      BY <2>2, <3>4, PreparePairSafe, NoSession DEF SessionHandles
    <3> QED
      BY <1>2, <3>1, <3>2, <3>3, <3>4
  <2> QED
    BY <2>1, <2>2, <2>3
<1> QED
  BY <1>1, <1>2

\* The handlers of an open session.
LEMMA OpenSafe ==
    ASSUME HandleInv,
           \/ ProgramInitParams \/ ProgramExecute
           \/ ProgramExecuteStep \/ ProgramReadEndOfRun \/ ProgramTeardown
           \/ PreparedStep \/ ResetPrompt \/ PreparedTeardown
           \/ \E t \in Txns :
                 \/ \E mode \in {"Prefill", "ScalarDecode"}, e \in 1..MaxEpoch, prefix \in 0..Capacity :
                       PairedPlan(t, [mode |-> mode, epoch |-> e, prefix |-> prefix])
                 \/ PairedDispatch(t) \/ PairedCommit(t) \/ PairedFail(t) \/ PairedReturn(t)
           \/ PairedReset \/ PairedTeardown
    PROVE  SessionHandles(device', program', client')
<1>0. "kind" \in DOMAIN client /\ PairInv /\ SessionHandles(device, program, client)
  BY DEF HandleInv, PairInv
<1>1. CASE ProgramInitParams \/ ProgramExecute \/ ProgramExecuteStep \/ ProgramReadEndOfRun
  <2>1. client.kind = "program"
    BY <1>1, Zenon DEF ProgramInitParams, ProgramExecute, ProgramExecuteStep, ProgramReadEndOfRun,
                       Using
  <2>2. ProgramHandles(device, program)
    BY <1>0, <2>1 DEF SessionHandles
  <2> QED
    BY <1>0, <1>1, <2>1, <2>2, ProgramSafe DEF SessionHandles
<1>2. CASE ProgramTeardown \/ PreparedTeardown
  <2>1. ProgramTeardown => Sole(device, program["main"])
    BY <1>0 DEF SessionHandles, ProgramTeardown, ProgramHandles
  <2>2. PreparedTeardown => Sole(device, program["main"])
    BY <1>0 DEF SessionHandles, PreparedTeardown, PreparedHandles
  <2> QED
    BY <1>2, <2>1, <2>2, TeardownSafe, NoSession
<1>3. CASE PreparedStep \/ ResetPrompt
  <2>1. client.kind = "prepared"
    BY <1>3 DEF PreparedStep, ResetPrompt, Using
  <2>2. PreparedHandles(device, program, client)
    BY <1>0, <2>1 DEF SessionHandles
  <2> QED
    BY <1>3, <2>1, <2>2, PreparedStepSafe, ResetSafe DEF SessionHandles
<1>4. ASSUME client.kind = "paired" PROVE PairedHandles(device, program, client)
  BY <1>0, <1>4 DEF SessionHandles
<1>5. ASSUME NEW t \in Txns,
             \/ \E mode \in {"Prefill", "ScalarDecode"}, e \in 1..MaxEpoch, prefix \in 0..Capacity :
                   PairedPlan(t, [mode |-> mode, epoch |-> e, prefix |-> prefix])
             \/ PairedDispatch(t) \/ PairedCommit(t) \/ PairedFail(t) \/ PairedReturn(t)
      PROVE  SessionHandles(device', program', client')
  <2>1. client.kind = "paired"
    BY <1>0, <1>5, PairedPc DEF PairedPlan, Using, PairedDispatch, PairedCommit, PairedFail,
                                PairedReturn
  <2>2. PairedHandles(device, program, client)
    BY <1>4, <2>1
  <2>3. CASE PairedDispatch(t)
    BY <1>0, <2>1, <2>2, <2>3, DispatchSafe DEF SessionHandles
  <2>4. CASE PairedFail(t)
    BY <2>1, <2>2, <2>4, EndingSafe, NoSession DEF SessionHandles
  <2>5. CASE \/ \E mode, e, prefix : PairedPlan(t, [mode |-> mode, epoch |-> e, prefix |-> prefix])
             \/ PairedCommit(t) \/ PairedReturn(t)
    BY <1>0, <2>1, <2>2, <2>5, PlainSteps DEF SessionHandles
  <2> QED
    BY <1>5, <2>3, <2>4, <2>5
<1>6. CASE PairedReset
  <2>1. client.kind = "paired"
    BY <1>6 DEF PairedReset, Using
  <2> QED
    BY <1>0, <1>4, <1>6, <2>1, PlainSteps DEF SessionHandles
<1>7. CASE PairedTeardown
  <2>1. client.kind = "paired"
    BY <1>7 DEF PairedTeardown
  <2> QED
    BY <1>4, <1>7, <2>1, EndingSafe, NoSession DEF SessionHandles
<1> QED
  BY <1>1, <1>2, <1>3, <1>5, <1>6, <1>7

\* Every step of the host keeps the invariant.
LEMMA HandleNext == HandleInv /\ [Next]_vars => HandleInv'
<1> SUFFICES ASSUME HandleInv, [Next]_vars PROVE HandleInv'
  OBVIOUS
<1>1. PairInv' /\ MachineInv'
  BY PairNext, MachineNext DEF HandleInv
<1>2. host \in {"closed", "cpu", "device"} /\ (host = "closed" => client.kind = "none")
      /\ SessionHandles(device, program, client)
  BY DEF HandleInv
<1> DEFINE opens ==
             \/ \E selection \in Backends \cup {"Auto"}, requires \in BOOLEAN,
                   admitted \in SUBSET Backends, found \in 0..2 :
                   NewHost(selection, requires, admitted, found)
             \/ CreateProgramSession \/ ExecuteDescriptor \/ PrepareResident \/ PreparePaired
           goesOn ==
             \/ ProgramInitParams \/ ProgramExecute
             \/ ProgramExecuteStep \/ ProgramReadEndOfRun \/ ProgramTeardown
             \/ PreparedStep \/ ResetPrompt \/ PreparedTeardown
             \/ \E t \in Txns :
                   \/ \E mode \in {"Prefill", "ScalarDecode"}, e \in 1..MaxEpoch,
                         prefix \in 0..Capacity :
                         PairedPlan(t, [mode |-> mode, epoch |-> e, prefix |-> prefix])
                   \/ PairedDispatch(t) \/ PairedCommit(t) \/ PairedFail(t) \/ PairedReturn(t)
             \/ PairedReset \/ PairedTeardown
<1>3. opens \/ goesOn \/ UNCHANGED vars
  BY Zenon DEF Next
<1>4. CASE opens
  BY <1>1, <1>4, OpeningSafe DEF HandleInv
<1>5. CASE goesOn
  <2>1. SessionHandles(device', program', client')
    BY <1>5, OpenSafe
  <2>2. client.kind # "none"
    <3>1. client.kind \in {"program", "prepared", "paired"}
      BY <1>5, PairedPc, Zenon DEF HandleInv, ProgramInitParams, ProgramExecute, ProgramExecuteStep,
         ProgramReadEndOfRun, ProgramTeardown, PreparedStep, ResetPrompt, PreparedTeardown,
         PairedPlan, PairedDispatch, PairedCommit, PairedFail, PairedReturn, PairedReset,
         PairedTeardown, Using
    <3> QED
      BY <3>1
  <2>3. host' = host
    BY <1>5, Zenon DEF ProgramInitParams, ProgramExecute, ProgramExecuteStep,
         ProgramReadEndOfRun, ProgramTeardown, PreparedStep, ResetPrompt, PreparedTeardown,
         PairedPlan, PairedDispatch, PairedCommit, PairedFail, PairedReturn, PairedReset,
         PairedTeardown, Step, Apply
  <2> QED
    BY <1>1, <1>2, <2>1, <2>2, <2>3 DEF HandleInv
<1>6. CASE UNCHANGED vars
  BY <1>1, <1>2, <1>6 DEF HandleInv, vars, hostVars
<1> QED
  BY <1>3, <1>4, <1>5, <1>6

-----------------------------------------------------------------------------
(* What the invariant says of the host's residency.                         *)

\* The open programs are sound, keep their handles live, and own disjoint
\* handles, which are all there is if no call leaks.
OpenPrograms ==
    /\ \A slot \in {"main", "decode"} :
          Open(slot) => /\ SoundProgram(program[slot])
                        /\ client.pc # "failed" => HandlesLive(device, program[slot])
    /\ Open("main") /\ Open("decode")
          => OwnedHandles(program["main"]) \cap OwnedHandles(program["decode"]) = {}
    /\ NoLeakingCalls =>
          \A h \in DOMAIN device.memory :
             \E slot \in {"main", "decode"} : Open(slot) /\ h \in OwnedHandles(program[slot])

\* One program, open and safe or closed with nothing left.
LEMMA SoleOpen ==
    ASSUME DOMAIN program = {"main"}, Sole(device, program["main"])
    PROVE  OpenPrograms
<1>1. ~Open("decode")
  BY DEF Open
<1>2. CASE Safe(device, program["main"], {})
  <2>1. SoundProgram(program["main"]) /\ HandlesLive(device, program["main"])
    BY <1>2, SafeLive DEF Safe
  <2>2. Open("main")
    BY <2>1 DEF Open, SoundProgram
  <2>3. NoLeakingCalls => DOMAIN device.memory = OwnedHandles(program["main"])
    BY <1>2 DEF Safe, Leftover
  <2> QED
    BY <1>1, <2>1, <2>2, <2>3 DEF OpenPrograms
<1>3. CASE ClosedProgram(program["main"]) /\ Leftover(device, {})
  <2>1. ~Open("main")
    BY <1>3 DEF Open, ClosedProgram
  <2>2. NoLeakingCalls => DOMAIN device.memory = {}
    BY <1>3 DEF Leftover
  <2> QED
    BY <1>1, <2>1, <2>2 DEF OpenPrograms
<1> QED
  BY <1>2, <1>3 DEF Sole

\* A pair, both open or one of them failed.
LEMMA PairOpen ==
    ASSUME DOMAIN program = {"main", "decode"},
           \/ Paired(device, program["main"], program["decode"])
           \/ /\ client.pc = "failed"
              /\ \/ OneOpen(device, program["main"], program["decode"])
                 \/ OneOpen(device, program["decode"], program["main"])
    PROVE  OpenPrograms
<1> DEFINE main == program["main"]
           decode == program["decode"]
<1>1. CASE Paired(device, main, decode)
  <2>1. /\ SoundProgram(main) /\ SoundProgram(decode)
        /\ OwnedHandles(main) \cap OwnedHandles(decode) = {}
        /\ NoLeakingCalls => DOMAIN device.memory = OwnedHandles(main) \cup OwnedHandles(decode)
    BY <1>1 DEF Paired, Leftover
  <2>2. HandlesLive(device, main) /\ HandlesLive(device, decode)
    <3>1. Safe(device, main, OwnedHandles(decode)) /\ Safe(device, decode, OwnedHandles(main))
      BY <1>1, PairedSafe
    <3> QED
      BY <3>1, SafeLive
  <2>3. Open("main") /\ Open("decode")
    BY <2>1 DEF Open, SoundProgram
  <2> QED
    BY <2>1, <2>2, <2>3 DEF OpenPrograms
<1>2. CASE OneOpen(device, main, decode) /\ client.pc = "failed"
  <2>1. ~Open("main") /\ SoundProgram(decode) /\ Open("decode")
        /\ (NoLeakingCalls => DOMAIN device.memory = OwnedHandles(decode))
    BY <1>2 DEF Open, OneOpen, ClosedProgram, SoundProgram, Leftover
  <2> QED
    BY <1>2, <2>1 DEF OpenPrograms
<1>3. CASE OneOpen(device, decode, main) /\ client.pc = "failed"
  <2>1. ~Open("decode") /\ SoundProgram(main) /\ Open("main")
        /\ (NoLeakingCalls => DOMAIN device.memory = OwnedHandles(main))
    BY <1>3 DEF Open, OneOpen, ClosedProgram, SoundProgram, Leftover
  <2> QED
    BY <1>3, <2>1 DEF OpenPrograms
<1> QED
  BY <1>1, <1>2, <1>3

\* The invariant says so of every session.
LEMMA ProgramsAreOpen == HandleInv => OpenPrograms
<1> SUFFICES ASSUME HandleInv PROVE OpenPrograms
  OBVIOUS
<1>0. SessionHandles(device, program, client)
  BY DEF HandleInv
<1>1. ASSUME program = NoPrograms, Leftover(device, {}) PROVE OpenPrograms
  <2>1. ~Open("main") /\ ~Open("decode")
    BY <1>1 DEF Open, NoPrograms
  <2>2. NoLeakingCalls => DOMAIN device.memory = {}
    BY <1>1 DEF Leftover
  <2> QED
    BY <2>1, <2>2 DEF OpenPrograms
<1>2. CASE client.kind = "none"
  BY <1>0, <1>1, <1>2 DEF SessionHandles, IdleHandles
<1>3. CASE client.kind \in {"program", "prepared"}
  <2>1. DOMAIN program = {"main"} /\ Sole(device, program["main"])
    BY <1>0, <1>3 DEF SessionHandles, ProgramHandles, PreparedHandles
  <2> QED
    BY <2>1, SoleOpen
<1>4. CASE client.kind = "paired" /\ program = NoPrograms
  BY <1>0, <1>1, <1>4 DEF SessionHandles, PairedHandles
<1>5. CASE client.kind = "paired" /\ program # NoPrograms
  <2>1. DOMAIN program = {"main", "decode"}
        /\ \/ Paired(device, program["main"], program["decode"])
           \/ /\ client.pc = "failed"
              /\ \/ OneOpen(device, program["main"], program["decode"])
                 \/ OneOpen(device, program["decode"], program["main"])
    BY <1>0, <1>5 DEF SessionHandles, PairedHandles, PairOnce
  <2> QED
    BY <2>1, PairOpen
<1> QED
  BY <1>0, <1>2, <1>3, <1>4, <1>5 DEF SessionHandles

\* The device is sound, and every program is one of the catalog's.
LEMMA ProgramsTyped ==
    ASSUME HandleInv
    PROVE  /\ SoundDevice(device) /\ DOMAIN program \subseteq {"main", "decode"}
           /\ \A slot \in DOMAIN program : program[slot].desc \in Names
<1>0. SessionHandles(device, program, client)
  BY DEF HandleInv
<1>1. CASE program = NoPrograms /\ Leftover(device, {})
  BY <1>1 DEF NoPrograms, Leftover
<1>2. CASE client.kind \in {"program", "prepared"}
  <2>1. DOMAIN program = {"main"} /\ Sole(device, program["main"])
    BY <1>0, <1>2 DEF SessionHandles, ProgramHandles, PreparedHandles
  <2>2. SoundDevice(device) /\ program["main"].desc \in Names
    BY <2>1 DEF Sole, Safe, Leftover, SoundProgram
  <2> QED
    BY <2>1, <2>2
<1>3. CASE client.kind = "paired" /\ program # NoPrograms
  <2>1. DOMAIN program = {"main", "decode"}
        /\ \/ Paired(device, program["main"], program["decode"])
           \/ OneOpen(device, program["main"], program["decode"])
           \/ OneOpen(device, program["decode"], program["main"])
    BY <1>0, <1>3 DEF SessionHandles, PairedHandles, PairOnce
  <2>2. SoundDevice(device) /\ program["main"].desc \in Names /\ program["decode"].desc \in Names
    BY <2>1 DEF Paired, OneOpen, Leftover, SoundProgram
  <2> QED
    BY <2>1, <2>2
<1> QED
  BY <1>0, <1>1, <1>2, <1>3 DEF SessionHandles, IdleHandles, PairedHandles

\* The type invariant.
LEMMA HandleType == HandleInv => TypeOK
<1> SUFFICES ASSUME HandleInv PROVE TypeOK
  OBVIOUS
<1>1. host \in {"closed", "cpu", "device"} /\ Machine!TypeOK
      /\ client.kind \in {"none", "program", "prepared", "paired"}
  BY DEF HandleInv, MachineInv, SessionHandles
<1>2. client.pc \in {"idle", "planned", "ran", "failed", "settled"}
  BY DEF HandleInv, PairInv, PairedState
<1>3. /\ DOMAIN device.memory \subseteq 1..(device.loads + device.allocs)
      /\ \A h \in DOMAIN device.memory :
            device.memory[h] \in {"module", "junk", "zero", "host", "made", "old"}
  BY ProgramsTyped DEF SoundDevice, Contents
<1> QED
  BY <1>1, <1>2, <1>3, ProgramsTyped DEF TypeOK

\* No open program reaches a released handle.
LEMMA HandleLive == HandleInv => MappedHandlesLive
<1> SUFFICES ASSUME HandleInv, NEW slot \in {"main", "decode"}, Open(slot), client.pc # "failed"
             PROVE  {program[slot].module} \cup Handles(program[slot].buffers)
                       \cup Handles(program[slot].pool) \subseteq DOMAIN device.memory
  BY DEF MappedHandlesLive
<1>1. HandlesLive(device, program[slot])
  BY ProgramsAreOpen DEF OpenPrograms
<1> QED
  BY <1>1 DEF HandlesLive, Handles

\* The owners of a handle inside one program.
ModuleOwner(slot, h) ==
    {<<slot, "module">> : i \in {1} \cap
        (IF program[slot].module = h /\ ~program[slot].sharedModule THEN {1} ELSE {})}
BufferOwner(slot, h) ==
    {<<slot, "buffer", k>> : k \in
        {j \in DOMAIN program[slot].buffers \ program[slot].shared : program[slot].buffers[j] = h}}
PoolOwner(slot, h) ==
    {<<slot, "pool", k>> : k \in {j \in DOMAIN program[slot].pool : program[slot].pool[j] = h}}
OwnersIn(slot, h) == ModuleOwner(slot, h) \cup BufferOwner(slot, h) \cup PoolOwner(slot, h)

\* The owners of a handle, program by program.
LEMMA OwnersAre ==
    ASSUME NEW h
    PROVE  Owners(h) = UNION {OwnersIn(slot, h) : slot \in {s \in {"main", "decode"} : Open(s)}}
BY Zenon DEF Owners, OwnersIn, ModuleOwner, BufferOwner, PoolOwner

\* A sound program owns each of its handles once and no other.
LEMMA OwnedOnce ==
    ASSUME NEW slot, SoundProgram(program[slot]), NEW h
    PROVE  /\ OwnersIn(slot, h) # {} <=> h \in OwnedHandles(program[slot])
           /\ \A x, y \in OwnersIn(slot, h) : x = y
<1> DEFINE inner == program[slot]
           keys == HeldKeys(inner)
<1>1. MapsSound(inner) /\ HandlesDistinct(inner)
  BY DEF SoundProgram
<1>2. OwnedHandles(inner) = {HandleOf(inner, k) : k \in keys} \cup OwnModule(inner)
  BY <1>1, OwnedIs
<1>3. \A x : x \in ModuleOwner(slot, h) <=>
            x = <<slot, "module">> /\ h = inner.module /\ ~inner.sharedModule
  BY DEF ModuleOwner
<1>4. \A x : x \in BufferOwner(slot, h) <=>
            \E k \in DOMAIN inner.buffers \ inner.shared :
                x = <<slot, "buffer", k>> /\ inner.buffers[k] = h
  BY DEF BufferOwner
<1>5. \A x : x \in PoolOwner(slot, h) <=>
            \E k \in DOMAIN inner.pool : x = <<slot, "pool", k>> /\ inner.pool[k] = h
  BY DEF PoolOwner
<1>6. \A x : x \in OwnersIn(slot, h) <=>
            x \in ModuleOwner(slot, h) \/ x \in BufferOwner(slot, h) \/ x \in PoolOwner(slot, h)
  BY DEF OwnersIn
<1>7. \A k \in DOMAIN inner.buffers \ inner.shared :
            k \in keys /\ HandleOf(inner, k) = inner.buffers[k]
  BY DEF HeldKeys, HandleOf
<1>8. \A k \in DOMAIN inner.pool : /\ k \in keys /\ HandleOf(inner, k) = inner.pool[k]
                                   /\ k \notin DOMAIN inner.buffers
  BY <1>1 DEF HeldKeys, HandleOf, MapsSound
<1>9. \A k \in keys : \/ k \in DOMAIN inner.buffers \ inner.shared
                      \/ k \in DOMAIN inner.pool
  BY DEF HeldKeys
<1>10. /\ \A j, k \in keys : HandleOf(inner, j) = HandleOf(inner, k) => j = k
       /\ ~inner.sharedModule => \A k \in keys : HandleOf(inner, k) # inner.module
  BY <1>1 DEF HandlesDistinct
<1>11. \A x : x \in OwnModule(inner) <=> x = inner.module /\ ~inner.sharedModule
  BY DEF OwnModule
<1>12. h \in OwnedHandles(inner) <=>
            \/ h = inner.module /\ ~inner.sharedModule
            \/ \E k \in keys : h = HandleOf(inner, k)
  BY <1>2, <1>11
<1> HIDE DEF inner, keys
<1>13. OwnersIn(slot, h) # {} <=> h \in OwnedHandles(inner)
  <2>1. ASSUME h \in OwnedHandles(inner) PROVE OwnersIn(slot, h) # {}
    <3>1. CASE h = inner.module /\ ~inner.sharedModule
      BY <1>3, <1>6, <3>1
    <3>2. ASSUME NEW k \in keys, h = HandleOf(inner, k) PROVE OwnersIn(slot, h) # {}
      <4>1. CASE k \in DOMAIN inner.buffers \ inner.shared
        BY <1>4, <1>6, <1>7, <3>2, <4>1
      <4>2. CASE k \in DOMAIN inner.pool
        BY <1>5, <1>6, <1>8, <3>2, <4>2
      <4> QED
        BY <1>9, <4>1, <4>2
    <3> QED
      BY <1>12, <2>1, <3>1, <3>2
  <2>2. ASSUME NEW x \in OwnersIn(slot, h) PROVE h \in OwnedHandles(inner)
    <3>1. CASE x \in ModuleOwner(slot, h)
      BY <1>3, <1>12, <3>1
    <3>2. CASE x \in BufferOwner(slot, h)
      BY <1>4, <1>7, <1>12, <3>2
    <3>3. CASE x \in PoolOwner(slot, h)
      BY <1>5, <1>8, <1>12, <3>3
    <3> QED
      BY <1>6, <3>1, <3>2, <3>3
  <2> QED
    BY <2>1, <2>2
<1>14. ASSUME NEW x \in OwnersIn(slot, h), NEW y \in OwnersIn(slot, h) PROVE x = y
  <2>1. ASSUME NEW z \in OwnersIn(slot, h)
        PROVE  \/ z = <<slot, "module">> /\ h = inner.module /\ ~inner.sharedModule
               \/ \E k \in keys : /\ h = HandleOf(inner, k)
                                  /\ z = IF k \in DOMAIN inner.buffers THEN <<slot, "buffer", k>>
                                         ELSE <<slot, "pool", k>>
    <3>1. CASE z \in ModuleOwner(slot, h)
      BY <1>3, <3>1
    <3>2. CASE z \in BufferOwner(slot, h)
      <4>1. PICK k \in DOMAIN inner.buffers \ inner.shared :
                z = <<slot, "buffer", k>> /\ inner.buffers[k] = h
        BY <1>4, <3>2
      <4> QED
        BY <1>7, <4>1
    <3>3. CASE z \in PoolOwner(slot, h)
      <4>1. PICK k \in DOMAIN inner.pool : z = <<slot, "pool", k>> /\ inner.pool[k] = h
        BY <1>5, <3>3
      <4> QED
        BY <1>8, <4>1
    <3> QED
      BY <1>6, <3>1, <3>2, <3>3
  <2>2. CASE ~inner.sharedModule /\ h = inner.module
    <3>1. \A k \in keys : h # HandleOf(inner, k)
      BY <1>10, <2>2
    <3> QED
      BY <2>1, <3>1
  <2>3. CASE ~(~inner.sharedModule /\ h = inner.module)
    <3> DEFINE place(k) == IF k \in DOMAIN inner.buffers THEN <<slot, "buffer", k>>
                           ELSE <<slot, "pool", k>>
    <3>1. PICK j \in keys : h = HandleOf(inner, j) /\ x = place(j)
      BY <2>1, <2>3
    <3>2. PICK k \in keys : h = HandleOf(inner, k) /\ y = place(k)
      BY <2>1, <2>3
    <3> HIDE DEF place
    <3> QED
      BY <1>10, <3>1, <3>2
  <2> QED
    BY <2>2, <2>3
<1> QED
  BY <1>13, <1>14 DEF inner

\* One owner for each handle: nothing is released twice or shared by mistake.
LEMMA HandleOneOwner == HandleInv => OneOwner
<1> SUFFICES ASSUME HandleInv, NEW h \in DOMAIN device.memory PROVE Cardinality(Owners(h)) <= 1
  BY DEF OneOwner
<1>1. OpenPrograms
  BY ProgramsAreOpen
<1>2. \A x \in Owners(h) : \E slot \in {"main", "decode"} :
            Open(slot) /\ x \in OwnersIn(slot, h) /\ h \in OwnedHandles(program[slot])
  <2> TAKE x \in Owners(h)
  <2>1. PICK slot \in {s \in {"main", "decode"} : Open(s)} : x \in OwnersIn(slot, h)
    BY OwnersAre
  <2>2. h \in OwnedHandles(program[slot])
    BY <1>1, <2>1, OwnedOnce DEF OpenPrograms
  <2> QED
    BY <2>1, <2>2
<1>3. \A x, y \in Owners(h) : x = y
  <2> TAKE x, y \in Owners(h)
  <2>1. PICK s \in {"main", "decode"} :
            Open(s) /\ x \in OwnersIn(s, h) /\ h \in OwnedHandles(program[s])
    BY <1>2
  <2>2. PICK r \in {"main", "decode"} :
            Open(r) /\ y \in OwnersIn(r, h) /\ h \in OwnedHandles(program[r])
    BY <1>2
  <2>3. s = r
    BY <1>1, <2>1, <2>2 DEF OpenPrograms
  <2>4. SoundProgram(program[s])
    BY <1>1, <2>1 DEF OpenPrograms
  <2> QED
    BY <2>1, <2>2, <2>3, <2>4, OwnedOnce
<1>4. CASE Owners(h) = {}
  BY <1>4, FS_EmptySet
<1>5. CASE Owners(h) # {}
  <2>1. PICK x : x \in Owners(h)
    BY <1>5
  <2>2. Owners(h) = {x}
    BY <1>3, <2>1
  <2> QED
    BY <2>2, FS_Singleton
<1> QED
  BY <1>4, <1>5

\* An owner for each handle, when no call leaks.
LEMMA HandleNoneStranded == HandleInv /\ NoLeakingCalls => NothingStranded
<1> SUFFICES ASSUME HandleInv, NoLeakingCalls, NEW h \in DOMAIN device.memory PROVE Owners(h) # {}
  BY DEF NothingStranded
<1>1. PICK slot \in {"main", "decode"} : Open(slot) /\ h \in OwnedHandles(program[slot])
  BY ProgramsAreOpen DEF OpenPrograms
<1>2. OwnersIn(slot, h) # {}
  BY <1>1, ProgramsAreOpen, OwnedOnce DEF OpenPrograms
<1> QED
  BY <1>1, <1>2, OwnersAre

\* After prepare nothing is loaded, and only the first steps allocate.
LEMMA HandleNothingReloaded == HandleInv => NothingReloaded
<1> SUFFICES ASSUME HandleInv PROVE NothingReloaded
  OBVIOUS
<1>1. SessionHandles(device, program, client)
  BY DEF HandleInv
<1>2. ASSUME client.kind = "prepared", Open("main")
      PROVE  ModuleReloads = 0 /\ PerProgramReallocs = 0
  <2> DEFINE inner == program["main"]
             n == Cardinality(PerExecution(Desc(inner)))
  <2>1. PreparedHandles(device, program, client)
    BY <1>1, <1>2 DEF SessionHandles
  <2>2. /\ client.reuses \in Nat /\ client.loadsAt \in Nat /\ client.allocsAt \in Nat
        /\ Metered(device, inner, client)
    BY <2>1 DEF PreparedHandles
  <2>3. /\ device.loads = client.loadsAt
        /\ client.reuses = 0 => device.allocs = client.allocsAt
        /\ client.reuses # 0 => device.allocs = client.allocsAt + n
    BY <1>2, <2>2 DEF Metered, Open
  <2>4. n \in Nat
    BY <1>2, ProgramsTyped, PerExecutionFinite DEF Open, Desc
  <2>5. ModuleReloads = 0
    BY <2>2, <2>3 DEF ModuleReloads, Monus
  <2> HIDE DEF n
  <2>6. PerProgramReallocs =
            Monus(Monus(device.allocs, client.allocsAt), IF client.reuses > 0 THEN n ELSE 0)
    BY DEF PerProgramReallocs, n
  <2>7. PerProgramReallocs = 0
    <3>1. CASE client.reuses = 0
      BY <2>2, <2>3, <2>4, <2>6, <3>1 DEF Monus
    <3>2. CASE client.reuses # 0
      BY <2>2, <2>3, <2>4, <2>6, <3>2 DEF Monus
    <3> QED
      BY <3>1, <3>2
  <2> QED
    BY <2>5, <2>7
<1>3. ASSUME client.kind = "paired", program # NoPrograms, client.pc # "failed"
      PROVE  device.loads = client.loadsAt /\ device.allocs = client.allocsAt + PairWarmup
  <2>1. PairMetered(device, program["main"], program["decode"], client)
    BY <1>1, <1>3 DEF SessionHandles, PairedHandles
  <2>2. PairWarmup = Warmup(client)
    BY <1>3 DEF PairWarmup, Warmup
  <2> QED
    BY <2>1, <2>2 DEF PairMetered
<1> QED
  BY <1>2, <1>3 DEF NothingReloaded

\* Weights were uploaded by prepare, once.
LEMMA HandleUploadedOnce == HandleInv => WeightsUploadedOnce
<1> SUFFICES ASSUME HandleInv, client.kind \in {"prepared", "paired"}, program # NoPrograms
             PROVE  device.uploads = client.uploadsAt + Cardinality(Params(Desc(program["main"])))
  BY DEF WeightsUploadedOnce
<1>1. SessionHandles(device, program, client)
  BY DEF HandleInv
<1>2. CASE client.kind = "prepared"
  BY <1>1, <1>2 DEF SessionHandles, PreparedHandles, Metered
<1>3. CASE client.kind = "paired"
  BY <1>1, <1>3 DEF SessionHandles, PairedHandles, PairOnce, Desc
<1> QED
  BY <1>2, <1>3

\* The programs of every session, and the one-shot executions: a handle a
\* program uses is live and has one owner, and after prepare nothing is loaded,
\* allocated or uploaded again, whichever device operations fail.
THEOREM HandlesSafe ==
    Spec => [](/\ TypeOK /\ MappedHandlesLive /\ OneOwner
               /\ NothingReloaded /\ WeightsUploadedOnce)
<1>1. HandleInv => /\ TypeOK /\ MappedHandlesLive /\ OneOwner
                   /\ NothingReloaded /\ WeightsUploadedOnce
  BY HandleType, HandleLive, HandleOneOwner, HandleNothingReloaded, HandleUploadedOnce
<1> QED
  BY <1>1, HandleInit, HandleNext, PTL DEF Spec

\* Device residency: when no zero-fill fails and no repeating program is
\* presented to execute_descriptor, nothing live is without an owner either.
THEOREM ResidencyIsOwned == NoLeakingCalls => (Spec => []HandlesOwned)
<1> SUFFICES ASSUME NoLeakingCalls PROVE Spec => []HandlesOwned
  OBVIOUS
<1>1. HandleInv => HandlesOwned
  BY HandleType, HandleLive, HandleOneOwner, HandleNoneStranded, HandleNothingReloaded,
     HandleUploadedOnce DEF HandlesOwned
<1> QED
  BY <1>1, HandleInit, HandleNext, PTL DEF Spec
=============================================================================
