-------------------------- MODULE MCCompositeHost ---------------------------
(***************************************************************************)
(* Instance of CompositeHost for TLC.  The valid descriptors are a one-shot *)
(* program, a repeating one (a weight, a per-step input, a zero-filled      *)
(* intermediate carried between two launches, a state buffer, an            *)
(* observation and an end-of-run value) and its decode partner; each other  *)
(* one breaks a rule of validate.                                           *)
(***************************************************************************)
EXTENDS CompositeHost

CONSTANT t1
MCTxns == {t1}

Slot(id, sem, role, life, init, binding) ==
    [buffer |-> id, version |-> 1, sem |-> sem, name |-> id, role |-> role, width |-> 4,
     count |-> 1, shape |-> "s", binding |-> binding, life |-> life, init |-> init]
Version(id) == [buffer |-> id, version |-> 1, width |-> 4, count |-> 1, shape |-> "s"]

\* sem is added to the identities of the per-execution values.
Program(image, repeating, inputInit, sem) ==
    [backend |-> "Metal", image |-> image, repeating |-> repeating,
     kernels |-> <<
        [entry |-> "project", axes |-> <<1, 1>>, slots |-> <<
            Slot(1, 1, "Input", "PerProgram", "HostProvided", 0),
            Slot(2, sem + 2, "Input", "PerStep", inputInit, 1),
            Slot(3, sem + 3, "InOut", "PerStep", "ZeroFill", 2),
            Slot(4, 4, "InOut", "PerProgram", "ZeroFill", 3)>>],
        [entry |-> "reduce", axes |-> <<1, 1>>, slots |-> <<
            Slot(3, sem + 3, "InOut", "PerStep", "ZeroFill", 0),
            Slot(5, sem + 5, "Output", "ObservationPoint", "KernelInitialized", 1)>>]>>,
     launches |-> <<[id |-> 1, kernel |-> 1], [id |-> 2, kernel |-> 2]>>,
     roots |-> <<1>>,
     versions |-> [i \in 1..5 |-> Version(i)],
     flow |-> <<[buffer |-> 3, version |-> 1, producer |-> 1, consumer |-> 2]>>,
     results |-> <<[buffer |-> 5, version |-> 1, producedBy |-> 2, atLaunch |-> 2]>>,
     endOfRun |-> IF repeating THEN <<[buffer |-> 3, version |-> 1]>> ELSE <<>>]

OneShot == Program("a", FALSE, "HostProvided", 0)
Resident == Program("a", TRUE, "KernelInitialized", 0)
Decode == Program("a", TRUE, "KernelInitialized", 10)
OtherImage == [Decode EXCEPT !.image = "b"]
\* A training program: no per-step input, and the state is the end-of-run value.
Training == [Resident EXCEPT
    !.kernels[1].slots = <<Slot(1, 1, "Input", "PerProgram", "HostProvided", 0),
                           Slot(3, 3, "InOut", "PerStep", "ZeroFill", 2),
                           Slot(4, 4, "InOut", "PerProgram", "ZeroFill", 3)>>,
    !.endOfRun = <<[buffer |-> 4, version |-> 1]>>]
\* A partner whose state buffer has another size.
Mismatched == [Decode EXCEPT !.kernels[1].slots[4].count = 2, !.versions[4].count = 2]

Swapped == [Resident EXCEPT !.launches = <<[id |-> 2, kernel |-> 2], [id |-> 1, kernel |-> 1]>>]
InputRewritten == [Resident EXCEPT
    !.kernels[1].slots = Append(@, Slot(6, 6, "Input", "PerStep", "KernelInitialized", 4)),
    !.kernels[2].slots = <<Slot(6, 6, "InOut", "PerStep", "KernelInitialized", 2)>> \o @,
    !.launches = @ \o <<[id |-> 3, kernel |-> 1]>>, !.roots = <<1, 3>>,
    !.versions = Append(@, Version(6))]
InputPerStep == [Training EXCEPT
    !.kernels[1].slots = Append(@, Slot(2, 2, "Input", "PerStep", "HostProvided", 1))]
Unreachable == [Resident EXCEPT !.roots = <<2>>]
TwoProducers == [Resident EXCEPT
    !.launches = Append(@, [id |-> 3, kernel |-> 2]), !.roots = <<1, 3>>,
    !.flow = Append(@, [buffer |-> 3, version |-> 1, producer |-> 2, consumer |-> 3])]
TwoLifetimes == [Resident EXCEPT !.kernels[2].slots[1].life = "ObservationPoint"]
BindingTwice == [Resident EXCEPT !.kernels[1].slots[2].binding = 0]
WrongBackend == [Resident EXCEPT !.backend = "Cuda"]
BadOneShot == [OneShot EXCEPT !.roots = <<2>>]

MCCatalog == [oneShot |-> OneShot, resident |-> Resident, decode |-> Decode,
    otherImage |-> OtherImage, mismatched |-> Mismatched, training |-> Training,
    swapped |-> Swapped, inputRewritten |-> InputRewritten, inputPerStep |-> InputPerStep,
    unreachable |-> Unreachable, twoProducers |-> TwoProducers, twoLifetimes |-> TwoLifetimes,
    bindingTwice |-> BindingTwice, wrongBackend |-> WrongBackend, badOneShot |-> BadOneShot]
MCOneShots == {"oneShot", "badOneShot"}
MCRepeating == {"oneShot", "resident"}
MCPairs == {"resident"} \X {"decode", "otherImage", "mismatched"}
=============================================================================
