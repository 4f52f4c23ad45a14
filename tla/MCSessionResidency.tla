------------------------ MODULE MCSessionResidency --------------------------
(* Instance of SessionResidency for TLC.  inference_state.rs is public: a    *)
(* caller holds the sequence machine itself, with poison and                *)
(* commit_verification, or a residency that owns one.  Which it is is       *)
(* chosen at the start; a bare machine leaves the residency's state alone.  *)
EXTENDS SessionResidency, TLC

CONSTANTS
    t1, t2,
    BareEpochs  \* bound: the epochs of a bare machine

MCTxns == {t1, t2}
MCSymmetry == Permutations(MCTxns)

VARIABLE bare       \* the caller holds an InferenceSessionState

mcVars == <<residencyVars, bare>>

MCInit == ResidencyInit /\ bare \in BOOLEAN
MCNext ==
    \/ ~bare /\ ResidencyNext /\ UNCHANGED bare
    \/ bare /\ Next /\ epoch' <= BareEpochs /\ UNCHANGED <<invocationState, ownVars, bare>>
MCSpec == MCInit /\ [][MCNext]_mcVars

\* The machine is well typed and Fresh exactly while empty, whoever holds it,
\* and a residency's mirror and allocations follow it (SequenceResidency,
\* SessionResidency).
SessionSound == TypeOK /\ FreshIffEmpty /\ (~bare => ResidencyInv)
=============================================================================
