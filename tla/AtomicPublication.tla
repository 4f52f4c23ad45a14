------------------------- MODULE AtomicPublication -------------------------
(***************************************************************************)
(* What execution_transaction promises its caller: a transaction is open   *)
(* until it commits or aborts, once and for good; committing makes its      *)
(* whole write set visible in one step and aborting makes none of it        *)
(* visible.                                                                *)
(***************************************************************************)
VARIABLES
    writeSet,   \* the writes the accepted plan declares
    decision,   \* "open", "committed" or "aborted"
    visible     \* the writes a reader of the backend sees

vars == <<writeSet, decision, visible>>

Init == decision = "open" /\ visible = {}

Commit ==
    /\ decision = "open"
    /\ decision' = "committed"
    /\ visible' = writeSet
    /\ UNCHANGED writeSet

Abort ==
    /\ decision = "open"
    /\ decision' = "aborted"
    /\ UNCHANGED <<writeSet, visible>>

Next == Commit \/ Abort

Spec == Init /\ [][Next]_vars
=============================================================================
