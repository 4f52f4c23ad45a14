---------------------------- MODULE MCNativeHost ----------------------------
(* Instances of NativeHost for TLC.                                        *)
EXTENDS NativeHost, TLC

CONSTANTS w1, w2, c1, c2, j1, j2, j3

MCWorkers == {w1, w2}
MCClients == {c1, c2}
MCOneClient == {c1}
MCTwoJobs == {j1, j2}
MCJobs    == {j1, j2, j3}

\* Workers are interchangeable; jobs that are routed are too.
MCSymmetry == Permutations(MCWorkers) \cup Permutations(MCTwoJobs)
=============================================================================
