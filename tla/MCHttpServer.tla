---------------------------- MODULE MCHttpServer ----------------------------
(* Instances of HttpServer for TLC.                                        *)
EXTENDS HttpServer, TLC

CONSTANTS t1, t2, t3, l1, c1, c2

MCTwoThreads   == {t1, t2}
MCThreeThreads == {t1, t2, t3}
MCOneAcceptor  == {t1}
MCTwoAcceptors == {t1, t2}
MCResponders   == Permutations({t2, t3})
MCListeners    == {l1}
MCOneConn      == {c1}
MCTwoConns     == {c1, c2}
=============================================================================
