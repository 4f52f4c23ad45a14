SPECIFICATION Spec
CONSTANTS
    t1 = t1  t2 = t2  t3 = t3  l1 = l1  c1 = c1  c2 = c2
    Threads <- MCThreeThreads
    Acceptors <- MCOneAcceptor
    Listeners <- MCListeners
    Conns <- MCOneConn
    MaxRequests = 2
    MaxFrames = 4
INVARIANTS
    FramesInOrder
    IndexesExact
PROPERTIES
    OnlyFailedFinishStrands
SYMMETRY MCResponders
CHECK_DEADLOCK FALSE
