SPECIFICATION FairSpec
CONSTANTS
    t1 = t1  t2 = t2  t3 = t3  l1 = l1  c1 = c1  c2 = c2
    Threads <- MCTwoThreads
    Acceptors <- MCTwoAcceptors
    Listeners <- MCListeners
    Conns <- MCOneConn
    MaxRequests = 3
    MaxFrames = 2
PROPERTIES
    StopEndsCalls
CHECK_DEADLOCK FALSE
