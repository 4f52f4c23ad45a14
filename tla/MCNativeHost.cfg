SPECIFICATION Spec
CONSTANTS
    w1 = w1  w2 = w2  c1 = c1  c2 = c2  j1 = j1  j2 = j2  j3 = j3
    Workers <- MCWorkers
    Clients <- MCClients
    Owner = c1
    Jobs <- MCJobs
    RoutedJobs <- MCTwoJobs
    Capacities = {0, 1}
    MaxContents = 2
SYMMETRY MCSymmetry
INVARIANTS
    TypeOK
    NoJobEscapesShutdown
    JobsAccountedFor
    StreamsWellFormed
    RendezvousHandsOver
PROPERTIES
    JoinerDrains
