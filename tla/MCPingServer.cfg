CONSTANTS
    Conns <- MCConns
    Acceptor <- MCAcceptor
    Tasks <- MCTasks
    Tokens = {k1, k2, k3}
    QueueDepth = 1
    MaxRequests = 1
    PartialWrites = FALSE
    Pipelining = FALSE
    Null = Null
    Retry = Retry
SYMMETRY TokenSymmetry
SPECIFICATION Spec
INVARIANT TypeOK
INVARIANT ContinuationIntegrity
INVARIANT SchedulerSound
