CONSTANTS
    Conns <- MCConn1
    Acceptor <- MCAcceptor
    Tasks <- MCTasks1
    Tokens = {k1, k2}
    QueueDepth = 1
    MaxRequests = 1
    PartialWrites = FALSE
    Pipelining = FALSE
    Null = Null
    Retry = Retry
SPECIFICATION Spec
PROPERTY OrderlyCloseEndsConnection
