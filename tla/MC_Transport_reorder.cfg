CONSTANTS
    c1 = c1
    c2 = c2
    s1 = s1
    s2 = s2
    NoEndpoint = NoEndpoint
    None = None
    Replicas <- MC_Replicas
    Clients <- MC_Clients
    TcpBatch = 2
    QueueCap = 2
SPECIFICATION Spec
CONSTANTS
    Senders <- MC_OneSender
    Scripts <- MC_BroadcastThenUnicast
    ClientRosters <- MC_OneClient
    LongConn = TRUE
    Shutdown = FALSE
CHECK_DEADLOCK FALSE
INVARIANT DestinationFIFO
