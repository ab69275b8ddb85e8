\* Two shards: {1, 3} (coordinator 1, the global primary) and {2}.
CONSTANTS
    h1 = h1
    h2 = h2
    Order <- MC_Trio
    ShardCount = 2
    Hashes <- MC_Hashes
    Workload <- MC_TwoRequests
    MaxInFlight = 1
    RequestMovedOnAdd = FALSE
    VerifyEnabled = FALSE
    PreVerifyRejects = {}
    NeedQC = TRUE
    Faulty = {}
    ShutDown = {}
    ResponseTimeout = TRUE
    NotAssigned = NotAssigned
    NoHash = NoHash
SPECIFICATION Spec
CHECK_DEADLOCK FALSE
PROPERTY
    ImplementsReplicatedLog
