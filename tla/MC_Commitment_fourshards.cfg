\* Four shards of one replica: is a request at the global primary answered?
CONSTANTS
    h1 = h1
    h2 = h2
    Order <- MC_Quad
    ShardCount = 4
    Hashes <- MC_Hashes
    Workload <- MC_OneAtPrimary
    MaxInFlight = 1
    RequestMovedOnAdd = FALSE
    VerifyEnabled = FALSE
    PreVerifyRejects = {}
    NeedQC = FALSE
    Faulty = {}
    ShutDown = {}
    ResponseTimeout = TRUE
    NotAssigned = NotAssigned
    NoHash = NoHash
SPECIFICATION Spec
CHECK_DEADLOCK FALSE
PROPERTY
    SubmittedAnswered
