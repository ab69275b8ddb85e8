\* Shards {1} and {2}: is a request at coordinator 2 answered?
CONSTANTS
    h1 = h1
    h2 = h2
    Order <- MC_Pair
    ShardCount = 2
    Hashes <- MC_Hashes
    Workload <- MC_OneAtCoordinator
    MaxInFlight = 1
    RequestMovedOnAdd = FALSE
    VerifyEnabled = FALSE
    PreVerifyRejects = {}
    NeedQC = FALSE
    Faulty = {}
    ShutDown = {}
    ResponseTimeout = TRUE
    NotAssigned = NotAssigned
    NoHash = NoHash
SPECIFICATION Spec
CHECK_DEADLOCK FALSE
PROPERTY
    SubmittedAnswered
