\* One shard {1, 2}: does member 2 apply what coordinator 1 applied?
CONSTANTS
    h1 = h1
    h2 = h2
    Order <- MC_Pair
    ShardCount = 1
    Hashes <- MC_Hashes
    Workload <- MC_OneAtPrimary
    MaxInFlight = 1
    RequestMovedOnAdd = FALSE
    VerifyEnabled = FALSE
    PreVerifyRejects = {}
    NeedQC = FALSE
    Faulty = {}
    ShutDown = {}
    ResponseTimeout = TRUE
    NotAssigned = NotAssigned
    NoHash = NoHash
SPECIFICATION Spec
CHECK_DEADLOCK FALSE
PROPERTY
    AppliedEverywhere
