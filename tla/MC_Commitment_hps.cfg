\* Two requests in flight at coordinator 1: is highest_prepared_seq the maximum?
CONSTANTS
    h1 = h1
    h2 = h2
    Order <- MC_Pair
    ShardCount = 1
    Hashes <- MC_Hashes
    Workload <- MC_TwoAtPrimary
    MaxInFlight = 2
    RequestMovedOnAdd = FALSE
    VerifyEnabled = FALSE
    PreVerifyRejects = {}
    NeedQC = FALSE
    Faulty = {}
    ShutDown = {}
    ResponseTimeout = TRUE
    NotAssigned = NotAssigned
    NoHash = NoHash
SPECIFICATION Spec
CHECK_DEADLOCK FALSE
INVARIANT
    HighestPreparedIsMax
