\* As MC_Commitment.cfg, with GetResponseMsg blocking until a batch is ready (spec 4.3).
CONSTANTS
    h1 = h1
    h2 = h2
    Order <- MC_Pair
    ShardCount = 1
    Hashes <- MC_Hashes
    Workload <- MC_Resent
    MaxInFlight = 2
    RequestMovedOnAdd = FALSE
    VerifyEnabled = FALSE
    PreVerifyRejects = {}
    NeedQC = FALSE
    Faulty = {}
    ShutDown = {2}
    ResponseTimeout = FALSE
    NotAssigned = NotAssigned
    NoHash = NoHash
SPECIFICATION Spec
CHECK_DEADLOCK FALSE
PROPERTY
    ShutdownCompletes
