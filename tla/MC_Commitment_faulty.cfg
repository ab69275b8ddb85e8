\* One shard {1, 2}, member 2 with the faulty switch tripped; one digest sent to both.
CONSTANTS
    h1 = h1
    h2 = h2
    Order <- MC_Pair
    ShardCount = 1
    Hashes <- MC_Hashes
    Workload <- MC_Resent
    MaxInFlight = 2
    RequestMovedOnAdd = FALSE
    VerifyEnabled = FALSE
    PreVerifyRejects = {}
    NeedQC = FALSE
    Faulty = {2}
    ShutDown = {}
    ResponseTimeout = TRUE
    NotAssigned = NotAssigned
    NoHash = NoHash
SPECIFICATION Spec
CHECK_DEADLOCK FALSE
INVARIANTS
    TypeOK
PROPERTIES
    ImplementsReplicatedLog
    SubmittedAnswered
