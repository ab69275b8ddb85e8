\* One shard {1, 2} (coordinator 1, the global primary); one digest sent to both;
\* the Commitment of member 2 may be destroyed at any point.
CONSTANTS
    h1 = h1
    h2 = h2
    Order <- MC_Pair
    ShardCount = 1
    Hashes <- MC_Hashes
    Workload <- MC_Resent
    MaxInFlight = 2
    RequestMovedOnAdd = FALSE
    VerifyEnabled = FALSE
    PreVerifyRejects = {}
    NeedQC = FALSE
    Faulty = {}
    ShutDown = {2}
    ResponseTimeout = TRUE
    NotAssigned = NotAssigned
    NoHash = NoHash
SPECIFICATION Spec
CHECK_DEADLOCK FALSE
INVARIANTS
    TypeOK
PROPERTIES
    ImplementsReplicatedLog
    SubmittedAnswered
