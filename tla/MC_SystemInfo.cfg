CONSTANTS
    Ids <- MC_Ids
    ShardCountValues <- MC_ShardCountValues
    UninitCounts <- MC_UninitCounts
    Rosters <- MC_Rosters
    RuntimeRosters <- MC_FullRoster
    Views <- MC_Views
    Writers = {w1}
    NotAssigned = NotAssigned
SPECIFICATION Spec
CONSTRAINT StateBound
INVARIANT TypeOK
INVARIANT ShardMapsConsistent
INVARIANT CoordinatorIsFirstMember
INVARIANT AssignmentIsRoundRobin
