CONSTANTS
    Ids <- MC_Ids
    ShardCountValues <- MC_ShardCountValues
    UninitCounts <- MC_UninitCounts
    Views <- MC_Views
    NotAssigned = NotAssigned
SPECIFICATION Spec
CONSTRAINT StateBound
CONSTANTS
    Rosters = {}
    RuntimeRosters <- MC_ShortRoster
    Writers = {w1}
INVARIANT ShardMapsConsistent
