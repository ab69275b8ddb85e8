--------------------------- MODULE MC_SystemInfo ---------------------------
(* Bootstrap of a topology by one thread: the default or the config       *)
(* constructor, then SetShardCount and AddReplica calls in any order.     *)
EXTENDS SystemInfo

MC_Ids == {1, 2, 3}
MC_ShardCountValues == {1, 2}
MC_UninitCounts == {0, 2}
MC_Rosters == {<<1>>}
MC_Views == {1, 2}
\* SetReplicas re-installing the whole configured roster.
MC_FullRoster == {<<1, 2, 3>>}
\* SetReplicas installing a roster that drops replicas 2 and 3.
MC_ShortRoster == {<<1>>}

\* Bounds the roster when two AddReplica calls race on one id.
StateBound == Len(replicas) <= 4
=============================================================================
