----------------------------- MODULE SystemInfo -----------------------------
(***************************************************************************)
(* Cluster topology of one replica: SystemInfo in                          *)
(* src/platform/consensus/execution/system_info.{h,cpp}.                   *)
(*                                                                         *)
(* The replica roster replicas_, the shard count, the three shard maps     *)
(* (node -> shard, shard -> member list, shard -> coordinator), the global *)
(* primary and the view.  AddReplica is a check-then-act sequence with no  *)
(* lock: every call is a thread of Writers that goes through the steps     *)
(* Check -> Assign -> Insert -> Crown, and other threads may interleave.   *)
(* Missing map keys are the sentinel NotAssigned (UINT32_MAX / UINT_MAX).  *)
(***************************************************************************)
EXTENDS Naturals, Sequences, FiniteSets
LOCAL INSTANCE SequencesExt
LOCAL INSTANCE FiniteSetsExt

CONSTANTS
    Ids,              \* replica ids offered to AddReplica (all well formed)
    ShardCountValues, \* arguments of SetShardCount
    UninitCounts,     \* values the uninitialised shard_count_ may hold
    Rosters,          \* replica lists of the config constructor
    RuntimeRosters,   \* replica lists passed to SetReplicas after start
    Views,            \* arguments of SetCurrentView
    Writers,          \* threads that may be inside AddReplica at once
    NotAssigned       \* UINT32_MAX: "no shard" / "no coordinator"

ASSUME ShardCountValues \subseteq Nat \ {0} /\ UninitCounts \subseteq Nat
ASSUME NotAssigned \notin Nat

MaxShardCount == Max(ShardCountValues \cup UninitCounts)
Shards == 0 .. (MaxShardCount - 1)

VARIABLES
    replicas,        \* replicas_: the roster, a vector of ids
    shard_count,     \* shard_count_
    node_to_shard,   \* node_to_shard_: id -> shard or NotAssigned
    shard_to_nodes,  \* shard_to_nodes_: shard -> vector of ids
    shard_primaries, \* shard_primaries_: shard -> id or NotAssigned
    primary_id,      \* primary_id_ (atomic)
    view,            \* view_ (atomic)
    wpc,             \* step of each AddReplica call in progress
    warg,            \* the id each call is adding
    wtarget,         \* the shard each call has picked
    added            \* history: ids assigned since the maps were last cleared

vars == <<replicas, shard_count, node_to_shard, shard_to_nodes,
          shard_primaries, primary_id, view, wpc, warg, wtarget, added>>
topo == <<replicas, shard_count, node_to_shard, shard_to_nodes,
          shard_primaries, primary_id, view>>

\* Maps as SetShardCount leaves them: every key erased.
ClearedMaps ==
    /\ node_to_shard' = [n \in Ids |-> NotAssigned]
    /\ shard_to_nodes' = [s \in Shards |-> <<>>]
    /\ shard_primaries' = [s \in Shards |-> NotAssigned]

\* Both constructors leave shard_count_ uninitialised; the config
\* constructor installs the roster without assigning it to shards.
Init ==
    /\ \/ /\ primary_id = 1
          /\ replicas = <<>>
       \/ \E r \in Rosters :
             /\ primary_id = r[1]
             /\ replicas = r
    /\ view = 1
    /\ shard_count \in UninitCounts
    /\ node_to_shard = [n \in Ids |-> NotAssigned]
    /\ shard_to_nodes = [s \in Shards |-> <<>>]
    /\ shard_primaries = [s \in Shards |-> NotAssigned]
    /\ wpc = [w \in Writers |-> "idle"]
    /\ warg = [w \in Writers |-> CHOOSE n \in Ids : TRUE]
    /\ wtarget = [w \in Writers |-> 0]
    /\ added = <<>>

Quiescent == \A w \in Writers : wpc[w] = "idle"

(***************************************************************************)
(* Queries, as the replication engine calls them.                          *)
(***************************************************************************)
GetShardSize(s) == IF s \in Shards THEN Len(shard_to_nodes[s]) ELSE 0
GetNodesInShard(s) == IF s \in Shards THEN shard_to_nodes[s] ELSE <<>>
GetShardOfNode(n) == IF n \in Ids THEN node_to_shard[n] ELSE NotAssigned
GetPrimaryOfShard(s) == IF s \in Shards THEN shard_primaries[s] ELSE NotAssigned

T == INSTANCE Topology

\* Fault variant: the loop compares with <=, keeping the last minimum.
LeastLoadedLast ==
    LET live == 0 .. (shard_count - 1)
        size(i) == Len(shard_to_nodes[i])
    IN  CHOOSE i \in live :
            /\ \A j \in live : size(i) <= size(j)
            /\ \A j \in (i + 1) .. (shard_count - 1) : size(j) > size(i)

\* The loop of AddReplicaToShard: the first shard of least size.
LeastLoaded == T!LeastLoadedOf(shard_to_nodes, shard_count)

\* Fault variant: no duplicate check over replicas_.
AddReplicaNoDupCheck(w, n) ==
    /\ wpc[w] = "idle"
    /\ shard_count # 0
    /\ wpc' = [wpc EXCEPT ![w] = "assign"]
    /\ warg' = [warg EXCEPT ![w] = n]
    /\ UNCHANGED <<topo, wtarget, added>>

(***************************************************************************)
(* AddReplica(replica): the duplicate check over replicas_ and the         *)
(* shard_count_ check; an early return is a step that changes nothing, so  *)
(* the call is only started when both checks pass.                         *)
(***************************************************************************)
AddReplica(w, n) ==
    /\ wpc[w] = "idle"
    /\ \A i \in DOMAIN replicas : replicas[i] # n
    /\ shard_count # 0
    /\ wpc' = [wpc EXCEPT ![w] = "assign"]
    /\ warg' = [warg EXCEPT ![w] = n]
    /\ UNCHANGED <<topo, wtarget, added>>

\* AddReplicaToShard: pick the least loaded shard, push onto replicas_.
Assign(w) ==
    /\ wpc[w] = "assign"
    /\ wtarget' = [wtarget EXCEPT ![w] = LeastLoaded]
    /\ replicas' = Append(replicas, warg[w])
    /\ added' = Append(added, warg[w])
    /\ wpc' = [wpc EXCEPT ![w] = "insert"]
    /\ UNCHANGED <<shard_count, node_to_shard, shard_to_nodes,
                   shard_primaries, primary_id, view, warg>>

\* node_to_shard_[id] = target; shard_to_nodes_[target].push_back(id).
Insert(w) ==
    /\ wpc[w] = "insert"
    /\ node_to_shard' = [node_to_shard EXCEPT ![warg[w]] = wtarget[w]]
    /\ shard_to_nodes' = [shard_to_nodes EXCEPT
                            ![wtarget[w]] = Append(@, warg[w])]
    /\ wpc' = [wpc EXCEPT ![w] = "crown"]
    /\ UNCHANGED <<replicas, shard_count, shard_primaries, primary_id, view,
                   warg, wtarget, added>>

\* Fault variant: every new replica becomes its shard's coordinator.
CrownAlways(w) ==
    /\ wpc[w] = "crown"
    /\ shard_primaries' = [shard_primaries EXCEPT ![wtarget[w]] = warg[w]]
    /\ wpc' = [wpc EXCEPT ![w] = "idle"]
    /\ UNCHANGED <<replicas, shard_count, node_to_shard, shard_to_nodes,
                   primary_id, view, warg, wtarget, added>>

\* Fault variant: the shard index is stored as the coordinator's id.
CrownShardIndex(w) ==
    /\ wpc[w] = "crown"
    /\ shard_primaries' =
         IF shard_primaries[wtarget[w]] = NotAssigned
         THEN [shard_primaries EXCEPT ![wtarget[w]] = wtarget[w]]
         ELSE shard_primaries
    /\ wpc' = [wpc EXCEPT ![w] = "idle"]
    /\ UNCHANGED <<replicas, shard_count, node_to_shard, shard_to_nodes,
                   primary_id, view, warg, wtarget, added>>

\* The first replica of a shard becomes its coordinator.
Crown(w) ==
    /\ wpc[w] = "crown"
    /\ shard_primaries' =
         IF shard_primaries[wtarget[w]] = NotAssigned
         THEN [shard_primaries EXCEPT ![wtarget[w]] = warg[w]]
         ELSE shard_primaries
    /\ wpc' = [wpc EXCEPT ![w] = "idle"]
    /\ UNCHANGED <<replicas, shard_count, node_to_shard, shard_to_nodes,
                   primary_id, view, warg, wtarget, added>>

\* SetShardCount: sets the count and clears the maps, whatever is
\* already in replicas_.  Configuration calls run between AddReplica calls.
SetShardCount(c) ==
    /\ Quiescent
    /\ shard_count' = c
    /\ ClearedMaps
    /\ added' = <<>>
    /\ UNCHANGED <<replicas, primary_id, view, wpc, warg, wtarget>>

\* SetReplicas: replaces the roster, leaves the shard maps alone.
SetReplicas(r) ==
    /\ Quiescent
    /\ replicas' = r
    /\ UNCHANGED <<shard_count, node_to_shard, shard_to_nodes,
                   shard_primaries, primary_id, view, wpc, warg, wtarget,
                   added>>

SetPrimary(n) ==
    /\ primary_id' = n
    /\ UNCHANGED <<replicas, shard_count, node_to_shard, shard_to_nodes,
                   shard_primaries, view, wpc, warg, wtarget, added>>

SetCurrentView(v) ==
    /\ view' = v
    /\ UNCHANGED <<replicas, shard_count, node_to_shard, shard_to_nodes,
                   shard_primaries, primary_id, wpc, warg, wtarget, added>>

Next ==
    \/ \E w \in Writers, n \in Ids : AddReplica(w, n)
    \/ \E w \in Writers : Assign(w) \/ Insert(w) \/ Crown(w)
    \/ \E c \in ShardCountValues : SetShardCount(c)
    \/ \E r \in RuntimeRosters : SetReplicas(r)
    \/ \E n \in Ids : SetPrimary(n)
    \/ \E v \in Views : SetCurrentView(v)

Spec == Init /\ [][Next]_vars

(***************************************************************************)
(* Properties                                                              *)
(***************************************************************************)
Listed == UNION {ToSet(shard_to_nodes[s]) : s \in Shards}
Occurrences(n) ==
    Cardinality({<<s, i>> \in Shards \X (1 .. Len(replicas) + 1) :
                    i <= Len(shard_to_nodes[s]) /\ shard_to_nodes[s][i] = n})

TypeOK ==
    /\ replicas \in Seq(Ids)
    /\ shard_count \in ShardCountValues \cup UninitCounts
    /\ node_to_shard \in [Ids -> (0 .. (shard_count - 1)) \cup {NotAssigned}]
    /\ shard_to_nodes \in [Shards -> Seq(Ids)]
    /\ shard_primaries \in [Shards -> Ids \cup {NotAssigned}]
    /\ primary_id \in Ids \cup {1}
    /\ view \in Views \cup {1}
    /\ wpc \in [Writers -> {"idle", "assign", "insert", "crown"}]
    /\ wtarget \in [Writers -> Shards]

\* Between AddReplica calls, node_to_shard_ is the inverse of
\* shard_to_nodes_: an assigned node is listed exactly once, in its own
\* shard, and every listed node is in the roster replicas_.
ShardMapsConsistent ==
    Quiescent =>
      /\ \A n \in Ids :
           node_to_shard[n] # NotAssigned =>
              /\ Occurrences(n) = 1
              /\ n \in ToSet(shard_to_nodes[node_to_shard[n]])
      /\ \A s \in Shards : \A n \in ToSet(shard_to_nodes[s]) :
           node_to_shard[n] = s
      /\ Listed \subseteq ToSet(replicas)

\* Between AddReplica calls, a shard has a coordinator exactly when it
\* has members, and the coordinator is the first replica assigned to it.
CoordinatorIsFirstMember ==
    Quiescent =>
      \A s \in Shards :
         IF shard_to_nodes[s] = <<>>
         THEN shard_primaries[s] = NotAssigned
         ELSE shard_primaries[s] = Head(shard_to_nodes[s])

\* The least-loaded placement of AddReplicaToShard deals replicas out
\* round robin: the i-th replica added since the last SetShardCount is in
\* shard (i-1) mod shard_count (so shard sizes differ by at most one).
AssignmentIsRoundRobin ==
    Quiescent =>
      \A i \in 1 .. Len(added) :
         node_to_shard[added[i]] = T!RoundRobin(added, shard_count)[i]

\* Spec (3, ClusterView): every replica of replicas_ is in exactly one
\* shard list.  SetShardCount and the config constructor break it.
ReplicasAllAssigned ==
    Quiescent =>
      \A i \in DOMAIN replicas : node_to_shard[replicas[i]] # NotAssigned


=============================================================================
