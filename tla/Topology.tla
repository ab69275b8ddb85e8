------------------------------ MODULE Topology ------------------------------
(***************************************************************************)
(* The placement algorithm of SystemInfo::AddReplicaToShard as pure        *)
(* operators, so that a topology built by a sequence of AddReplica calls   *)
(* on a fresh SystemInfo (after SetShardCount) can be computed as a        *)
(* constant, and compared with a round-robin reference.                    *)
(***************************************************************************)
EXTENDS Naturals, Sequences
LOCAL INSTANCE SequencesExt

CONSTANT NotAssigned

\* The first shard of least size among 0 .. count-1 (the loop keeps the
\* first minimum because it compares with a strict <).
LeastLoadedOf(lists, count) ==
    LET live == 0 .. (count - 1)
        size(i) == Len(lists[i])
    IN  CHOOSE i \in live :
            /\ \A j \in live : size(i) <= size(j)
            /\ \A j \in 0 .. (i - 1) : size(j) > size(i)

\* The maps right after SetShardCount(count).
EmptyTopology(count) ==
    [count     |-> count,
     roster    |-> <<>>,
     nodeShard |-> <<>>,
     lists     |-> [s \in 0 .. (count - 1) |-> <<>>],
     primaries |-> [s \in 0 .. (count - 1) |-> NotAssigned]]

\* One AddReplica(id) call: duplicate check, placement, coordinator.
AddToShard(t, id) ==
    IF \E i \in DOMAIN t.roster : t.roster[i] = id THEN t
    ELSE LET target == LeastLoadedOf(t.lists, t.count)
         IN  [t EXCEPT
                !.roster    = Append(@, id),
                !.nodeShard = (id :> target) @@ @,
                !.lists     = [@ EXCEPT ![target] = Append(@, id)],
                !.primaries = IF @[target] = NotAssigned
                              THEN [@ EXCEPT ![target] = id] ELSE @]

\* The topology after adding the replicas of `order` one by one.
Bootstrap(order, count) == FoldLeft(AddToShard, EmptyTopology(count), order)

\* Reference placement: the i-th replica goes to shard (i-1) mod count.
RoundRobin(order, count) ==
    [i \in 1 .. Len(order) |-> (i - 1) % count]

\* Queries on a built topology.
ShardOfNode(t, n) == IF n \in DOMAIN t.nodeShard THEN t.nodeShard[n]
                     ELSE NotAssigned
PrimaryOfShard(t, s) == IF s \in DOMAIN t.primaries THEN t.primaries[s]
                        ELSE NotAssigned
NodesInShard(t, s) == IF s \in DOMAIN t.lists THEN t.lists[s] ELSE <<>>
PrimaryOfNode(t, n) == PrimaryOfShard(t, ShardOfNode(t, n))
=============================================================================
