--------------------------- MODULE MC_Commitment ---------------------------
(***************************************************************************)
(* Instances of the replication engine for TLC.                           *)
(***************************************************************************)
EXTENDS Commitment, TLC

CONSTANTS h1, h2   \* two request digests (model values)

\* Replica ids in the order the config lists them (AddReplica order).
MC_Pair == <<1, 2>>
MC_Trio == <<1, 2, 3>>
MC_Quad == <<1, 2, 3, 4>>
MC_Hashes == {h1, h2}

\* Two requests, one at the coordinator and one at a member (forwarded).
MC_TwoRequests == {<<1, h1>>, <<2, h2>>}
\* The same request sent to two replicas.
MC_Resent == {<<1, h1>>, <<2, h1>>}
\* One request, at the global primary.
MC_OneAtPrimary == {<<1, h1>>}
\* One request, at coordinator 2 of shard 1 (not the global primary).
MC_OneAtCoordinator == {<<2, h1>>}
\* Two requests at the global primary.
MC_TwoAtPrimary == {<<1, h1>>, <<1, h2>>}
=============================================================================
