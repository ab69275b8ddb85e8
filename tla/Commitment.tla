----------------------------- MODULE Commitment -----------------------------
(***************************************************************************)
(* The two-level PBFT replication engine of                                *)
(* src/platform/consensus/ordering/pbft/commitment.cpp, run by every       *)
(* replica of a sharded cluster, with the collaborators it calls:          *)
(*   - the quorum store MessageManager::AddConsensusMsg / AssignNextSeq    *)
(*     / GetTransactionState (spec 4.3, spec_modelled),                    *)
(*   - the DuplicateManager (spec 4.2, spec_modelled),                     *)
(*   - the executor that applies READY_EXECUTE slots in seq order and      *)
(*     feeds GetResponseMsg (spec 4.3, 4.4.5, spec_modelled),              *)
(*   - the topology, built by the AddReplicaToShard algorithm (Topology).  *)
(*                                                                         *)
(* Each handler is split where the code gives up its slot lock: step 1    *)
(* (checks, AddConsensusMsg) and, on STATE_CHANGED, step 2 (the read of    *)
(* GetTransactionState and the sends), kept in cont as a pending           *)
(* continuation so that other handler threads and the executor can run    *)
(* in between.  The network is the set net of messages in flight; order   *)
(* of delivery is arbitrary (several ingress threads per replica).        *)
(***************************************************************************)
EXTENDS Naturals, Sequences, FiniteSets
LOCAL INSTANCE SequencesExt

CONSTANTS
    Order,             \* replica ids in AddReplica order; Order[1] is primary
    ShardCount,        \* SetShardCount argument
    Hashes,            \* request digests
    Workload,          \* <<replica, digest>>: what the proxy sends, once each
    MaxInFlight,       \* max_process_txn: cap of AssignNextSeq
    RequestMovedOnAdd, \* AddConsensusMsg takes ownership of the request
    VerifyEnabled,     \* VerifyMessage really checks data signatures
    PreVerifyRejects,  \* digests pre_verify_func_ rejects ({} if none installed)
    NeedQC,            \* need_qc_ && verifier_: COMMITs are signed
    Faulty,            \* replicas with enable_faulty_switch tripped (IsFaulty)
    ShutDown,          \* replicas whose Commitment may be destroyed
    ResponseTimeout,   \* GetResponseMsg returns nullptr when nothing is ready
    NotAssigned,       \* UINT32_MAX
    NoHash             \* hash of a slot without pre-prepare

ASSUME ShardCount \in 1 .. Len(Order)
ASSUME Workload \subseteq ToSet(Order) \X Hashes
ASSUME RequestMovedOnAdd \in BOOLEAN /\ VerifyEnabled \in BOOLEAN
ASSUME PreVerifyRejects \subseteq Hashes /\ NeedQC \in BOOLEAN
ASSUME Faulty \subseteq ToSet(Order)
ASSUME ShutDown \subseteq ToSet(Order) /\ ResponseTimeout \in BOOLEAN

T == INSTANCE Topology
Topo == T!Bootstrap(Order, ShardCount)

Replica == ToSet(Order)
\* Every proposal consumes one submission: seqs never pass the workload.
MaxSubmits == Cardinality(Workload)
Seqs == 1 .. MaxSubmits
Shards == 0 .. (ShardCount - 1)
ShardOf(n) == T!ShardOfNode(Topo, n)
\* Fault variant: the shard index where the coordinator's id is meant.
PrimaryOfNodeAsShard(n) == ShardOf(n)
PrimaryOfNode(n) == T!PrimaryOfNode(Topo, n)
PrimaryOfShard(s) == T!PrimaryOfShard(Topo, s)
NodesInShard(s) == T!NodesInShard(Topo, s)
Members(s) == ToSet(NodesInShard(s))
NodesInSameShard(a, b) == ShardOf(a) = ShardOf(b)
Coordinators == {PrimaryOfShard(s) : s \in Shards}
\* SystemInfo(config): primary_id_ = the first configured replica.
GlobalPrimary == Order[1]

(***************************************************************************)
(* Quorum store (spec 4.3).  The code gives AddConsensusMsg no level: a    *)
(* slot is outer at a coordinator (group: the coordinators) and inner at a *)
(* member (group: its shard), the only receivers of each PRE_PREPARE.      *)
(***************************************************************************)
Quorum(n) == 2 * ((n - 1) \div 3) + 1
GroupSize(r) ==
    IF r \in Coordinators THEN ShardCount ELSE Cardinality(Members(ShardOf(r)))

Phases == <<"IDLE", "READY_PREPARE", "READY_COMMIT", "READY_EXECUTE", "EXECUTED">>
Rank(p) == CHOOSE i \in DOMAIN Phases : Phases[i] = p

EmptySlot ==
    [phase |-> "IDLE", hash |-> NoHash, proposer |-> 0, primary |-> 0,
     prepares |-> {}, commits |-> {}]

\* Senders of the votes in `votes` for digest h.
Voters(votes, h) == {v[1] : v \in {x \in votes : x[2] = h}}

\* MessageManager::AddConsensusMsg: the new slot and the result code.
AddConsensusMsg(sl, m, r) ==
    CASE m.type = "PRE_PREPARE" ->
           IF sl.phase = "IDLE"
           THEN [ret  |-> "STATE_CHANGED",
                 slot |-> [sl EXCEPT !.phase = "READY_PREPARE", !.hash = m.hash,
                                     !.proposer = m.sender,
                                     !.primary = m.primary]]
           ELSE [ret |-> IF sl.hash = m.hash THEN "OK" ELSE "INVALID",
                 slot |-> sl]
      [] m.type = "PREPARE" ->
           LET votes == sl.prepares \cup {<<m.sender, m.hash>>}
               crosses == /\ sl.phase = "READY_PREPARE"
                          /\ Cardinality(Voters(votes, sl.hash) \cup {sl.proposer})
                               >= Quorum(GroupSize(r))
           IN  [ret  |-> IF crosses THEN "STATE_CHANGED" ELSE "OK",
                slot |-> [sl EXCEPT !.prepares = votes,
                                    !.phase = IF crosses THEN "READY_COMMIT" ELSE @]]
      [] m.type = "COMMIT" ->
           LET votes == sl.commits \cup {<<m.sender, m.hash>>}
               crosses == /\ sl.phase = "READY_COMMIT"
                          /\ Cardinality(Voters(votes, sl.hash))
                               >= Quorum(GroupSize(r))
           IN  [ret  |-> IF crosses THEN "STATE_CHANGED" ELSE "OK",
                slot |-> [sl EXCEPT !.commits = votes,
                                    !.phase = IF crosses THEN "READY_EXECUTE" ELSE @]]

(***************************************************************************)
(* Messages: Request records reduced to the fields the handlers read.      *)
(* data: the message still carries the client's data and data_signature.   *)
(***************************************************************************)
Msg(type, seq, h, sender, primary, data, dst) ==
    [type |-> type, seq |-> seq, hash |-> h, sender |-> sender,
     primary |-> primary, data |-> data, dst |-> dst]

\* resdb::NewRequest(type, request, sender): a copy with new type and sender.
NewRequest(type, m, sender) == [m EXCEPT !.type = type, !.sender = sender]

To(m, D) == {[m EXCEPT !.dst = d] : d \in D}

VARIABLES
    net,        \* messages in flight
    slot,       \* replica -> seq -> quorum-store slot
    proposed,   \* replica -> digests marked proposed (DuplicateManager)
    executed,   \* replica -> digest -> seq it executed at (0: not executed)
    nextSeq,    \* replica -> next_seq_ of AssignNextSeq
    execUpTo,   \* replica -> highest seq applied by the executor
    hps,        \* replica -> highest_prepared_seq
    cont,       \* replica -> handlers between AddConsensusMsg and their sends
    respQueue,  \* replica -> executed batches waiting for GetResponseMsg
    complained, \* replica -> request_complained_ (forwarded requests)
    responses,  \* responses received by the client proxy
    crashed,    \* replica -> the process has died
    pending,    \* submissions the proxy has not sent yet
    stop,       \* replica -> stop_
    respThread  \* replica -> executed_thread_: "waiting" in GetResponseMsg, or "exited"

\* Only the destructor and the response thread touch stop_ and the thread.
lifecycle == <<stop, respThread>>
vars == <<net, slot, proposed, executed, nextSeq, execUpTo, hps, cont,
          respQueue, complained, responses, crashed, pending, stop, respThread>>

Init ==
    /\ net = {}
    /\ slot = [r \in Replica |-> [s \in Seqs |-> EmptySlot]]
    /\ proposed = [r \in Replica |-> {}]
    /\ executed = [r \in Replica |-> [h \in Hashes |-> 0]]
    /\ nextSeq = [r \in Replica |-> 1]
    /\ execUpTo = [r \in Replica |-> 0]
    /\ hps = [r \in Replica |-> 0]
    /\ cont = [r \in Replica |-> {}]
    /\ respQueue = [r \in Replica |-> <<>>]
    /\ complained = [r \in Replica |-> <<>>]
    /\ responses = {}
    /\ crashed = [r \in Replica |-> FALSE]
    /\ pending = Workload
    /\ stop = [r \in Replica |-> FALSE]
    /\ respThread = [r \in Replica |-> "waiting"]

Live(r) == ~crashed[r]
\* The replica is its shard's coordinator.
IsCoordinator(r) == r = PrimaryOfNode(r)
\* VerifyMessage(data, data_signature): a copy stripped of its data or
\* signature fails when signatures are really checked.
Verified(m) == ~VerifyEnabled \/ m.data
\* pre_verify_func_(request), when installed.
PreVerified(m) == m.hash \notin PreVerifyRejects
\* AssignNextSeq: refuses beyond max_process_txn sequences in flight.
SeqAvailable(r) == nextSeq[r] - execUpTo[r] <= MaxInFlight
Consume(m) == net' = net \ {m}
\* Fault variant: the proposed mark is never consulted.
CheckProposedNever(r, h) == FALSE
\* DuplicateManager::CheckAndAddProposed, the check half.
CheckProposed(r, h) == h \in proposed[r]
\* Ingress routing rule of the three consensus handlers.
Misrouted(r, m) == ~NodesInSameShard(m.sender, r) /\ ~IsCoordinator(r)
\* SendMessage(*request, GetPrimaryOfShard(own shard)); return -3.
Forward(r, m) ==
    /\ net' = (net \ {m}) \cup {[m EXCEPT !.dst = PrimaryOfShard(ShardOf(r))]}
    /\ UNCHANGED <<slot, proposed, executed, nextSeq, execUpTo, hps, cont,
                   respQueue, complained, responses, crashed, pending>>

(***************************************************************************)
(* The client proxy signs a request and sends it to some replica.          *)
(***************************************************************************)
Submit(r, h) ==
    /\ <<r, h>> \in pending
    /\ pending' = pending \ {<<r, h>>}
    /\ net' = net \cup {Msg("NEW_REQUEST", 0, h, 0, 0, TRUE, r)}
    /\ UNCHANGED <<slot, proposed, executed, nextSeq, execUpTo, hps, cont,
                   respQueue, complained, responses, crashed>>

(***************************************************************************)
(* ProcessNewRequest: executed replay, forward to the coordinator (and     *)
(* push onto request_complained_), duplicate drop, AssignNextSeq failure   *)
(* (EraseProposed and a negative response), or PRE_PREPARE to every       *)
(* shard's coordinator.  A request failing VerifyMessage or                *)
(* pre_verify_func_ is dropped like a duplicate, without a response.       *)
(***************************************************************************)
ProcessNewRequest(r, m) ==
    LET h == m.hash
        Answer(kind, seq) ==
            responses' = responses \cup
                           {[hash |-> h, seq |-> seq, from |-> r, kind |-> kind]}
        fresh == /\ executed[r][h] = 0
                 /\ IsCoordinator(r)
                 /\ Verified(m) /\ PreVerified(m)
                 /\ ~CheckProposed(r, h)
    IN
    /\ m.type = "NEW_REQUEST"
    /\ \/ /\ executed[r][h] # 0
          /\ Answer("replay", executed[r][h])
          /\ Consume(m)
          /\ UNCHANGED <<proposed, nextSeq, complained>>
       \/ /\ executed[r][h] = 0
          /\ ~IsCoordinator(r)
          /\ net' = (net \ {m}) \cup {[m EXCEPT !.dst = PrimaryOfNode(r)]}
          /\ complained' = [complained EXCEPT ![r] = Append(@, h)]
          /\ UNCHANGED <<proposed, nextSeq, responses>>
       \/ /\ executed[r][h] = 0
          /\ IsCoordinator(r)
          /\ ~Verified(m) \/ ~PreVerified(m) \/ CheckProposed(r, h)
          /\ Consume(m)
          /\ UNCHANGED <<proposed, nextSeq, complained, responses>>
       \/ /\ fresh
          /\ ~SeqAvailable(r)
          /\ Answer("rejected", 0)
          /\ Consume(m)
          /\ UNCHANGED <<proposed, nextSeq, complained>>
       \/ /\ fresh
          /\ SeqAvailable(r)
          /\ proposed' = [proposed EXCEPT ![r] = @ \cup {h}]
          /\ nextSeq' = [nextSeq EXCEPT ![r] = @ + 1]
          /\ net' = (net \ {m}) \cup
                      To(Msg("PRE_PREPARE", nextSeq[r], h, r, r, TRUE, r),
                         Coordinators)
          /\ UNCHANGED <<complained, responses>>
    /\ UNCHANGED <<slot, executed, execUpTo, hps, cont, respQueue, crashed,
                   pending>>

(***************************************************************************)
(* After AddConsensusMsg(signature, std::move(request)) returned           *)
(* STATE_CHANGED, the handler reads request->seq() again.  If the store    *)
(* took ownership, that is a read through a null unique_ptr: the build     *)
(* traps (the replica dies) or drops the unreachable branch (no sends).    *)
(* Otherwise the handler goes on to its continuation c.                    *)
(***************************************************************************)
\* Fault variant: the handler returns after STATE_CHANGED without its sends.
AfterStateChangedDropped(r, c) == UNCHANGED <<cont, crashed>>

AfterStateChanged(r, c) ==
    IF RequestMovedOnAdd
    THEN \E trap \in BOOLEAN :
            /\ crashed' = [crashed EXCEPT ![r] = trap]
            /\ UNCHANGED cont
    ELSE /\ cont' = [cont EXCEPT ![r] = @ \cup {c}]
         /\ UNCHANGED crashed

\* The store's verdict on m at r, applied to r's slot.
Store(r, m) == AddConsensusMsg(slot[r][m.seq], m, r)
SaveSlot(r, m) == slot' = [slot EXCEPT ![r][m.seq] = Store(r, m).slot]

(***************************************************************************)
(* ProcessProposeMsg, up to and including AddConsensusMsg.  A faulty       *)
(* replica (IsFaulty) rejects every PRE_PREPARE, its own included; one     *)
(* from neither the global primary nor the own coordinator is rejected; a  *)
(* peer's PRE_PREPARE must verify and not be a duplicate (which marks it   *)
(* proposed); the PREPARE it prepares carries no data.                     *)
(***************************************************************************)
ProcessProposeMsg(r, m) ==
    LET admitted == /\ r \notin Faulty
                    /\ m.sender \in {GlobalPrimary, PrimaryOfNode(r)}
    IN
    /\ m.type = "PRE_PREPARE"
    /\ \/ Misrouted(r, m) /\ Forward(r, m)
       \/ /\ ~Misrouted(r, m)
          /\ Consume(m)
          /\ \/ /\ ~admitted
                /\ UNCHANGED <<slot, proposed, cont, crashed>>
             \/ /\ admitted
                /\ m.sender # r
                /\ ~Verified(m) \/ ~PreVerified(m) \/ CheckProposed(r, m.hash)
                /\ UNCHANGED <<slot, proposed, cont, crashed>>
             \/ /\ admitted
                /\ m.sender = r \/ (Verified(m) /\ PreVerified(m) /\ ~CheckProposed(r, m.hash))
                /\ proposed' = [proposed EXCEPT ![r] =
                                  IF m.sender # r THEN @ \cup {m.hash} ELSE @]
                /\ SaveSlot(r, m)
                /\ IF Store(r, m).ret = "STATE_CHANGED"
                   THEN AfterStateChanged(r, [kind |-> "propose", msg |-> m, seen |-> 0])
                   ELSE UNCHANGED <<cont, crashed>>
          /\ UNCHANGED <<executed, nextSeq, execUpTo, hps, respQueue,
                         complained, responses, pending>>

\* Sends of ProcessProposeMsg after STATE_CHANGED.  At READY_PREPARE: the
\* PREPARE to self and, unless the proposer is the global primary, to it.
\* Otherwise the loop runs to GetShardOfNode(GetShardSize(own shard)), a
\* shard index read as a node id: NotAssigned runs it off the member vector
\* (the replica dies); any other bound sends to a prefix of the members.
ProposeContinue(r, c) ==
    LET m == c.msg
        prep == [NewRequest("PREPARE", m, r) EXCEPT !.data = FALSE]
        members == NodesInShard(ShardOf(r))
        bound == ShardOf(Len(members))
    IN
    /\ c.kind = "propose"
    /\ cont' = [cont EXCEPT ![r] = @ \ {c}]
    /\ IF slot[r][m.seq].phase = "READY_PREPARE"
       THEN /\ net' = net \cup To(prep, {r} \cup
                        (IF m.sender # GlobalPrimary THEN {GlobalPrimary} ELSE {}))
            /\ UNCHANGED crashed
       ELSE IF bound \in 0 .. Len(members)
       THEN /\ net' = net \cup To(prep, {members[i] : i \in 1 .. bound})
            /\ UNCHANGED crashed
       ELSE /\ net' = net \cup To(prep, ToSet(members))
            /\ crashed' = [crashed EXCEPT ![r] = TRUE]
    /\ UNCHANGED <<slot, proposed, executed, nextSeq, execUpTo, hps,
                   respQueue, complained, responses, pending>>

(***************************************************************************)
(* ProcessPrepareMsg, up to and including AddConsensusMsg.  seq_ is saved  *)
(* before the move, so the continuation is always reached; it carries the  *)
(* highest_prepared_seq the handler compares with (read right after).      *)
(***************************************************************************)
ProcessPrepareMsg(r, m) ==
    /\ m.type = "PREPARE"
    /\ \/ Misrouted(r, m) /\ Forward(r, m)
       \/ /\ ~Misrouted(r, m)
          /\ Consume(m)
          /\ SaveSlot(r, m)
          /\ cont' = IF Store(r, m).ret = "STATE_CHANGED"
                     THEN [cont EXCEPT ![r] = @ \cup
                             {[kind |-> "prepare", msg |-> m, seen |-> hps[r]]}]
                     ELSE cont
          /\ UNCHANGED <<proposed, executed, nextSeq, execUpTo, hps, respQueue,
                         complained, responses, crashed, pending>>

\* Fault variant: every coordinator, not only the global primary,
\* BroadCasts the COMMIT at READY_COMMIT.
PrepareContinueAnyCoordinator(r, c) ==
    LET m == c.msg
        commit == [NewRequest("COMMIT", m, r) EXCEPT !.data = FALSE]
    IN
    /\ c.kind = "prepare"
    /\ cont' = [cont EXCEPT ![r] = @ \ {c}]
    /\ hps' = [hps EXCEPT ![r] = IF c.seen < m.seq THEN m.seq ELSE @]
    /\ net' = net \cup
         IF slot[r][m.seq].phase = "READY_COMMIT"
         THEN IF IsCoordinator(r) THEN To(commit, Replica) ELSE {}
         ELSE To(commit, Members(ShardOf(r)))
    /\ UNCHANGED <<slot, proposed, executed, nextSeq, execUpTo, respQueue,
                   complained, responses, crashed, pending>>

\* Rest of ProcessPrepareMsg: SetHighestPreparedSeq(seq_) if the value read
\* was lower.  Under need_qc the COMMIT is signed first, and a failed
\* SignMessage returns -2 with nothing sent.  Then, at READY_COMMIT, the
\* global primary BroadCasts the COMMIT (to every replica) and other
\* coordinators send nothing; otherwise the COMMIT goes to every member of
\* the own shard.  The COMMIT loses its data signature.
PrepareContinue(r, c) ==
    LET m == c.msg
        commit == [NewRequest("COMMIT", m, r) EXCEPT !.data = FALSE]
    IN
    /\ c.kind = "prepare"
    /\ cont' = [cont EXCEPT ![r] = @ \ {c}]
    /\ hps' = [hps EXCEPT ![r] = IF c.seen < m.seq THEN m.seq ELSE @]
    /\ \/ NeedQC /\ UNCHANGED net
       \/ net' = net \cup
            IF slot[r][m.seq].phase = "READY_COMMIT"
            THEN IF r = GlobalPrimary THEN To(commit, Replica) ELSE {}
            ELSE To(commit, Members(ShardOf(r)))
    /\ UNCHANGED <<slot, proposed, executed, nextSeq, execUpTo, respQueue,
                   complained, responses, crashed, pending>>

(***************************************************************************)
(* ProcessCommitMsg, up to and including AddConsensusMsg.                  *)
(***************************************************************************)
ProcessCommitMsg(r, m) ==
    /\ m.type = "COMMIT"
    /\ \/ Misrouted(r, m) /\ Forward(r, m)
       \/ /\ ~Misrouted(r, m)
          /\ Consume(m)
          /\ SaveSlot(r, m)
          /\ IF Store(r, m).ret = "STATE_CHANGED"
             THEN AfterStateChanged(r, [kind |-> "commit", msg |-> m, seen |-> 0])
             ELSE UNCHANGED <<cont, crashed>>
          /\ UNCHANGED <<proposed, executed, nextSeq, execUpTo, hps, respQueue,
                         complained, responses, pending>>

\* Rest of ProcessCommitMsg: at READY_EXECUTE nothing; otherwise the inner
\* PBFT starts: PRE_PREPARE (a copy of the COMMIT) to the other members and
\* PREPARE to every member of the own shard.
CommitContinue(r, c) ==
    LET m == c.msg
        shard == Members(ShardOf(r))
    IN
    /\ c.kind = "commit"
    /\ cont' = [cont EXCEPT ![r] = @ \ {c}]
    /\ net' = net \cup
         IF slot[r][m.seq].phase = "READY_EXECUTE" THEN {}
         ELSE To(NewRequest("PRE_PREPARE", m, r), shard \ {r})
                \cup To(NewRequest("PREPARE", m, r), shard)
    /\ UNCHANGED <<slot, proposed, executed, nextSeq, execUpTo, hps,
                   respQueue, complained, responses, crashed, pending>>

(***************************************************************************)
(* The executor (spec_modelled): applies the next slot in seq order once   *)
(* it is READY_EXECUTE, marks the digest executed at that seq and queues   *)
(* the batch for GetResponseMsg.                                           *)
(***************************************************************************)
Execute(r) ==
    LET s == execUpTo[r] + 1
        sl == slot[r][s]
    IN
    /\ s \in Seqs
    /\ sl.phase = "READY_EXECUTE"
    /\ slot' = [slot EXCEPT ![r][s].phase = "EXECUTED"]
    /\ execUpTo' = [execUpTo EXCEPT ![r] = s]
    /\ executed' = [executed EXCEPT ![r][sl.hash] = s]
    /\ respQueue' = [respQueue EXCEPT ![r] =
                       Append(@, [seq |-> s, hash |-> sl.hash, primary |-> sl.primary])]
    /\ UNCHANGED <<net, proposed, nextSeq, hps, cont, complained, responses,
                   crashed, pending>>

\* while (!stop_): after an iteration the thread leaves the loop if the
\* destructor has set stop_, and otherwise blocks in GetResponseMsg again.
LoopCheck(r) ==
    /\ respThread' = [respThread EXCEPT ![r] = IF stop[r] THEN "exited" ELSE @]
    /\ UNCHANGED stop

(***************************************************************************)
(* PostProcessExecutedMsg: one iteration of the response thread, from     *)
(* GetResponseMsg returning a batch to the loop check; only a replica in   *)
(* the shard of the batch's primary answers the proxy.                     *)
(***************************************************************************)
PostProcessExecutedMsg(r) ==
    LET b == Head(respQueue[r]) IN
    /\ respThread[r] = "waiting"
    /\ respQueue[r] # <<>>
    /\ respQueue' = [respQueue EXCEPT ![r] = Tail(@)]
    /\ responses' =
         IF NodesInSameShard(b.primary, r)
         THEN responses \cup {[hash |-> b.hash, seq |-> b.seq, from |-> r,
                               kind |-> "reply", primary |-> b.primary]}
         ELSE responses
    /\ LoopCheck(r)
    /\ UNCHANGED <<net, slot, proposed, executed, nextSeq, execUpTo, hps, cont,
                   complained, crashed, pending>>

\* GetResponseMsg gives up on an empty queue and returns nullptr; the loop
\* continues to its check of stop_.  Without stop_ set this step changes
\* nothing, so only the exit is an action.
ResponseTimedOut(r) ==
    /\ ResponseTimeout
    /\ respThread[r] = "waiting"
    /\ respQueue[r] = <<>>
    /\ stop[r]
    /\ respThread' = [respThread EXCEPT ![r] = "exited"]
    /\ UNCHANGED <<net, slot, proposed, executed, nextSeq, execUpTo, hps, cont,
                   respQueue, complained, responses, crashed, pending, stop>>

\* ~Commitment: stop_ = true, then join executed_thread_ (it returns once
\* respThread is "exited").  Called from outside, at any time.
Destroy(r) ==
    /\ r \in ShutDown
    /\ ~stop[r]
    /\ stop' = [stop EXCEPT ![r] = TRUE]
    /\ UNCHANGED <<net, slot, proposed, executed, nextSeq, execUpTo, hps, cont,
                   respQueue, complained, responses, crashed, pending, respThread>>

\* Work a live replica can do: handle a message addressed to it, finish a
\* handler, execute, answer.
Receive(r, m) ==
    \/ ProcessNewRequest(r, m)
    \/ ProcessProposeMsg(r, m)
    \/ ProcessPrepareMsg(r, m)
    \/ ProcessCommitMsg(r, m)
Continue(r, c) ==
    \/ ProposeContinue(r, c)
    \/ PrepareContinue(r, c)
    \/ CommitContinue(r, c)
Step(r) ==
    \/ /\ \/ \E m \in net : Live(r) /\ m.dst = r /\ Receive(r, m)
          \/ \E c \in cont[r] : Live(r) /\ Continue(r, c)
          \/ Live(r) /\ Execute(r)
       /\ UNCHANGED lifecycle
    \/ Live(r) /\ PostProcessExecutedMsg(r)
    \/ Live(r) /\ ResponseTimedOut(r)

\* The proxy and the owner of the Commitment object are not fair: they
\* may never send, or never destroy.
Next ==
    \/ \E w \in pending : Submit(w[1], w[2]) /\ UNCHANGED lifecycle
    \/ \E r \in Replica : Step(r)
    \/ \E r \in Replica : Live(r) /\ Destroy(r)

\* Every live replica's threads keep running while they have work.
Fairness == \A r \in Replica : WF_vars(Step(r))

Spec == Init /\ [][Next]_vars /\ Fairness

(***************************************************************************)
(* Properties                                                              *)
(***************************************************************************)
MsgType == {"NEW_REQUEST", "PRE_PREPARE", "PREPARE", "COMMIT"}
Senders == Replica \cup {0}

TypeOK ==
    /\ net \subseteq [type : MsgType, seq : {0} \cup Seqs,
                      hash : Hashes, sender : Senders, primary : Senders,
                      data : BOOLEAN, dst : Replica]
    /\ \A r \in Replica, s \in Seqs :
          slot[r][s].phase \in ToSet(Phases)
    /\ proposed \in [Replica -> SUBSET Hashes]
    /\ executed \in [Replica -> [Hashes -> {0} \cup Seqs]]
    /\ nextSeq \in [Replica -> 1 .. (MaxSubmits + 1)]
    /\ execUpTo \in [Replica -> {0} \cup Seqs]
    /\ hps \in [Replica -> {0} \cup Seqs]
    /\ crashed \in [Replica -> BOOLEAN]
    /\ stop \in [Replica -> BOOLEAN]
    /\ respThread \in [Replica -> {"waiting", "exited"}]

\* Spec 4.4.2: when ProcessProposeMsg finds the slot past READY_PREPARE
\* (phase 3.5, the inner level), it sends the PREPARE to every member of
\* its shard.  The loop bound in the code is GetShardOfNode(GetShardSize(..)).
InnerPrepareReachesShard ==
    [][\A r \in Replica : \A c \in cont[r] :
          (/\ c.kind = "propose" /\ c \notin cont'[r]
           /\ slot[r][c.msg.seq].phase # "READY_PREPARE")
          => \A d \in ToSet(NodesInShard(ShardOf(r))) :
                \E m \in net' : /\ m.type = "PREPARE" /\ m.seq = c.msg.seq
                               /\ m.sender = r /\ m.dst = d]_vars

\* highest_prepared_seq is the maximum prepared seq (spec 4.4.3: hps <-
\* max(hps, seq)) whenever no ProcessPrepareMsg of the replica is between
\* its read of GetHighestPreparedSeq and SetHighestPreparedSeq.
Prepared(r) == {s \in Seqs : Rank(slot[r][s].phase) >= Rank("READY_COMMIT")}
HighestPreparedIsMax ==
    \A r \in Replica :
        ({c \in cont[r] : c.kind = "prepare"} = {} /\ Prepared(r) # {}) =>
            \A s \in Prepared(r) : hps[r] >= s

\* Liveness (spec S1, S3): a digest some replica applied is eventually
\* applied by every replica.
AppliedEverywhere ==
    \A h \in Hashes :
        (\E r \in Replica : executed[r][h] # 0) ~>
            (\A r \in Replica : executed[r][h] # 0)

\* Liveness (spec S1, 8.3): every request the proxy submitted is eventually
\* answered, by a reply of PostProcessExecutedMsg, a replay of the seq it
\* executed at, or the negative response of a failed AssignNextSeq, however
\* the forwarded, duplicate and proposed copies interleave.
Answered(h) == \E x \in responses : x.hash = h
SubmittedAnswered ==
    \A h \in Hashes :
        (\E m \in net : m.type = "NEW_REQUEST" /\ m.hash = h) ~> Answered(h)

\* Shutdown (spec 6, cancellation): once ~Commitment has set stop_, the
\* response thread of PostProcessExecutedMsg eventually leaves its loop,
\* so the join of executed_thread_ returns, whatever GetResponseMsg was
\* doing when stop_ was set.
ShutdownCompletes ==
    \A r \in Replica : stop[r] ~> (respThread[r] = "exited" \/ crashed[r])

-----------------------------------------------------------------------------
(***************************************************************************)
(* Refinement: the engine implements one replicated log (ReplicatedLog).   *)
(* A replica's applied digests are those of its slots 1..execUpTo; the   *)
(* log at s is the digest one replica that applied s applied there, and    *)
(* every other replica's Apply is checked against it; the proxy's answers  *)
(* are the responses without their sender and kind.                        *)
(***************************************************************************)
AppliedAt(s) == {r \in Replica : execUpTo[r] >= s}
LogOf(s) == IF AppliedAt(s) = {} THEN NoHash
            ELSE slot[CHOOSE r \in AppliedAt(s) : TRUE][s].hash

\* The digests replica r has applied, in seq order.
AppliedSeq(r) == [s \in 1 .. execUpTo[r] |-> slot[r][s].hash]

Log == INSTANCE ReplicatedLog WITH
    log     <- [s \in Seqs |-> LogOf(s)],
    applied <- [r \in Replica |-> AppliedSeq(r)],
    answers <- {[hash |-> x.hash, seq |-> x.seq] : x \in responses}

\* Spec 8.1-8.3: whatever the interleaving of handlers, executors and
\* response threads at all replicas, they behave as one log: every replica
\* applies the same digest at each seq, in seq order, no digest at two
\* seqs, and every reply or replay names the seq the digest was applied at.
ImplementsReplicatedLog == Log!Spec

=============================================================================
