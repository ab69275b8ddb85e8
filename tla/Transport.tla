------------------------------ MODULE Transport ------------------------------
(***************************************************************************)
(* ReplicaCommunicator (networkstrate/replica_communicator.cpp): the       *)
(* transport one replica uses to send to the other replicas and to client  *)
(* proxies.  Handler threads (Senders) each run a fixed Script of calls.   *)
(* In long-connection mode a BroadCast is pushed on the shared             *)
(* batch_queue_, served by the broadcast thread, and a unicast is pushed   *)
(* on the destination's own single_bq_, served by a per-destination        *)
(* thread started on first use; SendBatchMessage and SendHeartBeat write   *)
(* directly.  In short-connection mode every call writes synchronously.    *)
(* wire[e] is the sequence of messages endpoint e has received; the        *)
(* endpoint NoEndpoint is the empty ReplicaInfo of a worker whose          *)
(* destination could not be resolved.                                      *)
(***************************************************************************)
EXTENDS Naturals, Sequences, FiniteSets
LOCAL INSTANCE SequencesExt

CONSTANTS
    Replicas,       \* ids of replicas_
    Clients,        \* ids that UpdateClientReplicas may install in clients_
    ClientRosters,  \* the rosters UpdateClientReplicas is called with
    Senders,        \* handler threads sharing the communicator
    Scripts,        \* Senders -> Seq of calls [op, dest, n]
    LongConn,       \* is_use_long_conn_
    TcpBatch,       \* tcp_batch: the most items one Pop returns
    QueueCap,       \* capacity of a BatchQueue
    Shutdown,       \* whether the communicator is destroyed in this run
    NoEndpoint,     \* the empty ReplicaInfo
    None            \* no destination staged

Endpoints == Replicas \cup Clients
Ops == {"broadcast", "heartbeat", "batch", "unicast"}

ASSUME /\ Replicas \cap Clients = {}
       /\ ClientRosters \subseteq SUBSET Clients
       /\ \A s \in Senders : \A i \in DOMAIN Scripts[s] :
              Scripts[s][i].op \in Ops /\ Scripts[s][i].n >= 1
       /\ TcpBatch >= 1 /\ QueueCap >= 1

\* A message is named by its sender, the index of the call in the sender's
\* script, and its position in the call (a batch carries several).
Msgs == UNION {UNION {{<<s, i, k>> : k \in 1 .. Scripts[s][i].n} :
                          i \in DOMAIN Scripts[s]} : s \in Senders}
CallOf(m) == Scripts[m[1]][m[2]]
\* The receivers a call is meant for: all of replicas_ for a broadcast or a
\* heartbeat, the named destination otherwise.
Addressees(m) == IF CallOf(m).op \in {"broadcast", "heartbeat"}
                 THEN Replicas ELSE {CallOf(m).dest}
\* m was handed to the communicator before m2 by the same thread.
SentBefore(m, m2) == m[1] = m2[1] /\ (m[2] < m2[2] \/ (m[2] = m2[2] /\ m[3] < m2[3]))

VARIABLES
    pc,         \* Senders -> index of the sender's next call
    staged,     \* Senders -> destination found by SendMessage(msg, node_id)
    clients,    \* clients_
    bq,         \* batch_queue_
    bworker,    \* broadcast thread: [wait: in Pop, held: popped batch]
    single,     \* single_bq_ and its threads: key -> [q, wait, held, to]
    wire,       \* endpoint -> messages received, in order
    accepted,   \* messages a call accepted (not dropped for lack of a route)
    phase,      \* "running", "stopping" (destructor), "destroyed", "aborted"
    smutex      \* the sender holding smutex_ while blocked in a Push, or None
vars == <<pc, staged, clients, bq, bworker, single, wire, accepted, phase, smutex>>

CallMsgs(s) == [k \in 1 .. Scripts[s][pc[s]].n |-> <<s, pc[s], k>>]
Call(s) == Scripts[s][pc[s]]
Active(s) == phase = "running" /\ pc[s] <= Len(Scripts[s])

\* SendMessageInternal: one fresh channel per replica, each message
\* written synchronously by the caller.
SendMessageInternal(w, dests, msgs) ==
    [e \in DOMAIN w |-> IF e \in dests THEN w[e] \o msgs ELSE w[e]]

\* SendMessageFromPool: one BroadcastData envelope written on the pooled
\* connection of every destination, under mutex_.
SendMessageFromPool(w, dests, msgs) ==
    [e \in DOMAIN w |-> IF e \in dests THEN w[e] \o msgs ELSE w[e]]

\* BatchQueue::Push, blocking while the queue is full.
CanPush(q) == Len(q) < QueueCap

\* Mutant: the lookup skips clients_.
ResolveReplicaInfoReplicasOnly(key) ==
    IF key \in Replicas THEN key ELSE NoEndpoint

\* StartSingleInBackGround: the worker's ReplicaInfo is looked up by
\* address in replicas_, then in clients_; not found, it stays empty.
ResolveReplicaInfo(key) ==
    IF key \in Replicas \cup clients THEN key ELSE NoEndpoint

Advance(s) == pc' = [pc EXCEPT ![s] = @ + 1]
Accept(s) == accepted' = accepted \cup ToSet(CallMsgs(s))

(***************************************************************************)
(* Calls of the handler threads.                                           *)
(***************************************************************************)
\* BroadCast -> SendMessage(message).
BroadCast(s) ==
    /\ Active(s) /\ staged[s] = None /\ Call(s).op = "broadcast"
    /\ IF LongConn
       THEN /\ CanPush(bq)
            /\ bq' = bq \o CallMsgs(s)
            /\ UNCHANGED wire
       ELSE /\ wire' = SendMessageInternal(wire, Replicas, CallMsgs(s))
            /\ UNCHANGED bq
    /\ Advance(s) /\ Accept(s)
    /\ UNCHANGED <<smutex, staged, clients, bworker, single, phase>>

\* SendHeartBeat: a fresh NetChannel to every replica, in both modes.
SendHeartBeat(s) ==
    /\ Active(s) /\ staged[s] = None /\ Call(s).op = "heartbeat"
    /\ wire' = SendMessageInternal(wire, Replicas, CallMsgs(s))
    /\ Advance(s) /\ Accept(s)
    /\ UNCHANGED <<smutex, staged, clients, bq, bworker, single, phase>>

\* Mutant: the short-connection branch passes replicas_ instead of
\* {replica_info}.
SendBatchMessageToAll(s) ==
    /\ Active(s) /\ staged[s] = None /\ Call(s).op = "batch"
    /\ wire' = IF LongConn
               THEN SendMessageFromPool(wire, {Call(s).dest}, CallMsgs(s))
               ELSE SendMessageInternal(wire, Replicas, CallMsgs(s))
    /\ Advance(s) /\ Accept(s)
    /\ UNCHANGED <<smutex, staged, clients, bq, bworker, single, phase>>

\* SendBatchMessage(messages, replica_info): written directly by the caller.
SendBatchMessage(s) ==
    /\ Active(s) /\ staged[s] = None /\ Call(s).op = "batch"
    /\ wire' = IF LongConn
               THEN SendMessageFromPool(wire, {Call(s).dest}, CallMsgs(s))
               ELSE SendMessageInternal(wire, {Call(s).dest}, CallMsgs(s))
    /\ Advance(s) /\ Accept(s)
    /\ UNCHANGED <<smutex, staged, clients, bq, bworker, single, phase>>

\* SendMessage(message, node_id): look the id up in replicas_, then in
\* clients_; an id found in neither is dropped.
SendMessageToNode(s) ==
    /\ Active(s) /\ staged[s] = None /\ Call(s).op = "unicast"
    /\ IF Call(s).dest \in Replicas \cup clients
       THEN staged' = [staged EXCEPT ![s] = Call(s).dest] /\ UNCHANGED pc
       ELSE Advance(s) /\ UNCHANGED staged
    /\ UNCHANGED <<smutex, clients, bq, bworker, single, wire, accepted, phase>>

\* single_bq_ after StartSingleInBackGround(key) if key had no thread yet.
WithWorker(key) ==
    IF key \in DOMAIN single THEN single
    ELSE (key :> [q |-> <<>>, wait |-> FALSE, held |-> <<>>,
                  to |-> ResolveReplicaInfo(key)]) @@ single

\* The call returns: the sender moves on, smutex_ is free.
Returned(s) ==
    /\ Advance(s) /\ Accept(s)
    /\ staged' = [staged EXCEPT ![s] = None]
    /\ smutex' = None

\* Mutant: the push does not wait for room in the destination's queue.
SendSingleMessageUnbounded(s) ==
    /\ phase = "running" /\ staged[s] # None /\ smutex = None
    /\ LET key == staged[s]
       IN  IF LongConn
           THEN /\ single' = [WithWorker(key) EXCEPT ![key].q = @ \o CallMsgs(s)]
                /\ UNCHANGED wire
           ELSE /\ wire' = SendMessageInternal(wire, Replicas, CallMsgs(s))
                /\ UNCHANGED single
    /\ Advance(s) /\ Accept(s)
    /\ staged' = [staged EXCEPT ![s] = None]
    /\ UNCHANGED <<smutex, clients, bq, bworker, phase>>

\* SendMessage(message, replica_info) -> SendSingleMessage.  Long
\* connection: take smutex_, start the destination's thread on first use,
\* push.  A Push on a full queue blocks with smutex_ held; the call
\* resumes once the destination's thread has made room.  Short
\* connection: SendMessageInternal to all of replicas_.
SendSingleMessage(s) ==
    /\ phase = "running" /\ staged[s] # None /\ smutex \in {None, s}
    /\ LET key == staged[s]
       IN  CASE ~LongConn ->
                  /\ wire' = SendMessageInternal(wire, Replicas, CallMsgs(s))
                  /\ Returned(s)
                  /\ UNCHANGED single
             [] CanPush(WithWorker(key)[key].q) ->
                  /\ single' = [WithWorker(key) EXCEPT ![key].q = @ \o CallMsgs(s)]
                  /\ Returned(s)
                  /\ UNCHANGED wire
             [] OTHER ->
                  /\ smutex = None
                  /\ single' = WithWorker(key)
                  /\ smutex' = s
                  /\ UNCHANGED <<pc, staged, accepted, wire>>
    /\ UNCHANGED <<clients, bq, bworker, phase>>

\* UpdateClientReplicas: clients_ = replicas.
UpdateClientReplicas(r) ==
    /\ phase = "running"
    /\ clients' = r
    /\ UNCHANGED <<smutex, pc, staged, bq, bworker, single, wire, accepted, phase>>

(***************************************************************************)
(* Background threads.  Each loops: check IsRunning, Pop with a timeout    *)
(* (up to tcp_batch items), then write the batch.  A Pop that times out on *)
(* an empty queue returns the thread to its loop check, the state it left: *)
(* the model lets the thread enter Pop once its queue has an item, and an  *)
(* idle thread stutters.                                                   *)
(***************************************************************************)
\* A Pop of 1 .. min(tcp_batch, Len(q)) items: how many depends on timing.
PopSizes(q) == 1 .. IF Len(q) < TcpBatch THEN Len(q) ELSE TcpBatch

BroadcastEnter ==
    /\ phase = "running" /\ ~bworker.wait /\ bworker.held = <<>> /\ bq # <<>>
    /\ bworker' = [bworker EXCEPT !.wait = TRUE]
    /\ UNCHANGED <<smutex, pc, staged, clients, bq, single, wire, accepted, phase>>

BroadcastPop ==
    /\ bworker.wait /\ bq # <<>>
    /\ \E k \in PopSizes(bq) :
          /\ bworker' = [wait |-> FALSE, held |-> SubSeq(bq, 1, k)]
          /\ bq' = SubSeq(bq, k + 1, Len(bq))
    /\ UNCHANGED <<smutex, pc, staged, clients, single, wire, accepted, phase>>

\* The batch goes to all of replicas_ through the pool.
BroadcastWrite ==
    /\ bworker.held # <<>>
    /\ wire' = SendMessageFromPool(wire, Replicas, bworker.held)
    /\ bworker' = [bworker EXCEPT !.held = <<>>]
    /\ UNCHANGED <<smutex, pc, staged, clients, bq, single, accepted, phase>>

SingleEnter(key) ==
    /\ phase = "running" /\ ~single[key].wait /\ single[key].held = <<>>
    /\ single[key].q # <<>>
    /\ single' = [single EXCEPT ![key].wait = TRUE]
    /\ UNCHANGED <<smutex, pc, staged, clients, bq, bworker, wire, accepted, phase>>

SinglePop(key) ==
    /\ single[key].wait /\ single[key].q # <<>>
    /\ \E k \in PopSizes(single[key].q) :
          single' = [single EXCEPT ![key] =
                        [@ EXCEPT !.wait = FALSE,
                                  !.held = SubSeq(single[key].q, 1, k),
                                  !.q = SubSeq(@, k + 1, Len(@))]]
    /\ UNCHANGED <<smutex, pc, staged, clients, bq, bworker, wire, accepted, phase>>

\* Mutant: the written batch is not cleared.
SingleWriteKeepsBatch(key) ==
    /\ single[key].held # <<>>
    /\ wire' = SendMessageFromPool(wire, {single[key].to}, single[key].held)
    /\ UNCHANGED <<smutex, pc, staged, clients, bq, bworker, single, accepted, phase>>

\* The batch goes to the worker's own ReplicaInfo only.
SingleWrite(key) ==
    /\ single[key].held # <<>>
    /\ wire' = SendMessageFromPool(wire, {single[key].to}, single[key].held)
    /\ single' = [single EXCEPT ![key].held = <<>>]
    /\ UNCHANGED <<smutex, pc, staged, clients, bq, bworker, accepted, phase>>

(***************************************************************************)
(* ~ReplicaCommunicator, once every handler thread is done: clear          *)
(* is_running_, join broadcast_thread_.  single_thread_ is never joined:   *)
(* destroying a vector that holds a joinable std::thread calls             *)
(* std::terminate.                                                         *)
(***************************************************************************)
Destroy ==
    /\ Shutdown /\ phase = "running"
    /\ \A s \in Senders : pc[s] > Len(Scripts[s]) /\ staged[s] = None
    /\ phase' = "stopping"
    /\ UNCHANGED <<smutex, pc, staged, clients, bq, bworker, single, wire, accepted>>

JoinBroadcastThread ==
    /\ phase = "stopping" /\ ~bworker.wait /\ bworker.held = <<>>
    /\ phase' = IF DOMAIN single # {} THEN "aborted" ELSE "destroyed"
    /\ UNCHANGED <<smutex, pc, staged, clients, bq, bworker, single, wire, accepted>>

(***************************************************************************)
(* The constructor: empty queues, no single threads, clients_ empty, the   *)
(* broadcast thread started.                                               *)
(***************************************************************************)
Init ==
    /\ pc = [s \in Senders |-> 1]
    /\ staged = [s \in Senders |-> None]
    /\ clients = {}
    /\ bq = <<>>
    /\ bworker = [wait |-> FALSE, held |-> <<>>]
    /\ single = <<>>
    /\ wire = [e \in Endpoints \cup {NoEndpoint} |-> <<>>]
    /\ accepted = {}
    /\ phase = "running"
    /\ smutex = None
SenderStep(s) ==
    \/ BroadCast(s)
    \/ SendHeartBeat(s)
    \/ SendBatchMessage(s)
    \/ SendMessageToNode(s)
    \/ SendSingleMessage(s)

BroadcastThread ==
    BroadcastEnter \/ BroadcastPop \/ BroadcastWrite

SingleThread(key) ==
    SingleEnter(key) \/ SinglePop(key) \/ SingleWrite(key)

Next ==
    \/ \E s \in Senders : SenderStep(s)
    \/ \E r \in ClientRosters : UpdateClientReplicas(r)
    \/ BroadcastThread
    \/ \E key \in DOMAIN single : SingleThread(key)
    \/ Destroy
    \/ JoinBroadcastThread

\* Every handler thread finishes its calls, every background thread keeps
\* looping, and the destructor, once entered, runs to its end.
Fairness ==
    /\ \A s \in Senders : WF_vars(SenderStep(s))
    /\ WF_vars(BroadcastThread)
    /\ \A key \in Endpoints : WF_vars(key \in DOMAIN single /\ SingleThread(key))
    /\ WF_vars(JoinBroadcastThread)

Spec == Init /\ [][Next]_vars /\ Fairness

-----------------------------------------------------------------------------
TypeOK ==
    /\ pc \in [Senders -> Nat]
    /\ staged \in [Senders -> Endpoints \cup {None}]
    /\ clients \in SUBSET Clients
    /\ bq \in Seq(Msgs) /\ Len(bq) <= QueueCap
    /\ bworker \in [wait : BOOLEAN, held : Seq(Msgs)]
    /\ DOMAIN single \subseteq Endpoints
    /\ \A key \in DOMAIN single :
          /\ single[key] \in [q : Seq(Msgs), wait : BOOLEAN, held : Seq(Msgs),
                              to : Endpoints \cup {NoEndpoint}]
          /\ Len(single[key].q) <= QueueCap
    /\ wire \in [Endpoints \cup {NoEndpoint} -> Seq(Msgs)]
    /\ accepted \subseteq Msgs
    /\ phase \in {"running", "stopping", "destroyed", "aborted"}
    /\ smutex \in Senders \cup {None}

Received(e) == ToSet(wire[e])

\* Spec 8.8, per handler thread: what one thread sends to a destination
\* arrives there in the order it was sent, whichever queue, thread or
\* direct write carried each message.
DestinationFIFO ==
    \A e \in Endpoints : \A i, j \in DOMAIN wire[e] :
        i < j => ~SentBefore(wire[e][j], wire[e][i])

\* Every message the communicator accepted eventually reaches each of its
\* addressees (through the queue threads, or the synchronous write), unless
\* the communicator is destroyed first: what the destructor drops is the
\* question of ShutdownDrains.
EventuallyDelivered ==
    \A m \in Msgs : \A e \in Addressees(m) :
        m \in accepted ~> (m \in Received(e) \/ phase # "running")

\* Spec 4.5 and 7 (per-destination backpressure, other destinations
\* unaffected): a sender is never held at smutex_ in SendSingleMessage
\* because another sender's Push is blocked on a different destination's
\* full queue.
NoCrossDestinationBlocking ==
    \A s \in Senders :
        (staged[s] # None /\ smutex \notin {None, s}) => staged[smutex] = staged[s]

\* Destroying the communicator after the handlers are done does not abort
\* the process.
NoAbortOnDestroy == phase # "aborted"

\* Spec 6: shutdown drains the in-flight batches: once the destructor has
\* returned, every accepted message has reached its addressees.
ShutdownDrains ==
    phase = "destroyed" =>
        \A m \in accepted : \A e \in Addressees(m) : m \in Received(e)
-----------------------------------------------------------------------------
(***************************************************************************)
(* Refinement: the transport implements an exactly-once channel from each  *)
(* sender to each destination.  What s handed over for d is, in call       *)
(* order, the messages it had accepted for d; d's received sequence is     *)
(* wire[d].                                                                *)
(***************************************************************************)
\* All messages of s, in the order s hands them over.
SentOrder(s) ==
    FlattenSeq([i \in DOMAIN Scripts[s] |->
                   [k \in 1 .. Scripts[s][i].n |-> <<s, i, k>>]])

Contract == INSTANCE TransportContract WITH
    sent <- [p \in Senders \X Endpoints |->
                SelectSeq(SentOrder(p[1]),
                          LAMBDA m : m \in accepted /\ p[2] \in Addressees(m))],
    recv <- [e \in Endpoints |-> wire[e]]

\* Spec 4.5: whatever the interleaving of handler threads, the broadcast
\* thread, the destination threads, roster changes and the destructor,
\* ReplicaCommunicator writes a message only to an endpoint it was
\* accepted for, and only once there (a popped batch is written once and
\* never left in its queue, a lazily started thread writes to the
\* endpoint it was started for).
ImplementsContract == Contract!Spec
=============================================================================
