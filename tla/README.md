# TLA+ models of the sharded PBFT replica

This directory holds TLA+ models of the sharded two-level PBFT replica in
`src/platform`, the TLC configurations that check them, and `PROJECT.json`.
`PROJECT.json` lists the components, runs, mutants, the definition-to-source
map, findings and hazards.

## 1. The system

A cluster of replicas is split into `shard_count` shards. The first replica
placed in a shard is its **coordinator**. The first configured replica is the
**global primary**. Agreement runs at two levels:

- the **outer PBFT**, among the coordinators;
- the **inner PBFT**, among the members of one shard.

| Part | Source | State | Operations |
|---|---|---|---|
| Topology | `consensus/execution/system_info.{h,cpp}` | `replicas_`, `shard_count_`, `node_to_shard_`, `shard_to_nodes_`, `shard_primaries_`, `primary_id_`, `view_` | constructors, `AddReplica` → `AddReplicaToShard`, `SetShardCount`, `SetReplicas`, `SetPrimary`, `SetCurrentView`, `ProcessRequest`, getters |
| Replicator | `consensus/ordering/pbft/commitment.cpp` | `request_complained_`, plus the state of the collaborators below | `ProcessNewRequest`, `ProcessProposeMsg`, `ProcessPrepareMsg`, `ProcessCommitMsg`, the response thread `PostProcessExecutedMsg` |
| Quorum store (MessageManager, outside `src/`) | spec 4.3 | per-seq slot: phase, digest, votes; `next_seq`, `highest_prepared_seq` | `AddConsensusMsg`, `AssignNextSeq`, `GetTransactionState`, `GetPrimaryOfNode`, `NodesInSameShard`, `GetResponseMsg` |
| Duplicate guard (outside `src/`) | spec 4.2 | proposed digests, executed digest → seq | `CheckAndAddProposed`, `EraseProposed`, `CheckIfExecuted`, `MarkExecuted` |
| Executor (outside `src/`) | spec 4.3, 6 | highest applied seq | applies READY_EXECUTE slots in seq order |
| Transport | `networkstrate/replica_communicator.{h,cpp}` | `batch_queue_`, `single_bq_` per destination, the broadcast thread and one thread per destination, `clients_`, `smutex_`, `is_running_` | `SendMessage` (broadcast, by replica, by id), `BroadCast`, `SendBatchMessage`, `SendHeartBeat`, `UpdateClientReplicas`, the background loops, the destructor |

### How the parts interact

1. A client proxy sends a signed request to any replica.
   - A member forwards the request to its coordinator and queues a copy in `request_complained_`.
   - A coordinator replays the seq if the digest was already executed, drops it if it was already proposed, or takes a seq from its own `AssignNextSeq`.
   - It then unicasts a PRE_PREPARE to every shard's coordinator, itself included.
2. On a PRE_PREPARE, a replica first applies the routing rule: a non-coordinator forwards a message from another shard to its coordinator. It then checks the sender, which must be the global primary or its own coordinator. A peer's PRE_PREPARE must also verify and not be a duplicate.
3. The replica then calls `AddConsensusMsg` and, on STATE_CHANGED, reads the slot state.
   - At READY_PREPARE it sends the PREPARE to itself, and to the global primary when the proposer is not the primary.
   - In any other state it sends the PREPARE to a prefix of its shard. The prefix length is computed from `GetShardOfNode(GetShardSize(..))`.
4. A PREPARE that crosses the quorum records `highest_prepared_seq`.
   - At READY_COMMIT, only the global primary BroadCasts the COMMIT, to every replica.
   - In any other state the COMMIT goes to the replica's own shard.
5. A COMMIT that crosses the quorum normally leaves the slot at READY_EXECUTE, and then nothing is sent. In any other state (already EXECUTED), the coordinator starts the inner PBFT: a PRE_PREPARE to its other members and a PREPARE to all of them.
6. The executor applies slots in seq order. The response thread replies to the proxy when the replica is in the shard of the batch's primary.

### Hard behaviours

- **Concurrent handlers.** Handler threads give up the slot lock between `AddConsensusMsg` and the following `GetTransactionState` or `highest_prepared_seq` update. The executor and the response thread run beside them.
- **Unordered delivery.** A broadcast and a unicast travel through different queues and worker threads, and ingress runs on several threads.
- **One seq counter per coordinator.** Seq numbers collide across coordinators.
- **Use-after-move.** `request` is read after `std::move(request)` into `AddConsensusMsg`, at lines 247, 251, 366, 373 and 382.
- **Unlocked Topology.** `AddReplica` is a check-then-act over `replicas_`, and `shard_count_` is never initialised.

### What makes each part correct

- **Topology:**
  - the three maps are mutually consistent;
  - every replica is in exactly one shard;
  - the coordinator is the first member;
  - sizes differ by at most one.
- **Replicator and store:**
  - the replicas together implement one log (`ReplicatedLog`): each seq gets one digest, each digest at most one seq, each replica applies a prefix in order, and every answer the proxy gets names the seq where the log holds the digest;
  - members follow their coordinator's order;
  - at most one shard's worth of replies;
  - `highest_prepared_seq` is the maximum prepared seq;
  - every submitted request is answered, and what one replica applies every replica applies;
  - the destructor's join of the response thread returns (spec 6, cancellation).
- **Transport:**
  - what a thread sends to a destination arrives in order, once (spec 8.8);
  - everything accepted reaches its addressees;
  - one full queue holds up only its own destination (spec 4.5, 7);
  - shutdown drains the queues and does not abort (spec 6).

## 2. Modules

| Module | Models | Notes |
|---|---|---|
| `Topology` | `SystemInfo::AddReplicaToShard` / `SetShardCount` / getters as pure operators | `Bootstrap(order, count)` folds `AddToShard` over the AddReplica order. `RoundRobin` is the reference placement. |
| `SystemInfo` | one `SystemInfo` object | Variables are the fields. `AddReplica(w, n)` is split into the unlocked steps Check → `Assign` (pick the shard, `replicas_.push_back`) → `Insert` (both maps) → `Crown` (coordinator if unset). Each concurrent caller `w` has its own `wpc`. Missing map keys are the model value `NotAssigned` (UINT32_MAX). `Init` covers both constructors and every value of the uninitialised `shard_count_` listed in `UninitCounts`. `added` is a history of placements since the last `SetShardCount`, used only by `AssignmentIsRoundRobin`. |
| `MC_SystemInfo` | constants for TLC | |
| `Commitment` | the replicator at every replica, the quorum store, duplicate guard, executor and response thread | See below. |
| `ReplicatedLog` | what the replicator promises (spec 1, 8.1-8.3): one log of digests, applied in prefix order, with answers that agree with it | Abstract; `Commitment` is checked to implement it. |
| `MC_Commitment` | constants and workloads for TLC | |
| `Transport` | one `ReplicaCommunicator` and the handler threads calling it | See below. |
| `TransportContract` | what the transport keeps of its promise: every message reaches only a destination it was handed over for, and at most once there (no order) | Abstract; `Transport` is checked to implement it. |
| `MC_Transport` | endpoints, senders and call scripts for TLC | |

### `Commitment`, state and actions

Variables, per replica unless noted:

- `slot[r][s]`: the MessageManager slot for seq `s`. It holds the phase, digest, proposer, the batch's `primary_id`, and the PREPARE and COMMIT votes as ⟨sender, digest⟩.
- `proposed`, `executed`: the DuplicateManager.
- `nextSeq`: `AssignNextSeq`.
- `execUpTo`: the executor.
- `hps`: `highest_prepared_seq`.
- `respQueue`: the `GetResponseMsg` queue.
- `complained`: `request_complained_`.
- `crashed`: the process died.
- `cont[r]`: handler threads that got STATE_CHANGED and have not yet done their sends.
- `net` (global): the set of messages in flight.
- `responses` (global): what the proxy received.
- `pending` (global): the submissions of the workload that the proxy has not sent yet.
- `stop`: `stop_`.
- `respThread`: `executed_thread_`, either waiting in `GetResponseMsg` or exited from its loop.

Messages are `Request` records cut down to the fields the handlers read: type, seq, digest, sender, primary, destination. A further bit `data` says whether the data and data signature are still there: `NewRequest` copies keep it, PREPARE clears the data and COMMIT clears the signature.

Actions:

- `Submit`: the proxy sends the next request of the workload.
- `ProcessNewRequest`: the whole handler, one disjunct per outcome (replay, forward, duplicate drop, seq failure with negative reply, proposal).
- `ProcessProposeMsg`, `ProcessPrepareMsg`, `ProcessCommitMsg`: each handler up to and including `AddConsensusMsg`, the routing rule and every early return included. A replica in `Faulty` (the faulty switch, `IsFaulty`) rejects every PRE_PREPARE, its own included. A digest in `PreVerifyRejects` fails `pre_verify_func_` and is dropped like one that fails verification.
- `ProposeContinue`, `PrepareContinue`, `CommitContinue`: the rest of each handler after STATE_CHANGED (the `GetTransactionState` read and the sends). The hps compare-and-set uses the value read when `AddConsensusMsg` returned. Under `NeedQC` (need_qc_ with a verifier) `PrepareContinue` may also take the `SignMessage` failure: it returns -2 without sending the COMMIT, after the hps update.
- `AfterStateChanged`: the read through the moved-from pointer. Under `RequestMovedOnAdd` the replica either traps (it crashes) or the branch is compiled away (no continuation), chosen nondeterministically. Otherwise the handler continues.
- `Execute`: the executor, spec-modelled.
- `PostProcessExecutedMsg`: one iteration of the response thread, from `GetResponseMsg` returning a batch to the loop check (`LoopCheck`), which leaves the loop if `stop_` is set.
- `ResponseTimedOut`: under `ResponseTimeout`, `GetResponseMsg` returns nullptr on an empty queue and the loop sees `stop_`. Without `stop_` that iteration changes nothing, so it is not an action.
- `Destroy`: `~Commitment` sets `stop_`; its join returns once `respThread` is exited. Only replicas in `ShutDown` are destroyed, at any point, and nothing forces it to happen.

The cluster is `Topology!Bootstrap(Order, ShardCount)`, the same operator that `SystemInfo` checks.

The refinement maps `Commitment` to `ReplicatedLog`:

- `log[s]` is the digest of slot `s` at the lowest-numbered replica that has applied `s` (`NoHash` if none has);
- `applied[r]` is the sequence of digests replica `r` has applied, slot `1` to `execUpTo[r]` (`AppliedSeq`);
- `answers` is `responses` without the replying replica.

`ImplementsReplicatedLog` checks `Log!Spec` as a temporal property. A step that executes a seq at any replica must be an `Apply`: the digest it applies there must be the one the log holds at that seq, or, if the log holds none, a digest the log holds at no other seq. Because `applied` is per replica, every replica is compared with the log, not only the one `log` is read from. A response must name a seq some replica applied with that digest, or be a rejection (seq 0).

Quorum is `2*((n-1) div 3)+1`, where n is the shard count at a coordinator and the shard size at a member. This is the slot level of spec 4.3: only coordinators receive outer PRE_PREPAREs and only members receive inner ones.

### `Transport`, state and actions

Handler threads (`Senders`) each run a fixed `Script` of calls `[op, dest, n]`: a broadcast, a heartbeat, a batch of `n` messages to `dest`, or a unicast by id. A message is named ⟨sender, call index, position in the call⟩, so order and identity are visible without modelling payloads.

Variables:

- `pc`: each thread's next call.
- `staged`: the destination found by `SendMessage(msg, node_id)` before it calls `SendMessage(msg, replica_info)`.
- `clients`: `clients_`.
- `bq`, `bworker`: `batch_queue_` and the broadcast thread (waiting in `Pop`, or holding a popped batch).
- `single`: `single_bq_` and the destination threads, keyed by destination. Each entry has the queue, the thread's wait/held state and the `ReplicaInfo` it resolved at start (`NoEndpoint` when the lookup failed).
- `smutex`: the thread blocked in a `Push` while holding `smutex_`.
- `wire[e]`: what endpoint `e` has received, in order.
- `accepted`: messages a call accepted (not dropped for lack of a route).
- `phase`: running, stopping (in the destructor), destroyed, or aborted (`std::terminate`).

Actions:

- `BroadCast`, `SendHeartBeat`, `SendBatchMessage` and `SendMessageToNode` are the whole calls. `SendMessageToNode` drops an id that is in neither roster.
- `SendSingleMessage` is the call after the lookup. In long-connection mode it starts the destination's thread on first use (`WithWorker`, with `ResolveReplicaInfo` looking the address up again) and pushes, or blocks with `smutex_` held when the queue is full. In short-connection mode it writes to all of `replicas_`, as line 191 does.
- `BroadcastEnter/Pop/Write` and `SingleEnter/Pop/Write` are the loop check, the `Pop` of 1..min(tcp_batch, queue) items, and the write through the pool. A `Pop` that times out on an empty queue returns to the state it left, so it is a stutter.
- `UpdateClientReplicas` replaces `clients_` at any time.
- `Destroy` and `JoinBroadcastThread` are the destructor. It is entered once every handler has returned. It joins the broadcast thread, and it aborts if any destination thread exists.

`BatchQueue` is outside `src/`. Its `Push` is modelled as blocking at `QueueCap` and its `Pop` as returning up to `tcp_batch` items (spec 4.5).

The refinement maps `Transport` to `TransportContract`:

- a channel ⟨s, d⟩ holds, in call order, the messages `s` has had accepted for `d`;
- `recv[d]` is `wire[d]`.

`ImplementsContract` checks `Contract!Spec` as a temporal property. Every step must be a `Send` (a thread hands messages over, and a synchronous write may deliver them in the same step) or a `Deliver`, or leave both unchanged. In each, what a destination receives is new to it and was handed over for it by some sender; the order of arrival is free. The contract does not promise FIFO: `DestinationFIFO` checks that separately and fails (finding 10). It does not promise delivery either, which `EventuallyDelivered` states.

## 3. Runs

| Run | Config | Expect | What it shows |
|---|---|---|---|
| `topology` | `MC_SystemInfo.cfg` | pass | One AddReplica caller; SetShardCount, SetReplicas (full roster), SetPrimary, SetCurrentView at any point. The maps stay consistent, the coordinator is the first member and placement is round robin (spec 8.4, 8.5). |
| `topology_race` | `MC_SystemInfo_race.cfg` | violation | Two callers of AddReplica(1) both pass the duplicate check: id 1 is listed twice. |
| `engine_one_shard` | `MC_Commitment.cfg` | pass | Shard {1,2}. One digest is sent to both replicas, so the member's copy is forwarded and arrives as a duplicate or a replay. Every replica implements `ReplicatedLog` (`ImplementsReplicatedLog`): what each applies at a seq is what the log holds there. Every submission is eventually answered (`SubmittedAnswered`), also when member 2's `Commitment` is destroyed at some point (`ShutDown` = {2}, with the timed `GetResponseMsg`). 47,208 distinct states. |
| `engine_two_shards` | `MC_Commitment_shards.cfg` | pass | Shards {1,3} and {2}, each coordinator proposing a different digest under seq 1, with `need_qc` on, so the COMMIT signature may fail. `ImplementsReplicatedLog` still holds across all replicas (spec 8.2, extended across shards). 809,016 distinct states, about three and a half minutes with two workers. |
| `engine_inner_phase` | `MC_Commitment_inner.cfg` | violation | The member never applies: the inner PBFT only starts when the executor beat the commit handler. |
| `engine_prepared_seq` | `MC_Commitment_hps.cfg` | violation | Two prepares at one coordinator: `highest_prepared_seq` ends below a prepared seq. |
| `engine_phase35` | `MC_Commitment_phase35.cfg` | violation | Between member 2's `AddConsensusMsg` for the PRE_PREPARE and its `GetTransactionState` read, another handler advances the slot past READY_PREPARE. The PRE_PREPARE handler then takes the phase-3.5 branch, whose bound `GetShardOfNode(2)` is 0, so it sends the PREPARE to nobody (`InnerPrepareReachesShard`, an action property). |
| `transport` | `MC_Transport.cfg` | pass | Long connections, queue capacity 1. Thread s1 sends two unicasts to client c1 and one to replica 2; s2 sends a broadcast, a heartbeat and a direct batch of 1 to replica 2. Replica 2 is thus reached through its `single_bq_`, through `batch_queue_` and by a direct write, from both threads. `UpdateClientReplicas({c1})` and the destructor may run at any point. Checks `TypeOK` (queues within capacity), `EventuallyDelivered` (everything accepted reaches its addressees unless the destructor runs first) and `ImplementsContract` (nothing misdelivered, nothing twice). 2,323 distinct states. |
| `transport_reorder` | `MC_Transport_reorder.cfg` | violation | One thread: `BroadCast`, then a unicast to replica 2. The unicast's thread writes first (`DestinationFIFO`). |
| `transport_short_reply` | `MC_Transport_shortreply.cfg` | violation | Short connections: a unicast to client c1 goes to the replicas and never to c1 (`EventuallyDelivered`). |
| `engine_shutdown_blocking` | `MC_Commitment_blocking.cfg` | violation | `GetResponseMsg` blocks until a batch is ready, as spec 4.3 says. Member 2 is destroyed while its queue is empty. It never applies anything (finding 4), so the response thread stays in `GetResponseMsg` and the destructor's join never returns (`ShutdownCompletes`). |
| `transport_shutdown_abort` | `MC_Transport_abort.cfg` | violation | One unicast to replica 2, then the destructor: `single_thread_` is still joinable, so the process is terminated (`NoAbortOnDestroy`). |

Further configurations reproduce counterexamples that are documented in section 4 but not recorded as runs in `PROJECT.json`:

| Config | Property | Counterexample |
|---|---|---|
| `MC_SystemInfo_reshard.cfg` | `ReplicasAllAssigned` | SetShardCount after AddReplica leaves a replica with no shard. |
| `MC_SystemInfo_roster.cfg` | `ShardMapsConsistent` | SetReplicas leaves the maps naming a removed replica. |
| `MC_Commitment_moved.cfg` | `SubmittedAnswered` | With ownership moved into `AddConsensusMsg` (`RequestMovedOnAdd` = TRUE), no request is ever answered. |
| `MC_Commitment_coord.cfg` | `SubmittedAnswered` | A request at the coordinator of shard {2} is never answered: the global primary rejects its PRE_PREPARE. |
| `MC_Commitment_fourshards.cfg` | `SubmittedAnswered` | Four shards, quorum 3: nothing ever commits. |
| `MC_Commitment_qc.cfg` | `SubmittedAnswered` | `need_qc` on, one shard: `SignMessage` fails at the primary after the slot reached READY_COMMIT, no COMMIT is ever sent and the request is never answered. |
| `MC_Commitment_faulty.cfg` | `ImplementsReplicatedLog`, `SubmittedAnswered` | Passes: member 2 has the faulty switch on and rejects the PRE_PREPARE, and the coordinator alone (quorum 1) still commits and answers. With `Faulty = {1}` instead, the global primary rejects its own PRE_PREPARE and nothing is answered, which spec line 9 leaves to view change. |
| `MC_Transport_hol.cfg` | `NoCrossDestinationBlocking` | With QueueCap 1, s1's second unicast to c1 blocks holding `smutex_`, and s2's unicast to replica 2 waits behind it. |
| `MC_Transport_stale.cfg` | `EventuallyDelivered` | `clients_` goes from {c1} to {} between the id lookup and the thread start: c1's thread writes to `NoEndpoint` for good. |
| `MC_Transport_drain.cfg` | `ShutdownDrains` | A broadcast still in `batch_queue_` when the destructor runs is never written. |

Every property of a passing run has a mutant in `PROJECT.json`: a variant of a mapped definition that carries a plausible bug (a dropped check, a shard index stored as a node id, `<=` for `<`), and under which TLC finds the property violated.

### Bounds, and why they are enough

- **Topology.** Ids {1,2,3}, shard counts {1,2}, `shard_count_` initially 0 or 2, views {1,2}, and `Len(replicas) <= 4` as a state constraint. Every placement pattern of up to three replicas in one or two shards is reached, and re-sharding and re-rostering happen at every point.
- **Engine.** Two or three replicas and two digests. Each run has a fixed workload of at most two submissions, each sent once. Seq numbers are bounded by the workload, since each proposal consumes a submission.
  - Two submissions are what a duplicate, a seq collision between coordinators, or two concurrent prepares need.
  - Three replicas in two shards give a member beside two coordinators.
  - Larger workloads or four replicas in two shards exceed what TLC finishes in minutes: one request on four replicas already passes two million states.
- **Transport.** Replicas {1,2}, clients {c1,c2}, one or two handler threads with scripts of up to three calls, `tcp_batch` 2, and queue capacity 1 in the recorded run (2 in the violation configurations).
  - In the recorded run both threads reach replica 2, by three different paths (its `single_bq_` and thread, `batch_queue_` and the broadcast thread, and a direct write), so messages to one destination cross between queues and threads. `batch_queue_` is the queue both threads push to.
  - Two unicasts to c1 fill a queue of 1, so `Push` blocks with `smutex_` held.
  - The roster change races the lazy thread start.
- **In-flight cap.** `MaxInFlight` (max_process_txn) is 2 in the one-shard run, so a forwarded duplicate could be given a second seq if the proposed mark were missing. It is 1 elsewhere. A workload that reaches the cap and also resends (three submissions) passed 2.5 million states without finishing, so the seq-failure path is only checked with one resend.
- **Fault switches.** `NeedQC`, `Faulty` and `PreVerifyRejects` are constants, as a per-process failure flag is in other specifications. The recorded runs set `NeedQC` in the two-shard run and leave the others off; the further configurations turn them on. `ShutDown` is {2} in the one-shard run. Destroying the member is enough to race `stop_` against every state of its response thread: empty queue, batch queued, mid-iteration. Destroying the primary would also end its answers, which `SubmittedAnswered` rightly rejects. `ShutDown` is {} in the two-shard run, which is already the largest state space.

### Fairness

`Spec` has weak fairness on each live replica's `Step`: handling some message addressed to it, finishing a handler, executing, or answering. Each handler, the executor and the response thread is a thread that keeps running while it has work. The proxy's `Submit` has no fairness: `SubmittedAnswered` speaks only of requests that were sent. `Destroy` is not fair either: the owner of the object may never destroy it. `ShutdownCompletes` needs the response thread's steps, which are in `Step`. This fairness is used only by `SubmittedAnswered` and `ShutdownCompletes`, and every counterexample it reports (`engine_shutdown_blocking` and the further configurations) ends in a state where nothing is enabled, so no fairness assumption could rescue it. Deadlock checking is off in the engine runs: a replica with no message waits, which is the program's normal idle state.

The transport has weak fairness on each handler thread (it finishes its calls), on the broadcast thread, on each destination thread that exists, and on the destructor's join. The destructor itself is not fair: the owner may never destroy the communicator, and `EventuallyDelivered` excuses only what is lost after it runs. Each is a `std::thread` looping while it has work. `CHECK_DEADLOCK FALSE` is set because an idle communicator simply waits.

## 4. Findings

Findings 1, 4, 8, 9, 10, 11, 14 and 16 are the recorded violation runs in `PROJECT.json`. The others are reproduced by the further configurations in section 3.

1. **No lock in AddReplica** (`system_info.cpp:48`): concurrent calls add an id twice. Spec 5 says Topology has a lock.
2. **SetShardCount clears the shards of existing replicas** (`system_info.cpp:113`), and the config constructor installs replicas with no shard.
3. **SetReplicas desynchronises the roster from the maps** (`system_info.cpp:44`).
4. **The inner PBFT does not start** (`commitment.cpp:366`): members never apply in the common schedule.
5. **Use-after-move** (`commitment.cpp:247`, 251, 366, 373, 382). This depends on `AddConsensusMsg` taking `std::unique_ptr<Request>` by value, which is outside `src/`. The constant `RequestMovedOnAdd` selects it. Spec 3 says ownership of the request transfers to the callee, which is `RequestMovedOnAdd` = TRUE. Every recorded engine run nevertheless sets it FALSE: with it TRUE no request is ever answered, which would hide every other behaviour of the engine. The recorded runs are therefore about the code under the assumption that `AddConsensusMsg` leaves the request readable, against spec 3.
6. **Proposals of non-primary coordinators are never committed** (`commitment.cpp:195`, 317).
7. **Four or more shards never commit** (`commitment.cpp:249-252`, 317).
8. **`highest_prepared_seq` can go backwards** (`commitment.cpp:297-298`).
9. **The phase-3.5 PREPARE reaches the wrong members** (`commitment.cpp:258`). The bound `GetShardOfNode(GetShardSize(..))` uses a shard size as a node id. For shard {1,2} it is 0, so nobody is sent the PREPARE.
10. **Per-destination FIFO does not hold** (`replica_communicator.cpp:200`). A broadcast, a unicast and a direct batch write travel by different queues and threads.
11. **Short-connection unicasts go to all replicas** (`replica_communicator.cpp:191`). A reply to a client proxy never reaches it.
12. **A roster change strands a destination** (`replica_communicator.cpp:139`). `clients_` is read twice, once for the id and once for the address. If it changes in between, the destination's thread writes nowhere for ever.
13. **One full queue blocks every unicast** (`replica_communicator.cpp:188`). The blocking `Push` holds `smutex_`.
14. **The destructor terminates the process** (`replica_communicator.cpp:52`). `single_thread_` is never joined.
15. **Shutdown drops queued messages** (`replica_communicator.cpp:107`). Spec 6 says it drains them.
16. **The destructor can hang** (`commitment.cpp:53`). `~Commitment` joins a thread that only sees `stop_` at its loop head. Spec 4.3 calls `GetResponseMsg` a blocking dequeue, and with it the join never returns once nothing more executes. The nullptr check at line 398 suggests a timed pop, which is what the passing runs assume; `engine_shutdown_blocking` takes the spec's blocking pop. `MessageManager` is outside `src/`, so this is a gap in the spec rather than a code bug.

## 5. Not modelled, and plan

- **Transport failures.** A failed write by `AsyncReplicaClient` or `NetChannel` is logged and the message lost. The model's writes always succeed; the contract it is checked against is the reliable one the spec promises.
- **The data race on `clients_`.** The model makes each assignment and read of `clients_` atomic.
- **`IsInPool`, `GetClient` and `GetClientFromPool`.** The pooled clients are created on demand and never fail to be created, so they are folded into the writes.
- **The commented-out shard helpers** (`replica_communicator.cpp:283-441`) are not compiled.
- **Composition.** `Commitment` sends through an unordered set `net`. That set already allows every reordering the transport can produce. It does not lose messages, and the transport can: a short-connection unicast to a proxy never reaches it (finding 11), a roster change can strand a destination (finding 12), and the destructor drops what is queued (finding 15). `Transport` is shown to deliver what it accepts only in long-connection mode, with a stable roster, before the destructor runs (`EventuallyDelivered` in the `transport` run). The replies go to proxy ids registered by `UpdateClientReplicas`, which nothing in `src/` calls. A composed model would have to guess who registers the proxies and when.
- **Recovery messages** (`is_recovery`, `commitment.cpp:178-190`, 283-286, 350-353). They are replayed by a recovery component outside `src/`, and nothing in `src/` says when or in what order it replays them. Modelling them would mean inventing that component. The hazard is listed: a replay out of seq order is dropped, not buffered.
- **A missing context or signature** (`commitment.cpp:68`, 174, 279, 345). The network layer always attaches one, so every modelled message carries it.
- **Handlers after destruction.** `Destroy` stops only the response thread. The handlers run on ConsensusManager threads outside `src/`, so their shutdown is not modelled.
- **Construction order** (the response thread starts before `global_stats_` is set), **sockets**, **signatures** (reduced to the `data` bit and `VerifyEnabled`) and **statistics** are out of scope or pure I/O.
