# A TLA+ verification of fsnet

fsnet is a C++20 server for persistent, addressable *entities* whose logic is
written in Lua. Several processes share one storage; each entity is executed by
one process at a time, which holds a lease on the entity's record and commits
the result of each request with one compare-and-exchange (CAS). This directory
models that machinery and the network side around it in TLA+, checks it with TLC
on small instances, and proves with TLAPS, for every instance, the safety of the
host (with its refinement of an atomic ledger), of the storage executor, of the file
backend (with its refinement of a CAS register), of the PostgreSQL adapter and of
the creation of entities.

Paths below are relative to the repository.

## 1. The system

| Part | Source | State it keeps | Operations that change it |
|---|---|---|---|
| `EntityScriptHost` | `src/entity_host.cpp` | slots (mailbox, caches, activation), active jobs, counters; the entity's record in storage | call, read/write attributes, bind owner, handoff, accept, deactivate, destroy, fire timer, send/receive/acknowledge, poll, drain, stop |
| `Storage` backends | `src/file_storage.cpp`, `src/database.cpp`, `src/postgres_database.cpp` | records with versions | get, compare_exchange, erase |
| `AsyncDatabase` | `src/async_database.cpp` | job queues of one worker thread | submit, poll, stop (drain or cancel) |
| `EntityCatalog`, `EntityIdAllocator` | `src/entity_catalog.cpp` | identity high-water record, creation claims, entity records | allocate, create, find |
| `EntityDelivery` | `src/entity_delivery.cpp`, `src/entity_delivery_state.cpp` | registry of sources, outbox and inbox in the records, attempts in flight | scan, deliver, acknowledge, load, poll, stop |
| `EntityTimers` | `src/entity_timers.cpp`, `src/entity_timer_index.cpp`, `src/entity_timer_state.cpp` | discovery index in storage, watches and schedule in memory, timers in the records | arm, load, scan, fire, advance |
| `EntityTransfer` | `src/entity_transfer.cpp` | operations in flight | probe, release, confirm, resume, create on node |
| `EntityRouter` | `src/entity_router.cpp` | pending calls, member connections | call, attempt, retry, poll, stop |
| `ClusterClient`, `ServiceDirectory` | `src/cluster.cpp`, `include/fsnet/directory.hpp` | peers, directory leases | tick (probe), call, failed |
| `ClientGateway` | `src/client_gateway.cpp` | delegations, selected entities, watches | select, acquire, revoke, notice, refresh |
| `AttributeReplication`, `AttributeClient` | `src/attribute_replication.cpp` | subscriptions, images, revisions | subscribe, publish, apply |
| `Node` | `src/node.cpp` | sessions, pending calls | call, reply, timeout, close |
| `Client` | `src/client.cpp` | the connection, bindings, open requests | connect, disconnect, request, poll, cleanup |
| Lua engine | `src/lua_engine.cpp` | queue, coroutines, completions, watches | enqueue, poll, await, finish, stop |
| schema, wire formats, C API, cipher | `src/entity_schema.cpp`, `src/*_wire.cpp`, `src/c_api.cpp`, `src/ice.cpp` | values, byte formats | outside the model, but for the deltas of attributes |

How they interact: the router (or the gateway, for a client) finds the owner of
an entity from its record and calls the host there over a `Node`. The host
queues the request in the entity's mailbox, and its storage worker acquires the
lease, the script runs, and the worker commits. Creation goes through the
catalog; handoff is the transfer protocol between two hosts; delivery and timers
are framework requests to the host, driven by indexes in the same storage.
Nothing but single-record CAS is assumed of storage: there are no transactions.

What makes it hard: the host's event loop and its worker thread interleave;
hosts race for the same record with clocks that disagree; a process may die at
any step; a storage call may fail *after* it took effect, so a commit can be
uncertain; callers retry what may already have happened; a lease can be
overtaken while the script of the old owner still runs; control operations
(handoff, deactivate, destroy) meet queued and running requests.

## 2. Modules

| Module | What it is |
|---|---|
| `EntityLedger` | Abstract specification: one entity as a log of effects that happen one at a time, and answers that agree with it. |
| `EntityHost` | One entity on any number of hosts: the whole request pipeline of `EntityScriptHost` over a CAS record. |
| `MCEntityHost` | The finite instances of `EntityHost`. |
| `EntityHostLease` | Proofs of the type invariant and about leases, fences, takeovers and placement. |
| `EntityHostMail` | Proofs about mailboxes and control operations. |
| `EntityHostSafety` | Proofs about committed effects and answers, and the refinement of `EntityLedger`. |
| `EntityHostOnce` | Proof that receipts make effects happen once. |
| `CasRegister` | Abstract specification: what `Storage` promises of one key, errors and power losses included. |
| `FileStorage` | The file backend: lock, temporary file, rename and syncs of one key. |
| `PostgresStorage` | The PostgreSQL adapter: mutex, connection, statements, deadlines. |
| `FileStorageSafety` | Proofs that the files are safe, and the refinement of `CasRegister`. |
| `PostgresSafety` | Proofs that revisions never repeat and that answers are true. |
| `AsyncDatabase` | The storage executor: the owning thread and the worker thread. |
| `AsyncDatabaseSafety` | Proofs of the order of jobs, of the exact capacity and true completions, and of the quiet after `stop()`. |
| `EntityCatalog` | Identity allocation and idempotent creation by several processes. |
| `EntityCatalogSafety` | Proofs that creation keeps its promises and resurrects nothing. |
| `EntityDelivery` | Durable commands between entities: outbox, inbox and the workers that carry them. |
| `TimerState`, `TimerSchedule` | The arithmetic of one timer, and a timer that meets a clock. |
| `EntityTimers` | Timers in the record, their discovery index, and the services that fire them; uses `TimerState`. |
| `EntityTransfer` | The coordinators of a handoff between nodes. |
| `EntityRouter` | Routing of entity calls: lookup, connections, keyed retries. |
| `ClusterClient` | Health probes, the directory of services, calls with one retry. |
| `Node` | Sessions, their handshake, calls and answers between two nodes. |
| `AttributeReplication` | Subscriptions of a client to an entity's attributes. |
| `AttributeDelta` | How a change of attributes is described and applied. |
| `GatewayMigration` | What a client sees and controls through the gateway while entities move. |
| `GatewayRequests` | Requests through the gateway: sessions, shared lookups and links, watches. |
| `Client` | The client SDK and the callbacks of its application. |
| `LuaEngine` | The scheduler of script coroutines. |
| `MCStorage`, `MCServices`, `MCConnections`, `MCClients` | Finite instances of the other components for their safety properties (see 3). |
| `MCServerLive`, `MCClientLive` | Finite instances for the liveness properties. |

How they fit together: `EntityDelivery`, `EntityTimers` and `EntityTransfer` contain
the part of the host that they use, on the same record, in coarser steps than
`EntityHost` has; `EntityRouter`, `ClusterClient`, `GatewayRequests` and `Client`
take from `Node` what it promises (an answer for every call, in the end, and none
after it) and let it fail in the ways `Node` shows it can; `GatewayMigration` contains
the nodes' side of `AttributeReplication`. `LuaEngine` shows how one execution that
`EntityHost` treats as a step with a deadline comes to its end.

### EntityHost and the code

A member of `Hosts` is one process incarnation. The owner id written to the
record is `node/incarnation` and is fresh for every process start
(`docs/ARCHITECTURE.md:122`), so the restart of a node is another member of
`Hosts` with the same `NodeOf`. A member of `Attempts` is one request presented
to one host; a retry is another attempt with the same `ReqId`.

| Variable | Code |
|---|---|
| `store` | the FER5 record of the entity: version, owner, fence, lease expiry, placement, transfer id, receipts, initialized, destroyed; the script state is the sequence `log` of committed attempts |
| `clock` | `now_ms()` of each host; clocks advance independently, so they may disagree by the whole bound |
| `slot` | the `Slot` of the entity at a host: mailbox, `busy`, `releasing`, transient cache with its fence and revision, activation with its fence |
| `job` | the active `Job` (or the Release of a deactivation) and how far it is: read, lease CAS, verify, execute, commit, complete |
| `reply` | the answer of an attempt: `ok`, `failed` (a definite failure: rejected, timeout, overloaded, not_found) or `unknown` (internal, disconnected) |
| `hist` | history variable: what was committed and in which order |

| Action | Code |
|---|---|
| `Call`, `Deactivate`, `ControlEntity`, `Drain` | the public entry points, each through `Enqueue` or `Refuse`: `call_entity`, `read_attributes`, `write_attributes`, `bind_owner`, `accept_handoff`, `deactivate`, `handoff`, `control_entity`, `drain` |
| `Acquire` | `poll()` makes the front of an idle mailbox the active job |
| `AcquireRead`, `LeaseCas`, `LeaseConfirm`, `AcquireError` | the worker's acquire loop: `get` and the checks on the record, the lease CAS, the second `get`, a storage call that throws |
| `AcquireFailed`, `AcquireRefused`, `Replay`, `Execute` | the completion of the acquisition on the event loop |
| `LogicDone`, `LogicFails`, `ExpireRunning` | the end of the logic, which builds the new record, or its abandonment |
| `CheckLease`, `CommitCas`, `CommitError`, `Finish` | the final lease check and CAS on the worker, and `complete()` |
| `Unload`, `UnloadRead`, `UnloadCas`, `UnloadError`, `UnloadDone`, `DropIdle` | the Release of a type without lifecycle methods, and the idle timeout |
| `ExpireQueued`, `Stop`, `Crash`, `Tick` | queue deadlines, `stop()`, the death of a process, the passing of time |

Each storage operation is one atomic step (the contract in
`include/fsnet/storage.hpp`), and any of them may throw; a CAS that throws may or
may not have taken effect. A step of the event loop is one callback, with
everything it calls.

Abstractions. One entity is modelled, since slots of different entities share
only counters. A script's effect on durable state is to append its attempt to
`log`; `revision` counts those that change an attribute. Byte budgets are not counted: where they
can refuse a request or stop a commit the model may always refuse. The `$tick`
requests of `poll()` behave as `write` attempts without a request id. Deadlines
are nondeterministic: a request may expire at any moment the code checks for it.

### EntityLedger and the refinement

`ImplementsLedger` instantiates `EntityLedger` with the log of the record, the
history of applied attempts, the tombstone and the replies. It says that the
hosts together, with their leases, caches, crashes and uncertain commits, look
to callers like one ledger: a request takes effect at most once and only while
it is pending, effects are never lost, `ok` is told only for what took effect,
and a definite failure only for what did not and will not.

### FileStorage and CasRegister

`FileStorage` follows `Files::replace` system call by system call: `mkdir` of the
shard, `fsync` of the root, `flock`, the read and version check, the write of a
temporary file, its `fsync`, `rename`, and `fsync` of the directory. `visible` is
what `open` finds now; `disk` holds everything that a power loss may leave, which
grows with each rename and shrinks to the visible file with a directory sync. An
unsynced shard directory may vanish, and unsynced contents are torn. A process
may die or a call may throw at every step, a sync also after it has written. The
value `None` is the tombstone of `erase`. `known` is what the caller's last
`get()` returned and hence what it expects. The checksum is represented by
contents being torn or not; 64-bit versions by `MaxVersion`.

`ImplementsRegister` maps the visible file to the register and a replacement to
one that has been applied from its rename on: a throw after the rename is an
operation whose effect its caller does not know, and a power loss may undo it,
but never one that was acknowledged.

### AsyncDatabase

One step is one critical section of the mutex. The owning thread submits, polls
and stops; a completion run by `poll()` may submit or stop again. `Notified`
models `notify_one`: it wakes only a worker that already waits. The worker waits,
takes, runs (success or exception) and hands over. `stop()` is three steps, with
the cancelled jobs in `abandoned` between them. A `submit()` that returns false
changes nothing and is no step. The history variables `admitted`, `executed` and
`delivered` are not read by any action.

### EntityCatalog

A catalog is the `EntityCatalog` of one process, with its allocator, running one
creation at a time on the storage worker; a process that starts again is another
member of `Catalogs`, so a crash ends its memory, the block and the creation with
it. Every storage operation is a step, may throw, and a CAS may
throw after it took effect. The 64-bit identity space is `1..MaxId`, so that its
exhaustion is explored. The digest of a creation is the creation itself (it is
taken to be collision free). `Destroy` is the tombstone commit of a host. The
three errors that `create()` raises for states it takes to be impossible are
states of the model (`corrupt`, `collision`, `disappeared`), and `Recognisable`
says that they are never reached.

### PostgresStorage

A caller locks its adapter, connects if needed, sends one statement and waits, all
under one deadline that may pass anywhere. The server is external: `Draw` is the
`nextval` of an INSERT, which happens before the key is looked at, `Commit` and
`Refuse` end a statement. A statement whose connection was dropped stays at the
server and may still commit, long after its caller was told of an error; that is
the fault which `CasRegister` does not have (there an uncertain write has taken
effect by the time of the error). `Broken` and `Deadline` are the `catch` of
`query()`: the connection is dropped unless the result was drained. Revisions are
unique but not monotone: an INSERT that drew early may commit late.

### EntityDelivery

A `Job` is a request in the pipeline of some host: it reads the record on
acquiring, and commits only if no other has acquired since. `send_entity` writes
the registry of sources first (`SendRegister`), then the outbox with the commit of
the logic. A worker of each process loads the registry, reads a source's record,
delivers the first pending command of each target and brings the result back; its
calls may be lost, repeated by another worker, or answered late. A target that
was destroyed after it committed a command but before its answer was stored
answers `not_found`.

### Timers

`TimerState` has `advance_entity_timer` with int64 replaced by `0..MaxInt`, so that
overflow is reached; `TimerSchedule` lets a clock run past it at any speed.
`EntityTimers` has the three records that must agree: the timers in the entity's
record, the shard of the index that is written ahead of the commit (`arm`), and
what each service remembers. Scans read the index and the record in two steps.
A handoff arms the index under an unchanged token, so that a scan may confirm an
entry with the old placement just before the handoff commits; the accepting host
or the verifying 16th round (`docs/ENTITY_TIMERS.md:100`) repairs it, and
`DueFires` counts on that round.

### EntityTransfer

The coordinator probes the target, has its host release the entity under a ticket
(the record's version), and asks the target to accept. `calls` holds what is under
way; a call may be lost, and an accept may arrive when its ticket is outdated. Any
node may resume a handoff whose outcome is unknown. A host's execution is one
step here.

### EntityRouter and ClusterClient

Both keep connections to members and call over them; both meet answers and
failures of connections that they replaced. The router looks the owner up in
storage and retries keyed calls until one deadline; the cluster client probes
`system.health`, keeps a lease in the directory for every healthy peer and retries
an idempotent call once on another. Time is present in what it decides: a call
that is past its deadline, a member in back-off, a lapsed lease.

### Node

Two ends of each session with an ordered byte stream between them that may break.
Frames have size 1, and the queue reserves two for the handshake as the code
reserves its two largest frames. `lost()` calls back in the order of the code, and
a callback may call again on the session that is going away (`Follow`).

### AttributeReplication and AttributeDelta

One client, one entity with a public and an owner-only attribute; the connection
keeps order. `hist` is what was committed; a projection says which revision it
has. Rights change without notice to the replication. The entity's generation is
left out because the host reports a close with every change of it.
`AttributeDelta` builds every description of a change that the code compares by
size (replace, put, erase, splice, nested) over all pairs of small values, and
applies it.

### The gateway

`GatewayMigration`: each link delivers in order, nothing is ordered between links.
Moves, broken links and timeouts meet `notice()`, `refresh()` and the answer of a
restore. `GatewayRequests`: a handler that calls others synchronously is a function
from the gateway's state to its next, and an action is one callback or one part of
`poll()`. Between lookup, link, delegation and answer the client may leave or log
in again.

### Client

An operator that calls the application back returns the set of states that its
reactions may lead to (nothing, request, disconnect, connect, throw), so that
callbacks in the middle of `cleanup()` are explored.

### LuaEngine

The state after `load()`. The script is the environment: each step of a coroutine
returns, fails, awaits a call, a sleep or a watch, adopts or disposes of a watch.
The host answers once, twice, late or never, or throws. `poll()` is taken apart
into its phases (expiry, resumes before the queue, starts), bounded by the work
limit.

## 3. Runs

The finite instances come in two forms. `MCEntityHost` instantiates `EntityHost`
alone. The other MC modules put several components *side
by side*: the variable `part` is chosen initially and never changes, only the
component that it names takes steps, and the others stay in an initial state. The
components of such a module share no variable, so every behaviour of every
instance is explored, and interleaving them would add nothing; the number of
states is the sum and not the product. A property of one component is guarded by
its `part` where it is not trivially true of the initial state.

| Run | Module | Instance | What it checks |
|---|---|---|---|
| `retry` | `MCEntityHost` | two hosts on one node; a write, its retry, another write; crash and storage error | `AtMostOnce`, `TruthfulAnswers` (no update lost, ok means applied, a definite failure means not applied), `NoEarlyTakeover`, `OwnershipFenced` |
| `handoff` | `MCEntityHost` | two nodes; write, handoff, accept, read, destroy; crash | `HandoffSafe` (owned where placed, created once, no request stranded), `ActivationFresh`, `ImplementsLedger` |
| `release` | `MCEntityHost` | write, deactivate, destroy, read for a type without lifecycle methods; stop, drain and storage errors | `ReleasingMatchesControl`, `TransientFresh` |
| `storage` | `MCStorage` | files: two processes, two values, three versions, errors, deaths, power losses; every timer with five intervals and four counts up to time 11; a timer that repeats twice on two nodes, with one fault | `FilesSafe`, `ImplementsRegister`; `ScheduleSafe`; `TimersSafe` |
| `services` | `MCServices` | catalog: two processes, two keys, two creations, three identities in blocks of two, errors and crashes; delivery: two mortal entities, two workers, two commands; transfer: three nodes, two operations; one fault each | `CatalogSafe`, `NeverResurrected`; `DeliverySafe`; `TransferSafe`; `CommittedIsKept` (of both) |
| `connections` | `MCConnections` | PostgreSQL: three callers on two adapters; node: three calls, one made in a callback, two sessions, every limit reached; cluster: two peers, a plain and an idempotent call; router: three calls, one keyed, two members | `Truthful`, `RevisionsUnique`; `NodeSafe`, `AnswerFinal`; `ClusterSafe`; `RouterSafe` |
| `clients` | `MCClients` | replication: three revisions, two subscriptions; all pairs of small values for deltas; migration: two nodes, two entities, three subscriptions; gateway: two clients, four requests, every limit reached; client: two subscriptions, two requests, callbacks that react; engine: two requests to one entity beside a critical start task, once with one wait each and once with a request that waits twice (`waits`) | `ReplicationSafe`, `DeltaSafe`, `MigrationSafe`, `GatewaySafe`, `ClientSafe`, `EngineSafe`, `NothingReverted`, `EndedStaysEnded` |
| `server_live` | `MCServerLive` | executor: three jobs; hosts: write, handoff, accept; delivery of one command; a one-shot timer; transfer between two nodes; engine: a loop and two requests for one slot | `AdmissionOrder`, `ExecutorSafe`, `ExecutorFinishes`, `RequestsAnswered`, `CommittedWorkIsDone` |
| `client_live` | `MCClientLive` | router, cluster client, node, replication, migration, gateway and client, smaller than in the safety runs, but for two changes of control (`MaxPossess`) in the migration | `CallsAnswered`, `ViewsRecover`, `ControlAgrees` |
| `bind` | `MCEntityHost` | owner binding between calls | `TransientFresh` is violated |
| `evict` | `MCEntityHost` | a retry that overlaps the eviction of its receipt | `ActivationFresh` is violated |
| `client_reconnect` | `Client` | a callback that disconnects and connects | `ReconnectHolds` is violated |

Bounds. For `EntityHost`: two hosts are enough for a takeover and for a takeover back; `MaxTime`
lets a lease expire once (1) or twice (2) on either clock; `ReceiptLimit = 1`
makes eviction happen with two ids; three to five attempts give a request, a
request that overlaps it, one or two control operations and a late one. `RequestTimeout`
is counted in whole ticks of the clock, rounded down, so that
`lease > request_timeout` (required by the constructor) leaves 0 for a lease of
one tick: a lease is reused while at least a tick is left, as in the code.
`Events` names the environment events (crash, storage error, drain, stop) an
instance explores; together the runs take every action. Hosts of one node, and
attempts that ask the same, are symmetric. In `clients` the two nodes of the
migration are alike, so the first entity begins on the first; in `services` the first
creation is named for the same reason. Deadlock is not checked there: when every attempt is
answered the system may stop.

The executor's three jobs reach both limits, by number and by size. For the
catalog, three identities in blocks of two make the second
block short and the third reservation fail; each process is asked for two
creations (`MaxCalls`), enough for a retry, and may lose the allocation race once
(`MaxAttempts`). For the files, three versions hold a creation, an erasure and a
creation again, the shortest history in which a version could repeat. For the
others, `MaxFaults` bounds losses, crashes and errors, at one or two for each
behaviour: a protocol that recovers from one fault at any step is back in a state
in which the next fault is a first one. Limits of the code (queues, pending calls,
inflight requests, bytes) are set so low that they are reached.

Fairness. Each component module states its own as `Fairness`; the live runs combine
them, and as `part` is constant the i-th condition of one component and that of
another are one formula (`Weak(i)`, `Strong(i)`). All of it is fairness of the code's
own threads: the event loop polls, the worker thread runs, a script returns or is
abandoned at its deadline, a call is answered or times out, a lapsed lease is seen
as lapsed. Strong fairness is used where the code polls again and again between
whatever else it does: `poll()` of the executor, the delivery workers' scans, the
full verification round of the timers, the refresh of a lookup in the gateway, the end of
the client's poll. Nothing is assumed of new requests or of faults, whose number
is bounded. A crashed host needs no fairness: its callers see the connection drop.
No spurious wakeup is counted on. "P leads to not P" is written as the equivalent
`[]<>~P`, which TLC checks without a tableau.

### Findings

* `bind`. `complete()` renews the residency fence of a slot after any successful
  commit (`src/entity_host.cpp:235`), also a metadata-only one that loaded no
  instance. If the entity was executed elsewhere in between, the next call
  restores the transient attributes of the residency that ended.
  `docs/ENTITY_SCHEMA.md:33` says they are kept for the current residency only.
* `evict`. `acquire`'s retry loop resets `metadata_only` but not `replay`
  (`src/entity_host.cpp:480`). A receipt that is evicted between a failed lease
  CAS and the next read leaves a replay that is not metadata-only, and
  `complete()` marks the slot activated although `$activate` did not run, against
  `docs/ENTITY_LIFECYCLE.md:31`.
* `client_reconnect`. `cleanup()` clears `disconnect_pending` before it runs the
  callbacks of the ended connection (`src/client.cpp:93`). A callback that calls
  `disconnect()` and then `connect()` leaves it set, and the next poll tears down
  the connection that was just made.

## 4. Proofs

The theorems hold for all values of the constants that the named assumptions allow.
Those of `EntityHost` are the constructor's checks (at least one receipt and one
request, a lease longer than the request timeout) and what the rest of the code
guarantees of requests (`HostAssumption`: ids only on reads and writes); those of
`AsyncDatabase` are positive limits and finitely many jobs; of `EntityCatalog`
a block of at least one identity. TLC evaluates each assumption in the runs.

| Module | Theorem | Statement |
|---|---|---|
| `EntityHostLease` | `TypeCorrect` | `Spec => []TypeOK` |
| | `Fenced`, `Placed`, `NotTakenEarly` | `Spec => OwnershipFenced`, `Spec => []PlacedOwner`, `Spec => []NoEarlyTakeover` |
| `EntityHostMail` | `Unstranded`, `ControlRunsAlone` | `Spec => []NoOrphan`, `Spec => []ReleasingMatchesControl` |
| `EntityHostSafety` | `UpdatesKept`, `CreatedOnce`, `OkIsTrue`, `FailureIsTrue` | `Spec => []` of `NoLostUpdate`, `CreateOnce`, `OkMeansApplied`, `FailureMeansNotApplied` |
| | `AnswersAreTruthful`, `HandoffIsSafe` | `Spec => []TruthfulAnswers`, `Spec => []HandoffSafe` |
| | `Refinement` | `Spec => ImplementsLedger` |
| `EntityHostOnce` | `EffectsOnce` | `Spec => []AtMostOnce` |
| `AsyncDatabaseSafety` | `KeepsOrder`, `CountsAndTells` | `Spec => []AdmissionOrder`, `Spec => []ExecutorSafe` |
| | `QuietOnceStopped` | `Spec => QuietAfterStop` |
| `FileStorageSafety` | `FilesAreSafe`, `FilesRefine` | `Spec => []FilesSafe`, `Spec => ImplementsRegister` |
| `PostgresSafety` | `NoRevisionRepeats`, `AnswersAreTrue` | `Spec => RevisionsUnique`, `Spec => []Truthful` |
| `EntityCatalogSafety` | `CreationIsSafe`, `NothingIsResurrected` | `Spec => []CatalogSafe`, `Spec => NeverResurrected` |

None of these invariants is inductive alone. Each proof has one lemma or step per
action and, under it, one per conjunct that the action can disturb; TLC checked
every strengthening on a small instance before it was proved.

### The host

The invariant is `SafetyInv == TypeOK /\ LeaseInv /\ MailInv /\ LedgerInv`:

* `LeaseInv` ties each job to the record: the version a job will CAS on is never
  ahead of the record's, and if it *is* the record's, then the fence, the log and
  the initialization the job read are the record's too. A successful CAS
  therefore extends what is stored; any write by another host makes it fail. A
  destroyed record has no owner, a placed one is owned by its node.
* `MailInv` says that every pending attempt is held by exactly one host, in
  exactly one place (mailbox or job), and that a control operation is alone in
  its slot. That is why an answer is given once and never to a request that still
  runs somewhere else.
* `LedgerInv` relates committed effects to answers: what was applied is neither
  unanswered-and-never-presented nor answered as failed, a queued attempt has not
  been applied, and each stage of a job determines whether its attempt has been.

The refinement follows from it, mapping an admission to `Submit`, the final CAS to
`Apply`, answers to `Confirm`, `Fail` or `Lose`, and everything else to stutters.

`NotTakenEarly` adds `Takeover`: a job that holds the lease either finds it in the
record as it was granted, or some host's clock has passed its end; and a job that is
about to take the lease read a record that was its own or had lapsed on its own
clock. Clocks never go back, so "has lapsed" is stable, and the lease CAS of another
host, the only step that can end the first alternative, brings about the second.

`EffectsOnce` adds `OnceInv`, which counts. An entry of the log that has a request id
either still has its receipt, and then at least as many requests with ids have been
committed after it as there are receipts behind its own, or at least `ReceiptLimit`
such requests have. A job that is going to run its request found no receipt with that
id in what it read, and by `LeaseInv` its commit succeeds only on what it read. So a
second entry with one id is possible only in the second case. The step
"one more receipt, one more entry" (`CommitOnce`) rests on `ReceiptShape`, what
`WithReceipt` does to the positions of receipts, and on `KeyedAppend`, what an append
does to the counts, with cardinalities from `FiniteSetTheorems`.

### Storage

`AInv` of the executor: the five lists, one after the other, are the admitted jobs in
order, and the lists that a stopped executor must have emptied are empty. `EInv` adds that no
job is admitted twice, that `count` and `bytes` are the number and the sum of
the jobs retained, and that `executed` and the recorded outcomes agree. It needs
lemmas on what a concatenation of lists does to ranges and injectivity, and on the
sum of a set under one more or one less.

`FilesInv`: what a power loss may leave on the disk is intact, no newer than the visible
file and no older than the last acknowledged revision (`DiskInv`), what a process knows of the record is not ahead of it
(`KnownInv`), and only the holder of the lock has passed it, with the version that it
read still visible until its own rename (`HolderInv`). The last makes a replacement
atomic at its rename, which is the step of the refinement.

`RevInv` of the PostgreSQL adapter: revisions of rows and of INSERTs under way have
been drawn, and one under way is nobody else's. `TruthInv`: a write has at most one
statement, which has taken effect exactly when its result says so, and none before
it is sent; so an answer read from a result is true, even if a statement of another
operation commits late.

### Creation

`IInv` of the catalog has four parts. Blocks lie below the durable high-water mark, are
disjoint and not yet used, and a reservation that would win its CAS has read the mark
that is stored (`BlockInv`): that is why no identity is allocated twice, although a
CAS may throw after it took effect, which only loses a block. An allocated identity is
in one place: with the creation that is about to claim it, in one claim, or lost
(`HeldInv`). A creation knows at each step what it established, for claims and
records are never removed (`CallInv`). A record stands under a claim of the same
creation, and what was returned is claimed and stored (`StoredInv`). `Recognisable`,
that the three "impossible" errors are unreachable, is a part of `CallInv`.

### Only model-checked

* Liveness under fairness (`ExecutorFinishes`, `RequestsAnswered`,
  `CommittedWorkIsDone`, `CallsAnswered`, `ViewsRecover`, `ControlAgrees`) is outside
  the prover's reach.
* `ActivationFresh` and `TransientFresh` are not theorems: the runs `evict` and `bind`
  show instances that violate them. They are checked on the instances without an
  overlapping eviction and without owner bindings.
* `ScheduleSafe` and `DeltaSafe` are about what recursive or nested data computes, which
  would need induction over data.
* The safety of delivery, timers, transfer, router, cluster client, node, replication,
  gateway, client and Lua engine has no proofs. Of these, delivery and transfer are the next
  candidates; their state is made of records in sets, where an inductive
  invariant is large.

## 5. Not modelled

* In `EntityScriptHost`: dispatch of client calls and permissions, stateful services,
  rebuildable entities, byte budgets (a refusal is always possible instead).
* Parsing of options, TLS, sockets, framing and KCP; the bindings, the memory and the
  instruction budgets of the Lua VM; the contents of scripts.
* The memory and SQLite backends, whose operations are one critical section or one SQL
  transaction each, the storage factory, the entity schema, the C wrappers and the
  cipher: no interleaving, or no state.
* `CasRegister` has no write that commits after its caller saw an error; the modules
  over the register inherit that. `PostgresStorage` has such writes and shows what its
  adapter still promises.
* An observation that no run states: if the new node's script shows an entity again before
  the leave notice of the old node has come, `notice()` (`src/client_gateway.cpp:391`)
  makes a second subscription beside the one that will migrate, and the client has two handles of
  one entity. `GatewayMigration` has this behaviour under `Reshow`; its `OneHandle` states
  the opposite. The live run leaves `Reshow` out.

## 6. Running

    tlc -workers 2 -config MCEntityHostRetry.cfg MCEntityHost
    tlc -workers 2 -config MCStorage.cfg MCStorage
    tlapm EntityHostSafety.tla

A run of TLC takes up to five minutes, and the proofs of one module up to ten.
`PROJECT.json` lists components, runs, mutants (a plausible bug for each
property, which its run must detect), the map from definitions to source lines,
hazards and theorems.
