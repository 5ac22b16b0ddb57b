# NAMRBD verification project

TLA+ specifications of NAMRBD, a distributed block store, with the TLC instances that check them and TLAPS proofs.
They were written from the Go sources; `PROJECT.json` maps each definition to the lines it models.

## The system

A host reaches a volume through a gateway (kernel block driver, iSCSI or CSI in front of it). A gateway keeps its own
records (leases, attachments, path plans) in etcd. Volume data is kept by SBS: metadata in TiKV behind `sbs-service`,
payload chunks on data nodes. A write runs in the gateway: plan, store chunks on a quorum of replicas, commit the
mapping in a metadata transaction, acknowledge. Snapshots, clones, garbage collection and maintenance run in
`sbs-service` and share records with the write path, but no lock.

| Part | State | Operations | Works with | Module |
|---|---|---|---|---|
| commit lock (`replication/service.go`) | entry map, tokens, reference counts | acquire, cancel, release | write path | CommitLock |
| write path (`replication/`, `metadata/repository.go`) | volume state, idempotency and mutation records, allocation page, chunks | begin, plan, store, commit, rebase, recover, fail | all below | WriteCommit |
| effects queue (`cmd/sbs-service/write_effects_queue.go`) | lanes, batches, waiting callers | enqueue, overflow, batch, answer | commits | EffectsQueue, EffectsQueueLog, CommitLog |
| snapshots (`cmd/sbs-service/main.go`) | snapshot record and root | create, delete | planner, GC, clones | SnapshotCut |
| payload GC (`replication/payload_gc.go`) | GC operation record, chunks | sweep | write path, snapshots | PayloadGC |
| clones (`cmd/sbs-service/main.go`, `metadata/repository.go`) | clone records, reference count, delta pages, target volumes | create, write, materialize, delete | snapshots, volumes | CloneLifecycle |
| maintenance and replicas (`maintenance/`, `replication/remote_adapter.go`) | replica sets, transitions, progress, node sessions | drain, fail over, repair, copy, publish | foreground writes | Transition |
| gateway attachment (`gateway/`) | etcd attachment, status, generation; SBS handles and sessions | attach, take over, detach, hand off, serve | hosts, data nodes | Attachment |
| iSCSI failover (`cmd/sbs-service/main_iscsi*.go`, `iscsi/`, `sbs/local`) | export registry, change log, writer fences, runtimes | promote, demote, project, reload, write | gateways, data nodes | IscsiFailover |

The other parts (leader lease, caches, tools, configuration, wire formats, rollout, disaster recovery, kernel module)
are listed under `components` in `PROJECT.json` with the reason they are not modelled. `hazards` there lists what is
hard to test, by line.

What makes this code hard: handlers are sequences of separate transactions; writes are optimistic and rebase after a
conflict; mapped chunks are overwritten in place; requests are retried under one key; fences and sessions live in the
memory of nodes that restart; processes die in between.

## Modules

Each call to a metadata store and each RPC is a step; local computation belongs to the step before it.

**CommitLock** models `metadataCommitLockSet`. State: `locks`, `token`, `refs`, and each goroutine's `pc`, `key`, `ent`.
Actions: the two branches of the lookup, of the select, the token's return and `releaseRef`.

**WriteCommit** models every write request of one volume with one allocation page.

| Variable | Code |
|---|---|
| `vol`, `idem`, `mut` | VolumeState, IdempotencyRecord, MutationOperationRecord |
| `page`, `pageRev`, `orderRev` | allocation page, its revision, the range-local or append-only sequence |
| `nextId`, `payload` | next chunk id, contents of the physical chunks |
| `gcOp`, `snapState` | the volume's `payload_gc` operation, its snapshot's state |
| `mode`, `lock` | the wired commit mode, the commit lock of each gateway |
| `exec`, `began` | the WriteExecution; history |

`BeginWrite` to `PutWriteIntent` are `Executor.BeginWrite`; `LoadChunk`, `StoreChunk` the read-modify-write of a chunk;
`AcquireCommitLock` to `RebasePages` are `commitMetadataWithRetry` with `CommitMetadata` and its recovery; `HintRead`,
`HintPut` the retirement hints; `MarkFailed*`, `Retry`, `Crash`, `PrimaryFailover` the failures. Abstractions: the
replicas of an extent are one store; a chunk is a few sectors; the allocation of ids is one step, as it is within one
process. `CommitMetadata` may apply and still be answered with a conflict or an error.

**EffectsQueue** looks inside the append-only commit, the gateway's default mode: the commit RPC, the lane's channel,
the goroutine that sends an item later when the channel is full, the lane's worker with its batch transaction, retries
and single transactions, and the caller that is answered, times out, loses the connection, looks for its committed
record or marks it failed. State: `record`, `page`, `epoch` in TiKV; `chan`, `spill`, `worker` in `sbs-service`;
`caller` in the gateway; `log`, the history of transactions. The worker's context is detached from the caller's.

**CommitLog** is what the queue promises: a log of transactions, pages that are the replay of that log in its order, and
acknowledgements of committed writes only. `Implements` in EffectsQueueLog is `CommitLog!LogSpec` under the refinement
mapping: acknowledged writes are those whose caller is, and the committed log is `log`.

**SnapshotCut** extends WriteCommit with `CreateSnapshot` and `DeleteSnapshot` of one snapshot. The planner reads the
record they write.

**PayloadGC** extends SnapshotCut with `SweepVolume`: take over the operation, read the page, the snapshot roots, list,
delete, put the operation. Clone delta references and per-batch records are left out.

**CloneLifecycle** models the clones of one snapshot: `CreateClone`, `DeleteClone`, `DeleteSnapshot`,
`MaterializeClone` with the `CreateVolume` it calls, its copy loop and clean-up, and clone writes. `muddled` notes the
clones that conflicting handlers were on at once, or whose transaction applied behind an error; `crossed` that a clone
was created inside a `DeleteSnapshot`.

**Transition** models the replicas of one extent. The gateway opens sessions on the nodes, stores a version on the
writable replicas (`WritePayload`), commits it (`CommitWrite`) and refreshes lost sessions. The maintenance loop takes
its steps in the code's order: queue a drain, clean up, requeue, fail primaries over, queue repairs, run one transition
(`RunTransition`, `OpenSource`, `CopyPage`, `Publish`, `CompleteAttempt`). State: `mapping`, `sets`, `trans`, `op`,
`batch` are metadata records; `holds`, `taken`, `session` what a node stores, which copies it remembers and which writer
it admits; `att` the running attempt. Every write has a version of its own (`written`). `stale` notes the pages whose
acknowledged write was left behind by what the code does not guard: a copy read from a replica that missed it, or a
publish that relies on progress recorded for an older version or another target. A write in flight that either leaves
behind is `behind`, and makes its page stale when it commits; a page is stale until a later write commits.

**Attachment** models one volume in etcd (`att`, `nextGen`, `status`), the gateways' open handles, the one session the
SBS node admits, and what hosts know. `Attach*`, `Detach*` and `RefreshStatus` are the control calls, one step per etcd
request, with `ReconcileVolumePathPlanStatus` and the handoff functions of `handoff.go` as operators; `BeginRequest` to
`SubmitIO` are a write through `ensureOpen` with its mutex. Path plans are reduced to the desired gateways, and times
to whether a delay is over.

**IscsiFailover** models one export: two `sbs-service` processes whose mutations read the registry, project a writer
fence to the receivers, and save (`Begin`, `Project`, `Save`); the bounded change log; data nodes with a stored fence, a
cached one and sessions (`ApplyISCSIWriterFence`, `StartRead`, `FinishRead`, `Restart`); gateways that fetch changes,
prepare runtimes and write. A projection may time out and still arrive (`LateApply`). `torn` notes a node whose cache an
unlocked reader overwrote.

## Runs

| Run | Result | Shows |
|---|---|---|
| `commit_lock` | pass | exclusion, release never blocks, no leaked or lost entry, waiters proceed |
| `write_modes` | pass | two overlapping writes in each commit mode: acknowledged writes stay and are replayable, no chunk is mapped twice, volume-scoped revisions are distinct |
| `write_partial` | pass | zero requests with a partly covered chunk and a session retry: neighbours keep their data, every request ends |
| `write_zero` | violation | a zero write retried after a conflict is acknowledged and the old data stays |
| `effects_queue` | pass | the queue implements the commit log, items queued directly are not overtaken, every call ends |
| `snapshot_cut` | pass | only writes planned before the record can change a snapshot; earlier acknowledged writes are in it |
| `gc_sweep` | pass | a sweep nothing overlaps deletes nothing reachable |
| `clone_calls` | pass | references are not leaked and, without conflicts, exact; a restored volume has every clone write |
| `transition` | pass | the mapped replica set exists and a quorum of it has the last acknowledged write; attempts keep writers out |
| `transition_drain` | violation | a drain copies the drained primary, which writes had left out, over the newer replicas |
| `attachment` | pass | accepted I/O was sent under an attachment and an open handoff gate of the request's time; detaches remove their own attachment only |
| `iscsi_fence` | pass | no write of an older epoch where a newer one is published, one writer per epoch, published fences stay |

The violations are disagreements between the code and a sentence of the manuals; `findings` quotes both. They are
results about the model and its abstractions; none was reproduced on a running cluster.

Several passing properties are conditional. `OneWritePerRevision` is about volume-scoped commits. `RefsMatchClones` and
`BaseKept` hold while no clone is muddled, `RestoreComplete` for the clones that are not. `QuietSweepKeepsReachable`
is about sweeps that no request and no snapshot capture overlaps. `LaneOrder` excepts items sent by an overflow
goroutine, `MappedSetServes` stale pages, `SourceHeld` attempts whose source nodes restarted in a write quorum, and
`StaleWriterFenced` and `OneWriterPerEpoch` torn nodes. The last two, like `PublishedIsFenced`, speak of the nodes that
were receivers when the promotion was published. `AcceptedWasAdmitted` allows a request to finish under an attachment
that was replaced while it ran.

### Further instances

These configurations are kept beside the runs. Each is violated; the trace shows a limit of the conditional properties.
The larger instances that pass are named under Bounds.

| Configuration | Property | The trace |
|---|---|---|
| `MCWriteCommit_halves.cfg` | `AckedWritesStay` | concurrent writes to two halves of a chunk undo one another |
| `MCWriteCommit_fence.cfg` | `StaleEpochFenced` | a write that began before a failover commits after it |
| `MCSnapshotCut_immutable.cfg` | `SnapshotImmutable` | a write planned before the snapshot record changes the captured snapshot |
| `MCPayloadGC_reachable.cfg` | `ReachableKept` | a sweep that overlaps a write deletes what the write maps |
| `MCCloneLifecycle_base.cfg` | `BaseProtected` | `CreateClone` inside `DeleteSnapshot` leaves a clone without its snapshot |
| `MCEffectsQueue_ordered.cfg` | `OrderedQueue` | an item left to the overflow goroutine is applied after a later call's |
| `MCAttachment_reuse.cfg` | `GenerationAdvances` | a delayed attach or takeover reuses a generation |
| `MCAttachment_orphan.cfg` | `SessionClosable` | a forgotten handle leaves the node's session open |

### Bounds

Two requests suffice for a conflict, a rebase and an undone write; two attempts (64 in the code) for one retry; one
failover for a stale epoch. `write_modes` has two chunks so that requests overlap in part. `write_partial`, `gc_sweep`
and the snapshot runs use one commit mode each to stay small: volume-scoped for the lock, append-only, the gateway's
default, for the others. `clone_calls` has two clones, two handlers, one target, one chunk and one write; it also passed
with two chunks, with two targets and no write, and, for one clone, with two chunks and two writes.

`effects_queue` has two writes that share a chunk slot and a lane. A channel of one item makes the second waiting commit
overflow (the code's depth is 4096), batches of two and two attempts reach the batch, its retry and the single fallback,
two runs of a call a retry under the same key, and one fault a lost answer or a crash. It also passed with two faults.
It has one lane. `MCEffectsQueue_lanes.cfg`, which also passes, puts the writes in two lanes that share the slot, as
when one write covers several extents.

`transition` has three replicas on four nodes, one page, a primary that may be drained, two versions, two transitions
and one fault: a second transition is what meets the records of the first, and a fault what makes an attempt resume. It
also passed, with one transition, with two drainable nodes, with three versions, with two pages
(`MCTransition_pages.cfg`) and, without drains, with five nodes and two faults (`MCTransition_five.cfg`, 20 minutes).
Only with two pages does an attempt skip a committed batch, and only with five nodes is a target planned anew. The run
and these two configurations never reach a transition without its replica sets, a source that is wholly down, a source
page of zeroes (every page starts written) or an attempt that lost all its source sessions.

`attachment` has two gateways, two hosts, two concurrent control calls and requests, and three calls, requests and
restarts in all: a takeover, a detach that it overtakes and a new attach. It also passed with three calls and one
request, and with four in all from fewer initial states. `iscsi_fence` has two servers, two gateways and two receivers,
two mutations, one fault and a change log that keeps one revision, so that a reload meets a gap.

Deadlock is checked except where the system stops when its ids or calls are used up: the clone, effects queue,
attachment and iSCSI runs.

### Fairness

`WaitersProceed` assumes that goroutines with the token return it and drop their reference (weak), and that a waiter is
not passed over for ever (strong): Go serves blocked receivers of a channel in order. `RequestsEnd` assumes that a
running request takes its next step (weak fairness of `Progress`): calls return, by answer or deadline. `CallsEnd`
assumes that the worker of a lane and its overflow goroutines go on (weak fairness of `LaneStep`: store calls end within
the detached context's 30 seconds) and that a call that was made takes its next step (weak fairness of `CallStep`).
Failures, timeouts, crashes and failovers are never assumed to happen.

## Proofs

All are for every value of the constants that the modules' assumptions allow: sets of goroutines, clones and chunks are
finite, every volume has a chunk, "nobody" is not a gateway, the maps between constants are typed, and bounds are
natural numbers (positive ones in EffectsQueue). Every invariant below was checked by TLC on small instances first.

* `HandlerProofs`, CommitLock: type correctness, exclusion, `ReleaseNeverBlocks`, `MapHoldsUsedKeys`. Exclusion is not
  inductive: the invariant adds that `refs` counts an entry's users and that an entry in use is the map's entry for its
  key.
* `WriteCommitProofs`: type correctness and `NoSharedChunk`. The page alone is not enough, as plans are committed later:
  the invariant says that each id belongs to one chunk over the page, the initial page and all plans together, and that
  used ids were allocated. Then the records a request leaves: `OneWritePerRevision`, from committed revisions being at
  most the volume's and a committed record in the loop having its mutation. Last, what is in the physical chunks, which
  rests on the shapes of a request's steps (`Moves`, `Allocates`, `Stays`, `Intends`, `Loads`, `Stores`): outside its
  payload phase a request only carries ids from map to map, the allocation gives it new ones, a store changes the one
  chunk it planned.
  * `NeighboursKept`: every id that any map has for a chunk (page, plan, base of a plan) reads the
    chunk's first content in the sectors nobody covers, except a new id whose owner has not stored it yet, and that
    owner cannot commit before it has. A read-modify-write buffer has that content as well (`NInv`).
* `StoredDataProofs` goes on from there.
  * `AckedIsReplayable`, assuming that there are no zero requests. With them, the zero no-op of a retried request can
    leave its first run's operation behind.
  * `NeighboursKept` again, now beside snapshots taken and deleted; type correctness of SnapshotCut and PayloadGC.
  * `OnlyPlannedWritesLeak`: while the snapshot lives, a request in its payload phase that is not in `planned` copies on
    write (`Cautious`), and a copying request stores under ids that no page, root or other plan has (`Private`); so what
    the listed page and the root read as changes only by stores of planned requests (`Leaks`).
  * `QuietSweepKeepsReachable`: an undisturbed sweep has in `refs` the page's ids once it read the page, and everything
    reachable once it read the roots; candidates are outside `refs`, and nothing becomes reachable meanwhile.
* `HandlerProofs`, CloneLifecycle: type correctness, `NoReferenceLeak`, `RefsMatchClones`, `BaseKept`. The invariant
  adds that a clone that is not muddled has one materializing handler, whose progress its state tells, and that a
  snapshot that is deleted or about to be has no clone that needs it. `RestoreComplete` needs more (`RInv`), for clones
  that are not muddled: handlers fill different volumes (`SoleTarget`); a clone's page is what was written last, and a
  planned write has it as it still is (`PagesMatch`); the windows a handler has copied are in its volume as the clone
  has them, which stays so because no write commits to a clone that is not available (`CopiesMatch`); and a volume that
  is or was the answer holds the last writes and no handler is on it any more (`AnswersHeld`).
* `EffectsQueueSteps` and `EffectsQueueProofs`: type correctness, `LaneOrder` and the refinement `Implements`. The
  invariant bounds the ids that items, calls and log entries mention by the attempts made so far (`KInv`), ties an
  acknowledgement to a committed record and that to the log (`CInv`), and has the lane's discipline (`OInv`): in the
  batch, then the channel, an item that went straight to the channel comes before every item whose call began after it
  was left behind, the log is behind both, and an item that was applied does not find its record pending again. The
  refinement maps each transaction to `Commit` of CommitLog and each answer to `Ack`; `Merged`
  of a batch is the `Replay` of its writes over the page before, and no acknowledged write is committed again.
* `FailoverProofs`: type correctness, `PublishedIsFenced`, `StaleWriterFenced`, `OneWriterPerEpoch`. Nodes that answered
  a projection have its fence or a later one (`ProjectionAcks`), accepted writes follow their node's fence, and there is
  an anchor: a node that every promotion that can still be published must ask, so that its fence orders everything that
  was claimed under an epoch. Receivers only join, which is what keeps an anchor.
* `AttachmentProofs`: type correctness, `AcceptedWasAdmitted`, `DetachTakesOwn`. Generations stay within the bound since
  a call gives out at most one: the highest is the number of calls begun less those that have not given out theirs
  (`Room`). The invariant adds what a call holds at each step, that a request's history includes the present attachment
  and gate, and that a gateway's mutex is held by one open at a time.

* `TransitionProofs`: type correctness, `MappedSetServes`, `SourceHeld`. That the mapped set has the last acknowledged
  write says nothing about the moves to come, which skip what their records say was copied: a committed batch is not
  copied again, and a node that remembers a copy answers without storing. So the invariant has, for the acknowledged
  write of every page that is not stale and for the write in flight unless it is behind (`Kept`), that besides a quorum
  of the mapped set every node counted by a batch or by a record of its own stores that version or a later one. Nothing
  is stored or recorded that was not written (`Dated`), so a new version is above all records; a publish then finds the
  version on every node of the target or notes the page as stale. That the records read by an attempt stay as they are
  needs that the set of a derived ref does not have the node the ref is named after (`Derived`): planning a replacement
  of a member never overwrites the mapped set. `SourceHeld` follows from the source nodes that did not restart being
  open for the attempt (`Holding`), as two quorums of a set meet.

Two definitions are closed forms so that the provers, which cannot do induction over data, can use them: `Merged` of
EffectsQueue and `Replay` of CommitLog take, for each slot, the last update that touches it, which is what the merge
loop leaves.

Only model-checked:

* `WaitersProceed`, `RequestsEnd`, `CallsEnd`: liveness under fairness is out of the prover's reach.
* `AckedWritesStay` and with it `SnapshotHasAckedWrites`. They do not hold for all constants: concurrent partial writes
  undo one another (`MCWriteCommit_halves.cfg`), and with five whole-chunk requests on a chunk that starts unmapped, two
  of which allocated an id each, a request that overwrote the first id in place and commits last puts that id back,
  with data of a request that was over before an acknowledged one began. The run shows them for two requests.

All other properties that passing runs check are proved.

## Plan

1. The leader lease, the chunk id range cache with two allocating processes, and the maintenance work leases.
2. SnapshotCut with two pages; clone delta references in PayloadGC.
3. Gateway registration under an etcd lease, the reconcile gate, data plane socket sessions; then transfer and rollout
   state machines.

## Not modelled

Several pages and extents per request, encryption headers, placement, erasure coding (a stub here), read repair,
quorum-early writes (disabled by the service configuration), effects-only queue items and the intent queue, rebalancing,
maintenance work leases, the leader lease, client caches (lab options, off by default, but for the chunk id ranges),
wire formats, authentication, configuration, metrics, the vendored iSCSI target, generated code and the kernel module.
Nor are disaster recovery transfers and cluster rollout, whose state machines could be.

The definitions map to some 8,100 of the repository's 209,000 source lines, about 4%. They are the metadata protocols above;
much of the rest is tools, adapters, encoding and I/O, and what could still be modelled is in the plan.
