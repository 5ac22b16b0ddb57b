----------------------------- MODULE WriteCommit -----------------------------
(***************************************************************************)
(* The write path of one volume: every replicated write a gateway runs,    *)
(* from Executor.BeginWrite to the acknowledgement, against the metadata   *)
(* store (volume state, idempotency and mutation records, one allocation   *)
(* page) and the payload store (physical chunks).                          *)
(*                                                                         *)
(* A writer is one request with its own idempotency key, run by one        *)
(* goroutine.  Each call to the metadata store and each chunk RPC is a     *)
(* step; local computation between two of them belongs to the step before. *)
(* The replicas of an extent are one logical payload store here: a chunk   *)
(* write either reaches its write quorum or fails the request.             *)
(*                                                                         *)
(* Sources: sbs/cluster/replication (service.go, executor.go,              *)
(* coordinator.go, allocation_*.go, remote_adapter.go) and                 *)
(* sbs/cluster/metadata/repository.go.                                     *)
(***************************************************************************)
EXTENDS Integers, FiniteSets

CONSTANTS
  Writers,      \* requests; a request is its idempotency key
  Gateways,     \* gateway processes, each with its own commit lock
  GatewayOf,    \* the gateway that runs a writer
  Chunks,       \* logical chunks of the page (a set of naturals)
  Sectors,      \* the parts of a chunk a request can cover separately
  Span,         \* the <<chunk, sector>> pairs a writer covers
  ZeroWriters,  \* the writers with ZeroSemantic (write zeroes and discard)
  InitMapped,   \* the chunks that hold data initially
  WiredModes,   \* the metadata commit modes gateways may be wired with
  MaxChunkId,   \* bound: physical chunk ids
  MaxAttempts,  \* bound: commit attempts of one run (64 in the code)
  MaxRuns,      \* runs of one request (2: one retry after a lost session)
  MaxEpoch      \* bound: primary failovers

Modes == {"volume_scoped", "page_scoped", "range_local", "append_only"}

NoWriter == "no writer"
OldData  == "old data"
ZeroData == "zeroes"
NoChunk  == -1

Ids == 1..MaxChunkId

ASSUME WriteCommitAssumption ==
  /\ Chunks \subseteq Nat /\ IsFiniteSet(Chunks)
  /\ InitMapped \subseteq Chunks
  /\ GatewayOf \in [Writers -> Gateways]
  /\ Span \in [Writers -> SUBSET (Chunks \X Sectors)]
  /\ ZeroWriters \subseteq Writers
  /\ WiredModes \subseteq Modes
  /\ {NoWriter, OldData, ZeroData} \cap Writers = {}
  /\ MaxChunkId \in Nat /\ Cardinality(InitMapped) <= MaxChunkId
  /\ MaxAttempts \in Nat \ {0} /\ MaxRuns \in Nat \ {0} /\ MaxEpoch \in Nat

VARIABLES
  vol,        \* VolumeState: epoch and revision
  idem,       \* IdempotencyRecord of each key: state and revision
  mut,        \* MutationOperationRecord of each key: state and revision
  page,       \* allocation page: chunk -> physical chunk id, 0 for zero
  pageRev,    \* revision of the allocation page
  orderRev,   \* last revision of the range-local or append-only sequence
  nextId,     \* next physical chunk id
  payload,    \* contents of the physical chunks
  gcOp,       \* the volume's payload_gc operation: state and retired ids
  snapState,  \* state of the volume's snapshot record, read by planning
  mode,       \* the metadata commit mode the gateways are wired with
  lock,       \* per gateway: holder of the volume's commit lock
  exec,       \* the WriteExecution of each writer and where it stands
  began       \* history: what had happened when a writer began

meta == <<vol, idem, mut, page, pageRev, orderRev>>
env  == <<snapState, mode>>
vars == <<meta, nextId, payload, gcOp, env, lock, exec, began>>

-----------------------------------------------------------------------------
(* The request's geometry *)

Touched(w)      == {c \in Chunks : \E s \in Sectors : <<c, s>> \in Span[w]}
FullChunk(w, c) == \A s \in Sectors : <<c, s>> \in Span[w]

\* shouldSkipChunkPayloadWrite: a zero request over a whole chunk writes no
\* payload and unmaps the chunk.
ZeroChunks(w) == {c \in Touched(w) : w \in ZeroWriters /\ FullChunk(w, c)}
DataChunks(w) == Touched(w) \ ZeroChunks(w)
DataOf(w)     == IF w \in ZeroWriters THEN ZeroData ELSE w

Contents == Writers \cup {OldData, ZeroData}
Zeroes   == [s \in Sectors |-> ZeroData]

\* What a read of sector s of chunk c returns.
Visible(c, s) == IF page[c] = 0 THEN ZeroData ELSE payload[page[c]][s]

\* Mutant: every chunk of a request gets the first allocated id.
RankFirst(c, S) == 0

\* The position of c in S, counting from 0 in increasing order.
Rank(c, S) == Cardinality({d \in S : d < c})

-----------------------------------------------------------------------------
(* The execution record *)

Steps == {"idle", "lookup", "plan", "cow", "intent", "payload", "lock",
          "commit", "recover", "rebase", "replan", "effects", "hint",
          "hintput", "failidem", "failmut", "acked", "error", "dead"}

GcType == [state : {"none", "pending", "running", "committed", "failed"},
           retired : SUBSET Ids]

ExecType ==
  [pc : Steps, epoch : Nat, revision : Nat, plan : [Chunks -> Ids \cup {0}],
   planRev : Nat, cow : BOOLEAN, base : [Chunks -> Ids \cup {0}],
   recovering : BOOLEAN, todo : SUBSET Chunks, cur : Chunks \cup {NoChunk},
   buf : [Sectors -> Contents], gcSeen : GcType, attempt : Nat,
   sessionLost : BOOLEAN, runs : Nat]

Finished(w) ==
  \/ exec[w].pc \in {"acked", "dead"}
  \/ /\ exec[w].pc = "error"
     /\ ~(exec[w].sessionLost /\ exec[w].runs < MaxRuns)

NoGc == [state |-> "none", retired |-> {}]

InitPage == [c \in Chunks |-> IF c \in InitMapped THEN 1 + Rank(c, InitMapped) ELSE 0]

\* No WriteExecution: the request is not running.
NoExec(step, runs, lost) ==
  [pc |-> step, epoch |-> 0, revision |-> 0, plan |-> InitPage, planRev |-> 0,
   cow |-> FALSE, base |-> InitPage, recovering |-> FALSE, todo |-> {},
   cur |-> NoChunk, buf |-> Zeroes, gcSeen |-> NoGc, attempt |-> 0,
   sessionLost |-> lost, runs |-> runs]

Init ==
  /\ vol = [epoch |-> 1, revision |-> 1]
  /\ idem = [w \in Writers |-> [state |-> "none", revision |-> 0]]
  /\ mut = [w \in Writers |-> [state |-> "none", revision |-> 0]]
  /\ page = InitPage
  /\ pageRev = 1
  /\ orderRev = 0
  /\ nextId = 1 + Cardinality(InitMapped)
  /\ payload = [i \in Ids |-> [s \in Sectors |->
                  IF i <= Cardinality(InitMapped) THEN OldData ELSE ZeroData]]
  /\ gcOp = NoGc
  /\ snapState = "none" /\ mode \in WiredModes
  /\ lock = [g \in Gateways |-> NoWriter]
  /\ exec = [w \in Writers |-> NoExec("idle", 0, FALSE)]
  /\ began = [w \in Writers |-> [epoch |-> 0, after |-> {}]]

At(w, step) == exec[w].pc = step

Goto(w, step) ==
  exec' = [exec EXCEPT ![w] =
    IF step \in {"acked", "error"} THEN NoExec(step, @.runs, @.sessionLost)
    ELSE [@ EXCEPT !.pc = step]]

-----------------------------------------------------------------------------
(* Executor.BeginWrite *)

\* GetVolumeState: the epoch and revision the commit will expect.
BeginWrite(w) ==
  /\ At(w, "idle")
  /\ exec' = [exec EXCEPT ![w].pc = "lookup", ![w].epoch = vol.epoch,
                ![w].revision = vol.revision, ![w].attempt = 1,
                ![w].sessionLost = FALSE, ![w].runs = @ + 1]
  /\ began' = [began EXCEPT ![w] =
       [epoch |-> vol.epoch,
        after |-> IF exec[w].runs > 0 THEN @.after ELSE {x \in Writers : Finished(x)}]]
  /\ UNCHANGED <<meta, nextId, payload, gcOp, env, lock>>

\* GetIdempotencyRecord and, for a committed one, GetMutationOperation.
LookupIdempotency(w) ==
  /\ At(w, "lookup")
  /\ \/ /\ idem[w].state = "committed"
        /\ Goto(w, IF mut[w].state \in {"none", "committed"} THEN "acked" ELSE "error")
     \/ /\ idem[w].state = "pending"
        /\ exec' = [exec EXCEPT ![w].pc = "plan", ![w].recovering = TRUE]
     \/ /\ idem[w].state \in {"none", "failed"}
        /\ exec' = [exec EXCEPT ![w].pc = "plan", ![w].recovering = FALSE]
  /\ UNCHANGED <<meta, nextId, payload, gcOp, env, lock, began>>

\* Coordinator.PlanWriteWithStats, first read: the allocation page.
PlanPages(w) ==
  /\ At(w, "plan")
  /\ exec' = [exec EXCEPT ![w].pc = "cow", ![w].plan = page, ![w].planRev = pageRev]
  /\ UNCHANGED <<meta, nextId, payload, gcOp, env, lock, began>>

\* Mutant: a snapshot counts once it is complete.
CopyOnWriteWhenAvailable == snapState \in {"available", "deleting"}

\* sourceWriteRequiresCopyOnWrite: any snapshot not yet gone.
CopyOnWriteNeeded == snapState \in {"creating", "available", "deleting"}

\* prepareWritePlanAllocations: the chunks that get a fresh physical chunk.
FreshChunks(w, cow) == {c \in DataChunks(w) : cow \/ exec[w].plan[c] = 0}

\* writePlanIsZeroNoop: nothing to do for a zero request over zero chunks.
ZeroNoop(w) == /\ w \in ZeroWriters /\ ~CopyOnWriteNeeded
               /\ ~exec[w].recovering /\ Touched(w) # {}
               /\ \A c \in Touched(w) : exec[w].plan[c] = 0

\* AllocateChunkIDs: n consecutive ids starting at nextId.
AllocateChunkIDs(n) == nextId + n <= MaxChunkId + 1 /\ nextId' = nextId + n

\* Second read of the plan (the snapshot records), then either the zero
\* no-op record or the allocation of fresh chunk ids.
PlanCopyOnWrite(w) ==
  /\ At(w, "cow")
  /\ \/ /\ ZeroNoop(w)
        /\ idem' = [idem EXCEPT ![w] = [state |-> "committed", revision |-> exec[w].revision]]
        /\ Goto(w, "acked")
        /\ UNCHANGED <<vol, mut, page, pageRev, orderRev, nextId>>
     \/ /\ ~ZeroNoop(w)
        /\ LET fresh == FreshChunks(w, CopyOnWriteNeeded)
           IN /\ AllocateChunkIDs(Cardinality(fresh))
              /\ exec' = [exec EXCEPT
                   ![w].pc = "intent", ![w].cow = CopyOnWriteNeeded,
                   ![w].base = exec[w].plan,
                   ![w].plan = [c \in Chunks |->
                      IF c \in fresh THEN nextId + Rank(c, fresh) ELSE exec[w].plan[c]]]
        /\ UNCHANGED meta
  /\ UNCHANGED <<payload, gcOp, env, lock, began>>

\* putWriteIntent, or PutMutationOperation alone when a pending record of an
\* earlier run is taken over.
IntentRecords(w) ==
  /\ idem' = IF exec[w].recovering THEN idem ELSE
       [idem EXCEPT ![w] = [state |-> "pending", revision |-> exec[w].revision]]
  /\ mut' = [mut EXCEPT ![w] = [state |-> "running", revision |-> exec[w].revision]]

PutWriteIntent(w) ==
  /\ At(w, "intent")
  /\ IntentRecords(w)
  /\ exec'  = [exec EXCEPT ![w].pc = "payload", ![w].todo = DataChunks(w),
                          ![w].cur = NoChunk]
  /\ UNCHANGED <<vol, page, pageRev, orderRev, nextId, payload, gcOp, env,
                 lock, began>>

-----------------------------------------------------------------------------
(* RemoteReplicaWriter: the payload of each chunk *)

\* The chunk a partial write is merged into: the original under copy on
\* write, else the target itself.
MergeBase(w, c) ==
  IF exec[w].cow /\ exec[w].base[c] # 0 THEN exec[w].base[c] ELSE exec[w].plan[c]

\* loadRemoteChunkForMerge: a partial write reads the chunk it will rewrite.
LoadChunk(w) ==
  /\ At(w, "payload") /\ exec[w].cur = NoChunk
  /\ \E c \in exec[w].todo :
       /\ ~FullChunk(w, c)
       /\ exec' = [exec EXCEPT ![w].cur = c, ![w].buf = payload[MergeBase(w, c)]]
  /\ UNCHANGED <<meta, nextId, payload, gcOp, env, lock, began>>

\* Mutant: a partial write is stored without the chunk it was merged into.
StoreUnmerged(w) ==
  /\ At(w, "payload")
  /\ \E c \in exec[w].todo :
       /\ payload' = [payload EXCEPT ![exec[w].plan[c]] =
            [s \in Sectors |-> IF <<c, s>> \in Span[w] THEN DataOf(w) ELSE ZeroData]]
       /\ exec' = [exec EXCEPT ![w].todo = @ \ {c}, ![w].cur = NoChunk]
  /\ UNCHANGED <<meta, nextId, gcOp, env, lock, began>>

\* The chunk write RPC: always a whole chunk.
StoreChunk(w) ==
  /\ At(w, "payload")
  /\ \E c \in exec[w].todo :
       /\ IF FullChunk(w, c) THEN exec[w].cur = NoChunk ELSE exec[w].cur = c
       /\ payload' = [payload EXCEPT ![exec[w].plan[c]] =
            [s \in Sectors |-> IF <<c, s>> \in Span[w] THEN DataOf(w) ELSE exec[w].buf[s]]]
       /\ exec' = [exec EXCEPT ![w].todo = @ \ {c}, ![w].cur = NoChunk,
                               ![w].buf = Zeroes]
  /\ UNCHANGED <<meta, nextId, gcOp, env, lock, began>>

\* Mutant: the commit starts before every extent is stored.
PayloadDoneEarly(w) ==
  /\ At(w, "payload")
  /\ Goto(w, IF mode = "volume_scoped" THEN "lock" ELSE "commit")
  /\ UNCHANGED <<meta, nextId, payload, gcOp, env, lock, began>>

\* Every extent reached its quorum; volume-scoped commits take the lock.
PayloadDone(w) ==
  /\ At(w, "payload") /\ exec[w].todo = {}
  /\ Goto(w, IF mode = "volume_scoped" THEN "lock" ELSE "commit")
  /\ UNCHANGED <<meta, nextId, payload, gcOp, env, lock, began>>

\* An extent failed; lost = the replica session no longer matched, the one
\* failure Client.Write runs again.
PayloadFail(w) ==
  /\ At(w, "payload")
  /\ \E lost \in BOOLEAN :
       exec' = [exec EXCEPT ![w].pc = "failidem", ![w].sessionLost = lost]
  /\ UNCHANGED <<meta, nextId, payload, gcOp, env, lock, began>>

-----------------------------------------------------------------------------
(* WriteService.commitMetadataWithRetry and Executor.CommitMetadata *)

AcquireCommitLock(w) ==
  /\ At(w, "lock") /\ lock[GatewayOf[w]] = NoWriter
  /\ lock' = [lock EXCEPT ![GatewayOf[w]] = w]
  /\ Goto(w, "commit")
  /\ UNCHANGED <<meta, nextId, payload, gcOp, env, began>>

\* Mutant: only success releases the lock.
LeaveLocked(w, step) ==
  /\ Goto(w, step)
  /\ lock' = IF step = "acked" /\ lock[GatewayOf[w]] = w
             THEN [lock EXCEPT ![GatewayOf[w]] = NoWriter] ELSE lock

\* Moves w to a step; leaving commitMetadataWithRetry releases its lock.
Leave(w, step) ==
  /\ Goto(w, step)
  /\ lock' = IF step \in {"acked", "failidem"} /\ lock[GatewayOf[w]] = w
             THEN [lock EXCEPT ![GatewayOf[w]] = NoWriter] ELSE lock

\* PrepareAllocationCommit: the page to commit and the ids it retires.
CommitPage(w) == [c \in Chunks |-> IF c \in ZeroChunks(w) THEN 0 ELSE exec[w].plan[c]]
Retired(w)    == {exec[w].plan[c] : c \in ZeroChunks(w)} \ {0}

\* Mutant: the page is installed as planned, without the merge.
PlannedPage(w) == CommitPage(w)

\* mergeAllocationPageUpdateIntoChunks: the touched chunks of a committed page
\* go into the stored page; a zero replaces only an id the write retires.
MergePage(w) ==
  [c \in Chunks |->
     IF c \notin Touched(w) THEN page[c]
     ELSE IF CommitPage(w)[c] # 0 THEN CommitPage(w)[c]
     ELSE IF page[c] \in Retired(w) THEN 0 ELSE page[c]]

\* Mutant: the volume revision is not compared.
CommitUnchecked(w) ==
  /\ vol.epoch = exec[w].epoch
  /\ idem[w].state = "pending"
  /\ mode = "page_scoped" => pageRev = exec[w].planRev

\* readAndValidate...WriteCommitState and the page revision check.
CommitAllowed(w) ==
  /\ vol.epoch = exec[w].epoch
  /\ idem[w].state = "pending"
  /\ mode = "volume_scoped" => vol.revision = exec[w].revision
  /\ mode = "page_scoped" => pageRev = exec[w].planRev

MaxOf(a, b) == IF a > b THEN a ELSE b

\* The revision a commit is recorded with, per mode.
CommitRevision(w) ==
  CASE mode = "volume_scoped" -> exec[w].revision + 1
    [] mode = "page_scoped"   -> pageRev + 1
    [] mode = "range_local"   -> 1 + (IF orderRev = 0 THEN exec[w].planRev ELSE orderRev)
    [] OTHER                  -> MaxOf(exec[w].revision + 1, orderRev + 1)

\* The metadata transaction.  range_local commits the record alone and leaves
\* page and mutation operation to ApplyEffects.
CommitTransaction(w) ==
  LET rev == CommitRevision(w)
  IN /\ idem' = [idem EXCEPT ![w] = [state |-> "committed", revision |-> rev]]
     /\ vol' = IF mode = "volume_scoped" THEN [vol EXCEPT !.revision = rev] ELSE vol
     /\ orderRev' = IF mode \in {"range_local", "append_only"} THEN rev ELSE orderRev
     /\ IF mode = "range_local" THEN UNCHANGED <<mut, page, pageRev>>
        ELSE /\ mut' = [mut EXCEPT ![w] = [state |-> "committed", revision |-> rev]]
             /\ page' = IF mode = "page_scoped" THEN CommitPage(w) ELSE MergePage(w)
             /\ pageRev' = rev

AfterCommit(w) == IF Retired(w) = {} THEN "acked" ELSE "hint"

\* The transaction commits.  Its caller learns so, or is told of a conflict
\* because the store ran the request again (write_effects_queue.go falls back
\* from a batch to single commits), or only sees a failed call.
CommitMetadata(w) ==
  /\ At(w, "commit") /\ CommitAllowed(w)
  /\ CommitTransaction(w)
  /\ \/ Leave(w, IF mode = "range_local" THEN "effects" ELSE AfterCommit(w))
     \/ Leave(w, "recover")
     \/ Leave(w, "failidem")
  /\ UNCHANGED <<nextId, payload, gcOp, env, began>>

\* ErrCASConflict: a check failed, or the store aborted one of two
\* overlapping transactions.
CommitConflict(w) ==
  /\ At(w, "commit")
  /\ \/ ~CommitAllowed(w)
     \/ \E x \in Writers \ {w} : exec[x].pc \in {"commit", "effects", "recover"}
  /\ Leave(w, "recover")
  /\ UNCHANGED <<meta, nextId, payload, gcOp, env, began>>

\* applyCommittedWriteEffects of a range-local commit.
ApplyEffects(w) ==
  /\ At(w, "effects")
  /\ page' = MergePage(w) /\ pageRev' = idem[w].revision
  /\ mut' = [mut EXCEPT ![w] = [state |-> "committed", revision |-> idem[w].revision]]
  /\ Leave(w, AfterCommit(w))
  /\ UNCHANGED <<vol, idem, orderRev, nextId, payload, gcOp, env, began>>

\* Mutant: a committed record is enough, missing effects are not applied.
RecoverNoEffects(w) ==
  /\ At(w, "recover")
  /\ LET retry == IF exec[w].attempt < MaxAttempts THEN "rebase" ELSE "failidem"
     IN Leave(w, IF idem[w].state = "committed" THEN AfterCommit(w) ELSE retry)
  /\ UNCHANGED <<meta, nextId, payload, gcOp, env, began>>

\* recoverCommittedWriteAfterCAS: a committed record means the write is in;
\* effects still missing are applied.  Otherwise the attempt is retried.
Recover(w) ==
  /\ At(w, "recover")
  /\ LET retry == IF exec[w].attempt < MaxAttempts THEN "rebase" ELSE "failidem"
     IN \/ /\ idem[w].state = "committed" /\ mut[w].state \in {"none", "committed"}
           /\ Leave(w, AfterCommit(w)) /\ UNCHANGED <<page, pageRev, mut>>
        \/ /\ idem[w].state = "committed" /\ mut[w].state = "running"
           /\ page' = MergePage(w) /\ pageRev' = idem[w].revision
           /\ mut' = [mut EXCEPT ![w] = [state |-> "committed", revision |-> idem[w].revision]]
           /\ Leave(w, AfterCommit(w))
        \/ /\ idem[w].state # "committed" \/ mut[w].state = "failed"
           /\ Leave(w, retry) /\ UNCHANGED <<page, pageRev, mut>>
  /\ UNCHANGED <<vol, idem, orderRev, nextId, payload, gcOp, env, began>>

\* rebaseWritePlanForRetry, first read: the current epoch and revision.
RebaseState(w) ==
  /\ At(w, "rebase")
  /\ exec' = [exec EXCEPT ![w].pc = "replan", ![w].epoch = vol.epoch,
                          ![w].revision = vol.revision]
  /\ UNCHANGED <<meta, nextId, payload, gcOp, env, lock, began>>

\* Mutant: only the touched chunks are kept.
RebasedTouched(w) == [c \in Touched(w) |-> CommitPage(w)[c]]

\* Second read: the latest page, with this write's own ids applied to it.
RebasedPlan(w) ==
  [c \in Chunks |-> IF c \in Touched(w) THEN CommitPage(w)[c] ELSE page[c]]

RebasePages(w) ==
  /\ At(w, "replan")
  /\ exec' = [exec EXCEPT ![w].pc = "commit", ![w].plan = RebasedPlan(w),
                          ![w].planRev = pageRev, ![w].attempt = @ + 1]
  /\ UNCHANGED <<meta, nextId, payload, gcOp, env, lock, began>>

\* Any other failed call of the commit loop, or its context ending, also
\* while it waits for the lock.
AbandonCommit(w) ==
  /\ exec[w].pc \in {"lock", "commit", "effects", "recover", "rebase", "replan"}
  /\ Leave(w, "failidem")
  /\ UNCHANGED <<meta, nextId, payload, gcOp, env, began>>

-----------------------------------------------------------------------------
(* EnsurePendingPayloadGCMutationOperation, whose error is ignored *)

HintRead(w) ==
  /\ At(w, "hint")
  /\ exec' = [exec EXCEPT ![w].pc = "hintput", ![w].gcSeen = gcOp]
  /\ UNCHANGED <<meta, nextId, payload, gcOp, env, lock, began>>

\* The operation read is written back with the retired ids added; one that
\* was over is started anew.
HintPut(w) ==
  /\ At(w, "hintput")
  /\ gcOp' = IF exec[w].gcSeen.state \in {"pending", "running"}
             THEN [exec[w].gcSeen EXCEPT !.retired = @ \cup Retired(w)]
             ELSE [state |-> "pending", retired |-> Retired(w)]
  /\ Leave(w, "acked")
  /\ UNCHANGED <<meta, nextId, payload, env, began>>

HintFail(w) ==
  /\ exec[w].pc \in {"hint", "hintput"}
  /\ Leave(w, "acked")
  /\ UNCHANGED <<meta, nextId, payload, gcOp, env, began>>

-----------------------------------------------------------------------------
(* Failures *)

\* BeginWrite returns an error; the intent may have been stored all the same.
BeginFail(w) ==
  /\ exec[w].pc \in {"lookup", "plan", "cow", "intent"}
  /\ Goto(w, "error")
  /\ \/ UNCHANGED <<idem, mut>>
     \/ At(w, "intent") /\ IntentRecords(w)
  /\ UNCHANGED <<vol, page, pageRev, orderRev, nextId, payload, gcOp, env, lock,
                 began>>

\* Executor.MarkFailed: the idempotency record, then the mutation operation.
MarkFailedRecord(w) ==
  /\ At(w, "failidem")
  /\ idem' = [idem EXCEPT ![w] = [state |-> "failed", revision |-> vol.revision]]
  /\ Goto(w, "failmut")
  /\ UNCHANGED <<vol, mut, page, pageRev, orderRev, nextId, payload, gcOp, env,
                 lock, began>>

MarkFailedMutation(w) ==
  /\ At(w, "failmut")
  /\ mut' = [mut EXCEPT ![w] = [state |-> "failed", revision |-> vol.revision]]
  /\ Goto(w, "error")
  /\ UNCHANGED <<vol, idem, page, pageRev, orderRev, nextId, payload, gcOp, env,
                 lock, began>>

\* markFailed ignores MarkFailed's own error.
MarkFailedLost(w) ==
  /\ exec[w].pc \in {"failidem", "failmut"}
  /\ Goto(w, "error")
  /\ UNCHANGED <<meta, nextId, payload, gcOp, env, lock, began>>

\* Client.Write runs the request once more with the same key.
Retry(w) ==
  /\ At(w, "error") /\ exec[w].sessionLost /\ exec[w].runs < MaxRuns
  /\ Goto(w, "idle")
  /\ UNCHANGED <<meta, nextId, payload, gcOp, env, lock, began>>

\* A gateway process dies with all the requests it is running.
Crash(g) ==
  /\ \E w \in Writers : GatewayOf[w] = g /\ exec[w].pc # "idle" /\ ~Finished(w)
  /\ exec' = [w \in Writers |->
       IF GatewayOf[w] = g /\ exec[w].pc # "idle" /\ ~Finished(w)
       THEN NoExec("dead", exec[w].runs, FALSE) ELSE exec[w]]
  /\ lock' = [lock EXCEPT ![g] = NoWriter]
  /\ UNCHANGED <<meta, nextId, payload, gcOp, env, began>>

\* CommitPrimaryFailover fences the writes of the old epoch.
PrimaryFailover ==
  /\ vol.epoch < MaxEpoch
  /\ vol' = [vol EXCEPT !.epoch = @ + 1]
  /\ UNCHANGED <<idem, mut, page, pageRev, orderRev, nextId, payload, gcOp, env,
                 lock, exec, began>>

-----------------------------------------------------------------------------
\* The steps a running request takes by itself.
Progress(w) ==
  \/ BeginWrite(w) \/ LookupIdempotency(w) \/ PlanPages(w) \/ PlanCopyOnWrite(w)
  \/ PutWriteIntent(w) \/ LoadChunk(w) \/ StoreChunk(w) \/ PayloadDone(w)
  \/ AcquireCommitLock(w) \/ CommitMetadata(w) \/ CommitConflict(w)
  \/ ApplyEffects(w) \/ Recover(w) \/ RebaseState(w) \/ RebasePages(w)
  \/ HintRead(w) \/ HintPut(w) \/ MarkFailedRecord(w) \/ MarkFailedMutation(w)
  \/ Retry(w)

\* The ways a call can fail.
Failure(w) ==
  \/ BeginFail(w) \/ PayloadFail(w) \/ AbandonCommit(w) \/ HintFail(w)
  \/ MarkFailedLost(w)

\* All requests are over.
AllFinished == (\A w \in Writers : Finished(w)) /\ UNCHANGED vars

WriterNext ==
  \/ \E w \in Writers : Progress(w) \/ Failure(w)
  \/ \E g \in Gateways : Crash(g)
  \/ PrimaryFailover

Next == WriterNext \/ AllFinished

Fairness == \A w \in Writers : WF_vars(Progress(w))

Spec == Init /\ [][Next]_vars
FairSpec == Spec /\ Fairness
-----------------------------------------------------------------------------
(* Properties *)

RecordType == [state : {"none", "pending", "running", "committed", "failed"},
               revision : Nat]

\* The type invariant of the write path's state.
TypeOK ==
  /\ vol \in [epoch : Nat, revision : Nat]
  /\ idem \in [Writers -> RecordType]
  /\ mut \in [Writers -> RecordType]
  /\ page \in [Chunks -> Ids \cup {0}]
  /\ pageRev \in Nat /\ orderRev \in Nat
  /\ nextId \in 1..(MaxChunkId + 1)
  /\ payload \in [Ids -> [Sectors -> Contents]]
  /\ gcOp \in GcType
  /\ snapState \in {"none", "creating", "available", "deleting", "deleted", "failed"}
  /\ mode \in WiredModes
  /\ lock \in [Gateways -> Writers \cup {NoWriter}]
  /\ exec \in [Writers -> ExecType]
  /\ began \in [Writers -> [epoch : Nat, after : SUBSET Writers]]

\* An acknowledged write is not undone: what a read of one of its sectors
\* returns is its own data or that of a write that was not over when it
\* began (service.go acknowledges only after CommitMetadata; merge and rebase
\* in repository.go and allocation_retry.go must not bring older data back).
AckedWritesStay ==
  \A w \in Writers : At(w, "acked") =>
    \A cs \in Span[w] : \E x \in Writers :
      /\ cs \in Span[x] /\ Visible(cs[1], cs[2]) = DataOf(x)
      /\ x = w \/ (x \notin began[w].after /\ exec[x].runs > 0)

\* No physical chunk is mapped by two logical chunks, whatever interleaving of
\* plans, rebases and merges committed the mappings (allocation_plan.go hands
\* out fresh ids; mergeAllocationPageUpdateIntoChunks installs them).
NoSharedChunk ==
  \A c, d \in Chunks : c # d /\ page[c] # 0 => page[c] # page[d]

\* In volume-scoped mode every volume revision belongs to one committed write
\* (readAndValidateWriteCommitState compares and sets the revision).
OneWritePerRevision ==
  mode = "volume_scoped" =>
    \A v, w \in Writers :
      v # w /\ mut[v].state = "committed" /\ mut[w].state = "committed"
        => mut[v].revision # mut[w].revision

\* An acknowledged write is recorded as committed and its effects are in, so
\* that BeginWrite replays it instead of running it again
\* (executor.go BeginWrite, recoverCommittedWriteAfterCAS, MarkFailed).
AckedIsReplayable ==
  \A w \in Writers : At(w, "acked") =>
    idem[w].state = "committed" /\ mut[w].state \in {"none", "committed"}

\* Data next to what is written stays: a sector no request covers reads as it
\* did at the start, through read-modify-write, rebasing and merging, and also
\* when requests fail half way (payloadForExtent, loadRemoteChunkForMerge).
NeighboursKept ==
  \A c \in Chunks, s \in Sectors :
    (\A w \in Writers : <<c, s>> \notin Span[w]) =>
      Visible(c, s) = IF c \in InitMapped THEN OldData ELSE ZeroData

\* "Future reads return zeroes" of an acknowledged zero write: they do, until
\* a write that was not over when it began changes the sector.
ZeroesReadAsZero ==
  \A w \in ZeroWriters : At(w, "acked") =>
    \A cs \in Span[w] : \E x \in Writers :
      /\ cs \in Span[x] /\ Visible(cs[1], cs[2]) = DataOf(x)
      /\ x = w \/ (x \notin began[w].after /\ exec[x].runs > 0)

\* "Writers use epoch and revision to fence stale mutations": a write that
\* began in an earlier epoch does not commit.
StaleEpochFenced ==
  [][\A w \in Writers :
       idem[w].state # "committed" /\ idem'[w].state = "committed"
         => began[w].epoch = vol.epoch]_vars

\* Every request that began ends: acknowledged, failed or lost with its
\* gateway (the commit lock and the attempt bound of commitMetadataWithRetry).
RequestsEnd ==
  \A w \in Writers : At(w, "lookup") ~> exec[w].pc \in {"acked", "error", "dead"}
=============================================================================
