----------------------------- MODULE EffectsQueue -----------------------------
(***************************************************************************)
(* The service-owned write-effects queue of the append-only commit mode,   *)
(* from the gateway's commit call to the metadata transaction and back.    *)
(*                                                                         *)
(* A gateway begins a write (pending idempotency record), sends the commit *)
(* to sbs-service and waits.  The service puts it on the channel of the    *)
(* write's lane, or, when the channel is full, leaves it to a goroutine    *)
(* that sends it later.  One worker per lane drains up to BatchMax items,  *)
(* commits them in one transaction, retries that on a conflict, falls back *)
(* to one transaction per item, and answers each caller.  The worker's     *)
(* context is detached: a caller that gave up does not withdraw its item.  *)
(* The caller of a conflicting commit looks for its committed record, or   *)
(* takes the new volume epoch and commits again; any other error marks the *)
(* record failed, unless the caller's own context is over.                 *)
(*                                                                         *)
(* A metadata transaction is atomic; it may also commit and be reported as *)
(* failed.  Slots hold the write whose chunk they name.  Revisions, the    *)
(* mutation record (written with the idempotency record in every           *)
(* transaction here), the effects-only queue items (no caller sends them   *)
(* while the commit queue is configured) and commits without an intent (an *)
(* unsafe option, off by default) are left out.                            *)
(*                                                                         *)
(* Sources: cmd/sbs-service/write_effects_queue.go,                        *)
(* sbs/cluster/control/write_session_grpc_service.go,                      *)
(* sbs/cluster/metadata/repository.go, sbs/cluster/replication/executor.go *)
(* and service.go.                                                         *)
(***************************************************************************)
EXTENDS Naturals, Sequences, FiniteSets, FiniteSetsExt, Functions

CONSTANTS
    Writes,         \* idempotency keys of the writes of one volume
    Chunks,         \* chunk slots of the volume's allocation pages
    Touches,        \* Touches[w] = the slots whose chunk ids write w installs
    NoWrite,        \* what a slot no committed write has touched holds
    Lanes,          \* lane keys
    Lane,           \* Lane[w] = the lane of write w
    Depth,          \* capacity of a lane's channel (4096)
    BatchMax,       \* most items of one batch (16)
    MaxAttempts,    \* tries of a batch transaction (5)
    MaxCommits,     \* tries of a metadata commit by one call (64)
    MaxRuns,        \* bound: calls a client makes for one write
    MaxEpoch,       \* bound: the volume epoch
    MaxFaults       \* bound: timeouts, failed transactions and crashes

ASSUME QueueAssumption ==
    /\ Touches \in [Writes -> SUBSET Chunks]
    /\ Lane \in [Writes -> Lanes]
    /\ {Depth, BatchMax, MaxAttempts, MaxCommits, MaxRuns, MaxEpoch} \subseteq Nat \ {0}
    /\ MaxFaults \in Nat

VARIABLES
    epoch,      \* VolumeState.Epoch
    record,     \* record[w] = the idempotency record's result state
    page,       \* page[c] = the write whose chunk slot c names
    chan,       \* chan[l] = the buffered channel of lane l
    spill,      \* spill[l] = items whose goroutine has not sent them yet
    worker,     \* worker[l] = the goroutine of lane l
    caller,     \* caller[w] = the gateway's call for write w
    faults,     \* faults injected so far
    log         \* history: the committed items, oldest first; "last" when the
                \* item's call is its write's latest

vars == <<epoch, record, page, chan, spill, worker, caller, faults, log>>

\* One commit request in the queue: the attempt's number tells it from the
\* others of its write.  "after" is history: the items of the lane that had
\* no caller left when this request's call began.
Item == [w : Writes, k : Nat, run : Nat, epoch : Nat, spilled : BOOLEAN,
         after : SUBSET (Writes \X Nat)]

Results == {"ok", "conflict", "error"}
Idle == [pc |-> "idle", items |-> <<>>, try |-> 0, res |-> <<>>]

Fault ==
    /\ faults < MaxFaults
    /\ faults' = faults + 1

Id(m) == <<m.w, m.k>>

\* The items of lane l the service holds.
Held(l) == Range(chan[l]) \cup spill[l] \cup Range(worker[l].items)

Awaited(m) == caller[m.w].pc = "waiting" /\ caller[m.w].k = m.k

\* The items of lane l whose caller is gone.
Orphans(l) == {Id(m) : m \in {h \in Held(l) : ~Awaited(h)}}

Init ==
    /\ epoch = 1
    /\ record = [w \in Writes |-> "none"]
    /\ page = [c \in Chunks |-> NoWrite]
    /\ chan = [l \in Lanes |-> <<>>]
    /\ spill = [l \in Lanes |-> {}]
    /\ worker = [l \in Lanes |-> Idle]
    /\ caller = [w \in Writes |->
                    [pc |-> "new", k |-> 0, run |-> 0, try |-> 0, epoch |-> 0, after |-> {}]]
    /\ faults = 0
    /\ log = <<>>

-------------------------------------------------------------------------------
(* The caller: WriteService on the gateway *)

\* Executor.BeginWrite: a committed record is replayed; otherwise the call
\* plans against the epoch it reads and leaves a pending record (a pending
\* one of an earlier call is taken over, a failed one replaced).
BeginWrite(w) ==
    /\ caller[w].pc \in {"new", "error"}
    /\ caller[w].run < MaxRuns
    /\ IF record[w] = "committed"
       THEN /\ caller' = [caller EXCEPT ![w].pc = "acked", ![w].run = @ + 1]
            /\ UNCHANGED record
       ELSE /\ caller' = [caller EXCEPT ![w] =
                            [pc |-> "commit", k |-> @.k, run |-> @.run + 1, try |-> 1,
                             epoch |-> epoch, after |-> Orphans(Lane[w])]]
            /\ record' = [record EXCEPT ![w] = "pending"]
    /\ UNCHANGED <<epoch, page, chan, spill, worker, faults, log>>

\* EnqueueAppendOnlyCommitAndWait up to its select: onto the channel when it
\* has room, else into a goroutine of its own.
EnqueueCommit(w) ==
    LET l == Lane[w]
        full == Len(chan[l]) >= Depth
        m == [w |-> w, k |-> caller[w].k + 1, run |-> caller[w].run,
              epoch |-> caller[w].epoch, spilled |-> full,
              after |-> caller[w].after]
    IN /\ caller[w].pc = "commit"
       /\ caller' = [caller EXCEPT ![w].pc = "waiting", ![w].k = @ + 1]
       /\ IF full
          THEN /\ spill' = [spill EXCEPT ![l] = @ \cup {m}]
               /\ UNCHANGED chan
          ELSE /\ chan' = [chan EXCEPT ![l] = Append(@, m)]
               /\ UNCHANGED spill
       /\ UNCHANGED <<epoch, record, page, worker, faults, log>>

\* The caller's context ends while it waits: an error, and nothing recorded
\* (MarkFailed's first read fails on the same context).
CallerTimeout(w) ==
    /\ caller[w].pc = "waiting"
    /\ Fault
    /\ caller' = [caller EXCEPT ![w].pc = "error"]
    /\ UNCHANGED <<epoch, record, page, chan, spill, worker, log>>

\* The connection breaks under a live context: an error that is no conflict.
Disconnect(w) ==
    /\ caller[w].pc = "waiting"
    /\ Fault
    /\ caller' = [caller EXCEPT ![w].pc = "failing"]
    /\ UNCHANGED <<epoch, record, page, chan, spill, worker, log>>

\* recoverCommittedWriteAfterCAS, then the retry of commitMetadataWithRetry:
\* a committed record is success; else rebase on the volume state just read,
\* until the tries are used up.
RecoverAfterCAS(w) ==
    /\ caller[w].pc = "recover"
    /\ \/ /\ record[w] = "committed"
          /\ caller' = [caller EXCEPT ![w].pc = "acked"]
       \/ /\ record[w] # "committed"
          /\ caller[w].try < MaxCommits
          /\ caller' = [caller EXCEPT ![w].pc = "commit", ![w].try = @ + 1,
                                      ![w].epoch = epoch]
       \/ /\ record[w] # "committed"
          /\ caller[w].try >= MaxCommits
          /\ caller' = [caller EXCEPT ![w].pc = "failing"]
    /\ UNCHANGED <<epoch, record, page, chan, spill, worker, faults, log>>

\* Executor.MarkFailed: the record is overwritten with "failed", whatever it
\* holds, unless the store refuses, and the call ends with an error.
MarkFailed(w) ==
    /\ caller[w].pc = "failing"
    /\ \/ record' = [record EXCEPT ![w] = "failed"] /\ UNCHANGED faults
       \/ Fault /\ UNCHANGED record
    /\ caller' = [caller EXCEPT ![w].pc = "error"]
    /\ UNCHANGED <<epoch, page, chan, spill, worker, log>>

-------------------------------------------------------------------------------
(* The lane: channel, overflow goroutines, worker *)

\* Mutant: an item that found the channel full is dropped.
DropLater(l, m) ==
    /\ spill' = [spill EXCEPT ![l] = @ \ {m}]
    /\ UNCHANGED <<epoch, record, page, chan, worker, caller, faults, log>>

\* The goroutine of an item that found the channel full.
SendLater(l, m) ==
    /\ Len(chan[l]) < Depth
    /\ spill' = [spill EXCEPT ![l] = @ \ {m}]
    /\ chan' = [chan EXCEPT ![l] = Append(@, m)]
    /\ UNCHANGED <<epoch, record, page, worker, caller, faults, log>>

\* Mutant: one item too many is drained.
RoomForMore(l) == Len(worker[l].items) <= BatchMax

\* A batch takes another item.
HasRoom(l) == Len(worker[l].items) < BatchMax

\* Mutant: the item drained last is put first.
ReceiveNewest(l) ==
    /\ chan[l] # <<>>
    /\ \/ worker[l].pc = "idle"
       \/ worker[l].pc = "drain" /\ HasRoom(l)
    /\ worker' = [worker EXCEPT ![l].pc = "drain",
                                ![l].items = <<Head(chan[l])>> \o @]
    /\ chan' = [chan EXCEPT ![l] = Tail(@)]
    /\ UNCHANGED <<epoch, record, page, spill, caller, faults, log>>

\* runWorker receives an item, or drainReadyServiceWriteEffects one more.
Receive(l) ==
    /\ chan[l] # <<>>
    /\ \/ worker[l].pc = "idle"
       \/ worker[l].pc = "drain" /\ HasRoom(l)
    /\ worker' = [worker EXCEPT ![l].pc = "drain",
                                ![l].items = Append(@, Head(chan[l]))]
    /\ chan' = [chan EXCEPT ![l] = Tail(@)]
    /\ UNCHANGED <<epoch, record, page, spill, caller, faults, log>>

\* drainBatch ends: the batch is full or the channel empty.
StartBatch(l) ==
    /\ worker[l].pc = "drain"
    /\ ~HasRoom(l) \/ chan[l] = <<>>
    /\ worker' = [worker EXCEPT ![l].pc = "batch", ![l].try = 1]
    /\ UNCHANGED <<epoch, record, page, chan, spill, caller, faults, log>>

\* validateAppendOnlyWriteCommitState: the epoch of the plan, a pending record.
Valid(m) == m.epoch = epoch /\ record[m.w] = "pending"

\* A batch with two requests of one write takes the sequential path, whose
\* second request finds the first one's committed record.
ValidBatch(s) ==
    /\ \A i \in DOMAIN s : Valid(s[i])
    /\ IsInjective([i \in DOMAIN s |-> s[i].w])

\* The items of s whose write installs a chunk at slot c.
Installs(s, c) == {i \in DOMAIN s : c \in Touches[s[i].w]}

\* Mutant: the merge visits a batch's updates last to first.
MergedBackwards(pg, s) ==
    [c \in Chunks |-> IF Installs(s, c) = {} THEN pg[c] ELSE s[Min(Installs(s, c))].w]

\* mergeCommittedAllocationPageBatch: the updates of a batch in its order, so
\* that the last one that touches a slot stays; other slots keep their chunk.
Merged(pg, s) ==
    [c \in Chunks |-> IF Installs(s, c) = {} THEN pg[c] ELSE s[Max(Installs(s, c))].w]

\* commitAppendOnlyWriteMetadataBatchWithStore: records, pages and mutations
\* of all items in one transaction.
CommitTransaction(s) ==
    /\ record' = [w \in Writes |-> IF \E i \in DOMAIN s : s[i].w = w
                                   THEN "committed" ELSE record[w]]
    /\ page' = Merged(page, s)
    /\ log' = log \o [i \in DOMAIN s |->
                        [w |-> s[i].w, k |-> s[i].k, spilled |-> s[i].spilled,
                         after |-> s[i].after, last |-> caller[s[i].w].run = s[i].run]]

Unwritten == UNCHANGED <<record, page, log>>

All(s, r) == [i \in DOMAIN s |-> r]

\* applyAppendOnlyCommitBatch: success answers everyone, a conflict is tried
\* again, any other error (or the last conflict) leaves the items to
\* applyAppendOnlyCommit one by one.
CommitBatch(l) ==
    LET s == worker[l].items
        singly == [worker EXCEPT ![l].pc = "single", ![l].res = <<>>]
    IN /\ worker[l].pc = "batch"
       /\ \/ /\ ValidBatch(s)
             /\ CommitTransaction(s)
             /\ worker' = [worker EXCEPT ![l].pc = "answer", ![l].res = All(s, "ok")]
             /\ UNCHANGED faults
          \/ /\ ~ValidBatch(s)
             /\ worker' = IF worker[l].try < MaxAttempts
                          THEN [worker EXCEPT ![l].try = @ + 1]
                          ELSE singly
             /\ Unwritten /\ UNCHANGED faults
          \/ /\ Fault
             /\ Unwritten \/ (ValidBatch(s) /\ CommitTransaction(s))
             /\ worker' = singly
       /\ UNCHANGED <<epoch, chan, spill, caller>>

\* applyAppendOnlyCommit of the next item of a batch that failed.
CommitSingle(l) ==
    LET s == worker[l].items
        n == Len(worker[l].res) + 1
        answer(r) == [worker EXCEPT ![l].res = Append(@, r),
                                    ![l].pc = IF n = Len(s) THEN "answer" ELSE @]
    IN /\ worker[l].pc = "single"
       /\ \/ /\ Valid(s[n])
             /\ CommitTransaction(<<s[n]>>)
             /\ worker' = answer("ok")
             /\ UNCHANGED faults
          \/ /\ ~Valid(s[n])
             /\ Unwritten
             /\ worker' = answer("conflict")
             /\ UNCHANGED faults
          \/ /\ Fault
             /\ Unwritten \/ (Valid(s[n]) /\ CommitTransaction(<<s[n]>>))
             /\ worker' = answer("error")
       /\ UNCHANGED <<epoch, chan, spill, caller>>

\* Where the answer r takes the call that waits for it.
AfterAnswer(r) ==
    CASE r = "ok" -> "acked" [] r = "conflict" -> "recover" [] r = "error" -> "failing"

\* runWorker hands every item its result; one nobody waits for is dropped.
Answer(l) ==
    LET s == worker[l].items
    IN /\ worker[l].pc = "answer"
       /\ caller' = [w \in Writes |->
            LET mine == {i \in DOMAIN s : s[i].w = w /\ Awaited(s[i])}
            IN IF mine = {} THEN caller[w]
               ELSE LET i == CHOOSE i \in mine : TRUE
                    IN [caller[w] EXCEPT !.pc = AfterAnswer(worker[l].res[i])]]
       /\ worker' = [worker EXCEPT ![l] = Idle]
       /\ UNCHANGED <<epoch, record, page, chan, spill, faults, log>>

-------------------------------------------------------------------------------
(* The environment *)

\* A primary failover moves the volume to its next epoch.
CommitPrimaryFailover ==
    /\ epoch < MaxEpoch
    /\ epoch' = epoch + 1
    /\ UNCHANGED <<record, page, chan, spill, worker, caller, faults, log>>

\* sbs-service stops: queues and batches are gone, callers lose their connection.
ServiceCrash ==
    /\ Fault
    /\ \E l \in Lanes : Held(l) # {}
    /\ chan' = [l \in Lanes |-> <<>>]
    /\ spill' = [l \in Lanes |-> {}]
    /\ worker' = [l \in Lanes |-> Idle]
    /\ caller' = [w \in Writes |-> IF caller[w].pc = "waiting"
                                   THEN [caller[w] EXCEPT !.pc = "failing"] ELSE caller[w]]
    /\ UNCHANGED <<epoch, record, page, log>>

LaneStep(l) ==
    \/ \E m \in spill[l] : SendLater(l, m)
    \/ Receive(l)
    \/ StartBatch(l)
    \/ CommitBatch(l)
    \/ CommitSingle(l)
    \/ Answer(l)

\* What a call does once it was made; the client decides to make it.
CallStep(w) ==
    \/ EnqueueCommit(w)
    \/ RecoverAfterCAS(w)
    \/ MarkFailed(w)

Next ==
    \/ \E w \in Writes : BeginWrite(w) \/ CallerTimeout(w) \/ Disconnect(w)
    \/ \E w \in Writes : CallStep(w)
    \/ \E l \in Lanes : LaneStep(l)
    \/ CommitPrimaryFailover
    \/ ServiceCrash

Spec == Init /\ [][Next]_vars

\* Goroutines run: a lane's worker and senders, and a call that was made.
Fairness ==
    /\ \A l \in Lanes : WF_vars(LaneStep(l))
    /\ \A w \in Writes : WF_vars(CallStep(w))

FairSpec == Spec /\ Fairness

-------------------------------------------------------------------------------
(* Properties *)

\* Every variable keeps its type: channels within their capacity, batches
\* within BatchMax, one result at most per item of the batch.
EffectsTypeOK ==
    /\ epoch \in 1 .. MaxEpoch
    /\ record \in [Writes -> {"none", "pending", "committed", "failed"}]
    /\ page \in [Chunks -> Writes \cup {NoWrite}]
    /\ faults \in 0 .. MaxFaults
    /\ \A l \in Lanes :
        /\ Len(chan[l]) <= Depth
        /\ \A m \in Held(l) : m \in Item
        /\ worker[l].pc \in {"idle", "drain", "batch", "single", "answer"}
        /\ Len(worker[l].items) <= BatchMax
        /\ worker[l].try <= MaxAttempts
        /\ Range(worker[l].res) \subseteq Results
        /\ Len(worker[l].res) <= Len(worker[l].items)
    /\ \A w \in Writes :
        /\ caller[w].pc \in {"new", "commit", "waiting", "recover", "failing",
                             "error", "acked"}
        /\ caller[w].run <= MaxRuns /\ caller[w].try <= MaxCommits

\* Item log[j] is applied after log[i] though its caller was gone when the call
\* of log[i] began, and its write was not called for again.
Late(i, j) ==
    /\ i < j
    /\ log[j].last
    /\ Id(log[j]) \in log[i].after

\* The ordered queue keeps the order clients can see: an item that went
\* straight to its lane's channel and whose caller gave up is never applied
\* after a write of the lane whose call began later.
LaneOrder ==
    \A i, j \in DOMAIN log : Late(i, j) => log[j].spilled

\* The same of every item: sbs-service's reference calls its write-effects
\* queue ordered.  An item sent by an overflow goroutine breaks it.
OrderedQueue ==
    \A i, j \in DOMAIN log : ~Late(i, j)

\* Every commit call is answered: batches come to an end, overflow goroutines
\* get their turn, and no item or result is lost while the service is up.
CallsEnd ==
    \A w \in Writes :
        caller[w].pc = "commit" ~> caller[w].pc \in {"acked", "error"}
===============================================================================
