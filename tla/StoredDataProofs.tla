-------------------------- MODULE StoredDataProofs --------------------------
(***************************************************************************)
(* Proofs about what requests leave behind and who else uses it, for any   *)
(* number of requests, gateways and chunks, every commit mode and every    *)
(* bound: the records an acknowledged request is replayed from, what a     *)
(* write can still do to a snapshot (SnapshotCut) and what a sweep can     *)
(* delete (PayloadGC).                                                     *)
(***************************************************************************)
EXTENDS PayloadGC, WriteCommitProofs

-----------------------------------------------------------------------------
(* Replay of acknowledged requests *)

AckSteps == {"hint", "hintput", "acked"}

\* A request on its way to the acknowledgement has its records committed.
Replayable(w) ==
  /\ exec[w].pc = "effects" => idem[w].state = "committed"
  /\ exec[w].pc \in AckSteps =>
       idem[w].state = "committed" /\ mut[w].state \in {"none", "committed"}

AInv == \A w \in Writers : Replayable(w)

\* The steps of w leave the records of the other requests alone.
LEMMA OthersKept ==
  ASSUME IInv, NEW w \in Writers, Progress(w) \/ Failure(w),
         NEW x \in Writers \ {w}
  PROVE  idem'[x] = idem[x] /\ mut'[x] = mut[x]
<1>0. idem \in [Writers -> RecordType] /\ mut \in [Writers -> RecordType]
  BY DEF IInv, TypeOK
<1>1. CASE BeginWrite(w) \/ LookupIdempotency(w) \/ PlanPages(w) \/ PlanCopyOnWrite(w)
  BY <1>0, <1>1, Zenon DEF BeginWrite, LookupIdempotency, PlanPages, PlanCopyOnWrite, meta
<1>2. CASE PutWriteIntent(w) \/ BeginFail(w)
  BY <1>0, <1>2 DEF PutWriteIntent, BeginFail, IntentRecords
<1>3. CASE LoadChunk(w) \/ StoreChunk(w) \/ PayloadDone(w) \/ PayloadFail(w)
           \/ AcquireCommitLock(w) \/ CommitConflict(w) \/ AbandonCommit(w)
  BY <1>3, Zenon DEF LoadChunk, StoreChunk, PayloadDone, PayloadFail, AcquireCommitLock,
              CommitConflict, AbandonCommit, meta
<1>4. CASE CommitMetadata(w)
  BY <1>0, <1>4, Zenon DEF CommitMetadata, CommitTransaction
<1>5. CASE ApplyEffects(w) \/ Recover(w)
  BY <1>0, <1>5, Zenon DEF ApplyEffects, Recover
<1>6. CASE RebaseState(w) \/ RebasePages(w) \/ HintRead(w) \/ HintPut(w) \/ HintFail(w)
  BY <1>6 DEF RebaseState, RebasePages, HintRead, HintPut, HintFail, meta
<1>7. CASE MarkFailedRecord(w) \/ MarkFailedMutation(w) \/ MarkFailedLost(w) \/ Retry(w)
  BY <1>0, <1>7, Zenon DEF MarkFailedRecord, MarkFailedMutation, MarkFailedLost, Retry, meta
<1> QED
  BY <1>1, <1>2, <1>3, <1>4, <1>5, <1>6, <1>7, Zenon DEF Progress, Failure

\* One step of w, from the step it reaches.
LEMMA ReplayStep ==
  ASSUME IInv, AInv, NEW w \in Writers, Progress(w) \/ Failure(w),
         \A x \in Writers \ {w} : exec'[x] = exec[x], Replayable(w)'
  PROVE  AInv'
<1>1. ASSUME NEW x \in Writers \ {w} PROVE Replayable(x)'
  BY OthersKept, Zenon DEF AInv, Replayable
<1> QED
  BY <1>1, Zenon DEF AInv

\* A step that does not lead towards the acknowledgement.
LEMMA AwayStep ==
  ASSUME IInv, AInv, NEW w \in Writers, Progress(w) \/ Failure(w),
         \A x \in Writers \ {w} : exec'[x] = exec[x],
         exec'[w].pc \notin AckSteps \cup {"effects"}
  PROVE  AInv'
BY ReplayStep, Zenon DEF Replayable

\* AwayStep for a step that only moves the request.
LEMMA AwayMove ==
  ASSUME IInv, AInv, NEW w \in Writers, Progress(w) \/ Failure(w),
         NEW step \in Steps \ (AckSteps \cup {"effects"}), Goto(w, step)
  PROVE  AInv'
<1>1. exec'[w].pc = step /\ \A x \in Writers \ {w} : exec'[x] = exec[x]
  BY MovedPc
<1> QED
  BY <1>1, AwayStep, Zenon

\* Planning, storing, rebasing and failing.
LEMMA AwayAInv ==
  ASSUME IInv, AInv, NEW w \in Writers,
         \/ BeginWrite(w) \/ PlanPages(w) \/ PutWriteIntent(w) \/ RebaseState(w)
         \/ RebasePages(w) \/ PayloadFail(w) \/ PayloadDone(w) \/ AcquireCommitLock(w)
         \/ CommitConflict(w) \/ AbandonCommit(w) \/ BeginFail(w) \/ MarkFailedRecord(w)
         \/ MarkFailedMutation(w) \/ MarkFailedLost(w) \/ Retry(w)
  PROVE  AInv'
<1>0. /\ exec \in [Writers -> ExecType]
      /\ Progress(w) \/ Failure(w)
  BY Zenon DEF IInv, TypeOK, Progress, Failure
<1>1. CASE \E step \in {"idle", "lock", "commit", "recover", "failidem", "failmut",
                        "error"} : Goto(w, step)
  <2>1. PICK step \in {"idle", "lock", "commit", "recover", "failidem", "failmut",
                       "error"} : Goto(w, step)
    BY <1>1, Zenon
  <2>2. step \in Steps \ (AckSteps \cup {"effects"})
    BY DEF Steps, AckSteps
  <2> QED
    BY <1>0, <2>1, <2>2, AwayMove, Zenon
<1>2. ASSUME \/ BeginWrite(w) \/ PlanPages(w) \/ PutWriteIntent(w) \/ RebaseState(w)
             \/ RebasePages(w) \/ PayloadFail(w)
      PROVE  /\ exec'[w].pc \in {"lookup", "cow", "payload", "replan", "commit",
                                 "failidem"}
             /\ \A x \in Writers \ {w} : exec'[x] = exec[x]
  <2>1. CASE BeginWrite(w)
    <3>1. PICK m : /\ exec' = [exec EXCEPT ![w] = m]
                   /\ m = [exec[w] EXCEPT !.pc = "lookup", !.epoch = vol.epoch,
                             !.revision = vol.revision, !.attempt = 1,
                             !.sessionLost = FALSE, !.runs = @ + 1]
      BY <2>1, Zenon DEF BeginWrite
    <3>2. m.pc = "lookup"
      BY <1>0, <3>1, Zenon DEF ExecType
    <3>3. exec'[w] = m /\ \A x \in Writers \ {w} : exec'[x] = exec[x]
      BY <1>0, <3>1, Zenon
    <3> QED
      BY <3>2, <3>3, Zenon
  <2>2. CASE PlanPages(w)
    BY <1>0, <2>2 DEF PlanPages, ExecType
  <2>3. CASE PutWriteIntent(w)
    BY <1>0, <2>3 DEF PutWriteIntent, ExecType
  <2>4. CASE RebaseState(w)
    BY <1>0, <2>4 DEF RebaseState, ExecType
  <2>5. CASE RebasePages(w)
    BY <1>0, <2>5 DEF RebasePages, ExecType
  <2>6. CASE PayloadFail(w)
    BY <1>0, <2>6, Zenon DEF PayloadFail, ExecType
  <2> QED
    BY <1>2, <2>1, <2>2, <2>3, <2>4, <2>5, <2>6, Zenon
<1>3. ASSUME \/ BeginWrite(w) \/ PlanPages(w) \/ PutWriteIntent(w) \/ RebaseState(w)
             \/ RebasePages(w) \/ PayloadFail(w)
      PROVE  AInv'
  <2>1. exec'[w].pc \notin AckSteps \cup {"effects"}
    BY <1>2, <1>3, Zenon DEF AckSteps
  <2> QED
    BY <1>0, <1>2, <1>3, <2>1, AwayStep, Zenon
<1> QED
  BY <1>1, <1>3, Zenon DEF PayloadDone, AcquireCommitLock, CommitConflict, AbandonCommit,
     Leave, BeginFail, MarkFailedRecord, MarkFailedMutation, MarkFailedLost, Retry

\* The ways to an acknowledgement.
LEMMA AckAInv ==
  ASSUME IInv, AInv, ZeroWriters = {}, NEW w \in Writers,
         \/ LookupIdempotency(w) \/ PlanCopyOnWrite(w) \/ LoadChunk(w) \/ StoreChunk(w)
         \/ CommitMetadata(w) \/ ApplyEffects(w) \/ Recover(w)
         \/ HintRead(w) \/ HintPut(w) \/ HintFail(w)
  PROVE  AInv'
<1>0. /\ exec \in [Writers -> ExecType]
      /\ Progress(w) \/ Failure(w)
      /\ idem \in [Writers -> RecordType] /\ mut \in [Writers -> RecordType]
  BY DEF IInv, TypeOK, Progress, Failure
<1>1. CASE LookupIdempotency(w)
  <2>1. CASE idem[w].state = "committed" /\ mut[w].state \in {"none", "committed"}
    <3>1. Goto(w, "acked") /\ "acked" \in Steps
      BY <1>1, <2>1 DEF LookupIdempotency, Steps
    <3>2. UNCHANGED <<idem, mut>>
      BY <1>1, Zenon DEF LookupIdempotency, meta
    <3> QED
      BY <1>0, <2>1, <3>1, <3>2, MovedPc, ReplayStep, Zenon DEF Replayable
  <2>2. CASE idem[w].state = "committed" /\ mut[w].state \notin {"none", "committed"}
    <3>1. Goto(w, "error") /\ "error" \in Steps \ (AckSteps \cup {"effects"})
      BY <1>1, <2>2 DEF LookupIdempotency, Steps, AckSteps
    <3> QED
      BY <1>0, <3>1, AwayMove
  <2>3. CASE idem[w].state # "committed"
    <3>1. exec'[w].pc = "plan" /\ \A x \in Writers \ {w} : exec'[x] = exec[x]
      BY <1>0, <1>1, <2>3 DEF LookupIdempotency, ExecType
    <3> QED
      BY <1>0, <3>1, AwayStep, Zenon DEF AckSteps
  <2> QED
    BY <2>1, <2>2, <2>3, Zenon
<1>2. CASE PlanCopyOnWrite(w)
  <2>1. exec'[w].pc = "intent" /\ \A x \in Writers \ {w} : exec'[x] = exec[x]
    BY <1>0, <1>2 DEF PlanCopyOnWrite, ZeroNoop, ExecType
  <2> QED
    BY <1>0, <2>1, AwayStep, Zenon DEF AckSteps
<1>3. CASE LoadChunk(w) \/ StoreChunk(w)
  <2>1. exec'[w].pc = "payload" /\ \A x \in Writers \ {w} : exec'[x] = exec[x]
    <3>1. ASSUME NEW c \in exec[w].todo, exec[w].pc = "payload",
                 exec' = [exec EXCEPT ![w].cur = c, ![w].buf = payload[MergeBase(w, c)]]
          PROVE  exec'[w].pc = "payload" /\ \A x \in Writers \ {w} : exec'[x] = exec[x]
      BY <1>0, <3>1 DEF ExecType
    <3>2. ASSUME NEW c \in exec[w].todo, exec[w].pc = "payload",
                 exec' = [exec EXCEPT ![w].todo = @ \ {c}, ![w].cur = NoChunk,
                                      ![w].buf = Zeroes]
          PROVE  exec'[w].pc = "payload" /\ \A x \in Writers \ {w} : exec'[x] = exec[x]
      BY <1>0, <3>2 DEF ExecType
    <3> QED
      BY <1>3, <3>1, <3>2, Zenon DEF LoadChunk, StoreChunk, At
  <2> QED
    BY <1>0, <2>1, AwayStep, Zenon DEF AckSteps
<1>4. CASE CommitMetadata(w)
  <2>1. PICK step \in {"acked", "hint", "effects", "recover", "failidem"} :
          /\ Leave(w, step)
          /\ step \in {"acked", "hint"} => mode # "range_local"
    BY <1>4, Zenon DEF CommitMetadata, AfterCommit
  <2>2. Goto(w, step) /\ step \in Steps
    BY <2>1 DEF Leave, Steps
  <2>3. exec'[w].pc = step /\ \A x \in Writers \ {w} : exec'[x] = exec[x]
    BY <2>2, MovedPc, Zenon
  <2>4. /\ idem'[w].state = "committed"
        /\ mode # "range_local" => mut'[w].state = "committed"
    BY <1>0, <1>4 DEF CommitMetadata, CommitTransaction
  <2>5. Replayable(w)'
    BY <2>1, <2>3, <2>4, Zenon DEF Replayable, AckSteps
  <2> QED
    BY <1>0, <2>3, <2>5, ReplayStep, Zenon
<1>5. CASE ApplyEffects(w) \/ Recover(w)
  <2>1. PICK step \in {"acked", "hint", "rebase", "failidem"} :
          /\ Leave(w, step)
          /\ step \in {"acked", "hint"} =>
               idem[w].state = "committed" /\ mut'[w].state \in {"none", "committed"}
    <3>1. CASE ApplyEffects(w)
      <4>1. idem[w].state = "committed" /\ mut'[w].state = "committed"
        BY <1>0, <3>1, Zenon DEF ApplyEffects, At, AInv, Replayable
      <4> QED
        BY <3>1, <4>1, Zenon DEF ApplyEffects, AfterCommit
    <3>2. CASE Recover(w)
      BY <1>0, <3>2 DEF Recover, AfterCommit
    <3> QED
      BY <1>5, <3>1, <3>2, Zenon
  <2>2. Goto(w, step) /\ step \in Steps
    BY <2>1, Zenon DEF Leave, Steps
  <2>3. exec'[w].pc = step /\ \A x \in Writers \ {w} : exec'[x] = exec[x]
    BY <2>2, MovedPc, Zenon
  <2>4. UNCHANGED idem
    BY <1>5, Zenon DEF ApplyEffects, Recover
  <2>5. Replayable(w)'
    BY <2>1, <2>3, <2>4, Zenon DEF Replayable, AckSteps
  <2> QED
    BY <1>0, <2>3, <2>5, ReplayStep, Zenon
<1>6. CASE HintRead(w) \/ HintPut(w) \/ HintFail(w)
  <2>1. UNCHANGED <<idem, mut>> /\ exec[w].pc \in AckSteps
    BY <1>6, Zenon DEF HintRead, HintPut, HintFail, meta, At, AckSteps
  <2>2. exec'[w].pc \in AckSteps /\ \A x \in Writers \ {w} : exec'[x] = exec[x]
    <3>1. CASE HintRead(w)
      BY <1>0, <3>1 DEF HintRead, ExecType, AckSteps
    <3>2. CASE Goto(w, "acked")
      <4>1. "acked" \in Steps
        BY DEF Steps
      <4> QED
        BY <3>2, <4>1, MovedPc, Zenon DEF AckSteps
    <3> QED
      BY <1>6, <3>1, <3>2 DEF HintPut, HintFail, Leave
  <2>3. Replayable(w)'
    BY <2>1, <2>2, Zenon DEF AInv, Replayable, AckSteps
  <2> QED
    BY <1>0, <2>2, <2>3, ReplayStep, Zenon
<1> QED
  BY <1>1, <1>2, <1>3, <1>4, <1>5, <1>6, Zenon

\* Every step preserves AInv when there is no zero request.
LEMMA NextAInv ==
  ASSUME IInv, AInv, ZeroWriters = {}, [Next]_vars PROVE AInv'
<1>1. ASSUME NEW w \in Writers, Progress(w) \/ Failure(w) PROVE AInv'
  BY <1>1, AwayAInv, AckAInv, Zenon DEF Progress, Failure
<1>2. ASSUME NEW g \in Gateways, Crash(g) PROVE AInv'
  <2>1. UNCHANGED <<idem, mut>>
    BY <1>2 DEF Crash, meta
  <2>2. ASSUME NEW x \in Writers PROVE exec'[x] = exec[x] \/ exec'[x].pc = "dead"
    BY <1>2, Zenon DEF Crash, NoExec
  <2> QED
    BY <2>1, <2>2, Zenon DEF AInv, Replayable, AckSteps
<1>3. CASE PrimaryFailover \/ UNCHANGED vars
  <2>1. UNCHANGED <<idem, mut, exec>>
    BY <1>3 DEF PrimaryFailover, vars, meta
  <2> QED
    BY <2>1 DEF AInv, Replayable
<1> QED
  BY <1>1, <1>2, <1>3, Zenon DEF Next, WriterNext, AllFinished

\* Where no request has zero semantics, an acknowledged request has its
\* idempotency record committed and no unfinished mutation operation beside
\* it, so that the same key is replayed and not run again (executor.go
\* BeginWrite).  With zero semantics the zero no-op of a retried request can
\* leave the operation of its first run behind.
THEOREM AckedReplays ==
  ASSUME ZeroWriters = {}
  PROVE  Spec => []AckedIsReplayable
<1>1. Init => AInv
  BY DEF Init, AInv, Replayable, AckSteps, NoExec
<1>2. IInv /\ AInv /\ [Next]_vars => AInv'
  BY NextAInv
<1>3. AInv => AckedIsReplayable
  BY Zenon DEF AInv, Replayable, AckSteps, AckedIsReplayable, At
<1> QED
  BY <1>1, <1>2, <1>3, Invariance, PTL DEF Spec

-----------------------------------------------------------------------------
(* Snapshots *)

\* The snapshot exists and nobody has deleted it.
Live == snapState \in {"creating", "available"} /\ deletePc # "done"

\* Where the two handlers stand, and what that says of record and root.
Handlers ==
  /\ snapPc = "idle" <=> snapState = "none"
  /\ deletePc # "idle" => snapState # "none"
  /\ snapPc \in {"idle", "list", "capture"} => ~HasRoot
  /\ snapPc = "mark" => HasRoot
  /\ snapPc \in {"list", "capture", "mark"} /\ deletePc # "done" => snapState = "creating"

\* The listed page or the stored root maps c to id i.
Rooted(i, c) == snapSeen[c] = i \/ (HasRoot /\ snapRoot[c] = i)

\* Their ids belong to the same logical chunks as everywhere.
RootsMapped ==
  \A i \in Ids : \A c \in Chunks : Rooted(i, c) =>
    /\ i < nextId
    /\ \A d \in Chunks : Mapped(i, d) => c = d

\* Id i is in a map other than w's plan.
Elsewhere(w, i) ==
  \E d \in Chunks : \/ i \in {InitPage[d], page[d]}
                    \/ Rooted(i, d)
                    \/ \E x \in Writers \ {w} : exec[x].plan[d] = i

\* Under copy on write a request stores into chunks only it knows.
Private ==
  \A w \in Writers : exec[w].pc \in StoreSteps /\ exec[w].cow =>
    \A c \in DataChunks(w) : ~Elsewhere(w, exec[w].plan[c])

\* Requests that planned after the Creating record copy on write.
Cautious ==
  Live => \A w \in Writers \ planned : exec[w].pc \in StoreSteps => exec[w].cow

\* What a page reads as.
ViewOf(root, c, s) == IF root[c] = 0 THEN ZeroData ELSE payload[root[c]][s]

\* Read through a page, chunk c is as it was when the page was listed, or a
\* request that planned before the record has stored it.
Unleaked(root, c, s) ==
  \/ ViewOf(root, c, s) = cutView[c][s]
  \/ \E w \in planned :
       /\ c \in DataChunks(w)
       /\ FullChunk(w, c) => ViewOf(root, c, s) = DataOf(w)

Leaks ==
  Live => \A c \in Chunks, s \in Sectors :
    /\ snapPc = "capture" => Unleaked(snapSeen, c, s)
    /\ HasRoot => Unleaked(snapRoot, c, s)

HInv == SnapshotTypeOK /\ Handlers

SInv == RootsMapped /\ Private /\ Cautious /\ Leaks

\* A page is never the absent root.
LEMMA PageIsRoot ==
  ASSUME NEW f \in [Chunks -> Ids \cup {0}] PROVE f # NoRoot
<1>1. DOMAIN f = Chunks /\ DOMAIN NoRoot = {}
  BY Zenon DEF NoRoot
<1> QED
  BY <1>1, SnapshotAssumption

\* What the volume reads as is some content.
LEMMA VisibleType ==
  ASSUME IInv, NEW c \in Chunks, NEW s \in Sectors PROVE Visible(c, s) \in Contents
<1>1. page[c] \in Ids \cup {0} /\ payload \in [Ids -> [Sectors -> Contents]]
  BY Zenon DEF IInv, TypeOK
<1> QED
  BY <1>1, Zenon DEF Visible, Contents

\* CreateSnapshot and DeleteSnapshot keep where they stand in step with the
\* record and the root, and leave the write path alone.
LEMMA SnapshotHInv ==
  ASSUME IInv, HInv, SnapshotNext
  PROVE  IInv' /\ HInv' /\ UNCHANGED <<page, payload, nextId, exec>>
<1>1. UNCHANGED writeVars
  BY Zenon DEF SnapshotNext, SnapshotBegin, SnapshotList, SnapshotCapture, SnapshotAvailable,
         SnapshotFail, DeleteRead, DeleteMark
<1>2. UNCHANGED <<page, payload, nextId, exec>>
  BY <1>1, Zenon DEF writeVars, meta
<1>3. snapState' \in {"none", "creating", "available", "deleting", "deleted", "failed"}
  <2>1. snapState \in {"none", "creating", "available", "deleting", "deleted", "failed"}
    BY Zenon DEF IInv, TypeOK
  <2> QED
    BY <2>1, Zenon DEF SnapshotNext, SnapshotBegin, SnapshotList, SnapshotCapture,
                SnapshotAvailable, SnapshotFail, DeleteRead, DeleteMark, MarkSnapshotState
<1>4. TypeOK'
  BY <1>1, <1>3 DEF IInv, TypeOK, writeVars, meta
<1>5. IInv'
  BY <1>2, <1>4, QuietIInv
<1>6. HInv'
  <2> USE DEF HInv, SnapshotTypeOK, Handlers, HasRoot
  <2>1. CASE SnapshotBegin
    BY <2>1, Zenon DEF SnapshotBegin
  <2>2. CASE SnapshotList
    <3>1. cutView' \in [Chunks -> [Sectors -> Contents]]
      BY <2>2, VisibleType, Zenon DEF SnapshotList
    <3>2. page \in [Chunks -> Ids \cup {0}]
      BY Zenon DEF IInv, TypeOK
    <3> QED
      BY <2>2, <3>1, <3>2, Zenon DEF SnapshotList
  <2>3. CASE SnapshotCapture
    <3>1. snapSeen # NoRoot /\ InitPage \in [Chunks -> Ids \cup {0}]
      BY PageIsRoot, InitPageIds, Zenon
    <3> QED
      BY <2>3, <3>1, Zenon DEF SnapshotCapture
  <2>4. CASE SnapshotAvailable
    BY <2>4, Zenon DEF SnapshotAvailable, MarkSnapshotState
  <2>5. CASE SnapshotFail
    BY <2>5, Zenon DEF SnapshotFail, MarkSnapshotState
  <2>6. CASE DeleteRead
    BY <2>6, Zenon DEF DeleteRead
  <2>7. CASE DeleteMark
    BY <2>7, Zenon DEF DeleteMark, MarkSnapshotState
  <2> QED
    BY <2>1, <2>2, <2>3, <2>4, <2>5, <2>6, <2>7, Zenon DEF SnapshotNext
<1> QED
  BY <1>2, <1>5, <1>6

\* A snapshot that was not live is not revived: the handler of one that was
\* deleted meanwhile may still mark it Available, but that one counts as
\* deleted.
LEMMA LiveBefore ==
  ASSUME IInv, HInv, SnapshotNext, ~SnapshotBegin, Live'
  PROVE  Live /\ UNCHANGED planned
BY DEF HInv, Handlers, Live, SnapshotNext, SnapshotList, SnapshotCapture, SnapshotAvailable,
       SnapshotFail, DeleteRead, DeleteMark, MarkSnapshotState

\* The handlers take their ids from the page.
LEMMA RootedBefore ==
  ASSUME IInv, HInv, SnapshotNext, NEW i \in Ids, NEW c \in Chunks, Rooted(i, c)'
  PROVE  Rooted(i, c) \/ page[c] = i \/ InitPage[c] = i
BY Zenon DEF HInv, Handlers, Rooted, HasRoot, SnapshotNext, SnapshotBegin, SnapshotList,
       SnapshotCapture, SnapshotAvailable, SnapshotFail, DeleteRead, DeleteMark

\* Roots stay apart from other chunks' ids.
LEMMA RootsKept ==
  ASSUME IInv, RootsMapped, nextId' \in Nat, nextId <= nextId',
         \A i \in Ids : \A c \in Chunks :
           /\ Mapped(i, c)' => Mapped(i, c) \/ nextId <= i
           /\ Rooted(i, c)' => Rooted(i, c) \/ Mapped(i, c)
  PROVE  RootsMapped'
<1> SUFFICES ASSUME NEW i \in Ids, NEW c \in Chunks, Rooted(i, c)'
             PROVE  i < nextId' /\ \A d \in Chunks : Mapped(i, d)' => c = d
  BY DEF RootsMapped
<1>1. i \in Nat /\ nextId \in Nat
  BY Numbered, Zenon
<1>2. Rooted(i, c) \/ Mapped(i, c)
  OBVIOUS
<1>3. i < nextId
  BY <1>2 DEF RootsMapped, IInv, IdsAllocated
<1>4. i < nextId' /\ ~(nextId <= i)
  BY <1>1, <1>3
<1>5. ASSUME NEW d \in Chunks, Mapped(i, d)' PROVE c = d
  <2>1. Mapped(i, d)
    BY <1>4, <1>5
  <2> QED
    BY <1>2, <2>1 DEF RootsMapped, IInv, OneChunkPerId
<1> QED
  BY <1>4, <1>5

\* A request's payload goes to physical chunks.
LEMMA StoreIds ==
  ASSUME IInv, NEW w \in Writers, exec[w].pc \in StoreSteps, NEW c \in DataChunks(w)
  PROVE  c \in Chunks /\ exec[w].plan[c] \in Ids /\ exec[w].plan[c] < nextId
<1>1. c \in Chunks
  BY Zenon DEF DataChunks, Touched
<1>2. exec[w].plan[c] # 0
  BY Zenon DEF IInv, PlanReady, StoreSteps
<1>3. exec[w].plan \in [Chunks -> Ids \cup {0}]
  BY Zenon DEF IInv, TypeOK, ExecType
<1>4. exec[w].plan[c] \in Ids /\ Mapped(exec[w].plan[c], c)
  BY <1>1, <1>2, <1>3, Zenon DEF Mapped
<1> QED
  BY <1>1, <1>4, Zenon DEF IInv, IdsAllocated

\* Ids in any map were handed out.
LEMMA ElsewhereAllocated ==
  ASSUME IInv, RootsMapped, NEW w \in Writers, NEW i \in Ids, Elsewhere(w, i)
  PROVE  i < nextId
<1>1. PICK d \in Chunks : Rooted(i, d) \/ Mapped(i, d)
  BY Zenon DEF Elsewhere, Mapped
<1> QED
  BY <1>1 DEF RootsMapped, IInv, IdsAllocated

\* A step of w brings an id into a map outside x's plan only if it was in one,
\* or is new.
LEMMA ElsewhereBefore ==
  ASSUME IInv, NEW w \in Writers, Moves(w) \/ Allocates(w) \/ Stays(w),
         UNCHANGED snapVars, NEW x \in Writers, x # w \/ ~Moves(w),
         NEW i \in Ids, Elsewhere(x, i)'
  PROVE  Elsewhere(x, i) \/ (x # w /\ nextId <= i)
<1>1. i # 0 /\ InitPage' = InitPage
  BY DEF Ids, InitPage, Rank
<1>2. \A d \in Chunks : Rooted(i, d)' <=> Rooted(i, d)
  BY Zenon DEF Rooted, HasRoot, snapVars
<1>3. PICK d \in Chunks : \/ i \in {InitPage[d], page'[d]} \/ Rooted(i, d)
                          \/ \E y \in Writers \ {x} : exec'[y].plan[d] = i
  BY <1>1, <1>2, Zenon DEF Elsewhere
<1>4. CASE i = InitPage[d] \/ Rooted(i, d)
  BY <1>4 DEF Elsewhere
<1>5. CASE page'[d] = i
  BY <1>1, <1>5, Zenon DEF Moves, Allocates, Stays, Carried, Elsewhere
<1>6. ASSUME NEW y \in Writers \ {x}, exec'[y].plan[d] = i
      PROVE  Elsewhere(x, i) \/ (x # w /\ nextId <= i)
  <2>1. CASE y # w
    BY <1>6, <2>1, Zenon DEF Moves, Allocates, Stays, Elsewhere
  <2>2. CASE y = w /\ Moves(w)
    BY <1>1, <1>6, <2>2, Zenon DEF Moves, Carried, Elsewhere
  <2>3. CASE y = w /\ Allocates(w)
    BY <1>6, <2>3, Zenon DEF Allocates, Elsewhere
  <2>4. CASE y = w /\ Stays(w)
    BY <1>6, <2>4, Zenon DEF Stays, Elsewhere
  <2> QED
    BY <2>1, <2>2, <2>3, <2>4
<1> QED
  BY <1>3, <1>4, <1>5, <1>6, Zenon

\* What a request stores into under copy on write stays its own.
LEMMA PrivateStep ==
  ASSUME IInv, IInv', RootsMapped, Private, NEW w \in Writers,
         Moves(w) \/ Allocates(w) \/ Stays(w), UNCHANGED snapVars
  PROVE  Private'
<1> SUFFICES ASSUME NEW x \in Writers, (exec[x].pc \in StoreSteps /\ exec[x].cow)',
                    NEW c \in DataChunks(x), Elsewhere(x, exec[x].plan[c])'
             PROVE  FALSE
  <2>1. \A x \in Writers : DataChunks(x)' = DataChunks(x)
    BY Zenon DEF DataChunks, Touched, ZeroChunks, FullChunk
  <2> QED
    BY <2>1 DEF Private
<1>1. DataChunks(x)' = DataChunks(x)
  BY Zenon DEF DataChunks, Touched, ZeroChunks, FullChunk
<1>2. PICK i \in Ids : i = exec'[x].plan[c] /\ Elsewhere(x, i)'
  <2>1. exec'[x].plan[c] # 0
    BY <1>1, Zenon DEF IInv, PlanReady, StoreSteps
  <2>2. exec'[x].plan \in [Chunks -> Ids \cup {0}] /\ c \in Chunks
    BY Zenon DEF IInv, TypeOK, ExecType, DataChunks, Touched
  <2>3. exec'[x].plan[c] \in Ids
    BY <2>1, <2>2, Zenon
  <2>4. PICK i \in Ids : i = exec'[x].plan[c]
    BY <2>3
  <2>5. Elsewhere(x, i)'
    BY <2>4, Zenon DEF Elsewhere
  <2> QED
    BY <2>4, <2>5
<1>3. c \in Chunks /\ nextId \in Nat /\ i \in Nat
  BY Numbered, Zenon DEF DataChunks, Touched
<1>4. x # w \/ ~Moves(w)
  BY Zenon DEF Moves
<1>5. CASE Elsewhere(x, i)
  <2>1. ~(exec[x].pc \in StoreSteps /\ exec[x].cow /\ exec[x].plan[c] = i)
    BY <1>5, Zenon DEF Private
  <2>2. x = w /\ Allocates(w)
    BY <1>2, <1>4, <2>1, Zenon DEF Moves, Allocates, Stays
  <2>3. c \in FreshChunks(w, CopyOnWriteNeeded)
    BY <2>2, Zenon DEF Allocates, FreshChunks
  <2>4. nextId <= i
    BY <1>2, <1>3, <2>2, <2>3, Zenon DEF Allocates
  <2>5. i < nextId
    BY <1>5, ElsewhereAllocated, Zenon
  <2> QED
    BY <1>3, <2>4, <2>5
<1>6. CASE x # w /\ nextId <= i
  <2>1. exec'[x] = exec[x]
    BY <1>6, Zenon DEF Moves, Allocates, Stays
  <2>2. i < nextId
    BY <1>2, <2>1, StoreIds, Zenon
  <2> QED
    BY <1>3, <1>6, <2>2
<1> QED
  BY <1>2, <1>4, <1>5, <1>6, ElsewhereBefore, Zenon

\* Later requests keep copying on write.
LEMMA CautiousStep ==
  ASSUME Cautious, NEW w \in Writers, Moves(w) \/ Allocates(w) \/ Stays(w),
         UNCHANGED snapVars
  PROVE  Cautious'
<1> SUFFICES ASSUME Live', NEW x \in Writers \ planned, (exec[x].pc \in StoreSteps)'
             PROVE  exec'[x].cow
  BY Zenon DEF Cautious, snapVars
<1>1. Live /\ snapState' = snapState
  BY Zenon DEF Live, snapVars, Moves, Allocates, Stays
<1>2. CASE Allocates(w) /\ x = w
  BY <1>1, <1>2, Zenon DEF Allocates, Live, CopyOnWriteNeeded
<1>3. CASE x # w
  BY <1>1, <1>3, Zenon DEF Cautious, Moves, Allocates, Stays
<1>4. CASE Stays(w) /\ x = w
  BY <1>1, <1>4, Zenon DEF Cautious, Stays
<1> QED
  BY <1>2, <1>3, <1>4, Zenon DEF Moves

\* A page whose chunks nobody stores into reads as before.
LEMMA UnleakedSame ==
  ASSUME UNCHANGED <<payload, planned, cutView>>, NEW root, NEW c \in Chunks,
         NEW s \in Sectors, Unleaked(root, c, s)
  PROVE  Unleaked(root, c, s)'
<1>1. ViewOf(root, c, s)' = ViewOf(root, c, s)
  BY Zenon DEF ViewOf
<1>2. \A w \in planned : DataChunks(w)' = DataChunks(w) /\ FullChunk(w, c)' = FullChunk(w, c)
                         /\ DataOf(w)' = DataOf(w)
  BY Zenon DEF DataChunks, Touched, ZeroChunks, FullChunk, DataOf
<1> QED
  BY <1>1, <1>2, Zenon DEF Unleaked

\* A store reaches a chunk of the snapshot only if its request planned before
\* the record: a later one stores where no snapshot looks.
LEMMA UnleakedStored ==
  ASSUME IInv, RootsMapped, Private, Cautious, Live,
         NEW w \in Writers, NEW d \in exec[w].todo, Stores(w, d),
         UNCHANGED <<planned, cutView>>,
         NEW root \in [Chunks -> Ids \cup {0}], NEW c \in Chunks, NEW s \in Sectors,
         root[c] # 0 => Rooted(root[c], c), Unleaked(root, c, s)
  PROVE  Unleaked(root, c, s)'
<1>1. exec[w].pc = "payload" /\ exec[w].pc \in StoreSteps
  BY Zenon DEF Stores, StoreSteps
<1>2. d \in DataChunks(w)
  BY <1>1, Zenon DEF IInv, PlanReady
<1>3. PICK i \in Ids : i = exec[w].plan[d]
  BY <1>1, <1>2, StoreIds
<1>4. payload \in [Ids -> [Sectors -> Contents]] /\ i # 0
      /\ payload' = [payload EXCEPT ![i] =
           [t \in Sectors |-> IF <<d, t>> \in Span[w] THEN DataOf(w) ELSE exec[w].buf[t]]]
  <2>1. payload \in [Ids -> [Sectors -> Contents]]
    BY Zenon DEF IInv, TypeOK
  <2>2. i # 0
    BY Numbered, Zenon
  <2> QED
    BY <1>3, <2>1, <2>2, Zenon DEF Stores
<1>5. \A x \in planned : DataChunks(x)' = DataChunks(x) /\ FullChunk(x, c)' = FullChunk(x, c)
                         /\ DataOf(x)' = DataOf(x)
  BY DEF DataChunks, Touched, ZeroChunks, FullChunk, DataOf
<1>6. CASE root[c] # i
  <2>1. ViewOf(root, c, s)' = ViewOf(root, c, s)
    BY <1>4, <1>6, Zenon DEF ViewOf
  <2> QED
    BY <1>5, <2>1, Zenon DEF Unleaked
<1>7. CASE root[c] = i
  <2>1. Rooted(i, c) /\ d \in Chunks
    BY <1>2, <1>4, <1>7, Zenon DEF DataChunks, Touched
  <2>2. c = d
    BY <1>3, <2>1, Zenon DEF RootsMapped, Mapped
  <2>3. Elsewhere(w, i)
    BY <2>1, Zenon DEF Elsewhere
  <2>4. ~exec[w].cow
    BY <1>1, <1>2, <1>3, <2>3, Zenon DEF Private
  <2>5. w \in planned
    BY <1>1, <2>4, Zenon DEF Cautious
  <2>6. FullChunk(w, c) => ViewOf(root, c, s)' = DataOf(w)
    BY <1>4, <1>7, <2>2, Zenon DEF ViewOf, FullChunk
  <2> QED
    BY <1>2, <1>5, <2>2, <2>5, <2>6, Zenon DEF Unleaked
<1> QED
  BY <1>6, <1>7

\* Pages of the handler and of the root hold the ids they are rooted at.
LEMMA RootPages ==
  ASSUME HInv
  PROVE  /\ snapSeen \in [Chunks -> Ids \cup {0}]
         /\ \A c \in Chunks : Rooted(snapSeen[c], c)
         /\ HasRoot => /\ snapRoot \in [Chunks -> Ids \cup {0}]
                       /\ \A c \in Chunks : Rooted(snapRoot[c], c)
BY Zenon DEF HInv, SnapshotTypeOK, Rooted, HasRoot

\* The steps of a request preserve what is known of the snapshot.
LEMMA WriterSInv ==
  ASSUME IInv, IInv', HInv, SInv, NEW w \in Writers, Progress(w) \/ Failure(w),
         UNCHANGED snapVars
  PROVE  SInv'
<1>1. Moves(w) \/ Allocates(w) \/ Stays(w)
  BY StepShapes, Zenon DEF Intends, Loads, Stores
<1>2. nextId \in Nat /\ nextId' \in Nat /\ nextId <= nextId' /\ snapState' = snapState
  <2>1. nextId \in Nat /\ nextId' \in Nat
    BY Numbered, Zenon
  <2>2. snapState' = snapState /\ (nextId' = nextId \/ nextId <= nextId')
    BY <1>1, Zenon DEF Moves, Allocates, Stays
  <2> QED
    BY <2>1, <2>2
<1>3. \A i \in Ids : \A c \in Chunks : Rooted(i, c)' <=> Rooted(i, c)
  BY DEF Rooted, HasRoot, snapVars
<1>4. RootsMapped'
  BY <1>1, <1>2, <1>3, ShapeMaps, RootsKept, Zenon DEF SInv
<1>5. Private' /\ Cautious'
  BY <1>1, PrivateStep, CautiousStep, Zenon DEF SInv
<1>6. UNCHANGED <<snapPc, snapSeen, snapRoot, planned, cutView>>
  BY DEF snapVars
<1>7. ASSUME Live', NEW c \in Chunks, NEW s \in Sectors
      PROVE  /\ snapPc = "capture" => Unleaked(snapSeen, c, s)'
             /\ HasRoot => Unleaked(snapRoot, c, s)'
  <2>1. Live
    BY <1>2, <1>7, Zenon DEF Live, snapVars
  <2>2. /\ snapPc = "capture" => Unleaked(snapSeen, c, s)
        /\ HasRoot => Unleaked(snapRoot, c, s)
    BY <2>1 DEF SInv, Leaks
  <2>3. PICK seen, root : seen = snapSeen /\ root = snapRoot
    OBVIOUS
  <2>4. /\ snapPc = "capture" => Unleaked(seen, c, s)'
        /\ HasRoot => Unleaked(root, c, s)'
    <3>1. CASE payload' = payload
      BY <1>6, <2>2, <2>3, <3>1, UnleakedSame
    <3>2. ASSUME NEW d \in exec[w].todo, Stores(w, d)
          PROVE  /\ snapPc = "capture" => Unleaked(seen, c, s)'
                 /\ HasRoot => Unleaked(root, c, s)'
      BY <1>6, <2>1, <2>2, <2>3, <3>2, UnleakedStored, RootPages, Zenon DEF SInv
    <3> QED
      BY <3>1, <3>2, StepShapes, Zenon DEF Moves, Allocates, Intends, Loads
  <2> QED
    BY <1>6, <2>3, <2>4, Zenon DEF Unleaked, ViewOf
<1>8. Leaks'
  BY <1>6, <1>7, Zenon DEF Leaks, HasRoot
<1> QED
  BY <1>4, <1>5, <1>8 DEF SInv
\* A step that moves no id into a map preserves what is known of the
\* snapshot: a crash, a failover, a stutter.
LEMMA DropsSInv ==
  ASSUME IInv, HInv, SInv, UNCHANGED <<page, payload, nextId, snapState, snapVars>>,
         \A x \in Writers :
           \/ exec'[x] = exec[x]
           \/ exec'[x].pc = "dead" /\ exec'[x].plan = InitPage
  PROVE  SInv'
<1>1. InitPage' = InitPage /\ nextId \in Nat
  BY Numbered, Zenon DEF InitPage, Rank
<1>2. \A i \in Ids : \A c \in Chunks : Rooted(i, c)' <=> Rooted(i, c)
  BY Zenon DEF Rooted, HasRoot, snapVars
<1>3. \A i \in Ids : \A c \in Chunks : Mapped(i, c)' => Mapped(i, c)
  BY <1>1 DEF Mapped
<1>4. RootsMapped'
  BY <1>1, <1>2, <1>3, RootsKept DEF SInv
<1>5. \A x \in Writers : DataChunks(x)' = DataChunks(x)
  BY DEF DataChunks, Touched, ZeroChunks, FullChunk
<1>6. Private'
  <2> SUFFICES ASSUME NEW x \in Writers, (exec[x].pc \in StoreSteps /\ exec[x].cow)',
                      NEW c \in DataChunks(x), Elsewhere(x, exec[x].plan[c])'
               PROVE  FALSE
    BY <1>5, Zenon DEF Private
  <2>1. exec'[x] = exec[x]
    BY Zenon DEF StoreSteps
  <2>2. PICK i \in Ids : i = exec[x].plan[c]
    BY <2>1, StoreIds
  <2>3. PICK d \in Chunks : \/ i \in {InitPage[d], page[d]} \/ Rooted(i, d)
                            \/ \E y \in Writers \ {x} : exec'[y].plan[d] = i
    BY <1>1, <1>2, <2>1, <2>2, Zenon DEF Elsewhere
  <2>4. Elsewhere(x, i)
    BY <2>3, Zenon DEF Elsewhere
  <2> QED
    BY <2>1, <2>2, <2>4, Zenon DEF SInv, Private
<1>7. Cautious'
  BY Zenon DEF SInv, Cautious, Live, snapVars, StoreSteps
<1>8. Leaks'
  <2>1. UNCHANGED <<snapPc, snapSeen, snapRoot, planned, cutView>>
    BY DEF snapVars
  <2>2. PICK seen, root : seen = snapSeen /\ root = snapRoot
    OBVIOUS
  <2>3. ASSUME Live, NEW c \in Chunks, NEW s \in Sectors
        PROVE  /\ snapPc = "capture" => Unleaked(seen, c, s)'
               /\ HasRoot => Unleaked(root, c, s)'
    BY <2>1, <2>2, <2>3, UnleakedSame, Zenon DEF SInv, Leaks
  <2> QED
    BY <2>1, <2>2, <2>3, Zenon DEF Leaks, HasRoot, Live, snapVars, Unleaked, ViewOf
<1> QED
  BY <1>4, <1>6, <1>7, <1>8, Zenon DEF SInv

\* So do the snapshot handlers: the listed page reads as the volume does at
\* that moment, and becomes the root as it was listed.
LEMMA SnapshotSInv ==
  ASSUME IInv, HInv, SInv, SnapshotNext PROVE SInv'
<1>1. IInv' /\ HInv' /\ UNCHANGED <<page, payload, nextId, exec>>
  BY SnapshotHInv, Zenon
<1>2. InitPage' = InitPage /\ nextId \in Nat
  BY Numbered, Zenon DEF InitPage, Rank
<1>3. RootsMapped'
  <2>1. \A i \in Ids : \A c \in Chunks : Mapped(i, c)' => Mapped(i, c)
    BY <1>1, <1>2, Zenon DEF Mapped
  <2>2. \A i \in Ids : \A c \in Chunks : Rooted(i, c)' => Rooted(i, c) \/ Mapped(i, c)
    BY RootedBefore, Zenon DEF Mapped
  <2> QED
    BY <1>1, <1>2, <2>1, <2>2, RootsKept DEF SInv
<1>4. \A x \in Writers : DataChunks(x)' = DataChunks(x)
  BY Zenon DEF DataChunks, Touched, ZeroChunks, FullChunk
<1>5. Private'
  <2> SUFFICES ASSUME NEW x \in Writers, exec[x].pc \in StoreSteps, exec[x].cow,
                      NEW c \in DataChunks(x), Elsewhere(x, exec[x].plan[c])'
               PROVE  FALSE
    BY <1>1, <1>4, Zenon DEF Private
  <2>1. PICK i \in Ids : i = exec[x].plan[c]
    BY StoreIds, Zenon
  <2>2. PICK d \in Chunks : \/ i \in {InitPage[d], page[d]} \/ Rooted(i, d)'
                            \/ \E y \in Writers \ {x} : exec[y].plan[d] = i
    BY <1>1, <1>2, <2>1, Zenon DEF Elsewhere
  <2>3. Elsewhere(x, i)
    BY <2>2, RootedBefore, Zenon DEF Elsewhere
  <2> QED
    BY <2>1, <2>3, Zenon DEF SInv, Private
<1>6. Cautious'
  <2>1. CASE SnapshotBegin
    BY <1>1, <2>1, Zenon DEF SnapshotBegin, Cautious, StoreSteps, Finished
  <2>2. CASE ~SnapshotBegin
    BY <1>1, <2>2, LiveBefore, Zenon DEF SInv, Cautious
  <2> QED
    BY <2>1, <2>2, Zenon
<1>7. Leaks'
  <2> SUFFICES ASSUME Live', NEW c \in Chunks, NEW s \in Sectors
               PROVE  /\ (snapPc = "capture" => Unleaked(snapSeen, c, s))'
                      /\ (HasRoot => Unleaked(snapRoot, c, s))'
    BY Zenon DEF Leaks
  <2>1. CASE SnapshotBegin
    BY <2>1, Zenon DEF SnapshotBegin, HInv, Handlers, HasRoot
  <2>2. CASE SnapshotList
    <3>1. ~HasRoot'
      BY <2>2, Zenon DEF SnapshotList, HInv, Handlers, HasRoot
    <3>2. cutView'[c][s] = Visible(c, s)
      BY <2>2, Zenon DEF SnapshotList
    <3>3. ViewOf(snapSeen, c, s)' = Visible(c, s)
      BY <1>1, <2>2, Zenon DEF SnapshotList, ViewOf, Visible
    <3> QED
      BY <3>1, <3>2, <3>3, Zenon DEF Unleaked
  <2>3. CASE ~SnapshotBegin /\ ~SnapshotList
    <3>1. Live /\ planned' = planned
      BY <2>3, LiveBefore, Zenon
    <3>2. cutView' = cutView
      BY <2>3, Zenon DEF SnapshotNext, SnapshotCapture, SnapshotAvailable, SnapshotFail, DeleteRead,
                  DeleteMark
    <3>3. PICK seen, root : seen = snapSeen /\ root = snapRoot
      BY Zenon
    <3>4. /\ snapPc = "capture" => Unleaked(seen, c, s)'
          /\ HasRoot => Unleaked(root, c, s)'
      BY <1>1, <3>1, <3>2, <3>3, UnleakedSame, Zenon DEF SInv, Leaks
    <3>5. CASE SnapshotCapture
      <4>1. snapPc' = "mark" /\ snapPc = "capture" /\ snapRoot' = seen
        BY <3>3, <3>5, Zenon DEF SnapshotCapture
      <4> QED
        BY <3>4, <4>1, Zenon DEF Unleaked, ViewOf
    <3>6. CASE ~SnapshotCapture
      <4>1. snapRoot' = root /\ (snapPc' = "capture" => snapPc = "capture" /\ snapSeen' = seen)
        BY <2>3, <3>3, <3>6, Zenon DEF SnapshotNext, SnapshotAvailable, SnapshotFail, DeleteRead,
                                DeleteMark
      <4> QED
        BY <3>3, <3>4, <4>1, Zenon DEF Unleaked, ViewOf, HasRoot
    <3> QED
      BY <3>5, <3>6, Zenon
  <2> QED
    BY <2>1, <2>2, <2>3, Zenon
<1> QED
  BY <1>3, <1>5, <1>6, <1>7, Zenon DEF SInv
\* The write path leaves the snapshot's record alone.
LEMMA WriterFrame ==
  ASSUME IInv, WriterNext \/ AllFinished PROVE snapState' = snapState
<1>1. ASSUME NEW w \in Writers, Progress(w) \/ Failure(w) PROVE snapState' = snapState
  BY <1>1, StepShapes, Zenon DEF Moves, Allocates, Intends, Loads, Stores, Stays
<1>2. ASSUME NEW g \in Gateways, Crash(g) PROVE snapState' = snapState
  BY <1>2, CrashDrops, Zenon
<1>3. CASE PrimaryFailover \/ AllFinished
  BY <1>3, Zenon DEF PrimaryFailover, AllFinished, vars, env
<1> QED
  BY <1>1, <1>2, <1>3, Zenon DEF WriterNext

\* Every step keeps the write path's invariant and the handlers'.
LEMMA CutHInv ==
  ASSUME IInv, HInv, [CutNext]_<<vars, snapVars>> PROVE IInv' /\ HInv'
<1>1. CASE SnapshotNext
  BY <1>1, SnapshotHInv, Zenon
<1>2. CASE (WriterNext \/ AllFinished) /\ UNCHANGED snapVars
  <2>1. IInv'
    BY <1>2, NextIInv, Zenon DEF Next
  <2>2. snapState' = snapState
    BY <1>2, WriterFrame, Zenon
  <2>3. HInv'
    BY <1>2, <2>2, Zenon DEF HInv, SnapshotTypeOK, Handlers, HasRoot, snapVars
  <2> QED
    BY <2>1, <2>3, Zenon
<1>3. CASE UNCHANGED <<vars, snapVars>>
  <2>1. IInv'
    BY <1>3, NextIInv, Zenon
  <2>2. HInv'
    BY <1>3, Zenon DEF HInv, SnapshotTypeOK, Handlers, HasRoot, snapVars, vars, env
  <2> QED
    BY <2>1, <2>2, Zenon
<1> QED
  BY <1>1, <1>2, <1>3, Zenon DEF CutNext

\* Every step of writes and snapshots keeps what is known of the stored data.
LEMMA CutSInv ==
  ASSUME IInv, IInv', HInv, SInv, NInv, [CutNext]_<<vars, snapVars>> PROVE SInv' /\ NInv'
<1>1. CASE SnapshotNext
  <2>1. UNCHANGED <<page, payload, nextId, exec>>
    BY <1>1, SnapshotHInv, Zenon
  <2>2. NInv'
    BY <2>1, DropsNInv, Zenon
  <2> QED
    BY <1>1, <2>2, SnapshotSInv, Zenon
<1>2. CASE (WriterNext \/ AllFinished) /\ UNCHANGED snapVars
  <2>1. NInv'
    BY <1>2, NextNInv, Zenon DEF Next
  <2>2. ASSUME NEW w \in Writers, Progress(w) \/ Failure(w) PROVE SInv'
    BY <1>2, <2>2, WriterSInv, Zenon
  <2>3. ASSUME NEW g \in Gateways, Crash(g) PROVE SInv'
    BY <1>2, <2>3, CrashDrops, DropsSInv, Zenon
  <2>4. CASE PrimaryFailover \/ AllFinished
    <3>1. UNCHANGED <<page, payload, nextId, snapState, exec>>
      BY <2>4, Zenon DEF PrimaryFailover, AllFinished, vars, meta, env
    <3> QED
      BY <1>2, <2>1, <3>1, DropsSInv, Zenon
  <2> QED
    BY <1>2, <2>1, <2>2, <2>3, <2>4, Zenon DEF WriterNext
<1>3. CASE UNCHANGED <<vars, snapVars>>
  <2>1. UNCHANGED <<page, payload, nextId, snapState, exec, snapVars>>
    BY <1>3, Zenon DEF vars, meta, env
  <2> QED
    BY <2>1, DropsSInv, DropsNInv, Zenon
<1> QED
  BY <1>1, <1>2, <1>3, Zenon DEF CutNext

\* Initially there is no snapshot.
LEMMA CutInitInv ==
  ASSUME CutInit PROVE IInv /\ HInv /\ SInv /\ NInv
<1>1. IInv /\ NInv
  BY InitIInv, InitNInv, Zenon DEF CutInit
<1>2. ~HasRoot /\ snapState = "none" /\ snapPc = "idle" /\ snapSeen = InitPage
  BY Zenon DEF CutInit, Init, SnapshotInit, HasRoot
<1>3. InitPage \in [Chunks -> Ids \cup {0}]
  BY InitPageIds, Zenon
<1>4. HInv
  BY <1>2, <1>3, Zenon DEF CutInit, SnapshotInit, HInv, SnapshotTypeOK, Handlers, Zeroes, Contents
<1>5. RootsMapped
  <2>1. \A i \in Ids : \A c \in Chunks : Rooted(i, c) => Mapped(i, c)
    BY <1>2, Zenon DEF Rooted, Mapped
  <2> QED
    BY <1>1, <2>1, Zenon DEF RootsMapped, IInv, IdsAllocated, OneChunkPerId
<1>6. \A w \in Writers : exec[w].pc = "idle"
  BY Zenon DEF CutInit, Init, NoExec
<1>7. Private /\ Cautious /\ Leaks
  BY <1>2, <1>6, Zenon DEF Private, Cautious, Leaks, Live, StoreSteps
<1> QED
  BY <1>1, <1>4, <1>5, <1>7, Zenon DEF SInv

\* The invariant of the write path with its snapshot handlers.
LEMMA CutInvariance == CutSpec => [](IInv /\ HInv /\ SInv /\ NInv)
<1>1. CutInit => IInv /\ HInv /\ SInv /\ NInv
  BY CutInitInv, Zenon
<1>2. IInv /\ HInv /\ SInv /\ NInv /\ [CutNext]_<<vars, snapVars>>
        => (IInv /\ HInv /\ SInv /\ NInv)'
  BY CutHInv, CutSInv, Zenon
<1> QED
  BY <1>1, <1>2, PTL DEF CutSpec

\* The handlers' state has its types, and a snapshot is never Available
\* without its root, whatever the order of the handlers' steps and failures
\* (CreateSnapshot captures the pages before it marks the record).
THEOREM SnapshotTypes == CutSpec => []SnapshotTypeOK
<1>1. HInv => SnapshotTypeOK
  BY Zenon DEF HInv
<1> QED
  BY <1>1, CutInvariance, PTL

\* A snapshot changes after its page was listed only through writes that had
\* planned before its Creating record, in chunks they store; a write that
\* planned later is caught by sourceWriteRequiresCopyOnWrite and stores into
\* ids that are in no page, no root and no other plan
\* (prepareWritePlanAllocations).
THEOREM SnapshotLeaks == CutSpec => []OnlyPlannedWritesLeak
<1>1. HInv /\ SInv => OnlyPlannedWritesLeak
  <2> SUFFICES ASSUME HInv, SInv, HasRoot, Live, NEW c \in Chunks, NEW s \in Sectors
               PROVE  \/ SnapshotView(c, s) = cutView[c][s]
                      \/ \E w \in planned :
                           /\ c \in DataChunks(w)
                           /\ FullChunk(w, c) => SnapshotView(c, s) = DataOf(w)
    BY Zenon DEF OnlyPlannedWritesLeak, Live
  <2>1. ViewOf(snapRoot, c, s) = SnapshotView(c, s)
    BY Zenon DEF ViewOf, SnapshotView
  <2> QED
    BY <2>1, Zenon DEF SInv, Leaks, Unleaked
<1> QED
  BY <1>1, CutInvariance, PTL

\* Data next to what is written also stays when snapshots make writes copy:
\* a partial write merges into the original chunk and stores the copy
\* (loadRemoteChunkForMerge with the base id of the plan).
THEOREM SnapshotNeighbours == CutSpec => []NeighboursKept
<1>1. NInv => NeighboursKept
  BY ReadNeighbours, Zenon
<1> QED
  BY <1>1, CutInvariance, PTL
-----------------------------------------------------------------------------
(* Sweeps *)

\* Under way without anybody disturbing it, a sweep has found what is
\* reachable, and deletes nothing of it.
Undisturbed ==
  /\ ~Busy
  /\ sweep.pc \in {"snapshots", "roots"} => Referenced(page) \subseteq sweep.refs
  /\ sweep.pc \in {"list", "delete"} => Reachable \subseteq sweep.refs

GInv ==
  /\ GcTypeOK
  /\ sweep.pc # "delete" => sweep.todo = {} /\ sweep.deleted = {}
  /\ (sweep.todo \cup sweep.deleted) \cap sweep.refs = {}
  /\ sweep.pc # "idle" /\ ~disturbed => Undisturbed

\* Without a request or a capture under way, the next step of the write path
\* and the snapshot handlers starts one, or leaves page and root alone and
\* makes no snapshot available.
LEMMA QuietOthers ==
  ASSUME IInv, HInv, CutNext, ~Busy, ~Busy'
  PROVE  UNCHANGED <<page, snapRoot>> /\ snapState' \in {snapState, "deleted"}
<1>1. \A w \in Writers : exec[w].pc = "idle" \/ Finished(w)
  BY Zenon DEF Busy
<1>2. snapPc \notin {"list", "capture", "mark"} /\ snapPc' \notin {"list", "capture", "mark"}
  BY Zenon DEF Busy
<1>3. CASE SnapshotNext
  <2>1. DeleteRead \/ DeleteMark
    BY <1>2, <1>3, Zenon DEF SnapshotNext, SnapshotBegin, SnapshotList, SnapshotCapture,
                      SnapshotAvailable, SnapshotFail
  <2> QED
    BY <2>1, Zenon DEF DeleteRead, DeleteMark, MarkSnapshotState, writeVars, meta
<1>4. CASE (WriterNext \/ AllFinished) /\ UNCHANGED snapVars
  <2>1. ASSUME NEW w \in Writers, Progress(w) \/ Failure(w) PROVE FALSE
    <3>1. exec[w].pc \in {"idle", "acked", "dead", "error"}
          /\ ~(exec[w].pc = "error" /\ exec[w].sessionLost /\ exec[w].runs < MaxRuns)
      BY <1>1, Zenon DEF Finished
    <3>2. BeginWrite(w)
      BY <2>1, <3>1, Zenon DEF Progress, Failure, LookupIdempotency, PlanPages, PlanCopyOnWrite,
           PutWriteIntent, LoadChunk, StoreChunk, PayloadDone, AcquireCommitLock,
           CommitMetadata, CommitConflict, ApplyEffects, Recover, RebaseState, RebasePages,
           HintRead, HintPut, MarkFailedRecord, MarkFailedMutation, Retry, BeginFail,
           PayloadFail, AbandonCommit, HintFail, MarkFailedLost, At
    <3>3. exec'[w].pc = "lookup"
      <4>1. PICK r \in ExecType : r = exec[w]
        BY Zenon DEF IInv, TypeOK
      <4> DEFINE e == [r EXCEPT !.pc = "lookup", !.epoch = vol.epoch,
                                !.revision = vol.revision, !.attempt = 1,
                                !.sessionLost = FALSE, !.runs = @ + 1]
      <4>2. e.pc = "lookup"
        BY Zenon DEF ExecType
      <4>3. exec' = [exec EXCEPT ![w] = e]
        BY <3>2, <4>1, Zenon DEF BeginWrite
      <4> HIDE DEF e
      <4> QED
        BY <4>2, <4>3, Zenon DEF IInv, TypeOK
    <3> QED
      BY <3>3, Zenon DEF Busy, Finished
  <2>2. ASSUME NEW g \in Gateways, Crash(g) PROVE FALSE
    BY <1>1, <2>2, Zenon DEF Crash
  <2>3. PrimaryFailover \/ AllFinished
    BY <1>4, <2>1, <2>2, Zenon DEF WriterNext
  <2> QED
    BY <1>4, <2>3, Zenon DEF PrimaryFailover, AllFinished, vars, meta, env, snapVars
<1> QED
  BY <1>3, <1>4, Zenon DEF CutNext

\* A reference is a physical chunk.
LEMMA ReferencedIds ==
  ASSUME IInv, HInv PROVE Referenced(page) \subseteq Ids /\ Referenced(snapRoot) \subseteq Ids
<1>1. page \in [Chunks -> Ids \cup {0}]
  BY Zenon DEF IInv, TypeOK
<1>2. Referenced(page) \subseteq Ids
  BY <1>1, Zenon DEF Referenced
<1>3. CASE snapRoot \in [Chunks -> Ids \cup {0}]
  BY <1>2, <1>3, Zenon DEF Referenced
<1>4. CASE snapRoot = NoRoot
  BY <1>2, <1>4, Zenon DEF Referenced, NoRoot
<1> QED
  BY <1>3, <1>4, Zenon DEF HInv, SnapshotTypeOK

\* Steps of the others beside a sweep.
LEMMA OthersGInv ==
  ASSUME IInv, HInv, GInv, OthersNext PROVE IInv' /\ HInv' /\ GInv'
<1>1. IInv' /\ HInv'
  BY CutHInv, Zenon DEF OthersNext
<1>2. UNCHANGED <<sweep, sweeps>> /\ disturbed' \in BOOLEAN /\ dropped' \subseteq Ids
  BY Zenon DEF OthersNext, GInv, GcTypeOK
<1>3. ASSUME sweep.pc # "idle", ~disturbed' PROVE Undisturbed'
  <2>1. ~disturbed /\ ~Busy'
    BY <1>3, Zenon DEF OthersNext
  <2>2. Undisturbed
    BY <1>3, <2>1, Zenon DEF GInv
  <2>3. UNCHANGED <<page, snapRoot>> /\ snapState' \in {snapState, "deleted"}
    BY <2>1, <2>2, QuietOthers, Zenon DEF Undisturbed, OthersNext
  <2>4. Referenced(page)' = Referenced(page) /\ Reachable' \subseteq Reachable
    BY <2>3, Zenon DEF Referenced, Reachable
  <2> QED
    BY <1>2, <2>1, <2>2, <2>4, Zenon DEF Undisturbed
<1>4. GInv'
  BY <1>2, <1>3, Zenon DEF GInv, GcTypeOK
<1> QED
  BY <1>1, <1>4, Zenon
SweepState ==
  [pc : SweepSteps, op : GcType, tracked : BOOLEAN, refs : SUBSET Ids, todo : SUBSET Ids,
   deleted : SUBSET Ids]

\* No sweep is a state of the sweep.
LEMMA NoSweepState ==
  /\ NoSweep \in SweepState /\ NoSweep.pc = "idle"
  /\ NoSweep.refs = {} /\ NoSweep.todo = {} /\ NoSweep.deleted = {}
  /\ \A s \in SweepSteps : [NoSweep EXCEPT !.pc = s] \in SweepState
BY Zenon DEF NoSweep, SweepState, SweepSteps, NoGc, GcType

\* A sweep changes neither page nor records, and stores nothing but zeroes.
LEMMA SweepFrame ==
  ASSUME IInv, HInv, GInv, SweepNext
  PROVE  /\ IInv' /\ HInv'
         /\ Busy' = Busy /\ Referenced(page)' = Referenced(page)
         /\ Referenced(snapRoot)' = Referenced(snapRoot)
         /\ Reachable' = Reachable /\ snapState' = snapState
<1>1. UNCHANGED othersVars
  BY Zenon DEF SweepNext, SweepRead, SweepPut, SweepPages, SweepSnapshots, SweepRoots, SweepList,
         SweepDelete, SweepFinish, SweepFail
<1>2. sweep \in SweepState
  BY Zenon DEF GInv, GcTypeOK, SweepState
<1>3. gcOp' \in GcType
  <2>1. gcOp \in GcType /\ sweep.op \in GcType /\ sweep.deleted \subseteq Ids
    BY <1>2, Zenon DEF IInv, TypeOK, SweepState
  <2>2. FinalOperation \in GcType
    BY <2>1, Zenon DEF FinalOperation, GcType
  <2>3. [sweep.op EXCEPT !.state = "failed"] \in GcType
    BY <2>1, Zenon DEF GcType
  <2> QED
    BY <2>1, <2>2, <2>3, Zenon DEF SweepNext, SweepRead, SweepPut, SweepPages, SweepSnapshots,
         SweepRoots, SweepList, SweepDelete, SweepFinish, SweepFail
<1>4. payload' \in [Ids -> [Sectors -> Contents]]
  <2>1. payload \in [Ids -> [Sectors -> Contents]] /\ Zeroes \in [Sectors -> Contents]
    BY Zenon DEF IInv, TypeOK, Zeroes, Contents
  <2> QED
    BY <2>1, Zenon DEF SweepNext, SweepRead, SweepPut, SweepPages, SweepSnapshots,
         SweepRoots, SweepList, SweepDelete, SweepFinish, SweepFail
<1>5. TypeOK'
  BY <1>1, <1>3, <1>4, Zenon DEF IInv, TypeOK, othersVars, meta, env
<1>6. IInv'
  BY <1>1, <1>5, QuietIInv, Zenon DEF othersVars, meta
<1>7. UNCHANGED <<page, exec, snapState, snapPc, snapSeen, snapRoot, deletePc, planned,
                  ackedBefore, cutView>>
  BY <1>1, Zenon DEF othersVars, meta, env, snapVars
<1>8. HInv'
  BY <1>7, Zenon DEF HInv, SnapshotTypeOK, Handlers, HasRoot
<1>9. Busy' = Busy /\ Referenced(page)' = Referenced(page)
      /\ Referenced(snapRoot)' = Referenced(snapRoot) /\ Reachable' = Reachable
  BY <1>7, Zenon DEF Busy, Finished, Referenced, Reachable
<1> QED
  BY <1>6, <1>7, <1>8, <1>9, Zenon

\* What a step of a sweep must show.
LEMMA SweepStep ==
  ASSUME IInv, HInv, GInv, SweepNext, NEW r \in SweepState, sweep' = r,
         sweeps' \in 0 .. MaxSweeps, disturbed' \in BOOLEAN, dropped' \subseteq Ids,
         r.pc # "delete" => r.todo = {} /\ r.deleted = {},
         (r.todo \cup r.deleted) \cap r.refs = {},
         r.pc # "idle" /\ ~disturbed' =>
           /\ ~Busy
           /\ r.pc \in {"snapshots", "roots"} => Referenced(page) \subseteq r.refs
           /\ r.pc \in {"list", "delete"} => Reachable \subseteq r.refs
  PROVE  GInv'
<1>1. Busy' = Busy /\ Referenced(page)' = Referenced(page) /\ Reachable' = Reachable
  BY SweepFrame, Zenon
<1>2. GcTypeOK'
  BY Zenon DEF GcTypeOK, SweepState
<1>3. sweep'.pc # "idle" /\ ~disturbed' => Undisturbed'
  BY <1>1, Zenon DEF Undisturbed
<1> QED
  BY <1>2, <1>3, Zenon DEF GInv
\* The steps of a sweep: what it marks as referenced stays marked, and it
\* deletes nothing it marked.
LEMMA SweepGInv ==
  ASSUME IInv, HInv, GInv, SweepNext PROVE IInv' /\ HInv' /\ GInv'
<1>1. IInv' /\ HInv' /\ Referenced(page) \subseteq Ids /\ Referenced(snapRoot) \subseteq Ids
  BY SweepFrame, ReferencedIds, Zenon
<1>2. PICK r \in SweepState : r = sweep
  BY Zenon DEF GInv, GcTypeOK, SweepState
<1>3. /\ sweeps \in 0 .. MaxSweeps /\ disturbed \in BOOLEAN /\ dropped \subseteq Ids
      /\ r.pc # "delete" => r.todo = {} /\ r.deleted = {}
      /\ (r.todo \cup r.deleted) \cap r.refs = {}
      /\ r.pc # "idle" /\ ~disturbed =>
           /\ ~Busy
           /\ r.pc \in {"snapshots", "roots"} => Referenced(page) \subseteq r.refs
           /\ r.pc \in {"list", "delete"} => Reachable \subseteq r.refs
  BY <1>2, Zenon DEF GInv, GcTypeOK, Undisturbed
<1>4. gcOp \in GcType /\ [gcOp EXCEPT !.state = "running"] \in GcType
  BY Zenon DEF IInv, TypeOK, GcType
<1>5. Busy \in BOOLEAN
  BY Zenon DEF Busy
<1>6. CASE SweepRead
  <2> DEFINE e == [NoSweep EXCEPT !.pc = "put", !.tracked = TRUE,
                                  !.op = [gcOp EXCEPT !.state = "running"]]
             f == [NoSweep EXCEPT !.pc = "pages"]
  <2>1. /\ e \in SweepState /\ e.pc = "put" /\ e.todo = {} /\ e.deleted = {}
        /\ f \in SweepState /\ f.pc = "pages" /\ f.todo = {} /\ f.deleted = {}
    BY <1>4, Zenon DEF NoSweep, SweepState, SweepSteps, NoGc, GcType
  <2>2. (sweep' = e \/ sweep' = f) /\ sweeps' \in 0 .. MaxSweeps /\ disturbed' = Busy
        /\ dropped' = dropped
    BY <1>3, <1>6, GcAssumption DEF SweepRead
  <2> HIDE DEF e, f
  <2>3. PICK q \in SweepState :
          sweep' = q /\ q.pc \in {"put", "pages"} /\ q.todo = {} /\ q.deleted = {}
    BY <2>1, <2>2, Zenon
  <2>4. ~disturbed' => ~Busy
    BY <2>2, Zenon
  <2> QED
    BY <1>1, <1>3, <1>5, <2>2, <2>3, <2>4, SweepStep, Zenon
<1>7. CASE SweepPut
  <2> DEFINE e == [r EXCEPT !.pc = "pages"]
             f == [NoSweep EXCEPT !.pc = "pages"]
  <2>1. /\ e \in SweepState /\ e.pc = "pages" /\ e.todo = r.todo /\ e.deleted = r.deleted
        /\ f \in SweepState /\ f.pc = "pages" /\ f.todo = {} /\ f.deleted = {}
    BY Zenon DEF NoSweep, SweepState, SweepSteps, NoGc, GcType
  <2>2. (sweep' = e \/ sweep' = f) /\ UNCHANGED <<sweeps, disturbed, dropped>>
        /\ r.pc = "put"
    BY <1>2, <1>7, Zenon DEF SweepPut
  <2> HIDE DEF e, f
  <2>3. PICK q \in SweepState :
          sweep' = q /\ q.pc = "pages" /\ q.todo = {} /\ q.deleted = {}
    BY <1>3, <2>1, <2>2, Zenon
  <2> QED
    BY <1>1, <1>3, <2>2, <2>3, SweepStep, Zenon
<1>8. CASE SweepPages
  <2> DEFINE e == [r EXCEPT !.pc = "snapshots", !.refs = Referenced(page)]
  <2>1. e \in SweepState /\ e.pc = "snapshots" /\ e.todo = r.todo /\ e.deleted = r.deleted
        /\ e.refs = Referenced(page)
    BY <1>1, Zenon DEF SweepState, SweepSteps
  <2>2. sweep' = e /\ UNCHANGED <<sweeps, disturbed, dropped>> /\ r.pc = "pages"
    BY <1>2, <1>8, Zenon DEF SweepPages
  <2> HIDE DEF e
  <2> QED
    BY <1>1, <1>3, <2>1, <2>2, SweepStep, Zenon
<1>9. CASE SweepSnapshots
  <2>1. PICK s \in {"list", "roots"} :
          /\ s = IF snapState \in {"none", "deleted"} THEN "list" ELSE "roots"
          /\ sweep' = [r EXCEPT !.pc = s]
    BY <1>2, <1>9, Zenon DEF SweepSnapshots
  <2> DEFINE e == [r EXCEPT !.pc = s]
  <2>2. e \in SweepState /\ e.pc = s /\ e.todo = r.todo /\ e.deleted = r.deleted
        /\ e.refs = r.refs
    BY Zenon DEF SweepState, SweepSteps
  <2>3. sweep' = e /\ UNCHANGED <<sweeps, disturbed, dropped>> /\ r.pc = "snapshots"
    BY <1>2, <1>9, <2>1, Zenon DEF SweepSnapshots
  <2> HIDE DEF e
  <2>4. s = "list" => Reachable = Referenced(page)
    BY <2>1, Zenon DEF Reachable
  <2> QED
    BY <1>1, <1>3, <2>2, <2>3, <2>4, SweepStep, Zenon
<1>10. CASE SweepRoots
  <2> DEFINE e == [r EXCEPT !.pc = "list", !.refs = @ \cup Referenced(snapRoot)]
  <2>1. e \in SweepState /\ e.pc = "list" /\ e.todo = r.todo /\ e.deleted = r.deleted
        /\ e.refs = r.refs \cup Referenced(snapRoot)
    BY <1>1, Zenon DEF SweepState, SweepSteps
  <2>2. sweep' = e /\ UNCHANGED <<sweeps, disturbed, dropped>> /\ r.pc = "roots"
    BY <1>2, <1>10, Zenon DEF SweepRoots
  <2> HIDE DEF e
  <2>3. Referenced(page) \subseteq r.refs => Reachable \subseteq e.refs
    BY <2>1, Zenon DEF Reachable
  <2> QED
    BY <1>1, <1>3, <2>1, <2>2, <2>3, SweepStep, Zenon
<1>11. CASE SweepList
  <2> DEFINE e == [r EXCEPT !.pc = "delete", !.todo = Candidates]
  <2>1. Candidates \subseteq Ids /\ Candidates \cap r.refs = {}
    BY <1>2, Zenon DEF Candidates, Stored
  <2>2. e \in SweepState /\ e.pc = "delete" /\ e.todo = Candidates /\ e.deleted = r.deleted
        /\ e.refs = r.refs
    BY <2>1, Zenon DEF SweepState, SweepSteps
  <2>3. sweep' = e /\ UNCHANGED <<sweeps, disturbed, dropped>> /\ r.pc = "list"
    BY <1>2, <1>11, Zenon DEF SweepList
  <2> HIDE DEF e
  <2> QED
    BY <1>1, <1>3, <2>1, <2>2, <2>3, SweepStep, Zenon
<1>12. CASE SweepDelete
  <2>1. PICK i \in r.todo :
          /\ sweep' = [r EXCEPT !.todo = @ \ {i}, !.deleted = @ \cup {i}]
          /\ dropped' = dropped \cup {i}
    BY <1>2, <1>12, Zenon DEF SweepDelete
  <2> DEFINE e == [r EXCEPT !.todo = @ \ {i}, !.deleted = @ \cup {i}]
  <2>2. e \in SweepState /\ e.pc = r.pc /\ e.todo = r.todo \ {i}
        /\ e.deleted = r.deleted \cup {i} /\ e.refs = r.refs /\ i \in Ids
    BY Zenon DEF SweepState, SweepSteps
  <2>3. sweep' = e /\ UNCHANGED <<sweeps, disturbed>> /\ r.pc = "delete"
    BY <1>2, <1>12, <2>1, Zenon DEF SweepDelete
  <2> HIDE DEF e
  <2>4. dropped' \subseteq Ids
    BY <1>3, <2>1, <2>2, Zenon
  <2> QED
    BY <1>1, <1>3, <2>2, <2>3, <2>4, SweepStep, Zenon
<1>13. CASE SweepFinish \/ SweepFail
  <2>1. sweep' = NoSweep /\ UNCHANGED <<sweeps, dropped>> /\ disturbed' = FALSE
    BY <1>13, Zenon DEF SweepFinish, SweepFail
  <2> QED
    BY <1>1, <1>3, <2>1, NoSweepState, SweepStep, Zenon
<1> QED
  BY <1>6, <1>7, <1>8, <1>9, <1>10, <1>11, <1>12, <1>13, Zenon DEF SweepNext

\* The invariant of a volume with its collector.
LEMMA GcInvariance == GcSpec => [](IInv /\ HInv /\ GInv)
<1>1. CutInit /\ GcInit => IInv /\ HInv /\ GInv
  <2>1. CutInit => IInv /\ HInv
    BY CutInitInv, Zenon
  <2>2. GcInit => GInv
    <3>1. NoSweep \in SweepState /\ NoSweep.pc = "idle" /\ NoSweep.todo = {}
          /\ NoSweep.deleted = {}
      BY NoSweepState, Zenon
    <3>2. 0 \in 0 .. MaxSweeps
      BY GcAssumption
    <3>3. GcInit => GcTypeOK
      BY <3>1, <3>2, Zenon DEF GcInit, GcTypeOK, SweepState
    <3> QED
      BY <3>1, <3>3, Zenon DEF GcInit, GInv
  <2> QED
    BY <2>1, <2>2, Zenon
<1>2. IInv /\ HInv /\ GInv /\ [SweepNext \/ OthersNext]_allVars => (IInv /\ HInv /\ GInv)'
  <2> SUFFICES ASSUME IInv, HInv, GInv, [SweepNext \/ OthersNext]_allVars
               PROVE  (IInv /\ HInv /\ GInv)'
    BY Zenon
  <2>1. CASE UNCHANGED allVars
    <3>1. UNCHANGED <<vars, snapVars, sweep, sweeps, disturbed, dropped>>
      BY <2>1, Zenon DEF allVars, gcVars
    <3>2. IInv' /\ HInv'
      BY <3>1, CutHInv, Zenon
    <3>3. UNCHANGED <<page, exec, snapState, snapPc, snapRoot>>
      BY <3>1, Zenon DEF vars, meta, env, snapVars
    <3>4. Undisturbed => Undisturbed'
      BY <3>1, <3>3, Zenon DEF Undisturbed, Busy, Finished, Referenced, Reachable
    <3>5. GInv'
      BY <3>1, <3>4, Zenon DEF GInv, GcTypeOK
    <3> QED
      BY <3>2, <3>5, Zenon
  <2> QED
    BY <2>1, SweepGInv, OthersGInv, Zenon
<1> QED
  BY <1>1, <1>2, PTL DEF GcSpec

\* The collector's state has its types beside any requests and snapshots.
THEOREM GcTypes == GcSpec => []GcTypeOK
<1>1. GInv => GcTypeOK
  BY Zenon DEF GInv
<1> QED
  BY <1>1, GcInvariance, PTL

\* A sweep that no request and no capture overlaps deletes no chunk that the
\* page or an available snapshot reads, whatever retired ids the operation it
\* took over holds, also after failed sweeps and beside a snapshot's deletion
\* (SweepVolume marks everything referenced before it lists candidates).
THEOREM GcQuietSweep == GcSpec => []QuietSweepKeepsReachable
<1>1. GInv => QuietSweepKeepsReachable
  <2> SUFFICES ASSUME GInv, ~disturbed
               PROVE  (sweep.deleted \cup sweep.todo) \cap Reachable = {}
    BY Zenon DEF QuietSweepKeepsReachable
  <2>1. CASE sweep.pc # "delete"
    BY <2>1, Zenon DEF GInv
  <2>2. CASE sweep.pc = "delete"
    <3>1. Reachable \subseteq sweep.refs
      BY <2>2, Zenon DEF GInv, Undisturbed
    <3> QED
      BY <3>1, Zenon DEF GInv
  <2> QED
    BY <2>1, <2>2, Zenon
<1> QED
  BY <1>1, GcInvariance, PTL
=============================================================================
