----------------------------- MODULE SnapshotCut -----------------------------
(***************************************************************************)
(* CreateSnapshot and DeleteSnapshot of sbs-service beside the write path  *)
(* of their source volume (WriteCommit).                                   *)
(*                                                                         *)
(* A snapshot is not cut in one transaction: the handler makes a Creating  *)
(* record, lists the live allocation pages, stores the list as the         *)
(* snapshot root and marks the record Available.  The source volume's      *)
(* planner reads the record to decide between copy on write and an         *)
(* overwrite in place.                                                     *)
(*                                                                         *)
(* Sources: cmd/sbs-service/main.go and sbs/cluster/metadata/repository.go *)
(***************************************************************************)
EXTENDS WriteCommit

CONSTANT MaxSnapshots   \* bound: snapshots of the volume, 0 or 1

ASSUME SnapshotAssumption == Chunks # {}

VARIABLES
  snapPc,      \* where the CreateSnapshot handler stands
  snapSeen,    \* the page it listed
  snapRoot,    \* the stored snapshot root: a page, or NoRoot
  deletePc,    \* where the DeleteSnapshot handler stands
  planned,     \* history: writers past their copy-on-write decision when the
               \* Creating record was made
  ackedBefore, \* history: writers acknowledged by then
  cutView      \* history: what the volume read as when its page was listed

snapVars == <<snapPc, snapSeen, snapRoot, deletePc, planned, ackedBefore, cutView>>

NoRoot == [c \in {} |-> 0]

HasRoot == snapRoot # NoRoot

\* What a read of the snapshot returns.
SnapshotView(c, s) == IF snapRoot[c] = 0 THEN ZeroData ELSE payload[snapRoot[c]][s]

SnapshotInit ==
  /\ snapPc = "idle" /\ snapSeen = InitPage /\ snapRoot = NoRoot
  /\ deletePc = "idle" /\ planned = {} /\ ackedBefore = {}
  /\ cutView = [c \in Chunks |-> Zeroes]

writeVars == <<mode, meta, nextId, payload, gcOp, lock, exec, began>>

-----------------------------------------------------------------------------
(* CreateSnapshot *)

\* createSnapshotRecord, in state Creating.
SnapshotBegin ==
  /\ snapPc = "idle" /\ snapState = "none" /\ MaxSnapshots > 0
  /\ snapState' = "creating" /\ snapPc' = "list"
  /\ planned' = {w \in Writers :
       exec[w].pc \notin {"idle", "lookup", "plan", "cow"} /\ ~Finished(w)}
  /\ ackedBefore' = {w \in Writers : At(w, "acked")}
  /\ UNCHANGED <<writeVars, snapSeen, snapRoot, deletePc, cutView>>

\* Mutant: the record becomes Available without its pages.
SnapshotListOnly ==
  /\ snapPc = "list"
  /\ snapSeen' = page /\ snapPc' = "mark"
  /\ cutView' = [c \in Chunks |-> [s \in Sectors |-> Visible(c, s)]]
  /\ UNCHANGED <<writeVars, snapState, snapRoot, deletePc, planned, ackedBefore>>

\* ListCompatibleAllocationPages.
SnapshotList ==
  /\ snapPc = "list"
  /\ snapSeen' = page /\ snapPc' = "capture"
  /\ cutView' = [c \in Chunks |-> [s \in Sectors |-> Visible(c, s)]]
  /\ UNCHANGED <<writeVars, snapState, snapRoot, deletePc, planned, ackedBefore>>

\* CaptureSnapshotAllocationPages: the pages as they were listed.
SnapshotCapture ==
  /\ snapPc = "capture"
  /\ snapRoot' = snapSeen /\ snapSeen' = InitPage /\ snapPc' = "mark"
  /\ UNCHANGED <<writeVars, snapState, deletePc, planned, ackedBefore, cutView>>

\* MarkSnapshotState sets the state it is given, whatever it was.
MarkSnapshotState(state) == snapState' = state

SnapshotAvailable ==
  /\ snapPc = "mark"
  /\ MarkSnapshotState("available") /\ snapPc' = "done"
  /\ UNCHANGED <<writeVars, snapSeen, snapRoot, deletePc, planned, ackedBefore, cutView>>

\* Listing or storing the pages fails: the record is marked Failed, or stays
\* as it is when that fails too or when the service dies.
SnapshotFail ==
  /\ snapPc \in {"list", "capture", "mark"}
  /\ snapPc' = "done"
  /\ \/ snapPc # "mark" /\ MarkSnapshotState("failed")
     \/ UNCHANGED snapState
  /\ UNCHANGED <<writeVars, snapSeen, snapRoot, deletePc, planned, ackedBefore, cutView>>

-----------------------------------------------------------------------------
(* DeleteSnapshot *)

\* GetSnapshotRecord: any state but Deleted goes on.
DeleteRead ==
  /\ deletePc = "idle" /\ snapState # "none"
  /\ deletePc' = IF snapState = "deleted" THEN "done" ELSE "mark"
  /\ UNCHANGED <<writeVars, snapState, snapPc, snapSeen, snapRoot, planned, ackedBefore, cutView>>

\* MarkSnapshotStateAuthorized.
DeleteMark ==
  /\ deletePc = "mark"
  /\ MarkSnapshotState("deleted") /\ deletePc' = "done"
  /\ UNCHANGED <<writeVars, snapPc, snapSeen, snapRoot, planned, ackedBefore, cutView>>

-----------------------------------------------------------------------------
SnapshotNext ==
  \/ SnapshotBegin \/ SnapshotList \/ SnapshotCapture \/ SnapshotAvailable
  \/ SnapshotFail \/ DeleteRead \/ DeleteMark

CutInit == Init /\ SnapshotInit

CutNext ==
  \/ SnapshotNext
  \/ (WriterNext \/ AllFinished) /\ UNCHANGED snapVars

CutSpec == CutInit /\ [][CutNext]_<<vars, snapVars>>

-----------------------------------------------------------------------------
(* Properties *)

\* The type invariant of the snapshot handlers' state; an available snapshot
\* has its root.
SnapshotTypeOK ==
  /\ snapPc \in {"idle", "list", "capture", "mark", "done"}
  /\ deletePc \in {"idle", "mark", "done"}
  /\ snapSeen \in [Chunks -> Ids \cup {0}]
  /\ snapRoot \in [Chunks -> Ids \cup {0}] \cup {NoRoot}
  /\ planned \subseteq Writers /\ ackedBefore \subseteq Writers
  /\ cutView \in [Chunks -> [Sectors -> Contents]]
  /\ snapState = "available" => HasRoot

\* "Parent overwrites ... do not change an already captured snapshot root":
\* an available snapshot reads as the volume did when its page was listed.
SnapshotImmutable ==
  snapState = "available" =>
    \A c \in Chunks, s \in Sectors : SnapshotView(c, s) = cutView[c][s]

\* Only writes that had planned before the Creating record existed can still
\* change the root of a snapshot nobody deleted, in the chunks they store, and
\* a whole-chunk one only to its own data; every later one copies on write,
\* through rebasing and retries (sourceWriteRequiresCopyOnWrite,
\* prepareWritePlanAllocations).
OnlyPlannedWritesLeak ==
  HasRoot /\ snapState \in {"creating", "available"} /\ deletePc # "done" =>
    \A c \in Chunks, s \in Sectors :
      SnapshotView(c, s) # cutView[c][s] =>
        \E w \in planned :
          /\ c \in DataChunks(w)
          /\ FullChunk(w, c) => SnapshotView(c, s) = DataOf(w)

\* A write acknowledged before the snapshot was requested is in it: an
\* available snapshot shows its data, or that of a write that was not over
\* when it began (ListCompatibleAllocationPages reads after the record).
SnapshotHasAckedWrites ==
  snapState = "available" =>
    \A w \in ackedBefore : \A cs \in Span[w] : \E x \in Writers :
      /\ cs \in Span[x] /\ SnapshotView(cs[1], cs[2]) = DataOf(x)
      /\ x = w \/ x \notin began[w].after
=============================================================================
