------------------------------ MODULE PayloadGC ------------------------------
(***************************************************************************)
(* The payload garbage collector of one volume                             *)
(* (LocalPayloadGarbageCollector.SweepVolume) beside the write path        *)
(* (WriteCommit) and the snapshot handlers (SnapshotCut).                  *)
(*                                                                         *)
(* A sweep takes over the volume's payload_gc operation, reads the chunk   *)
(* ids that the live page and the snapshot roots reference, one store call *)
(* after the other, and then deletes every candidate that is not among     *)
(* them.  Candidates are the operation's retired ids or, when it has none, *)
(* every stored chunk.  Nothing is locked and nothing is read again.       *)
(*                                                                         *)
(* Sources: sbs/cluster/replication/payload_gc.go.                         *)
(***************************************************************************)
EXTENDS SnapshotCut

CONSTANT MaxSweeps   \* bound: sweeps that start

ASSUME GcAssumption == MaxSweeps \in Nat

VARIABLES
  sweep,     \* the running sweep: step, its copy of the operation and whether
             \* it tracks it, the ids it found referenced, the candidates left
             \* and those deleted
  sweeps,    \* number of sweeps started
  disturbed, \* history: a request or a snapshot was under way while the
             \* running sweep was between its first read and its last delete
  dropped    \* history: deleted ids not stored again since

gcVars == <<sweep, sweeps, disturbed, dropped>>

SweepSteps == {"idle", "put", "pages", "snapshots", "roots", "list", "delete"}

NoSweep == [pc |-> "idle", op |-> NoGc, tracked |-> FALSE, refs |-> {}, todo |-> {},
            deleted |-> {}]

GcInit ==
  /\ sweep = NoSweep /\ sweeps = 0 /\ disturbed = FALSE /\ dropped = {}

Stored == {i \in Ids : payload[i] # Zeroes}

\* Mutant: the zero entries of a page count as references.
ReferencedAll(root) == {root[c] : c \in DOMAIN root}

\* markReferencedPayloadKeysFromAllocationPages: the ids a page maps to.
Referenced(root) == {root[c] : c \in DOMAIN root} \ {0}

\* A request between its plan and its end, or a snapshot being captured.
Busy == \/ \E w \in Writers : exec[w].pc # "idle" /\ ~Finished(w)
        \/ snapPc \in {"list", "capture", "mark"}

othersVars == <<meta, nextId, env, lock, exec, began, snapVars>>

-----------------------------------------------------------------------------
(* beginSweepMutationOperation *)

\* GetMutationOperation: the operation is taken over in whatever state it is.
\* When the read fails the sweep goes on without an operation.
SweepRead ==
  /\ sweep.pc = "idle" /\ sweeps < MaxSweeps
  /\ \/ sweep' = [NoSweep EXCEPT !.pc = "put", !.tracked = TRUE,
                                 !.op = [gcOp EXCEPT !.state = "running"]]
     \/ sweep' = [NoSweep EXCEPT !.pc = "pages"]
  /\ sweeps' = sweeps + 1 /\ disturbed' = Busy
  /\ UNCHANGED <<othersVars, payload, gcOp, dropped>>

\* PutMutationOperation.  When it fails, stored or not, the operation is no
\* longer tracked and its retired ids are forgotten.
SweepPut ==
  /\ sweep.pc = "put"
  /\ \/ gcOp' = sweep.op /\ sweep' = [sweep EXCEPT !.pc = "pages"]
     \/ gcOp' \in {gcOp, sweep.op} /\ sweep' = [NoSweep EXCEPT !.pc = "pages"]
  /\ UNCHANGED <<othersVars, payload, sweeps, disturbed, dropped>>

-----------------------------------------------------------------------------
(* referencedPayloadKeys *)

SweepPages ==
  /\ sweep.pc = "pages"
  /\ sweep' = [sweep EXCEPT !.pc = "snapshots", !.refs = Referenced(page)]
  /\ UNCHANGED <<othersVars, payload, gcOp, sweeps, disturbed, dropped>>

\* Mutant: the snapshot roots are not read.
SweepSnapshotsSkipped ==
  /\ sweep.pc = "snapshots"
  /\ sweep' = [sweep EXCEPT !.pc = "list"]
  /\ UNCHANGED <<othersVars, payload, gcOp, sweeps, disturbed, dropped>>

\* ListSnapshotRecords leaves deleted snapshots out.
SweepSnapshots ==
  /\ sweep.pc = "snapshots"
  /\ sweep' = [sweep EXCEPT !.pc =
       IF snapState \in {"none", "deleted"} THEN "list" ELSE "roots"]
  /\ UNCHANGED <<othersVars, payload, gcOp, sweeps, disturbed, dropped>>

\* ListSnapshotAllocationPages of the snapshot.
SweepRoots ==
  /\ sweep.pc = "roots"
  /\ sweep' = [sweep EXCEPT !.pc = "list", !.refs = @ \cup Referenced(snapRoot)]
  /\ UNCHANGED <<othersVars, payload, gcOp, sweeps, disturbed, dropped>>

-----------------------------------------------------------------------------
(* listCandidatePayloadKeys and the deletes *)

\* The stored keys of the retired ids, or all of the volume's, less the
\* referenced ones.
Candidates ==
  (IF sweep.op.retired = {} THEN Stored ELSE sweep.op.retired \cap Stored) \ sweep.refs

SweepList ==
  /\ sweep.pc = "list"
  /\ sweep' = [sweep EXCEPT !.pc = "delete", !.todo = Candidates]
  /\ UNCHANGED <<othersVars, payload, gcOp, sweeps, disturbed, dropped>>

SweepDelete ==
  /\ sweep.pc = "delete"
  /\ \E i \in sweep.todo :
       /\ payload' = [payload EXCEPT ![i] = Zeroes]
       /\ dropped' = dropped \cup {i}
       /\ sweep' = [sweep EXCEPT !.todo = @ \ {i}, !.deleted = @ \cup {i}]
  /\ UNCHANGED <<othersVars, gcOp, sweeps, disturbed>>

-----------------------------------------------------------------------------
(* The end of a sweep *)

\* The operation as the sweep knows it, with the ids it deleted.
FinalOperation == [state |-> "committed", retired |-> sweep.deleted]

SweepFinish ==
  /\ sweep.pc = "delete" /\ sweep.todo = {}
  /\ gcOp' = IF sweep.tracked THEN FinalOperation ELSE gcOp
  /\ sweep' = NoSweep /\ disturbed' = FALSE
  /\ UNCHANGED <<othersVars, payload, sweeps, dropped>>

\* A store call fails (a tracked operation is marked Failed, if that
\* succeeds), or the service dies.
SweepFail ==
  /\ sweep.pc # "idle"
  /\ \/ sweep.tracked /\ sweep.pc # "put" /\ gcOp' = [sweep.op EXCEPT !.state = "failed"]
     \/ UNCHANGED gcOp
  /\ sweep' = NoSweep /\ disturbed' = FALSE
  /\ UNCHANGED <<othersVars, payload, sweeps, dropped>>

-----------------------------------------------------------------------------
SweepNext ==
  \/ SweepRead \/ SweepPut \/ SweepPages \/ SweepSnapshots \/ SweepRoots
  \/ SweepList \/ SweepDelete \/ SweepFinish \/ SweepFail

\* A step of the volume's other actors, and what the history notes of it.
OthersNext ==
  /\ CutNext
  /\ UNCHANGED <<sweep, sweeps>>
  /\ disturbed' = (disturbed \/ (sweep.pc # "idle" /\ Busy'))
  /\ dropped' = {i \in dropped : payload'[i] = payload[i]}

allVars == <<vars, snapVars, gcVars>>

GcSpec == CutInit /\ GcInit /\ [][SweepNext \/ OthersNext]_allVars

-----------------------------------------------------------------------------
(* Properties *)

\* The type invariant of the collector's state.
GcTypeOK ==
  /\ sweep \in [pc : SweepSteps, op : GcType, tracked : BOOLEAN, refs : SUBSET Ids,
                todo : SUBSET Ids, deleted : SUBSET Ids]
  /\ sweeps \in 0..MaxSweeps /\ disturbed \in BOOLEAN /\ dropped \subseteq Ids

\* The ids that live reads and reads of a snapshot resolve to.
Reachable ==
  Referenced(page) \cup (IF snapState = "available" THEN Referenced(snapRoot) ELSE {})

\* "Payload objects remain live while any authoritative metadata root
\* references" them: no reachable chunk has been deleted.
ReachableKept == Reachable \cap dropped = {}

\* A sweep that no request and no snapshot capture overlaps deletes nothing
\* reachable, however stale the retired ids it works from are
\* (listCandidatePayloadKeys against referencedPayloadKeys).
QuietSweepKeepsReachable ==
  ~disturbed => (sweep.deleted \cup sweep.todo) \cap Reachable = {}
=============================================================================
