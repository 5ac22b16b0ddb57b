--------------------------- MODULE CloneLifecycle ---------------------------
(***************************************************************************)
(* Clones of one snapshot in sbs-service: CreateClone, DeleteClone,        *)
(* DeleteSnapshot, MaterializeClone and the writes to a clone.             *)
(*                                                                         *)
(* Every metadata operation is one transaction, but the handlers make      *)
(* several of them and nothing serialises two handlers.  MaterializeClone  *)
(* copies the clone into a new volume window by window and releases the    *)
(* snapshot reference at its end; a failure at any point takes the volume  *)
(* down again and puts the clone back.  A clone write reads the clone's    *)
(* allocation page, writes its payload to fresh chunks and commits the     *)
(* whole page.                                                             *)
(*                                                                         *)
(* Content is abstract: 0 is a chunk never written, Base the snapshot's    *)
(* data, and every clone write has a value of its own.  The chunks are     *)
(* those of one allocation page, and a copy window is one chunk.           *)
(*                                                                         *)
(* Sources: cmd/sbs-service/main.go, sbs/cluster/metadata/repository.go,   *)
(* sbs/cluster/metadata/service.go, sbs/cluster/replication/executor.go.   *)
(***************************************************************************)
EXTENDS Naturals, FiniteSets

CONSTANTS
  Clones,      \* clone ids
  Targets,     \* ids of the volumes clones are materialized into
  Workers,     \* handlers that may run at once
  Chunks,      \* chunks of the page, numbered
  NoClone, NoTarget,
  MaxWrites    \* bound: writes to clones

ASSUME CloneAssumption ==
  /\ IsFiniteSet(Clones) /\ NoClone \notin Clones
  /\ NoTarget \notin Targets
  /\ Chunks \subseteq Nat
  /\ MaxWrites \in Nat

VARIABLES
  snap,      \* SnapshotRecord: state, and CloneReferenceCount as refs
  clone,     \* CloneRecord: state and MaterializedVolumeID as target
  delta,     \* the clone's view of its page: delta page, or else the base page
  volume,    \* the target volumes: authority record present, and content
  call,      \* the handler each worker runs
  writes,    \* writes to clones so far
  muddled,   \* history: clones two conflicting handlers were on at once, or
             \* whose last transaction failed for its caller and yet applied
  crossed,   \* history: a clone was created inside a DeleteSnapshot
  last,      \* history: the last write put to each clone's chunks
  restored   \* history: the answers of MaterializeClone

vars == <<snap, clone, delta, volume, call, writes, muddled, crossed, last, restored>>

-----------------------------------------------------------------------------
Base == 1

Data == 0 .. (MaxWrites + 1)

Content == [Chunks -> Data]

BasePage == [k \in Chunks |-> Base]

BlankPage == [k \in Chunks |-> 0]

NoVolume == [exists |-> FALSE, data |-> BlankPage]

Idle == [pc |-> "idle", clone |-> NoClone, target |-> NoTarget,
         page |-> BlankPage, todo |-> {}]

MaterializePcs ==
  {"mark", "create", "put", "place", "copy", "finish", "delete", "unmark"}

Materializing(w) == call[w].pc \in MaterializePcs

\* The clones that hold a reference on the snapshot.
Holders == {c \in Clones : clone[c].state \in {"available", "materializing", "failed"}}

\* ReadClone serves these clones.
Readable(c) == clone[c].state \in {"available", "materializing"}

Goto(w, p) == call' = [call EXCEPT ![w].pc = p]

Return(w) == call' = [call EXCEPT ![w] = Idle]

\* The clones of the handlers that conflict with a handler now starting on c:
\* another change of the clone's state, or a materialization into target t.
Conflicting(c, t) ==
  LET rivals == {w \in Workers : Materializing(w) /\ (call[w].clone = c \/ call[w].target = t)}
  IN  IF rivals = {} THEN {} ELSE {c} \cup {call[w].clone : w \in rivals}

Init ==
  /\ snap = [state |-> "available", refs |-> 0]
  /\ clone = [c \in Clones |-> [state |-> "none", target |-> NoTarget]]
  /\ delta = [c \in Clones |-> BasePage]
  /\ volume = [t \in Targets |-> NoVolume]
  /\ call = [w \in Workers |-> Idle]
  /\ writes = 0
  /\ muddled = {} /\ crossed = FALSE
  /\ last = [c \in Clones |-> BasePage]
  /\ restored = {}

-----------------------------------------------------------------------------
(* Transactions of the metadata repository *)

\* Mutant: the counter is not looked at before it is decremented.
UnrefUnguarded(n) == n - 1

\* CloneReferenceCount--, never below zero.
Unref(n) == IF n > 0 THEN n - 1 ELSE 0

\* markCloneStateWithStore: no look at the state the record is in.
MarkCloneState(c, state) == clone' = [clone EXCEPT ![c].state = state]

\* markCloneMaterializedWithStore refuses these clones.
MayMaterialize(c, t) ==
  /\ clone[c].state \notin {"none", "deleted", "failed"}
  /\ clone[c].state = "materialized" => clone[c].target = t

\* Mutant: the reference on the snapshot stays.
MaterializedKeepingRef(c, t) ==
  /\ clone' = [clone EXCEPT ![c] = [state |-> "materialized", target |-> t]]
  /\ UNCHANGED snap

\* markCloneMaterializedWithStore, where it does not refuse.
MarkCloneMaterialized(c, t) ==
  \/ /\ clone[c].state = "materialized"
     /\ UNCHANGED <<clone, snap>>
  \/ /\ clone[c].state # "materialized"
     /\ clone' = [clone EXCEPT ![c] = [state |-> "materialized", target |-> t]]
     /\ snap' = [snap EXCEPT !.refs = Unref(@)]

\* deleteVolumeArtifacts: the authority record goes last, so an error on the
\* way leaves the volume without its pages, or whole.
DeleteVolumeArtifacts(t) ==
  \E left \in {NoVolume, [volume[t] EXCEPT !.data = BlankPage], volume[t]} :
    volume' = [volume EXCEPT ![t] = left]

-----------------------------------------------------------------------------
(* CreateClone, DeleteClone, DeleteSnapshot *)

CreateClone(c) ==
  /\ clone[c].state = "none" /\ snap.state = "available"
  /\ clone' = [clone EXCEPT ![c].state = "available"]
  /\ snap' = [snap EXCEPT !.refs = @ + 1]
  /\ crossed' = (crossed \/ \E w \in Workers : call[w].pc = "unsnap")
  /\ UNCHANGED <<delta, volume, call, writes, muddled, last, restored>>

\* Mutant: a materialized clone gives its reference back a second time.
DeleteCloneAlwaysUnref(c) ==
  /\ clone[c].state \notin {"none", "deleted"}
  /\ MarkCloneState(c, "deleted")
  /\ snap' = [snap EXCEPT !.refs = Unref(@)]
  /\ muddled' = muddled \cup Conflicting(c, NoTarget)
  /\ UNCHANGED <<delta, volume, call, writes, crossed, last, restored>>

\* deleteCloneRecordWithStore.
DeleteClone(c) ==
  /\ clone[c].state \notin {"none", "deleted"}
  /\ MarkCloneState(c, "deleted")
  /\ snap' = [snap EXCEPT !.refs = IF clone[c].state = "materialized" THEN @ ELSE Unref(@)]
  /\ muddled' = muddled \cup Conflicting(c, NoTarget)
  /\ UNCHANGED <<delta, volume, call, writes, crossed, last, restored>>

\* Mutant: the references are not looked at.
DeleteSnapshotUnchecked(w) ==
  /\ call[w] = Idle /\ snap.state # "deleted"
  /\ Goto(w, "unsnap")
  /\ UNCHANGED <<snap, clone, delta, volume, writes, muddled, crossed, last, restored>>

\* DeleteSnapshot reads the record ...
DeleteSnapshotRead(w) ==
  /\ call[w] = Idle /\ snap.state # "deleted"
  /\ snap.refs = 0
  /\ Goto(w, "unsnap")
  /\ UNCHANGED <<snap, clone, delta, volume, writes, muddled, crossed, last, restored>>

\* ... and marks it Deleted in a transaction of its own, unless the deletion
\* guard refuses or the transaction fails.
DeleteSnapshotMark(w) ==
  /\ call[w].pc = "unsnap"
  /\ Return(w)
  /\ snap' \in {[snap EXCEPT !.state = "deleted"], snap}
  /\ UNCHANGED <<clone, delta, volume, writes, muddled, crossed, last, restored>>

-----------------------------------------------------------------------------
(* MaterializeClone *)

\* GetCloneRecord and GetVolumeState: the clone must be Available and the
\* target free.
MaterializeRead(w, c, t) ==
  /\ call[w] = Idle /\ clone[c].state = "available" /\ ~volume[t].exists
  /\ call' = [call EXCEPT ![w] = [Idle EXCEPT !.pc = "mark", !.clone = c, !.target = t]]
  /\ muddled' = muddled \cup Conflicting(c, t)
  /\ UNCHANGED <<snap, clone, delta, volume, writes, crossed, last, restored>>

\* A Materialized clone is answered with its volume.
MaterializeReplay(c) ==
  /\ clone[c].state = "materialized"
  /\ restored' = restored \cup {<<c, clone[c].target>>}
  /\ UNCHANGED <<snap, clone, delta, volume, call, writes, muddled, crossed, last>>

\* The operation record is made and the clone marked Materializing; an error
\* returns, whether the mark applied or not.
MaterializeMark(w) ==
  /\ call[w].pc = "mark"
  /\ \/ MarkCloneState(call[w].clone, "materializing") /\ (Goto(w, "create") \/ Return(w))
     \/ UNCHANGED clone /\ Return(w)
  /\ UNCHANGED <<snap, delta, volume, writes, muddled, crossed, last, restored>>

\* CreateVolume looks for the volume once more ...
CreateCheck(w) ==
  /\ call[w].pc = "create" /\ ~volume[call[w].target].exists
  /\ Goto(w, "put")
  /\ UNCHANGED <<snap, clone, delta, volume, writes, muddled, crossed, last, restored>>

\* ... puts its authority record, over whatever is there by now ...
CreatePut(w) ==
  /\ call[w].pc = "put"
  /\ volume' = [volume EXCEPT ![call[w].target].exists = TRUE]
  /\ Goto(w, "place")
  /\ UNCHANGED <<snap, clone, delta, writes, muddled, crossed, last, restored>>

\* ... and then its placement and its zeroed allocation pages.  The copy
\* ranges are listed from the clone's pages: here, every chunk.
CreatePlace(w) ==
  /\ call[w].pc = "place"
  /\ volume' = [volume EXCEPT ![call[w].target].data = BlankPage]
  /\ call' = [call EXCEPT ![w].pc = "copy", ![w].todo = Chunks]
  /\ UNCHANGED <<snap, clone, delta, writes, muddled, crossed, last, restored>>

\* An error inside CreateVolume: its own clean-up runs first.
CreateFail(w) ==
  /\ call[w].pc \in {"put", "place"}
  /\ DeleteVolumeArtifacts(call[w].target)
  /\ Goto(w, "delete")
  /\ UNCHANGED <<snap, clone, delta, writes, muddled, crossed, last, restored>>

\* copyCloneIntoMaterializedVolume: the next window, in ascending order, read
\* from the clone and written to the volume.
CopyWindow(w) ==
  LET c == call[w].clone
      t == call[w].target
  IN  /\ call[w].pc = "copy" /\ Readable(c) /\ volume[t].exists
      /\ \E k \in call[w].todo :
           /\ \A j \in call[w].todo : k <= j
           /\ volume' = [volume EXCEPT ![t].data[k] = delta[c][k]]
           /\ call' = [call EXCEPT ![w].todo = @ \ {k},
                                   ![w].pc = IF call[w].todo = {k} THEN "finish" ELSE "copy"]
      /\ UNCHANGED <<snap, clone, delta, writes, muddled, crossed, last, restored>>

\* MarkCloneMaterialized, and the answer.
MaterializeFinish(w) ==
  LET c == call[w].clone
      t == call[w].target
  IN  /\ call[w].pc = "finish" /\ MayMaterialize(c, t)
      /\ MarkCloneMaterialized(c, t)
      /\ Return(w)
      /\ restored' = restored \cup {<<c, t>>}
      /\ UNCHANGED <<delta, volume, writes, muddled, crossed, last>>

\* MarkCloneMaterialized applies but its caller gets an error.
MaterializeUnknown(w) ==
  LET c == call[w].clone
      t == call[w].target
  IN  /\ call[w].pc = "finish" /\ MayMaterialize(c, t)
      /\ MarkCloneMaterialized(c, t)
      /\ Goto(w, "delete")
      /\ muddled' = muddled \cup {c}
      /\ UNCHANGED <<delta, volume, writes, crossed, last, restored>>

\* Any error or cancellation after the clone was marked: failMaterialize.
MaterializeFail(w) ==
  /\ call[w].pc \in {"create", "copy", "finish"}
  /\ Goto(w, "delete")
  /\ UNCHANGED <<snap, clone, delta, volume, writes, muddled, crossed, last, restored>>

\* failMaterialize takes the target volume down ...
FailDelete(w) ==
  /\ call[w].pc = "delete"
  /\ DeleteVolumeArtifacts(call[w].target)
  /\ Goto(w, "unmark")
  /\ UNCHANGED <<snap, clone, delta, writes, muddled, crossed, last, restored>>

\* ... and marks the clone Available if the call was cancelled, Failed if not;
\* an error here is ignored.
FailUnmark(w) ==
  /\ call[w].pc = "unmark"
  /\ \/ \E state \in {"available", "failed"} : MarkCloneState(call[w].clone, state)
     \/ UNCHANGED clone
  /\ Return(w)
  /\ UNCHANGED <<snap, delta, volume, writes, muddled, crossed, last, restored>>

-----------------------------------------------------------------------------
(* Writes to a clone *)

\* BeginCloneWrite: the plan holds the clone's page as it is now.
CloneWritePlan(w, c) ==
  /\ call[w] = Idle /\ Readable(c) /\ writes < MaxWrites
  /\ call' = [call EXCEPT ![w] = [Idle EXCEPT !.pc = "commit", !.clone = c, !.page = delta[c]]]
  /\ muddled' = muddled \cup {d \in {c} : \E v \in Workers :
                                   call[v].pc = "commit" /\ call[v].clone = d}
  /\ UNCHANGED <<snap, clone, delta, volume, writes, crossed, last, restored>>

\* The page CommitCloneDeltaMetadata puts: the planned one with chunk k at its
\* new copy.
NewDelta(w, k) == [call[w].page EXCEPT ![k] = Base + writes + 1]

\* Mutant: the page is put whatever state the clone is in.
CloneWriteCommitAnyState(w, k) ==
  /\ call[w].pc = "commit"
  /\ writes < MaxWrites /\ writes' = writes + 1
  /\ delta' = [delta EXCEPT ![call[w].clone] = NewDelta(w, k)]
  /\ last' = [last EXCEPT ![call[w].clone][k] = Base + writes + 1]
  /\ Return(w)
  /\ UNCHANGED <<snap, clone, volume, muddled, crossed, restored>>

\* putCloneDeltaAllocationPagesWithStore: the clone must be Available, the page
\* is replaced as a whole, and the write is answered, or fails for its caller
\* although it was put.
CloneWriteCommit(w, k) ==
  /\ call[w].pc = "commit" /\ clone[call[w].clone].state = "available"
  /\ writes < MaxWrites /\ writes' = writes + 1
  /\ delta' = [delta EXCEPT ![call[w].clone] = NewDelta(w, k)]
  /\ last' = [last EXCEPT ![call[w].clone][k] = Base + writes + 1]
  /\ Return(w)
  /\ UNCHANGED <<snap, clone, volume, muddled, crossed, restored>>

CloneWriteFail(w) ==
  /\ call[w].pc = "commit"
  /\ Return(w)
  /\ UNCHANGED <<snap, clone, delta, volume, writes, muddled, crossed, last, restored>>

-----------------------------------------------------------------------------
\* sbs-service dies; the handlers' next callers find the records as they are.
Crash ==
  /\ call # [w \in Workers |-> Idle]
  /\ call' = [w \in Workers |-> Idle]
  /\ UNCHANGED <<snap, clone, delta, volume, writes, muddled, crossed, last, restored>>

MaterializeStep(w) ==
  \/ MaterializeMark(w)
  \/ CreateCheck(w) \/ CreatePut(w) \/ CreatePlace(w) \/ CreateFail(w)
  \/ CopyWindow(w) \/ MaterializeFinish(w) \/ MaterializeUnknown(w)
  \/ MaterializeFail(w) \/ FailDelete(w) \/ FailUnmark(w)

Next ==
  \/ \E c \in Clones : CreateClone(c) \/ DeleteClone(c) \/ MaterializeReplay(c)
  \/ \E w \in Workers : DeleteSnapshotRead(w) \/ DeleteSnapshotMark(w)
  \/ \E w \in Workers, c \in Clones, t \in Targets : MaterializeRead(w, c, t)
  \/ \E w \in Workers : MaterializeStep(w)
  \/ \E w \in Workers, c \in Clones : CloneWritePlan(w, c)
  \/ \E w \in Workers, k \in Chunks : CloneWriteCommit(w, k)
  \/ \E w \in Workers : CloneWriteFail(w)
  \/ Crash

Spec == Init /\ [][Next]_vars

-----------------------------------------------------------------------------
CloneStates == {"none", "available", "materializing", "materialized", "failed", "deleted"}

CallType ==
  [pc : {"idle", "unsnap", "commit"} \cup MaterializePcs,
   clone : Clones \cup {NoClone}, target : Targets \cup {NoTarget},
   page : Content, todo : SUBSET Chunks]

\* Type invariant.  A handler that works on a clone has it, and the volume it
\* materializes into, as its arguments.
CloneTypeOK ==
  /\ snap \in [state : {"available", "deleted"}, refs : Nat]
  /\ clone \in [Clones -> [state : CloneStates, target : Targets \cup {NoTarget}]]
  /\ delta \in [Clones -> Content] /\ last \in [Clones -> Content]
  /\ volume \in [Targets -> [exists : BOOLEAN, data : Content]]
  /\ call \in [Workers -> CallType]
  /\ \A w \in Workers :
       /\ Materializing(w) => call[w].clone \in Clones /\ call[w].target \in Targets
       /\ call[w].pc = "commit" => call[w].clone \in Clones
  /\ writes \in 0 .. MaxWrites
  /\ muddled \subseteq Clones /\ crossed \in BOOLEAN
  /\ restored \subseteq Clones \X (Targets \cup {NoTarget})

\* CloneReferenceCount never exceeds the number of clones that still need the
\* snapshot, whatever handlers overlap, fail or die: no reference is leaked
\* and DeleteSnapshot is never refused for a clone that is gone.
NoReferenceLeak == snap.refs <= Cardinality(Holders)

\* While no two conflicting handlers were on one clone, and no transaction was
\* applied behind its caller's error, CloneReferenceCount is exactly the number
\* of clones that need the snapshot: through failed and cancelled
\* materializations, deletions in any state and crashes.
RefsMatchClones == muddled = {} => snap.refs = Cardinality(Holders)

\* Under the same condition, and unless CreateClone committed between the two
\* steps of DeleteSnapshot, a clone that ReadClone serves has its snapshot.
BaseKept ==
  muddled = {} /\ ~crossed => \A c \in Clones : Readable(c) => snap.state = "available"

\* The volume MaterializeClone answered with is there and holds every write put
\* to the clone, the ones that raced the copy included: such a write is
\* either copied or refused.  Only a clone that two materializations, two
\* writes or a deletion were on at once is left out.
RestoreComplete ==
  \A r \in restored : r[1] \notin muddled =>
    /\ r[2] \in Targets
    /\ volume[r[2]].exists /\ volume[r[2]].data = last[r[1]]

\* A clone that ReadClone serves always has its base snapshot: "The base
\* snapshot stays protected while the clone can fall back to it."
BaseProtected == \A c \in Clones : Readable(c) => snap.state = "available"
=============================================================================
