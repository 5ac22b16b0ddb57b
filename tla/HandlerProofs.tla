--------------------------- MODULE HandlerProofs ---------------------------
(***************************************************************************)
(* Proofs about what requests of sbs-service run through at the same time: *)
(* the commit lock, which serialises metadata commits (CommitLock, for any *)
(* number of goroutines, volumes and entries), and the snapshot and clone  *)
(* handlers, which nothing serialises (CloneLifecycle, for any number of   *)
(* clones, target volumes, handlers, chunks and writes).                   *)
(*                                                                         *)
(* The lock excludes because an entry that some goroutine refers to is the *)
(* one the map holds for its key; that needs the reference count to be     *)
(* exactly the number of such goroutines.                                  *)
(***************************************************************************)
EXTENDS CommitLock, CloneLifecycle, FiniteSetTheorems, TLAPS

-----------------------------------------------------------------------------
(* The commit lock *)

\* metadataCommitLock.refs counts the goroutines that hold the entry.
RefsCountUsers == \A e \in Entries : refs[e] = Cardinality(Users(e))

\* An entry in use is the map's entry for its user's key.
UsersAreMapped ==
    \A p \in Procs : Active(p) => ent[p] \in Entries /\ locks[key[p]] = ent[p]

\* No entry serves two keys.
MappedOnce ==
    \A j, k \in Keys : locks[j] = locks[k] /\ locks[j] # NoEntry => j = k

\* A mapped entry has a user whose key it is mapped for.
MappedAreUsed ==
    \A k \in Keys :
        locks[k] # NoEntry => \E p \in Procs : Active(p) /\ ent[p] = locks[k]

\* One goroutine at most holds the token of an entry.
OneHolder ==
    \A p, q \in Procs :
        (pc[p] = "holding" /\ pc[q] = "holding" /\ ent[p] = ent[q]) => p = q

LockIInv ==
    /\ TypeOK
    /\ RefsCountUsers
    /\ UsersAreMapped
    /\ MappedOnce
    /\ MappedAreUsed
    /\ OneHolder
    /\ ReleaseNeverBlocks

-----------------------------------------------------------------------------

\* The goroutines using an entry are finitely many, so refs is a number.
LEMMA UsersFinite ==
    ASSUME NEW e PROVE IsFiniteSet(Users(e)) /\ Cardinality(Users(e)) \in Nat
BY FiniteProcsAssumption, FS_Subset, FS_CardinalityType DEF Users

\* The lock set of newMetadataCommitLockSet satisfies the invariant.
LEMMA LockInitHolds == LockInit => LockIInv
<1> SUFFICES ASSUME LockInit PROVE LockIInv
    OBVIOUS
<1>1. \A e \in Entries : Users(e) = {}
    BY DEF LockInit, Users, Active
<1>2. RefsCountUsers
    BY <1>1, FS_EmptySet DEF LockInit, RefsCountUsers
<1> QED
    BY <1>2 DEF LockInit, LockIInv, TypeOK, UsersAreMapped, MappedOnce, MappedAreUsed,
                OneHolder, ReleaseNeverBlocks, Active

\* acquire's lookup of a mapped key keeps the invariant.
LEMMA LookupHitIInv ==
    ASSUME LockIInv, NEW p \in Procs, NEW k \in Keys, LookupHit(p, k)
    PROVE  LockIInv'
<1> USE DEF LockIInv
<1>1. PICK e \in Entries : e = locks[k]
    BY DEF LookupHit, TypeOK
<1>2. p \notin Users(e)
    BY DEF LookupHit, Users, Active
<1>3. /\ Users(e)' = Users(e) \cup {p}
      /\ \A f \in Entries \ {e} : Users(f)' = Users(f)
    BY <1>1, NoEntryAssumption DEF LookupHit, Users, Active, TypeOK
<1>4. RefsCountUsers'
  <2>1. refs'[e] = Cardinality(Users(e)')
    <3>1. Cardinality(Users(e) \cup {p}) = Cardinality(Users(e)) + 1
        BY <1>2, UsersFinite, FS_AddElement, Zenon
    <3> QED
        BY <1>1, <1>3, <3>1 DEF LookupHit, TypeOK, RefsCountUsers
  <2>2. ASSUME NEW f \in Entries \ {e} PROVE refs'[f] = Cardinality(Users(f)')
    BY <1>1, <1>3, <2>2 DEF LookupHit, TypeOK, RefsCountUsers
  <2> QED
    BY <2>1, <2>2 DEF RefsCountUsers
<1>5. TypeOK'
    BY <1>1 DEF LookupHit, TypeOK
<1>6. UsersAreMapped'
    BY <1>1 DEF LookupHit, TypeOK, UsersAreMapped, Active
<1>7. MappedOnce' /\ MappedAreUsed'
    BY DEF LookupHit, TypeOK, MappedOnce, MappedAreUsed, Active
<1>8. OneHolder' /\ ReleaseNeverBlocks'
    BY DEF LookupHit, TypeOK, OneHolder, ReleaseNeverBlocks
<1> QED
    BY <1>4, <1>5, <1>6, <1>7, <1>8

\* acquire's lookup that makes a new entry keeps the invariant.
LEMMA LookupMissIInv ==
    ASSUME LockIInv, NEW p \in Procs, NEW k \in Keys, NEW e \in Entries,
           LookupMiss(p, k, e)
    PROVE  LockIInv'
<1> USE DEF LockIInv
<1>1. Users(e) = {} /\ \A j \in Keys : locks[j] # e
    BY DEF LookupMiss, Fresh
<1>2. /\ Users(e)' = Users(e) \cup {p}
      /\ \A f \in Entries \ {e} : Users(f)' = Users(f)
    BY NoEntryAssumption DEF LookupMiss, Users, Active, TypeOK
<1>3. RefsCountUsers'
  <2>1. refs'[e] = Cardinality(Users(e)')
    <3>1. Users(e)' = {p}
        BY <1>1, <1>2
    <3>2. Cardinality({p}) = 1
        BY FS_Singleton
    <3> QED
        BY <3>1, <3>2 DEF LookupMiss, TypeOK
  <2>2. ASSUME NEW f \in Entries \ {e} PROVE refs'[f] = Cardinality(Users(f)')
    BY <1>2, <2>2 DEF LookupMiss, TypeOK, RefsCountUsers
  <2> QED
    BY <2>1, <2>2 DEF RefsCountUsers
<1>4. TypeOK'
    BY DEF LookupMiss, TypeOK
<1>5. UsersAreMapped'
    BY <1>1, NoEntryAssumption DEF LookupMiss, TypeOK, UsersAreMapped, Active, Users
<1>6. MappedOnce'
    BY <1>1 DEF LookupMiss, TypeOK, MappedOnce
<1>7. MappedAreUsed'
    BY <1>1 DEF LookupMiss, TypeOK, MappedAreUsed, Active
<1>8. OneHolder' /\ ReleaseNeverBlocks'
    BY <1>1 DEF LookupMiss, TypeOK, OneHolder, ReleaseNeverBlocks, Users, Active
<1> QED
    BY <1>3, <1>4, <1>5, <1>6, <1>7, <1>8

\* Receiving the token, giving up and returning the token keep the invariant.
LEMMA TokenStepsIInv ==
    ASSUME LockIInv, NEW p \in Procs, TakeToken(p) \/ Cancel(p) \/ ReturnToken(p)
    PROVE  LockIInv'
<1> USE DEF LockIInv, TakeToken, Cancel, ReturnToken
<1>0. ent[p] \in Entries
    BY DEF UsersAreMapped, Active
<1>1. \A e \in Entries : Users(e)' = Users(e)
    BY DEF Users, Active, TypeOK
<1>2. RefsCountUsers'
    BY <1>1 DEF RefsCountUsers
<1>3. TypeOK'
    BY <1>0 DEF TypeOK
<1>4. UsersAreMapped' /\ MappedOnce'
    BY DEF TypeOK, UsersAreMapped, MappedOnce, Active
<1>5. MappedAreUsed'
    BY DEF TypeOK, MappedAreUsed, Active
<1>6. OneHolder' /\ ReleaseNeverBlocks'
  <2>1. CASE TakeToken(p)
    BY <1>0, <2>1 DEF TypeOK, OneHolder, ReleaseNeverBlocks
  <2>2. CASE Cancel(p)
    BY <1>0, <2>2 DEF TypeOK, OneHolder, ReleaseNeverBlocks
  <2>3. CASE ReturnToken(p)
    BY <1>0, <2>3 DEF TypeOK, OneHolder, ReleaseNeverBlocks
  <2> QED
    BY <2>1, <2>2, <2>3
<1> QED
    BY <1>2, <1>3, <1>4, <1>5, <1>6, Zenon

\* releaseRef keeps the invariant: the entry goes exactly with its last user.
LEMMA ReleaseRefIInv ==
    ASSUME LockIInv, NEW p \in Procs, ReleaseRef(p)
    PROVE  LockIInv'
<1> USE DEF LockIInv
<1>1. PICK e \in Entries : e = ent[p] /\ locks[key[p]] = e /\ p \in Users(e)
    BY DEF ReleaseRef, UsersAreMapped, Active, Users
<1>2. /\ Users(e)' = Users(e) \ {p}
      /\ \A f \in Entries \ {e} : Users(f)' = Users(f)
    BY <1>1, NoEntryAssumption DEF ReleaseRef, Users, Active, TypeOK
<1>3. refs[e] = Cardinality(Users(e)) /\ refs[e] \in Nat /\ refs[e] # 0
    BY <1>1, UsersFinite, FS_EmptySet DEF RefsCountUsers
<1>4. refs[e] - 1 = Cardinality(Users(e) \ {p})
    BY <1>1, <1>3, UsersFinite, FS_RemoveElement, Zenon
<1>5. DropsEntry(p) <=> Users(e) \ {p} = {}
  <2>1. IsFiniteSet(Users(e) \ {p})
    BY UsersFinite, FS_RemoveElement, Zenon
  <2> QED
    BY <1>1, <1>3, <1>4, <2>1, FS_EmptySet DEF DropsEntry
<1>6. RefsCountUsers'
  <2>1. refs'[e] = Cardinality(Users(e)')
    BY <1>1, <1>2, <1>4 DEF ReleaseRef, TypeOK
  <2>2. ASSUME NEW f \in Entries \ {e} PROVE refs'[f] = Cardinality(Users(f)')
    BY <1>1, <1>2, <2>2 DEF ReleaseRef, TypeOK, RefsCountUsers
  <2> QED
    BY <2>1, <2>2 DEF RefsCountUsers
<1>7. TypeOK'
    BY <1>1, <1>3 DEF ReleaseRef, TypeOK
<1>8. UsersAreMapped'
  <2>1. SUFFICES ASSUME NEW q \in Procs, Active(q)'
                 PROVE  (ent[q] \in Entries /\ locks[key[q]] = ent[q])'
    BY DEF UsersAreMapped
  <2>2. q # p /\ Active(q) /\ ent'[q] = ent[q] /\ key' = key
    BY <2>1, Zenon DEF ReleaseRef, TypeOK, Active
  <2>3. ent[q] \in Entries /\ locks[key[q]] = ent[q]
    BY <2>2 DEF UsersAreMapped
  <2>4. CASE DropsEntry(p)
    <3>1. ent[q] # e
        BY <1>1, <1>5, <2>2, <2>4, Zenon DEF Users
    <3> QED
        BY <1>1, <2>2, <2>3, <2>4, <3>1 DEF ReleaseRef, TypeOK
  <2>5. CASE ~DropsEntry(p)
    BY <2>2, <2>3, <2>5 DEF ReleaseRef
  <2> QED
    BY <2>4, <2>5
<1>9. MappedOnce'
    BY DEF ReleaseRef, TypeOK, MappedOnce
<1>10. MappedAreUsed'
  <2>1. SUFFICES ASSUME NEW k \in Keys, locks'[k] # NoEntry
                 PROVE  \E q \in Procs : (Active(q) /\ ent[q] = locks[k])'
    BY DEF MappedAreUsed
  <2>2. locks'[k] = locks[k] /\ (DropsEntry(p) => k # key[p])
    BY <2>1 DEF ReleaseRef, TypeOK
  <2>3. CASE locks[k] = e
    <3>1. k = key[p]
        BY <1>1, <2>3, NoEntryAssumption DEF MappedOnce, TypeOK
    <3>2. PICK q \in Users(e) \ {p} : TRUE
        BY <1>5, <2>2, <3>1
    <3> QED
        BY <2>2, <2>3, <3>2 DEF Users, Active, ReleaseRef, TypeOK
  <2>4. CASE locks[k] # e
    <3>1. PICK q \in Procs : Active(q) /\ ent[q] = locks[k]
        BY <2>1, <2>2 DEF MappedAreUsed
    <3> QED
        BY <1>1, <2>2, <2>4, <3>1, Zenon DEF Active, ReleaseRef, TypeOK
  <2> QED
    BY <2>3, <2>4
<1>11. OneHolder' /\ ReleaseNeverBlocks'
    BY DEF ReleaseRef, TypeOK, OneHolder, ReleaseNeverBlocks
<1> QED
    BY <1>6, <1>7, <1>8, <1>9, <1>10, <1>11

\* Every step of the lock set keeps the invariant.
LEMMA LockNextHolds == LockIInv /\ [LockNext]_lockVars => LockIInv'
<1> SUFFICES ASSUME LockIInv, [LockNext]_lockVars PROVE LockIInv'
    BY Zenon
<1>1. CASE UNCHANGED lockVars
    BY <1>1 DEF lockVars, LockIInv, TypeOK, RefsCountUsers, UsersAreMapped, MappedOnce,
                MappedAreUsed, OneHolder, ReleaseNeverBlocks, Users, Active
<1>2. CASE LockNext
    BY <1>2, LookupHitIInv, LookupMissIInv, TokenStepsIInv, ReleaseRefIInv DEF LockNext
<1> QED
    BY <1>1, <1>2

\* The invariant holds in every reachable state of the lock set.
THEOREM LockInvariance == LockSpec => []LockIInv
BY LockInitHolds, LockNextHolds, PTL DEF LockSpec

\* Every variable keeps its type for any goroutines, volumes and entries.
THEOREM LockTypes == LockSpec => []TypeOK
<1>1. LockIInv => TypeOK
    BY DEF LockIInv
<1> QED
    BY <1>1, LockInvariance, PTL

\* acquire/release exclude: one goroutine at a time commits to a volume
\* (service.go:551-589), for any number of goroutines and volumes.
THEOREM Exclusion == LockSpec => []MutualExclusion
<1>1. LockIInv => MutualExclusion
    BY DEF LockIInv, MutualExclusion, UsersAreMapped, OneHolder, Active
<1> QED
    BY <1>1, LockInvariance, PTL

\* release never blocks on the token channel (service.go:578).
THEOREM ReleaseDoesNotBlock == LockSpec => []ReleaseNeverBlocks
<1>1. LockIInv => ReleaseNeverBlocks
    BY DEF LockIInv
<1> QED
    BY <1>1, LockInvariance, PTL

\* The map holds exactly the keys in use: no leak, no entry dropped in use
\* (service.go:582-589).
THEOREM NoEntryLeak == LockSpec => []MapHoldsUsedKeys
<1>1. LockIInv => MapHoldsUsedKeys
  <2> SUFFICES ASSUME LockIInv, NEW k \in Keys
               PROVE  locks[k] # NoEntry <=> \E p \in Procs : Active(p) /\ key[p] = k
    BY DEF MapHoldsUsedKeys
  <2>1. ASSUME locks[k] # NoEntry PROVE \E p \in Procs : Active(p) /\ key[p] = k
    <3>1. PICK p \in Procs : Active(p) /\ ent[p] = locks[k]
        BY <2>1 DEF LockIInv, MappedAreUsed
    <3>2. key[p] = k
        BY <2>1, <3>1 DEF LockIInv, TypeOK, UsersAreMapped, MappedOnce
    <3> QED
        BY <3>1, <3>2
  <2>2. ASSUME NEW p \in Procs, Active(p), key[p] = k PROVE locks[k] # NoEntry
    BY <2>2, NoEntryAssumption DEF LockIInv, UsersAreMapped
  <2> QED
    BY <2>1, <2>2
<1> QED
    BY <1>1, LockInvariance, PTL

-----------------------------------------------------------------------------
(* The records of snapshots and clones *)

VolumeType == [exists : BOOLEAN, data : Content]

SnapType == [state : {"available", "deleted"}, refs : Nat]

RecordType == [state : CloneStates, target : Targets \cup {NoTarget}]

\* The part of the type invariant about the handlers ...
CallOK ==
  /\ call \in [Workers -> CallType]
  /\ \A w \in Workers :
       /\ Materializing(w) => call[w].clone \in Clones /\ call[w].target \in Targets
       /\ call[w].pc = "commit" => call[w].clone \in Clones

\* ... and the part about the records.
RecordsOK ==
  /\ snap \in SnapType /\ clone \in [Clones -> RecordType]
  /\ delta \in [Clones -> Content] /\ last \in [Clones -> Content]
  /\ volume \in [Targets -> VolumeType]
  /\ writes \in 0 .. MaxWrites
  /\ muddled \subseteq Clones /\ crossed \in BOOLEAN
  /\ restored \subseteq Clones \X (Targets \cup {NoTarget})

\* The two parts make the type invariant.
LEMMA TypeParts == (CloneTypeOK <=> CallOK /\ RecordsOK) /\ (CloneTypeOK' <=> CallOK' /\ RecordsOK')
<1>1. CloneTypeOK <=> CallOK /\ RecordsOK
  BY Zenon DEF CloneTypeOK, CallOK, RecordsOK, VolumeType, SnapType, RecordType
<1>2. CloneTypeOK' <=> CallOK' /\ RecordsOK'
  BY DEF CloneTypeOK, CallOK, RecordsOK, VolumeType, SnapType, RecordType
<1> QED
  BY <1>1, <1>2, Zenon

\* The base and the zero page are pages.
LEMMA PageTypes ==
  /\ BasePage \in Content /\ BlankPage \in Content
  /\ NoVolume \in VolumeType
  /\ Idle \in CallType /\ Idle.pc = "idle"
BY CloneAssumption
   DEF BasePage, BlankPage, NoVolume, Idle, CallType, Content, Data, Base, VolumeType

-----------------------------------------------------------------------------
(* Handlers *)

\* A handler that returns leaves a well-typed idle worker.
LEMMA ReturnType ==
  ASSUME CallOK, NEW w \in Workers, Return(w)
  PROVE  CallOK'
BY PageTypes, Zenon DEF CallOK, Return, Materializing, MaterializePcs

\* A handler that materializes goes on with the same arguments.
LEMMA GotoType ==
  ASSUME CallOK, NEW w \in Workers, Materializing(w),
         NEW p \in MaterializePcs, Goto(w, p)
  PROVE  CallOK'
<1>1. PICK r \in CallType : r = call[w]
  BY DEF CallOK
<1>2. call[w].clone \in Clones /\ call[w].target \in Targets
  BY DEF CallOK
<1> DEFINE e == [r EXCEPT !.pc = p]
<1>3. e \in CallType /\ e.pc = p /\ e.clone = r.clone /\ e.target = r.target
  BY DEF CallType, MaterializePcs
<1>4. call' = [call EXCEPT ![w] = e]
  BY <1>1 DEF Goto, CallOK, CallType
<1> HIDE DEF e
<1> QED
  BY <1>1, <1>2, <1>3, <1>4 DEF CallOK, Materializing, MaterializePcs

\* A step that starts a handler on an idle worker, or replaces its record.
LEMMA StartType ==
  ASSUME CallOK, NEW w \in Workers, NEW e \in CallType,
         e.pc \in MaterializePcs => e.clone \in Clones /\ e.target \in Targets,
         e.pc = "commit" => e.clone \in Clones,
         call' = [call EXCEPT ![w] = e]
  PROVE  CallOK'
BY DEF CallOK, Materializing

-----------------------------------------------------------------------------
(* Types, action by action *)

\* The initial state is well typed.
LEMMA InitType == Init => CallOK /\ RecordsOK
<1> SUFFICES ASSUME Init PROVE CallOK /\ RecordsOK
  BY Zenon
<1>1. CallOK
  BY PageTypes DEF Init, CallOK, Materializing, MaterializePcs
<1>2. RecordsOK
  <2>1. snap \in SnapType /\ clone \in [Clones -> RecordType]
    BY DEF Init, SnapType, RecordType, CloneStates
  <2>2. delta \in [Clones -> Content] /\ last \in [Clones -> Content]
    BY PageTypes DEF Init
  <2>3. volume \in [Targets -> VolumeType]
    BY PageTypes DEF Init
  <2>4. writes \in 0 .. MaxWrites /\ muddled \subseteq Clones
    BY CloneAssumption DEF Init
  <2>5. crossed \in BOOLEAN /\ restored \subseteq Clones \X (Targets \cup {NoTarget})
    BY Zenon DEF Init
  <2> QED
    BY <2>1, <2>2, <2>3, <2>4, <2>5 DEF RecordsOK
<1> QED
  BY <1>1, <1>2

\* The clones a starting handler conflicts with are clones.
LEMMA ConflictType ==
  ASSUME CallOK, NEW c \in Clones, NEW t
  PROVE  Conflicting(c, t) \subseteq Clones
BY DEF CallOK, Conflicting

\* Giving a reference back leaves a snapshot record.
LEMMA UnrefType ==
  ASSUME NEW s \in SnapType
  PROVE  /\ [s EXCEPT !.refs = Unref(@)] \in SnapType
         /\ [s EXCEPT !.refs = Unref(@)].state = s.state
         /\ [s EXCEPT !.refs = Unref(@)].refs = Unref(s.refs)
BY DEF SnapType, Unref

\* CreateClone, DeleteClone and the repeated answer of MaterializeClone keep
\* the types.
LEMMA AdminType ==
  ASSUME CallOK, RecordsOK, NEW c \in Clones,
         CreateClone(c) \/ DeleteClone(c) \/ MaterializeReplay(c)
  PROVE  CallOK' /\ RecordsOK'
<1>1. CASE CreateClone(c)
  BY <1>1 DEF CreateClone, CallOK, RecordsOK, SnapType, RecordType, CloneStates, Materializing
<1>2. CASE DeleteClone(c)
  <2>1. snap' \in SnapType
    BY <1>2 DEF DeleteClone, Unref, RecordsOK, SnapType
  <2>2. clone' \in [Clones -> RecordType]
    BY <1>2 DEF DeleteClone, MarkCloneState, RecordsOK, RecordType, CloneStates
  <2>3. muddled' \subseteq Clones
    BY <1>2, ConflictType, Zenon DEF DeleteClone, RecordsOK
  <2> QED
    BY <1>2, <2>1, <2>2, <2>3 DEF DeleteClone, CallOK, RecordsOK, Materializing
<1>3. CASE MaterializeReplay(c)
  BY <1>3 DEF MaterializeReplay, CallOK, RecordsOK, RecordType, Materializing
<1> QED
  BY <1>1, <1>2, <1>3

\* DeleteSnapshot keeps the types.
LEMMA DeleteSnapshotType ==
  ASSUME CallOK, RecordsOK, NEW w \in Workers,
         DeleteSnapshotRead(w) \/ DeleteSnapshotMark(w)
  PROVE  CallOK' /\ RecordsOK'
<1>1. CASE DeleteSnapshotRead(w)
  <2> DEFINE e == [Idle EXCEPT !.pc = "unsnap"]
  <2>1. e \in CallType /\ e.pc = "unsnap"
    BY PageTypes DEF CallType, Idle
  <2>2. call' = [call EXCEPT ![w] = e]
    BY <1>1 DEF DeleteSnapshotRead, Goto, CallOK
  <2> HIDE DEF e
  <2>3. CallOK'
    BY <2>1, <2>2, StartType, Zenon DEF MaterializePcs
  <2> QED
    BY <1>1, <2>3 DEF DeleteSnapshotRead, RecordsOK
<1>2. CASE DeleteSnapshotMark(w)
  BY <1>2, ReturnType DEF DeleteSnapshotMark, RecordsOK, SnapType
<1> QED
  BY <1>1, <1>2

\* deleteVolumeArtifacts leaves a volume record or none.
LEMMA DeleteArtifactsType ==
  ASSUME RecordsOK, NEW t \in Targets, DeleteVolumeArtifacts(t)
  PROVE  volume' \in [Targets -> VolumeType]
<1>1. PICK v \in VolumeType : v = volume[t]
  BY DEF RecordsOK
<1>2. [v EXCEPT !.data = BlankPage] \in VolumeType
  BY PageTypes DEF VolumeType
<1> QED
  BY <1>1, <1>2, PageTypes DEF DeleteVolumeArtifacts, RecordsOK

\* MarkCloneMaterialized keeps the types of the records it writes.
LEMMA MaterializedType ==
  ASSUME RecordsOK, NEW c \in Clones, NEW t \in Targets, MarkCloneMaterialized(c, t)
  PROVE  snap' \in SnapType /\ clone' \in [Clones -> RecordType]
BY UnrefType DEF MarkCloneMaterialized, RecordsOK, RecordType, CloneStates

\* MarkCloneState keeps the type of the clone record.
LEMMA MarkType ==
  ASSUME RecordsOK, NEW c \in Clones, NEW state \in CloneStates, MarkCloneState(c, state)
  PROVE  clone' \in [Clones -> RecordType]
BY Zenon DEF MarkCloneState, RecordsOK, RecordType

\* The steps of MaterializeClone work on a clone and a target.
LEMMA MaterializeArgs ==
  ASSUME CallOK, NEW w \in Workers, MaterializeStep(w)
  PROVE  Materializing(w) /\ call[w].clone \in Clones /\ call[w].target \in Targets
BY DEF MaterializeStep, CallOK, Materializing, MaterializePcs, MaterializeMark,
       CreateCheck, CreatePut, CreatePlace, CreateFail, CopyWindow, MaterializeFinish,
       MaterializeUnknown, MaterializeFail, FailDelete, FailUnmark

\* The steps of MaterializeClone up to the copy keep the types.
LEMMA CreateType ==
  ASSUME CallOK, RecordsOK, NEW w \in Workers,
         Materializing(w), call[w].clone \in Clones, call[w].target \in Targets,
         \/ MaterializeMark(w) \/ CreateCheck(w) \/ CreatePut(w)
         \/ CreatePlace(w) \/ CreateFail(w)
  PROVE  CallOK' /\ RecordsOK'
<1>1. CASE MaterializeMark(w)
  <2>1. CallOK'
    BY <1>1, ReturnType, GotoType, Zenon DEF MaterializeMark, MaterializePcs
  <2>2. clone' \in [Clones -> RecordType]
    BY <1>1, MarkType, Zenon DEF MaterializeMark, CloneStates, RecordsOK
  <2> QED
    BY <1>1, <2>1, <2>2, Zenon DEF MaterializeMark, RecordsOK
<1>2. CASE CreateCheck(w)
  BY <1>2, GotoType DEF CreateCheck, MaterializePcs, RecordsOK
<1>3. CASE CreatePut(w)
  <2>1. volume' \in [Targets -> VolumeType]
    BY <1>3, Zenon DEF CreatePut, RecordsOK, VolumeType
  <2> QED
    BY <1>3, <2>1, GotoType DEF CreatePut, MaterializePcs, RecordsOK
<1>4. CASE CreatePlace(w)
  <2>1. volume' \in [Targets -> VolumeType]
    BY <1>4, PageTypes DEF CreatePlace, RecordsOK, VolumeType
  <2>2. PICK r \in CallType : r = call[w]
    BY DEF CallOK
  <2> DEFINE e == [r EXCEPT !.pc = "copy", !.todo = Chunks]
  <2>3. e \in CallType /\ e.pc = "copy" /\ e.clone = r.clone /\ e.target = r.target
    BY Zenon DEF CallType, MaterializePcs
  <2>4. call' = [call EXCEPT ![w] = e]
    BY <1>4, <2>2, Zenon DEF CreatePlace, CallOK, CallType
  <2> HIDE DEF e
  <2>5. CallOK'
    BY <2>2, <2>3, <2>4, StartType, Zenon
  <2> QED
    BY <1>4, <2>1, <2>5 DEF CreatePlace, RecordsOK
<1>5. CASE CreateFail(w)
  <2>1. CallOK'
    BY <1>5, GotoType, Zenon DEF CreateFail, MaterializePcs
  <2> QED
    BY <1>5, <2>1, DeleteArtifactsType, Zenon DEF CreateFail, RecordsOK
<1> QED
  BY <1>1, <1>2, <1>3, <1>4, <1>5, Zenon

\* A copied window leaves the volume and the handler well typed.
LEMMA CopyType ==
  ASSUME CallOK, RecordsOK, NEW w \in Workers,
         Materializing(w), call[w].clone \in Clones, call[w].target \in Targets,
         CopyWindow(w)
  PROVE  CallOK' /\ RecordsOK'
<1> DEFINE c == call[w].clone
           t == call[w].target
<1>1. PICK k \in call[w].todo :
        /\ volume' = [volume EXCEPT ![t].data[k] = delta[c][k]]
        /\ call' = [call EXCEPT ![w].todo = @ \ {k},
                                ![w].pc = IF call[w].todo = {k} THEN "finish" ELSE "copy"]
  BY Zenon DEF CopyWindow
<1>2. PICK r \in CallType : r = call[w]
  BY DEF CallOK
<1> DEFINE p == IF r.todo = {k} THEN "finish" ELSE "copy"
           e == [r EXCEPT !.todo = @ \ {k}, !.pc = p]
<1>3. e \in CallType /\ e.pc = p /\ e.clone = r.clone /\ e.target = r.target
  BY Zenon DEF CallType, MaterializePcs
<1>4. call' = [call EXCEPT ![w] = e]
  BY <1>1, <1>2, Zenon DEF CallOK, CallType
<1>5. p # "commit"
  OBVIOUS
<1> HIDE DEF e, p
<1>6. CallOK'
  BY <1>2, <1>3, <1>4, <1>5, StartType, Zenon
<1>7. k \in Chunks
  BY <1>2 DEF CallType
<1>8. volume' \in [Targets -> VolumeType]
  <2>1. PICK v \in VolumeType : v = volume[t]
    BY Zenon DEF RecordsOK
  <2> DEFINE d == [v.data EXCEPT ![k] = delta[c][k]]
  <2>2. d \in Content
    BY <1>7 DEF RecordsOK, VolumeType, Content
  <2>3. volume' = [volume EXCEPT ![t] = [v EXCEPT !.data = d]]
    BY <1>1, <2>1 DEF RecordsOK, VolumeType
  <2> HIDE DEF d
  <2>4. [v EXCEPT !.data = d] \in VolumeType
    BY <2>2, Zenon DEF VolumeType
  <2> QED
    BY <2>3, <2>4, Zenon DEF RecordsOK
<1> QED
  BY <1>6, <1>8 DEF CopyWindow, RecordsOK

\* The last steps of MaterializeClone and of failMaterialize keep the types.
LEMMA FinishType ==
  ASSUME CallOK, RecordsOK, NEW w \in Workers,
         Materializing(w), call[w].clone \in Clones, call[w].target \in Targets,
         \/ MaterializeFinish(w) \/ MaterializeUnknown(w) \/ MaterializeFail(w)
         \/ FailDelete(w) \/ FailUnmark(w)
  PROVE  CallOK' /\ RecordsOK'
<1>1. CASE MaterializeFinish(w)
  <2>1. snap' \in SnapType /\ clone' \in [Clones -> RecordType]
    BY <1>1, MaterializedType, Zenon DEF MaterializeFinish
  <2> QED
    BY <1>1, <2>1, ReturnType DEF MaterializeFinish, RecordsOK
<1>2. CASE MaterializeUnknown(w)
  <2>1. snap' \in SnapType /\ clone' \in [Clones -> RecordType]
    BY <1>2, MaterializedType, Zenon DEF MaterializeUnknown
  <2>2. CallOK'
    BY <1>2, GotoType, Zenon DEF MaterializeUnknown, MaterializePcs
  <2> QED
    BY <1>2, <2>1, <2>2 DEF MaterializeUnknown, RecordsOK
<1>3. CASE MaterializeFail(w)
  BY <1>3, GotoType, Zenon DEF MaterializeFail, MaterializePcs, RecordsOK
<1>4. CASE FailDelete(w)
  <2>1. CallOK'
    BY <1>4, GotoType, Zenon DEF FailDelete, MaterializePcs
  <2> QED
    BY <1>4, <2>1, DeleteArtifactsType, Zenon DEF FailDelete, RecordsOK
<1>5. CASE FailUnmark(w)
  <2>1. clone' \in [Clones -> RecordType]
    BY <1>5, MarkType DEF FailUnmark, CloneStates, RecordsOK
  <2> QED
    BY <1>5, <2>1, ReturnType, Zenon DEF FailUnmark, RecordsOK
<1> QED
  BY <1>1, <1>2, <1>3, <1>4, <1>5

\* A materialization that starts keeps the types.
LEMMA ReadType ==
  ASSUME CallOK, RecordsOK, NEW w \in Workers, NEW c \in Clones, NEW t \in Targets,
         MaterializeRead(w, c, t)
  PROVE  CallOK' /\ RecordsOK'
<1> DEFINE e == [Idle EXCEPT !.pc = "mark", !.clone = c, !.target = t]
<1>1. e \in CallType /\ e.pc = "mark" /\ e.clone = c /\ e.target = t
  BY PageTypes, Zenon DEF CallType, MaterializePcs, Idle
<1>2. call' = [call EXCEPT ![w] = e]
  BY DEF MaterializeRead
<1> HIDE DEF e
<1> QED
  BY <1>1, <1>2, StartType, ConflictType, Zenon DEF MaterializeRead, RecordsOK

\* A clone write that starts keeps the types.
LEMMA PlanType ==
  ASSUME CallOK, RecordsOK, NEW w \in Workers, NEW c \in Clones, CloneWritePlan(w, c)
  PROVE  CallOK' /\ RecordsOK'
<1> DEFINE e == [Idle EXCEPT !.pc = "commit", !.clone = c, !.page = delta[c]]
<1>1. e \in CallType /\ e.pc = "commit" /\ e.clone = c
  BY PageTypes, Zenon DEF CallType, Idle, RecordsOK
<1>2. call' = [call EXCEPT ![w] = e]
  BY Zenon DEF CloneWritePlan
<1> HIDE DEF e
<1> QED
  BY <1>1, <1>2, StartType, Zenon DEF CloneWritePlan, RecordsOK, MaterializePcs

\* A clone write that commits keeps the types.
LEMMA CommitType ==
  ASSUME CallOK, RecordsOK, NEW w \in Workers, NEW k \in Chunks, CloneWriteCommit(w, k)
  PROVE  CallOK' /\ RecordsOK'
<1>1. call[w].clone \in Clones /\ call[w].page \in Content
  BY Zenon DEF CloneWriteCommit, CallOK, CallType
<1>2. writes' \in 0 .. MaxWrites /\ Base + writes + 1 \in Data
  BY CloneAssumption DEF CloneWriteCommit, RecordsOK, Data, Base
<1>3. NewDelta(w, k) \in Content
  BY <1>1, <1>2 DEF NewDelta, Content
<1>4. delta' \in [Clones -> Content]
  BY <1>3, Zenon DEF CloneWriteCommit, RecordsOK
<1>5. last' \in [Clones -> Content]
  BY <1>2, Zenon DEF CloneWriteCommit, RecordsOK, Content
<1> QED
  BY <1>2, <1>4, <1>5, ReturnType, Zenon DEF CloneWriteCommit, RecordsOK

\* A clone write that fails keeps the types.
LEMMA WriteFailType ==
  ASSUME CallOK, RecordsOK, NEW w \in Workers, CloneWriteFail(w)
  PROVE  CallOK' /\ RecordsOK'
BY ReturnType, Zenon DEF CloneWriteFail, RecordsOK

\* The handlers of a crashed service are gone.
LEMMA CrashType ==
  ASSUME CallOK, RecordsOK, Crash
  PROVE  CallOK' /\ RecordsOK'
BY PageTypes DEF Crash, CallOK, RecordsOK, Materializing, MaterializePcs

-----------------------------------------------------------------------------
(* The inductive invariant *)

\* A clone that was never muddled has one handler changing its state, and its
\* state says how far that handler is.
SoleHandler ==
  \A w \in Workers : Materializing(w) /\ call[w].clone \notin muddled =>
    /\ \A v \in Workers : Materializing(v) /\ call[v].clone = call[w].clone => v = w
    /\ clone[call[w].clone].state = IF call[w].pc = "mark" THEN "available" ELSE "materializing"

\* A snapshot that is deleted, or about to be, has no clone that needs it.
DeletedUnused ==
  muddled = {} /\ ~crossed =>
    ((snap.state = "deleted" \/ \E w \in Workers : call[w].pc = "unsnap") => Holders = {})

Counted == NoReferenceLeak /\ RefsMatchClones

CInv == CallOK /\ RecordsOK /\ SoleHandler /\ Counted /\ DeletedUnused

\* There are finitely many clones.
LEMMA HoldersFinite ==
  /\ IsFiniteSet(Holders) /\ Cardinality(Holders) \in Nat
  /\ IsFiniteSet(Holders') /\ Cardinality(Holders') \in Nat
<1>1. Holders \subseteq Clones /\ Holders' \subseteq Clones
  BY Zenon DEF Holders
<1> QED
  BY <1>1, CloneAssumption, FS_Subset, FS_CardinalityType

\* A step that changes neither the records nor takes a mark back keeps the count.
LEMMA CountUnchanged ==
  ASSUME Counted, UNCHANGED <<snap, clone>>, muddled \subseteq muddled'
  PROVE  Counted' /\ Holders' = Holders
BY DEF Counted, NoReferenceLeak, RefsMatchClones, Holders

\* One clone's state changes.
LEMMA OneClone ==
  ASSUME RecordsOK, NEW c \in Clones, NEW state,
         clone'[c].state = state,
         \A d \in Clones \ {c} : clone'[d] = clone[d]
  PROVE  /\ state \in {"available", "materializing", "failed"} => Holders' = Holders \cup {c}
         /\ state \notin {"available", "materializing", "failed"} => Holders' = Holders \ {c}
BY DEF Holders

\* A clone joins the holders, or is one already.
LEMMA CountMark ==
  ASSUME Counted, RecordsOK, NEW c \in Clones, Holders' = Holders \cup {c},
         UNCHANGED snap, UNCHANGED muddled, muddled = {} => c \in Holders
  PROVE  Counted'
<1>1. Cardinality(Holders) <= Cardinality(Holders')
  BY HoldersFinite, FS_Subset
<1>2. c \in Holders => Holders' = Holders
  BY Zenon
<1>3. snap.refs \in Nat
  BY Zenon DEF RecordsOK, SnapType
<1>4. NoReferenceLeak'
  BY <1>1, <1>3, HoldersFinite DEF Counted, NoReferenceLeak
<1>5. RefsMatchClones'
  BY <1>2 DEF Counted, RefsMatchClones
<1> QED
  BY <1>4, <1>5 DEF Counted

\* A clone leaves the holders and gives its reference back.
LEMMA CountDrop ==
  ASSUME Counted, RecordsOK, NEW c \in Holders, Holders' = Holders \ {c},
         snap'.refs = Unref(snap.refs), muddled \subseteq muddled'
  PROVE  Counted'
<1>1. Cardinality(Holders') = Cardinality(Holders) - 1
  BY HoldersFinite, FS_RemoveElement, Zenon
<1>2. snap.refs \in Nat
  BY DEF RecordsOK, SnapType
<1>3. Cardinality(Holders) # 0
  BY HoldersFinite, FS_EmptySet
<1>4. NoReferenceLeak'
  BY <1>1, <1>2, <1>3, HoldersFinite DEF Counted, NoReferenceLeak, Unref
<1>5. RefsMatchClones'
  BY <1>1, <1>2, <1>3, HoldersFinite DEF Counted, RefsMatchClones, Unref
<1> QED
  BY <1>4, <1>5, Zenon DEF Counted

\* A clone that is made takes a reference.
LEMMA CountAdd ==
  ASSUME Counted, RecordsOK, NEW c, c \notin Holders, Holders' = Holders \cup {c},
         snap'.refs = snap.refs + 1, UNCHANGED muddled
  PROVE  Counted'
<1>1. Cardinality(Holders') = Cardinality(Holders) + 1
  BY HoldersFinite, FS_AddElement
<1>2. snap.refs \in Nat
  BY Zenon DEF RecordsOK, SnapType
<1> QED
  BY <1>1, <1>2, HoldersFinite DEF Counted, NoReferenceLeak, RefsMatchClones

\* What a step of one worker must show about the handlers.
LEMMA SoleKept ==
  ASSUME SoleHandler, CallOK, NEW w \in Workers,
         \A v \in Workers \ {w} : call'[v] = call[v],
         muddled \subseteq muddled',
         \A v \in Workers \ {w} : Materializing(v) /\ call[v].clone \notin muddled' =>
           clone'[call[v].clone].state = clone[call[v].clone].state,
         call'[w].pc \in MaterializePcs /\ call'[w].clone \notin muddled' =>
           /\ \A v \in Workers \ {w} : Materializing(v) => call[v].clone # call'[w].clone
           /\ clone'[call'[w].clone].state
                = IF call'[w].pc = "mark" THEN "available" ELSE "materializing"
  PROVE  SoleHandler'
BY DEF SoleHandler, Materializing

-----------------------------------------------------------------------------
(* Preservation, action by action *)

KInv == SoleHandler /\ Counted /\ DeletedUnused

\* A materialization that goes on without touching the clone records.
LEMMA Continues ==
  ASSUME CallOK, RecordsOK, KInv, NEW w \in Workers, Materializing(w), call[w].pc # "mark",
         UNCHANGED <<snap, clone, muddled, crossed>>,
         NEW e, call' = [call EXCEPT ![w] = e],
         e.pc \in MaterializePcs \ {"mark"}, e.clone = call[w].clone
  PROVE  KInv'
<1>1. call'[w] = e /\ \A v \in Workers \ {w} : call'[v] = call[v]
  BY Zenon DEF CallOK
<1>2. SoleHandler'
  BY <1>1, SoleKept DEF KInv, SoleHandler, Materializing
<1>3. Counted' /\ Holders' = Holders
  BY CountUnchanged DEF KInv
<1>4. \A v \in Workers : call'[v].pc = "unsnap" => call[v].pc = "unsnap"
  BY <1>1 DEF MaterializePcs
<1>5. DeletedUnused'
  BY <1>3, <1>4 DEF KInv, DeletedUnused
<1> QED
  BY <1>2, <1>3, <1>5 DEF KInv

\* A worker that is left idle, or with a clone write, by a step that does not
\* touch the clone records.
LEMMA Ends ==
  ASSUME CallOK, RecordsOK, KInv, NEW w \in Workers,
         UNCHANGED <<snap, clone, crossed>>, muddled \subseteq muddled',
         NEW e, call' = [call EXCEPT ![w] = e],
         e.pc \in {"idle", "commit"}
  PROVE  KInv'
<1>1. call'[w] = e /\ \A v \in Workers \ {w} : call'[v] = call[v]
  BY Zenon DEF CallOK
<1>2. SoleHandler'
  BY <1>1, SoleKept DEF KInv, MaterializePcs
<1>3. Counted' /\ Holders' = Holders
  BY CountUnchanged DEF KInv
<1>4. \A v \in Workers : call'[v].pc = "unsnap" => call[v].pc = "unsnap"
  BY <1>1
<1>5. muddled' = {} => muddled = {}
  BY Zenon
<1>6. DeletedUnused'
  BY <1>3, <1>4, <1>5 DEF KInv, DeletedUnused
<1> QED
  BY <1>2, <1>3, <1>6 DEF KInv

\* A new clone takes its reference; a snapshot under deletion is crossed.
LEMMA CreateCloneKeeps ==
  ASSUME CallOK, RecordsOK, KInv, NEW c \in Clones, CreateClone(c)
  PROVE  KInv'
<1>1. clone'[c].state = "available" /\ \A d \in Clones \ {c} : clone'[d] = clone[d]
  BY DEF CreateClone, RecordsOK, RecordType
<1>2. Holders' = Holders \cup {c} /\ c \notin Holders
  <2>1. Holders' = Holders \cup {c}
    BY <1>1, OneClone
  <2> QED
    BY <2>1, Zenon DEF CreateClone, Holders
<1>3. Counted'
  <2>1. snap'.refs = snap.refs + 1 /\ UNCHANGED muddled
    BY Zenon DEF CreateClone, RecordsOK, SnapType
  <2> QED
    BY <1>2, <2>1, CountAdd DEF KInv
<1>4. SoleHandler'
  <2>1. \A w \in Workers : Materializing(w) /\ call[w].clone \notin muddled => call[w].clone # c
    BY DEF KInv, SoleHandler, CreateClone
  <2> QED
    BY <1>1, <2>1 DEF KInv, SoleHandler, CreateClone, Materializing, CallOK
<1>5. DeletedUnused'
  BY Zenon DEF DeletedUnused, CreateClone, RecordsOK, SnapType
<1> QED
  BY <1>3, <1>4, <1>5 DEF KInv

\* A deleted clone gives its reference back unless it did so before; a
\* materialization it interrupts is marked.
LEMMA DeleteCloneKeeps ==
  ASSUME CallOK, RecordsOK, KInv, NEW c \in Clones, DeleteClone(c)
  PROVE  KInv'
<1>1. clone'[c].state = "deleted" /\ \A d \in Clones \ {c} : clone'[d] = clone[d]
  BY Zenon DEF DeleteClone, MarkCloneState, RecordsOK, RecordType
<1>2. Holders' = Holders \ {c}
  BY <1>1, OneClone
<1>3. muddled \subseteq muddled'
  BY Zenon DEF DeleteClone
<1>4. Counted'
  <2>1. CASE clone[c].state = "materialized"
    <3>1. Holders' = Holders /\ snap'.refs = snap.refs
      BY <1>2, <2>1 DEF Holders, DeleteClone, RecordsOK, SnapType
    <3> QED
      BY <1>3, <3>1 DEF KInv, Counted, NoReferenceLeak, RefsMatchClones
  <2>2. CASE clone[c].state # "materialized"
    <3>1. c \in Holders
      <4>1. clone[c].state \in CloneStates \ {"none", "deleted", "materialized"}
        BY <2>2 DEF DeleteClone, RecordsOK, RecordType
      <4> QED
        BY <4>1 DEF Holders, CloneStates
    <3>2. snap'.refs = Unref(snap.refs)
      BY <2>2 DEF DeleteClone, RecordsOK, SnapType
    <3> QED
      BY <1>2, <1>3, <3>1, <3>2, CountDrop, Zenon DEF KInv
  <2> QED
    BY <2>1, <2>2, Zenon
<1>5. SoleHandler'
  <2>1. \A w \in Workers : Materializing(w) /\ call[w].clone \notin muddled' => call[w].clone # c
    BY DEF DeleteClone, Conflicting
  <2> QED
    BY <1>1, <1>3, <2>1, Zenon DEF KInv, SoleHandler, DeleteClone, Materializing, CallOK
<1>6. DeletedUnused'
  <2>1. snap'.state = snap.state
    BY DEF DeleteClone, RecordsOK, SnapType
  <2>2. muddled' = {} => muddled = {}
    BY <1>3
  <2> QED
    BY <1>2, <2>1, <2>2 DEF KInv, DeletedUnused, DeleteClone
<1> QED
  BY <1>4, <1>5, <1>6 DEF KInv

\* DeleteSnapshot goes on only when no clone needs the snapshot.
LEMMA DeleteSnapshotKeeps ==
  ASSUME CallOK, RecordsOK, KInv, NEW w \in Workers,
         DeleteSnapshotRead(w) \/ DeleteSnapshotMark(w)
  PROVE  KInv'
<1>1. UNCHANGED <<clone, muddled, crossed>> /\ snap'.refs = snap.refs
  BY Zenon DEF DeleteSnapshotRead, DeleteSnapshotMark, RecordsOK, SnapType
<1>2. Holders' = Holders
  BY <1>1, Zenon DEF Holders
<1>3. Counted'
  BY <1>1, <1>2, Zenon DEF KInv, Counted, NoReferenceLeak, RefsMatchClones
<1>4. /\ call'[w].pc \in {"unsnap", "idle"}
      /\ \A v \in Workers \ {w} : call'[v] = call[v]
  BY PageTypes, Zenon DEF DeleteSnapshotRead, DeleteSnapshotMark, Goto, Return, CallOK, CallType
<1>5. SoleHandler'
  BY <1>1, <1>4, SoleKept, Zenon DEF KInv, MaterializePcs
<1>6. CASE DeleteSnapshotRead(w)
  <2>1. muddled = {} => Holders = {}
    BY <1>6, HoldersFinite, FS_EmptySet, Zenon DEF DeleteSnapshotRead, KInv, Counted, RefsMatchClones
  <2> QED
    BY <1>1, <1>2, <1>3, <1>5, <2>1, Zenon DEF KInv, DeletedUnused
<1>7. CASE DeleteSnapshotMark(w)
  <2>1. call[w].pc = "unsnap"
    BY <1>7 DEF DeleteSnapshotMark
  <2> QED
    BY <1>1, <1>2, <1>3, <1>5, <2>1 DEF KInv, DeletedUnused
<1> QED
  BY <1>6, <1>7

\* A materialization that starts beside a conflicting one marks both clones.
LEMMA MaterializeReadKeeps ==
  ASSUME CallOK, RecordsOK, KInv, NEW w \in Workers, NEW c \in Clones, NEW t \in Targets,
         MaterializeRead(w, c, t)
  PROVE  KInv'
<1>1. /\ call'[w].pc = "mark" /\ call'[w].clone = c
      /\ \A v \in Workers \ {w} : call'[v] = call[v]
  BY DEF MaterializeRead, CallOK, Idle
<1>2. muddled \subseteq muddled'
  BY DEF MaterializeRead
<1>3. Counted' /\ Holders' = Holders
  BY <1>2, CountUnchanged DEF MaterializeRead, KInv
<1>4. c \notin muddled' => \A v \in Workers : Materializing(v) => call[v].clone # c
  BY Zenon DEF MaterializeRead, Conflicting
<1>5. SoleHandler'
  BY <1>1, <1>2, <1>4, SoleKept DEF KInv, MaterializeRead
<1>6. DeletedUnused'
  <2>1. muddled' = {} => muddled = {}
    BY <1>2, Zenon
  <2>2. \A v \in Workers : call'[v].pc = "unsnap" => call[v].pc = "unsnap"
    BY <1>1, Zenon
  <2> QED
    BY <1>3, <2>1, <2>2 DEF KInv, DeletedUnused, MaterializeRead
<1> QED
  BY <1>3, <1>5, <1>6 DEF KInv

\* Marking a clone Materializing, Available or Failed does not add a holder
\* while no clone is muddled.
LEMMA MarkKeeps ==
  ASSUME CallOK, RecordsOK, KInv, NEW w \in Workers, Materializing(w),
         NEW c \in Clones, c = call[w].clone,
         NEW state \in {"available", "materializing", "failed"}, MarkCloneState(c, state),
         UNCHANGED <<snap, muddled, crossed>>,
         NEW e, call' = [call EXCEPT ![w] = e],
         \/ e.pc = "idle"
         \/ e.pc = "create" /\ e.clone = c /\ state = "materializing"
  PROVE  KInv'
<1>1. call'[w] = e /\ \A v \in Workers \ {w} : call'[v] = call[v]
  BY DEF CallOK
<1>2. clone'[c].state = state /\ \A d \in Clones \ {c} : clone'[d] = clone[d]
  BY Zenon DEF MarkCloneState, RecordsOK, RecordType
<1>3. Holders' = Holders \cup {c}
  BY <1>2, OneClone, Zenon
<1>4. muddled = {} => c \in Holders
  BY Zenon DEF KInv, SoleHandler, Holders
<1>5. Counted'
  BY <1>3, <1>4, CountMark, Zenon DEF KInv
<1>6. c \notin muddled => \A v \in Workers \ {w} : Materializing(v) => call[v].clone # c
  BY Zenon DEF KInv, SoleHandler
<1>7. \A v \in Workers : Materializing(v) => call[v].clone \in Clones
  BY Zenon DEF CallOK
<1>8. SoleHandler'
  <2>1. \A v \in Workers \ {w} : Materializing(v) /\ call[v].clone \notin muddled' =>
          clone'[call[v].clone].state = clone[call[v].clone].state
    BY <1>2, <1>6, <1>7, Zenon
  <2>2. call'[w].pc \in MaterializePcs => call'[w].pc = "create" /\ call'[w].clone = c
                                          /\ clone'[c].state = "materializing"
    BY <1>1, <1>2, Zenon DEF MaterializePcs
  <2> QED
    BY <1>1, <1>6, <2>1, <2>2, SoleKept DEF KInv
<1>9. DeletedUnused'
  <2>1. \A v \in Workers : call'[v].pc = "unsnap" => call[v].pc = "unsnap"
    BY <1>1, Zenon
  <2> QED
    BY <1>3, <1>4, <2>1, Zenon DEF KInv, DeletedUnused
<1> QED
  BY <1>5, <1>8, <1>9 DEF KInv

\* MarkCloneMaterialized gives the reference back once.
LEMMA MaterializedKeeps ==
  ASSUME CallOK, RecordsOK, KInv, NEW w \in Workers, Materializing(w),
         NEW c \in Clones, c = call[w].clone, NEW t,
         MayMaterialize(c, t), MarkCloneMaterialized(c, t),
         muddled \subseteq muddled', UNCHANGED crossed,
         NEW e, call' = [call EXCEPT ![w] = e],
         \/ e.pc = "idle"
         \/ e.pc = "delete" /\ e.clone = c /\ c \in muddled'
  PROVE  KInv'
<1>1. call'[w] = e /\ \A v \in Workers \ {w} : call'[v] = call[v]
  BY Zenon DEF CallOK
<1>2. /\ \A d \in Clones \ {c} : clone'[d] = clone[d]
      /\ clone'[c].state = "materialized"
  BY DEF MarkCloneMaterialized, RecordsOK, RecordType
<1>3. Holders' = Holders \ {c}
  BY <1>2, OneClone, Zenon
<1>4. Counted'
  <2>1. CASE clone[c].state = "materialized"
    BY <2>1, CountUnchanged, Zenon DEF MarkCloneMaterialized, KInv
  <2>2. CASE clone[c].state # "materialized"
    <3>1. c \in Holders
      <4>1. clone[c].state \in CloneStates \ {"none", "deleted", "failed", "materialized"}
        BY <2>2 DEF MayMaterialize, RecordsOK, RecordType
      <4> QED
        BY <4>1, Zenon DEF Holders, CloneStates
    <3>2. snap'.refs = Unref(snap.refs)
      BY <2>2, UnrefType, Zenon DEF MarkCloneMaterialized, RecordsOK
    <3> QED
      BY <1>3, <3>1, <3>2, CountDrop, Zenon DEF KInv
  <2> QED
    BY <2>1, <2>2
<1>5. c \notin muddled => \A v \in Workers \ {w} : Materializing(v) => call[v].clone # c
  BY Zenon DEF KInv, SoleHandler
<1>6. SoleHandler'
  <2>1. \A v \in Workers \ {w} : Materializing(v) /\ call[v].clone \notin muddled' =>
          clone'[call[v].clone].state = clone[call[v].clone].state
    BY <1>2, <1>5, Zenon DEF CallOK
  <2>2. ~(call'[w].pc \in MaterializePcs /\ call'[w].clone \notin muddled')
    BY <1>1, Zenon DEF MaterializePcs
  <2> QED
    BY <1>1, <2>1, <2>2, SoleKept, Zenon DEF KInv
<1>7. DeletedUnused'
  <2>1. snap'.state = snap.state
    BY UnrefType, Zenon DEF MarkCloneMaterialized, RecordsOK
  <2>2. \A v \in Workers : call'[v].pc = "unsnap" => call[v].pc = "unsnap"
    BY <1>1, Zenon
  <2>3. muddled' = {} => muddled = {}
    OBVIOUS
  <2> QED
    BY <1>3, <2>1, <2>2, <2>3 DEF KInv, DeletedUnused
<1> QED
  BY <1>4, <1>6, <1>7, Zenon DEF KInv

\* A handler's step to p, as the lemmas above take it.
LEMMA GotoRecord ==
  ASSUME CallOK, NEW w \in Workers, NEW p, Goto(w, p)
  PROVE  \E e : call' = [call EXCEPT ![w] = e] /\ e.pc = p /\ e.clone = call[w].clone
<1> DEFINE e == [call[w] EXCEPT !.pc = p]
<1>1. call' = [call EXCEPT ![w] = e] /\ e.pc = p /\ e.clone = call[w].clone
  BY Zenon DEF CallOK, CallType, Goto
<1> QED
  BY <1>1, Zenon

\* The steps of MaterializeClone keep the invariant.
LEMMA MaterializeKeeps ==
  ASSUME CallOK, RecordsOK, KInv, NEW w \in Workers, MaterializeStep(w)
  PROVE  KInv'
<1>0. Materializing(w) /\ call[w].clone \in Clones /\ call[w].target \in Targets
  BY MaterializeArgs, Zenon
<1>1. CASE MaterializeMark(w)
  <2>1. CASE MarkCloneState(call[w].clone, "materializing") /\ Goto(w, "create")
    <3>1. PICK e : call' = [call EXCEPT ![w] = e] /\ e.pc = "create" /\ e.clone = call[w].clone
      BY <2>1, GotoRecord
    <3> QED
      BY <1>0, <1>1, <2>1, <3>1, MarkKeeps, Zenon DEF MaterializeMark
  <2>2. CASE MarkCloneState(call[w].clone, "materializing") /\ Return(w)
    BY <1>0, <1>1, <2>2, PageTypes, MarkKeeps, Zenon DEF MaterializeMark, Return
  <2>3. CASE UNCHANGED clone /\ Return(w)
    BY <1>1, <2>3, PageTypes, Ends, Zenon DEF MaterializeMark, Return
  <2> QED
    BY <1>1, <2>1, <2>2, <2>3 DEF MaterializeMark
<1>2. CASE CreateCheck(w)
  <2>1. PICK e : call' = [call EXCEPT ![w] = e] /\ e.pc = "put" /\ e.clone = call[w].clone
    BY <1>2, GotoRecord DEF CreateCheck
  <2> QED
    BY <1>0, <1>2, <2>1, Continues, Zenon DEF CreateCheck, MaterializePcs
<1>3. CASE CreatePut(w)
  <2>1. PICK e : call' = [call EXCEPT ![w] = e] /\ e.pc = "place" /\ e.clone = call[w].clone
    BY <1>3, GotoRecord DEF CreatePut
  <2> QED
    BY <1>0, <1>3, <2>1, Continues, Zenon DEF CreatePut, MaterializePcs
<1>4. CASE CreatePlace(w)
  <2> DEFINE e == [call[w] EXCEPT !.pc = "copy", !.todo = Chunks]
  <2>1. call' = [call EXCEPT ![w] = e] /\ e.pc = "copy" /\ e.clone = call[w].clone
    BY <1>4, Zenon DEF CreatePlace, CallOK, CallType
  <2> HIDE DEF e
  <2> QED
    BY <1>0, <1>4, <2>1, Continues, Zenon DEF CreatePlace, MaterializePcs
<1>5. CASE CreateFail(w)
  <2>1. PICK e : call' = [call EXCEPT ![w] = e] /\ e.pc = "delete" /\ e.clone = call[w].clone
    BY <1>5, GotoRecord DEF CreateFail
  <2> QED
    BY <1>0, <1>5, <2>1, Continues, Zenon DEF CreateFail, MaterializePcs
<1>6. CASE CopyWindow(w)
  <2>1. PICK k \in call[w].todo :
          call' = [call EXCEPT ![w].todo = @ \ {k},
                               ![w].pc = IF call[w].todo = {k} THEN "finish" ELSE "copy"]
    BY <1>6, Zenon DEF CopyWindow
  <2> DEFINE e == [call[w] EXCEPT !.todo = @ \ {k},
                                  !.pc = IF call[w].todo = {k} THEN "finish" ELSE "copy"]
  <2>2. /\ call' = [call EXCEPT ![w] = e]
        /\ e.pc \in {"finish", "copy"} /\ e.clone = call[w].clone
    BY <2>1, Zenon DEF CallOK, CallType
  <2> HIDE DEF e
  <2> QED
    BY <1>0, <1>6, <2>2, Continues, Zenon DEF CopyWindow, MaterializePcs
<1>7. CASE MaterializeFinish(w)
  BY <1>0, <1>7, PageTypes, MaterializedKeeps, Zenon DEF MaterializeFinish, Return
<1>8. CASE MaterializeUnknown(w)
  <2>1. PICK e : call' = [call EXCEPT ![w] = e] /\ e.pc = "delete" /\ e.clone = call[w].clone
    <3>1. Goto(w, "delete")
      BY <1>8 DEF MaterializeUnknown
    <3> QED
      BY <3>1, GotoRecord, Zenon
  <2> QED
    BY <1>0, <1>8, <2>1, MaterializedKeeps, Zenon DEF MaterializeUnknown
<1>9. CASE MaterializeFail(w)
  <2>1. PICK e : call' = [call EXCEPT ![w] = e] /\ e.pc = "delete" /\ e.clone = call[w].clone
    BY <1>9, GotoRecord DEF MaterializeFail
  <2> QED
    BY <1>0, <1>9, <2>1, Continues, Zenon DEF MaterializeFail, MaterializePcs
<1>10. CASE FailDelete(w)
  <2>1. PICK e : call' = [call EXCEPT ![w] = e] /\ e.pc = "unmark" /\ e.clone = call[w].clone
    BY <1>10, GotoRecord, Zenon DEF FailDelete
  <2> QED
    BY <1>0, <1>10, <2>1, Continues, Zenon DEF FailDelete, MaterializePcs
<1>11. CASE FailUnmark(w)
  <2>1. CASE UNCHANGED clone
    BY <1>11, <2>1, PageTypes, Ends, Zenon DEF FailUnmark, Return
  <2>2. CASE \E state \in {"available", "failed"} : MarkCloneState(call[w].clone, state)
    BY <1>0, <1>11, <2>2, PageTypes, MarkKeeps, Zenon DEF FailUnmark, Return
  <2> QED
    BY <1>11, <2>1, <2>2 DEF FailUnmark
<1> QED
  BY <1>1, <1>2, <1>3, <1>4, <1>5, <1>6, <1>7, <1>8, <1>9, <1>10, <1>11, Zenon DEF MaterializeStep

\* The repeated answer of MaterializeClone changes none of it.
LEMMA ReplayKeeps ==
  ASSUME KInv, NEW c \in Clones, MaterializeReplay(c)
  PROVE  KInv'
BY DEF MaterializeReplay, KInv, SoleHandler, Counted, NoReferenceLeak, RefsMatchClones,
       DeletedUnused, Holders, Materializing

\* A clone write that starts does not touch the records.
LEMMA PlanKeeps ==
  ASSUME CallOK, RecordsOK, KInv, NEW w \in Workers, NEW c \in Clones, CloneWritePlan(w, c)
  PROVE  KInv'
<1> DEFINE e == [Idle EXCEPT !.pc = "commit", !.clone = c, !.page = delta[c]]
<1>1. call' = [call EXCEPT ![w] = e] /\ e.pc = "commit"
  BY Zenon DEF CloneWritePlan, Idle
<1> HIDE DEF e
<1> QED
  BY <1>1, Ends, Zenon DEF CloneWritePlan

\* A crash forgets the handlers and keeps the records.
LEMMA CrashKeeps ==
  ASSUME CallOK, RecordsOK, KInv, Crash
  PROVE  KInv'
<1>1. Counted' /\ Holders' = Holders
  BY CountUnchanged, Zenon DEF Crash, KInv
<1>2. \A w \in Workers : call'[w].pc = "idle"
  BY PageTypes, Zenon DEF Crash
<1> QED
  BY <1>1, <1>2, Zenon DEF Crash, KInv, SoleHandler, DeletedUnused, Materializing, MaterializePcs

\* Every step keeps the inductive invariant.
LEMMA StepKeeps == CInv /\ [Next]_vars => CInv'
<1> SUFFICES ASSUME CInv, [Next]_vars PROVE CInv'
  OBVIOUS
<1>0. CallOK /\ RecordsOK /\ KInv
  BY Zenon DEF CInv, KInv
<1>1. ASSUME NEW c \in Clones, CreateClone(c) \/ DeleteClone(c) \/ MaterializeReplay(c)
      PROVE  CallOK' /\ RecordsOK' /\ KInv'
  BY <1>0, <1>1, AdminType, CreateCloneKeeps, DeleteCloneKeeps, ReplayKeeps, Zenon
<1>2. ASSUME NEW w \in Workers, DeleteSnapshotRead(w) \/ DeleteSnapshotMark(w)
      PROVE  CallOK' /\ RecordsOK' /\ KInv'
  BY <1>0, <1>2, DeleteSnapshotType, DeleteSnapshotKeeps, Zenon
<1>3. ASSUME NEW w \in Workers, NEW c \in Clones, NEW t \in Targets, MaterializeRead(w, c, t)
      PROVE  CallOK' /\ RecordsOK' /\ KInv'
  BY <1>0, <1>3, ReadType, MaterializeReadKeeps, Zenon
<1>4. ASSUME NEW w \in Workers, MaterializeStep(w)
      PROVE  CallOK' /\ RecordsOK' /\ KInv'
  <2>1. CallOK' /\ RecordsOK'
    BY <1>0, <1>4, MaterializeArgs, CreateType, CopyType, FinishType, Zenon DEF MaterializeStep
  <2> QED
    BY <1>0, <1>4, <2>1, MaterializeKeeps, Zenon
<1>5. ASSUME NEW w \in Workers, NEW c \in Clones, CloneWritePlan(w, c)
      PROVE  CallOK' /\ RecordsOK' /\ KInv'
  BY <1>0, <1>5, PlanType, PlanKeeps, Zenon
<1>6. ASSUME NEW w \in Workers, NEW k \in Chunks, CloneWriteCommit(w, k)
      PROVE  CallOK' /\ RecordsOK' /\ KInv'
  <2>1. KInv'
    BY <1>0, <1>6, PageTypes, Ends, Zenon DEF CloneWriteCommit, Return
  <2> QED
    BY <1>0, <1>6, <2>1, CommitType
<1>7. ASSUME NEW w \in Workers, CloneWriteFail(w)
      PROVE  CallOK' /\ RecordsOK' /\ KInv'
  <2>1. KInv'
    BY <1>0, <1>7, PageTypes, Ends, Zenon DEF CloneWriteFail, Return
  <2> QED
    BY <1>0, <1>7, <2>1, WriteFailType
<1>8. CASE Crash
  BY <1>0, <1>8, CrashType, CrashKeeps DEF CInv, KInv
<1>9. CASE UNCHANGED vars
  BY <1>0, <1>9, Zenon DEF vars, CInv, CallOK, RecordsOK, SoleHandler, Counted, NoReferenceLeak,
     RefsMatchClones, DeletedUnused, Holders, Materializing
<1> QED
  BY <1>1, <1>2, <1>3, <1>4, <1>5, <1>6, <1>7, <1>8, <1>9 DEF Next, CInv, KInv

\* No clone exists at the start.
LEMMA InitKeeps == Init => CInv
<1> SUFFICES ASSUME Init PROVE CInv
  OBVIOUS
<1>1. Holders = {} /\ Cardinality(Holders) = 0
  <2>1. Holders = {}
    BY Zenon DEF Init, Holders
  <2> QED
    BY <2>1, FS_EmptySet, Zenon
<1>2. Counted
  BY <1>1 DEF Init, Counted, NoReferenceLeak, RefsMatchClones
<1>3. SoleHandler
  BY PageTypes, Zenon DEF Init, SoleHandler, Materializing, MaterializePcs
<1> QED
  BY <1>1, <1>2, <1>3, InitType DEF CInv, DeletedUnused

-----------------------------------------------------------------------------
(* What MaterializeClone answers *)

\* A volume is filled by one handler, unless the clones involved are muddled.
SoleTarget ==
  \A w \in Workers : Materializing(w) /\ call[w].clone \notin muddled =>
    \A v \in Workers : Materializing(v) /\ call[v].target = call[w].target => v = w

\* A planned clone write holds the clone's page as it still is, and nobody else
\* plans one: the page is what was written last.
PageOf(c) ==
  /\ delta[c] = last[c]
  /\ \A w \in Workers : call[w].pc = "commit" /\ call[w].clone = c =>
       /\ call[w].page = delta[c]
       /\ \A v \in Workers : call[v].pc = "commit" /\ call[v].clone = c => v = w

PagesMatch == \A c \in Clones \ muddled : PageOf(c)

\* The windows a handler has copied are in the volume as the clone has them.
Copying(w) ==
  /\ volume[call[w].target].exists
  /\ call[w].pc # "place" =>
       \A k \in Chunks \ call[w].todo :
         volume[call[w].target].data[k] = delta[call[w].clone][k]
  /\ call[w].pc = "finish" => call[w].todo = {}

FillPcs == {"place", "copy", "finish"}

CopiesMatch ==
  \A w \in Workers : call[w].pc \in FillPcs /\ call[w].clone \notin muddled => Copying(w)

\* The volume t is, or was, the answer for clone c.
Answer(c, t) ==
  \/ clone[c].state = "materialized" /\ t = clone[c].target
  \/ <<c, t>> \in restored

\* It holds the clone's last writes, and no handler is on it any more.
Held(c, t) ==
  /\ t \in Targets /\ clone[c].state \in {"materialized", "deleted"}
  /\ volume[t].exists /\ volume[t].data = last[c]
  /\ \A w \in Workers : Materializing(w) => call[w].target # t

AnswersHeld ==
  \A c \in Clones \ muddled : \A t \in Targets \cup {NoTarget} : Answer(c, t) => Held(c, t)

RInv == SoleTarget /\ PagesMatch /\ CopiesMatch /\ AnswersHeld

\* What a step of one worker must show to keep the volumes apart.
LEMMA TargetKept ==
  ASSUME SoleTarget, NEW w \in Workers,
         \A v \in Workers \ {w} : call'[v] = call[v],
         muddled \subseteq muddled',
         call'[w].pc \in MaterializePcs =>
           \/ /\ Materializing(w)
              /\ call'[w].clone = call[w].clone /\ call'[w].target = call[w].target
           \/ \A v \in Workers \ {w} : Materializing(v) /\ call[v].target = call'[w].target =>
                call[v].clone \in muddled' /\ call'[w].clone \in muddled'
  PROVE  SoleTarget'
BY DEF SoleTarget, Materializing

\* ... to keep the clone pages, when it writes none ...
LEMMA PagesKept ==
  ASSUME PagesMatch, NEW w \in Workers,
         \A v \in Workers \ {w} : call'[v] = call[v],
         muddled \subseteq muddled', UNCHANGED <<delta, last>>,
         call'[w].pc # "commit"
  PROVE  PagesMatch'
BY DEF PagesMatch, PageOf

\* The volumes a step leaves alone: all but the one its handler fills.
Elsewhere(w) ==
  \A t \in Targets : ~(Materializing(w) /\ call[w].target = t) => volume'[t] = volume[t]

\* ... to keep the copies of the other handlers, when it has one of its own ...
LEMMA CopiesKept ==
  ASSUME CallOK, SoleTarget, CopiesMatch, NEW w \in Workers,
         \A v \in Workers \ {w} : call'[v] = call[v],
         muddled \subseteq muddled', Elsewhere(w),
         \A v \in Workers \ {w} : call[v].pc \in FillPcs /\ call[v].clone \notin muddled' =>
           delta'[call[v].clone] = delta[call[v].clone],
         call'[w].pc \in FillPcs /\ call'[w].clone \notin muddled' => Copying(w)'
  PROVE  CopiesMatch'
<1> SUFFICES ASSUME NEW v \in Workers, call'[v].pc \in FillPcs, call'[v].clone \notin muddled'
             PROVE  Copying(v)'
  BY Zenon DEF CopiesMatch
<1>1. CASE v = w
  BY <1>1
<1>2. CASE v # w
  <2>1. call'[v] = call[v] /\ call[v].pc \in FillPcs /\ call[v].clone \notin muddled
    BY <1>2, Zenon
  <2>2. Materializing(v) /\ call[v].target \in Targets
    BY <2>1 DEF CallOK, Materializing, MaterializePcs, FillPcs
  <2>3. ~(Materializing(w) /\ call[w].target = call[v].target)
    BY <1>2, <2>1, <2>2, Zenon DEF SoleTarget
  <2>4. volume'[call[v].target] = volume[call[v].target]
    BY <2>2, <2>3, Zenon DEF Elsewhere
  <2>5. Copying(v)
    BY <2>1, Zenon DEF CopiesMatch
  <2>6. delta'[call[v].clone] = delta[call[v].clone]
    BY <1>2, <2>1
  <2>7. /\ volume'[call'[v].target] = volume[call[v].target]
        /\ delta'[call'[v].clone] = delta[call[v].clone]
    BY <2>1, <2>4, <2>6, Zenon
  <2>8. volume'[call'[v].target].exists
    BY <2>5, <2>7, Zenon DEF Copying
  <2>9. call'[v].pc # "place" =>
          \A k \in Chunks \ call'[v].todo :
            volume'[call'[v].target].data[k] = delta'[call'[v].clone][k]
    <3>1. call[v].pc # "place" =>
            \A k \in Chunks \ call[v].todo :
              volume'[call'[v].target].data[k] = delta'[call'[v].clone][k]
      BY <2>5, <2>7 DEF Copying
    <3> QED
      BY <2>1, <3>1, Zenon
  <2>10. call'[v].pc = "finish" => call'[v].todo = {}
    BY <2>1, <2>5, Zenon DEF Copying
  <2> QED
    BY <2>8, <2>9, <2>10, Zenon DEF Copying
<1> QED
  BY <1>1, <1>2, Zenon

\* ... and to keep the answers.
LEMMA AnswersKept ==
  ASSUME AnswersHeld, NEW w \in Workers,
         \A v \in Workers \ {w} : call'[v] = call[v],
         muddled \subseteq muddled', Elsewhere(w),
         call'[w].pc \in MaterializePcs =>
           \/ Materializing(w) /\ call'[w].target = call[w].target
           \/ ~volume[call'[w].target].exists,
         \A c \in Clones \ muddled' : clone[c].state \in {"materialized", "deleted"} =>
           clone'[c].state \in {"materialized", "deleted"} /\ last'[c] = last[c],
         \A c \in Clones \ muddled' : \A t \in Targets \cup {NoTarget} :
           Answer(c, t)' => Answer(c, t) \/ Held(c, t)'
  PROVE  AnswersHeld'
<1> SUFFICES ASSUME NEW c \in Clones \ muddled', NEW t \in Targets \cup {NoTarget}, Answer(c, t)'
             PROVE  Held(c, t)'
  BY Zenon DEF AnswersHeld
<1>1. CASE Held(c, t)'
  BY <1>1, Zenon
<1>2. CASE Answer(c, t)
  <2>1. Held(c, t) /\ t \in Targets
    <3>1. Held(c, t)
      BY <1>2, Zenon DEF AnswersHeld
    <3> QED
      BY <3>1, Zenon DEF Held
  <2>2. volume'[t] = volume[t]
    BY <2>1, Zenon DEF Held, Elsewhere
  <2>3. clone'[c].state \in {"materialized", "deleted"} /\ last'[c] = last[c]
    BY <2>1, Zenon DEF Held
  <2>4. ASSUME NEW v \in Workers, call'[v].pc \in MaterializePcs
        PROVE  call'[v].target # t
    <3>1. CASE v = w
      BY <2>1, <2>4, <3>1, Zenon DEF Held, Materializing
    <3>2. CASE v # w
      BY <2>1, <2>4, <3>2, Zenon DEF Held, Materializing
    <3> QED
      BY <3>1, <3>2, Zenon
  <2> QED
    BY <2>1, <2>2, <2>3, <2>4 DEF Held, Materializing
<1> QED
  BY <1>1, <1>2, Zenon

\* A step that neither fills a volume nor answers, and leaves the states of the
\* clones that were answered alone.
LEMMA Quiet ==
  ASSUME CallOK, RInv, NEW w \in Workers,
         \A v \in Workers \ {w} : call'[v] = call[v],
         muddled \subseteq muddled', UNCHANGED <<delta, last, restored>>, Elsewhere(w),
         call'[w].pc # "commit" /\ call'[w].pc \notin FillPcs,
         call'[w].pc \in MaterializePcs =>
           /\ Materializing(w)
           /\ call'[w].clone = call[w].clone /\ call'[w].target = call[w].target,
         \A c \in Clones \ muddled' :
           \/ clone'[c] = clone[c]
           \/ /\ clone[c].state \notin {"materialized", "deleted"}
              /\ clone'[c].state # "materialized"
  PROVE  RInv'
<1>1. SoleTarget' /\ PagesMatch'
  BY TargetKept, PagesKept, Zenon DEF RInv
<1>2. CopiesMatch'
  BY CopiesKept, Zenon DEF RInv
<1>3. \A c \in Clones \ muddled' : \A t \in Targets \cup {NoTarget} : Answer(c, t)' => Answer(c, t)
  BY Zenon DEF Answer
<1>4. \A c \in Clones \ muddled' : clone[c].state \in {"materialized", "deleted"} =>
        clone'[c].state \in {"materialized", "deleted"} /\ last'[c] = last[c]
  BY Zenon
<1>5. AnswersHeld'
  BY <1>3, <1>4, AnswersKept, Zenon DEF RInv
<1> QED
  BY <1>1, <1>2, <1>5, Zenon DEF RInv

\* A transaction on the records outside MaterializeClone: a clone that was
\* answered stays so, or is deleted.
LEMMA RecordStep ==
  ASSUME RInv, UNCHANGED <<call, delta, volume, last>>, muddled \subseteq muddled',
         \A c \in Clones \ muddled' : clone[c].state \in {"materialized", "deleted"} =>
           clone'[c].state \in {"materialized", "deleted"},
         \A c \in Clones \ muddled' : \A t \in Targets \cup {NoTarget} :
           Answer(c, t)' => Answer(c, t)
  PROVE  RInv'
<1>1. SoleTarget'
  BY Zenon DEF RInv, SoleTarget, Materializing
<1>2. PagesMatch'
  BY DEF RInv, PagesMatch, PageOf
<1>3. CopiesMatch'
  BY Zenon DEF RInv, CopiesMatch, Copying
<1>4. AnswersHeld'
  <2> SUFFICES ASSUME NEW c \in Clones \ muddled', NEW t \in Targets \cup {NoTarget},
                      Answer(c, t)'
               PROVE  Held(c, t)'
    BY Zenon DEF AnswersHeld
  <2>1. Held(c, t)
    BY Zenon DEF RInv, AnswersHeld
  <2> QED
    BY <2>1, Zenon DEF Held, Materializing
<1> QED
  BY <1>1, <1>2, <1>3, <1>4, Zenon DEF RInv

\* CreateClone, DeleteClone and the repeated answer.
LEMMA AdminHolds ==
  ASSUME RecordsOK, RInv, NEW c \in Clones,
         CreateClone(c) \/ DeleteClone(c) \/ MaterializeReplay(c)
  PROVE  RInv'
<1>1. CASE CreateClone(c)
  <2>1. /\ clone[c].state = "none" /\ clone'[c].state = "available"
        /\ \A d \in Clones \ {c} : clone'[d] = clone[d]
    BY <1>1 DEF CreateClone, RecordsOK, RecordType
  <2>2. UNCHANGED <<call, delta, volume, last, muddled, restored>>
    BY <1>1, Zenon DEF CreateClone
  <2>3. \A d \in Clones \ muddled' : \A t \in Targets \cup {NoTarget} :
          Answer(d, t)' => Answer(d, t)
    BY <2>1, <2>2, Zenon DEF Answer
  <2>4. \A d \in Clones \ muddled' : clone[d].state \in {"materialized", "deleted"} =>
          clone'[d].state \in {"materialized", "deleted"}
    BY <2>1, Zenon
  <2> QED
    BY <2>2, <2>3, <2>4, RecordStep, Zenon
<1>2. CASE DeleteClone(c)
  <2>1. /\ clone'[c].state = "deleted"
        /\ \A d \in Clones \ {c} : clone'[d] = clone[d]
    BY <1>2 DEF DeleteClone, MarkCloneState, RecordsOK, RecordType
  <2>2. UNCHANGED <<call, delta, volume, last, restored>> /\ muddled \subseteq muddled'
    BY <1>2, Zenon DEF DeleteClone
  <2>3. \A d \in Clones \ muddled' : \A t \in Targets \cup {NoTarget} :
          Answer(d, t)' => Answer(d, t)
    BY <2>1, <2>2, Zenon DEF Answer
  <2>4. \A d \in Clones \ muddled' : clone[d].state \in {"materialized", "deleted"} =>
          clone'[d].state \in {"materialized", "deleted"}
    BY <2>1
  <2> QED
    BY <2>2, <2>3, <2>4, RecordStep, Zenon
<1>3. CASE MaterializeReplay(c)
  <2>1. UNCHANGED <<call, delta, volume, last, muddled, clone>>
    BY <1>3, Zenon DEF MaterializeReplay
  <2>2. \A d \in Clones \ muddled' : \A t \in Targets \cup {NoTarget} :
          Answer(d, t)' => Answer(d, t)
    BY <1>3, Zenon DEF Answer, MaterializeReplay
  <2> QED
    BY <2>1, <2>2, RecordStep, Zenon
<1> QED
  BY <1>1, <1>2, <1>3

\* DeleteSnapshot and a failed clone write touch neither clones nor volumes.
LEMMA IdleHolds ==
  ASSUME CallOK, RInv, NEW w \in Workers,
         DeleteSnapshotRead(w) \/ DeleteSnapshotMark(w) \/ CloneWriteFail(w)
  PROVE  RInv'
<1>1. /\ call'[w].pc \in {"unsnap", "idle"}
      /\ \A v \in Workers \ {w} : call'[v] = call[v]
  BY PageTypes DEF DeleteSnapshotRead, DeleteSnapshotMark, CloneWriteFail, Goto, Return,
     CallOK, CallType
<1>2. UNCHANGED <<clone, delta, volume, muddled, last, restored>>
  BY Zenon DEF DeleteSnapshotRead, DeleteSnapshotMark, CloneWriteFail
<1>3. Elsewhere(w)
  BY <1>2, Zenon DEF Elsewhere
<1> QED
  BY <1>1, <1>2, <1>3, Quiet DEF MaterializePcs, FillPcs

\* MaterializeClone starts only into a volume that does not exist; a handler that
\* is on that volume or on the clone muddles both.
LEMMA ReadHolds ==
  ASSUME CallOK, RInv, NEW w \in Workers, NEW c \in Clones, NEW t \in Targets,
         MaterializeRead(w, c, t)
  PROVE  RInv'
<1>1. /\ call'[w].pc = "mark" /\ call'[w].clone = c /\ call'[w].target = t
      /\ \A v \in Workers \ {w} : call'[v] = call[v]
  BY DEF MaterializeRead, CallOK, Idle
<1>2. muddled \subseteq muddled' /\ UNCHANGED <<clone, delta, volume, last, restored>>
  BY Zenon DEF MaterializeRead
<1>3. Elsewhere(w)
  BY <1>2, Zenon DEF Elsewhere
<1>4. \A v \in Workers : Materializing(v) /\ call[v].target = t =>
        call[v].clone \in muddled' /\ c \in muddled'
  BY Zenon DEF MaterializeRead, Conflicting
<1>5. SoleTarget'
  BY <1>1, <1>2, <1>4, TargetKept, Zenon DEF RInv
<1>6. PagesMatch'
  BY <1>1, <1>2, PagesKept DEF RInv
<1>7. CopiesMatch'
  BY <1>1, <1>2, <1>3, CopiesKept, Zenon DEF RInv, FillPcs
<1>8. ~volume[t].exists
  BY Zenon DEF MaterializeRead
<1>9. \A d \in Clones \ muddled' : \A u \in Targets \cup {NoTarget} : Answer(d, u)' => Answer(d, u)
  BY <1>2 DEF Answer
<1>10. AnswersHeld'
  BY <1>1, <1>2, <1>3, <1>8, <1>9, AnswersKept, Zenon DEF RInv
<1> QED
  BY <1>5, <1>6, <1>7, <1>10 DEF RInv

\* The state of a clone under a handler, unless it is muddled.
LEMMA UnderWay ==
  ASSUME SoleHandler, NEW w \in Workers, Materializing(w), call[w].clone \notin muddled
  PROVE  clone[call[w].clone].state \in {"available", "materializing"}
BY DEF SoleHandler

\* The steps of MaterializeClone before the volume is put, and after a failure.
LEMMA AsideHolds ==
  ASSUME CallOK, RecordsOK, SoleHandler, RInv, NEW w \in Workers,
         \/ MaterializeMark(w) \/ CreateCheck(w) \/ CreateFail(w) \/ MaterializeFail(w)
         \/ FailDelete(w) \/ FailUnmark(w)
  PROVE  RInv'
<1>0. Materializing(w) /\ call[w].clone \in Clones /\ call[w].target \in Targets
  BY MaterializeArgs, Zenon DEF MaterializeStep
<1>1. /\ \A v \in Workers \ {w} : call'[v] = call[v]
      /\ call'[w].pc \in {"create", "put", "delete", "unmark", "idle"}
      /\ call'[w].pc # "idle" =>
           call'[w].clone = call[w].clone /\ call'[w].target = call[w].target
  BY PageTypes DEF MaterializeMark, CreateCheck, CreateFail, MaterializeFail, FailDelete,
     FailUnmark, Goto, Return, CallOK, CallType
<1>2. UNCHANGED <<delta, muddled, last, restored>>
  BY Zenon DEF MaterializeMark, CreateCheck, CreateFail, MaterializeFail, FailDelete, FailUnmark
<1>3. Elsewhere(w)
  BY <1>0, Zenon DEF Elsewhere, MaterializeMark, CreateCheck, CreateFail, MaterializeFail, FailDelete,
     FailUnmark, DeleteVolumeArtifacts, RecordsOK
<1>4. /\ \A d \in Clones \ {call[w].clone} : clone'[d] = clone[d]
      /\ \/ clone' = clone
         \/ clone'[call[w].clone].state \in {"materializing", "available", "failed"}
  BY <1>0 DEF MaterializeMark, CreateCheck, CreateFail, MaterializeFail, FailDelete,
     FailUnmark, MarkCloneState, RecordsOK, RecordType
<1>5. \A d \in Clones \ muddled' :
        \/ clone'[d] = clone[d]
        \/ /\ clone[d].state \notin {"materialized", "deleted"}
           /\ clone'[d].state # "materialized"
  BY <1>0, <1>2, <1>4, UnderWay, Zenon
<1> QED
  BY <1>0, <1>1, <1>2, <1>3, <1>5, Quiet, Zenon DEF MaterializePcs, FillPcs

\* A step that fills the volume of its handler.
LEMMA Fills ==
  ASSUME CallOK, RInv, NEW w \in Workers, Materializing(w),
         \A v \in Workers \ {w} : call'[v] = call[v],
         UNCHANGED <<clone, delta, muddled, last, restored>>, Elsewhere(w),
         call'[w].pc \in FillPcs,
         call'[w].clone = call[w].clone, call'[w].target = call[w].target,
         call[w].clone \notin muddled => Copying(w)'
  PROVE  RInv'
<1>1. SoleTarget'
  BY TargetKept, Zenon DEF RInv
<1>2. PagesMatch'
  BY PagesKept DEF RInv, FillPcs
<1>3. CopiesMatch'
  BY CopiesKept, Zenon DEF RInv
<1>4. \A d \in Clones \ muddled' : \A t \in Targets \cup {NoTarget} : Answer(d, t)' => Answer(d, t)
  BY DEF Answer
<1>5. AnswersHeld'
  BY <1>4, AnswersKept, Zenon DEF RInv
<1> QED
  BY <1>1, <1>2, <1>3, <1>5, Zenon DEF RInv

\* The volume is put, zeroed and filled window by window from the clone's page.
LEMMA FillHolds ==
  ASSUME CallOK, RecordsOK, RInv, NEW w \in Workers,
         CreatePut(w) \/ CreatePlace(w) \/ CopyWindow(w)
  PROVE  RInv'
<1>0. Materializing(w) /\ call[w].clone \in Clones /\ call[w].target \in Targets
  BY MaterializeArgs DEF MaterializeStep
<1> DEFINE c == call[w].clone
           t == call[w].target
<1>1. UNCHANGED <<clone, delta, muddled, last, restored>>
  BY Zenon DEF CreatePut, CreatePlace, CopyWindow
<1>2. Elsewhere(w)
  BY <1>0, Zenon DEF Elsewhere, CreatePut, CreatePlace, CopyWindow, RecordsOK
<1>3. CASE CreatePut(w)
  <2>1. /\ call'[w].pc = "place" /\ call'[w].clone = c /\ call'[w].target = t
        /\ \A v \in Workers \ {w} : call'[v] = call[v]
    BY <1>3, Zenon DEF CreatePut, Goto, CallOK, CallType
  <2>2. volume'[t].exists
    BY <1>0, <1>3 DEF CreatePut, RecordsOK, VolumeType
  <2>3. Copying(w)'
    BY <2>1, <2>2, Zenon DEF Copying
  <2> QED
    BY <1>0, <1>1, <1>2, <2>1, <2>3, Fills, Zenon DEF FillPcs
<1>4. CASE CreatePlace(w)
  <2>1. /\ call'[w].pc = "copy" /\ call'[w].clone = c /\ call'[w].target = t
        /\ call'[w].todo = Chunks
        /\ \A v \in Workers \ {w} : call'[v] = call[v]
    BY <1>4, Zenon DEF CreatePlace, CallOK, CallType
  <2>2. volume'[t].exists = volume[t].exists
    BY <1>0, <1>4, Zenon DEF CreatePlace, RecordsOK, VolumeType
  <2>3. c \notin muddled => volume[t].exists
    BY <1>4, Zenon DEF CreatePlace, RInv, CopiesMatch, Copying, FillPcs
  <2>4. c \notin muddled => Copying(w)'
    BY <2>1, <2>2, <2>3, Zenon DEF Copying
  <2> QED
    BY <1>0, <1>1, <1>2, <2>1, <2>4, Fills, Zenon DEF FillPcs
<1>5. CASE CopyWindow(w)
  <2>1. PICK k \in call[w].todo :
          /\ volume' = [volume EXCEPT ![t].data[k] = delta[c][k]]
          /\ call' = [call EXCEPT ![w].todo = @ \ {k},
                                  ![w].pc = IF call[w].todo = {k} THEN "finish" ELSE "copy"]
    BY <1>5, Zenon DEF CopyWindow
  <2>2. /\ call'[w].pc \in {"copy", "finish"} /\ call'[w].clone = c /\ call'[w].target = t
        /\ call'[w].todo = call[w].todo \ {k}
        /\ call'[w].pc = "finish" => call[w].todo = {k}
        /\ \A v \in Workers \ {w} : call'[v] = call[v]
    BY <2>1 DEF CallOK, CallType
  <2>3. k \in Chunks
    BY <2>1, Zenon DEF CallOK, CallType
  <2>4. /\ volume'[t].exists = volume[t].exists
        /\ volume'[t].data = [volume[t].data EXCEPT ![k] = delta[c][k]]
    BY <1>0, <2>1 DEF RecordsOK, VolumeType
  <2>5. volume[t].data \in [Chunks -> Data]
    BY <1>0, Zenon DEF RecordsOK, VolumeType, Content
  <2>6. c \notin muddled =>
          /\ volume[t].exists
          /\ \A j \in Chunks \ call[w].todo : volume[t].data[j] = delta[c][j]
    BY <1>5, Zenon DEF CopyWindow, RInv, CopiesMatch, Copying, FillPcs
  <2>7. c \notin muddled => \A j \in Chunks \ call'[w].todo : volume'[t].data[j] = delta[c][j]
    <3> HIDE DEF c, t
    <3>1. ASSUME c \notin muddled, NEW j \in Chunks \ call'[w].todo
          PROVE  volume'[t].data[j] = delta[c][j]
      <4>1. j = k \/ j \notin call[w].todo
        BY <2>2, Zenon
      <4> QED
        BY <2>3, <2>4, <2>5, <2>6, <3>1, <4>1, Zenon
    <3> QED
      BY <3>1, Zenon
  <2>8. c \notin muddled => Copying(w)'
    <3>1. call'[w].pc = "finish" => call'[w].todo = {}
      BY <2>2
    <3>2. delta' = delta
      BY <1>1, Zenon
    <3>3. c \notin muddled => /\ volume'[call'[w].target].exists
                             /\ \A j \in Chunks \ call'[w].todo :
                                  volume'[call'[w].target].data[j] = delta'[call'[w].clone][j]
      <4>1. /\ volume'[call'[w].target] = volume'[t]
            /\ delta'[call'[w].clone] = delta[c]
        BY <2>2, <3>2, Zenon
      <4>2. c \notin muddled => volume'[t].exists
        BY <2>4, <2>6, Zenon
      <4> HIDE DEF c, t
      <4> QED
        BY <2>7, <4>1, <4>2, Zenon
    <3> QED
      BY <3>1, <3>3, Zenon DEF Copying
  <2> QED
    BY <1>0, <1>1, <1>2, <2>2, <2>8, Fills, Zenon DEF FillPcs
<1> QED
  BY <1>3, <1>4, <1>5, Zenon

\* The copied volume is the clone's page, and the page is what was written last.
LEMMA Copied ==
  ASSUME CallOK, RecordsOK, RInv, NEW w \in Workers, call[w].pc = "finish",
         call[w].clone \notin muddled
  PROVE  volume[call[w].target].exists /\ volume[call[w].target].data = last[call[w].clone]
<1> DEFINE c == call[w].clone
           t == call[w].target
<1>1. c \in Clones /\ t \in Targets
  BY Zenon DEF CallOK, Materializing, MaterializePcs
<1>2. /\ volume[t].exists /\ \A k \in Chunks : volume[t].data[k] = delta[c][k]
  BY Zenon DEF RInv, CopiesMatch, Copying, FillPcs
<1>3. volume[t].data \in [Chunks -> Data] /\ delta[c] \in [Chunks -> Data]
  BY <1>1, Zenon DEF RecordsOK, VolumeType, Content
<1>4. volume[t].data = delta[c]
  BY <1>2, <1>3, SMTT(30)
<1>5. delta[c] = last[c]
  BY <1>1, Zenon DEF RInv, PagesMatch, PageOf
<1> QED
  BY <1>2, <1>4, <1>5, Zenon

\* MarkCloneMaterialized answers with the copied volume; a mark that was applied
\* behind an error muddles the clone.
LEMMA FinishHolds ==
  ASSUME CallOK, RecordsOK, SoleHandler, RInv, NEW w \in Workers,
         MaterializeFinish(w) \/ MaterializeUnknown(w)
  PROVE  RInv'
<1>0. Materializing(w) /\ call[w].clone \in Clones /\ call[w].target \in Targets
  BY MaterializeArgs DEF MaterializeStep
<1>a. PICK c \in Clones, t \in Targets : c = call[w].clone /\ t = call[w].target
  BY <1>0, Zenon
<1>1. /\ call[w].pc = "finish" /\ MarkCloneMaterialized(c, t)
      /\ UNCHANGED <<delta, volume, last>> /\ muddled \subseteq muddled'
  BY <1>a, Zenon DEF MaterializeFinish, MaterializeUnknown
<1>2. /\ \A v \in Workers \ {w} : call'[v] = call[v]
      /\ call'[w].pc \in {"idle", "delete"}
      /\ call'[w].pc = "delete" => call'[w].clone = c /\ call'[w].target = t /\ c \in muddled'
  BY <1>a, PageTypes, Zenon DEF MaterializeFinish, MaterializeUnknown, Goto, Return, CallOK, CallType
<1>3. Elsewhere(w)
  BY <1>1 DEF Elsewhere
<1>4. SoleTarget'
  BY <1>a, <1>0, <1>1, <1>2, TargetKept, Zenon DEF RInv, MaterializePcs
<1>5. PagesMatch'
  BY <1>1, <1>2, PagesKept, Zenon DEF RInv
<1>6. CopiesMatch'
  BY <1>1, <1>2, <1>3, CopiesKept, Zenon DEF RInv, FillPcs
<1>7. /\ clone'[c].state = "materialized"
      /\ \A d \in Clones \ {c} : clone'[d] = clone[d]
  BY <1>0, <1>1 DEF MarkCloneMaterialized, RecordsOK, RecordType
<1>8. c \notin muddled' =>
        /\ clone'[c].target = t
        /\ call'[w].pc = "idle" /\ restored' = restored \cup {<<c, t>>}
  <2>1. ASSUME c \notin muddled'
        PROVE  clone[c].state # "materialized"
    BY <1>a, <1>0, <1>1, <2>1, UnderWay, Zenon
  <2>2. c \notin muddled' => clone'[c].target = t
    BY <1>0, <1>1, <2>1 DEF MarkCloneMaterialized, RecordsOK, RecordType
  <2>3. c \notin muddled' => restored' = restored \cup {<<c, t>>}
    BY <1>a, Zenon DEF MaterializeFinish, MaterializeUnknown
  <2> QED
    BY <1>2, <2>2, <2>3, Zenon
<1>9. c \notin muddled' => Held(c, t)'
  <2> SUFFICES ASSUME c \notin muddled' PROVE Held(c, t)'
    BY Zenon
  <2>1. c \notin muddled
    BY <1>1
  <2>2. volume'[t].exists /\ volume'[t].data = last'[c]
    BY <1>a, <1>1, <2>1, Copied, Zenon
  <2>3. \A v \in Workers : call'[v].pc \in MaterializePcs => v # w /\ call'[v] = call[v]
    BY <1>2, <1>8, Zenon DEF MaterializePcs
  <2>4. \A v \in Workers : call'[v].pc \in MaterializePcs => call'[v].target # t
    BY <1>a, <1>0, <2>1, <2>3 DEF RInv, SoleTarget, Materializing
  <2> QED
    BY <1>0, <1>7, <2>2, <2>4, Zenon DEF Held, Materializing
<1>10. restored' \subseteq restored \cup {<<c, t>>}
  BY <1>a, Zenon DEF MaterializeFinish, MaterializeUnknown
<1>11. \A d \in Clones \ muddled' : \A u \in Targets \cup {NoTarget} :
         Answer(d, u)' => Answer(d, u) \/ Held(d, u)'
  <2> SUFFICES ASSUME NEW d \in Clones \ muddled', NEW u \in Targets \cup {NoTarget},
                      Answer(d, u)'
               PROVE  Answer(d, u) \/ Held(d, u)'
    BY Zenon
  <2>1. CASE d = c /\ u = t
    BY <1>9, <2>1, Zenon
  <2>2. CASE d = c /\ u # t
    <3>1. clone'[d].target = t /\ <<d, u>> # <<c, t>>
      BY <1>8, <2>2
    <3> QED
      BY <1>10, <2>2, <3>1, Zenon DEF Answer
  <2>3. CASE d # c
    <3>1. <<d, u>> # <<c, t>>
      BY <2>3, Zenon
    <3> QED
      BY <1>7, <1>10, <2>3, <3>1, Zenon DEF Answer
  <2> QED
    BY <2>1, <2>2, <2>3, Zenon
<1>12. \A d \in Clones \ muddled' : clone[d].state \in {"materialized", "deleted"} =>
         clone'[d].state \in {"materialized", "deleted"} /\ last'[d] = last[d]
  BY <1>1, <1>7
<1>13. AnswersHeld'
  BY <1>a, <1>0, <1>1, <1>2, <1>3, <1>11, <1>12, AnswersKept, Zenon DEF RInv, MaterializePcs
<1> QED
  BY <1>4, <1>5, <1>6, <1>13, Zenon DEF RInv

\* A clone write is planned on the page as it is; a second one muddles the clone.
LEMMA PlanHolds ==
  ASSUME CallOK, RInv, NEW w \in Workers, NEW c \in Clones, CloneWritePlan(w, c)
  PROVE  RInv'
<1>1. /\ call'[w].pc = "commit" /\ call'[w].clone = c /\ call'[w].page = delta[c]
      /\ \A v \in Workers \ {w} : call'[v] = call[v]
  BY DEF CloneWritePlan, CallOK, Idle
<1>2. muddled \subseteq muddled' /\ UNCHANGED <<clone, delta, volume, last, restored>>
  BY Zenon DEF CloneWritePlan
<1>3. Elsewhere(w)
  BY <1>2, Zenon DEF Elsewhere
<1>4. c \notin muddled' => \A v \in Workers : ~(call[v].pc = "commit" /\ call[v].clone = c)
  BY DEF CloneWritePlan
<1>5. SoleTarget'
  BY <1>1, <1>2, TargetKept, Zenon DEF RInv, MaterializePcs
<1>6. PagesMatch'
  <2> SUFFICES ASSUME NEW d \in Clones \ muddled' PROVE PageOf(d)'
    BY Zenon DEF PagesMatch
  <2>1. PageOf(d)
    BY <1>2, Zenon DEF RInv, PagesMatch
  <2>2. CASE d = c
    BY <1>1, <1>2, <1>4, <2>1, <2>2 DEF PageOf
  <2>3. CASE d # c
    BY <1>1, <1>2, <2>1, <2>3, Zenon DEF PageOf
  <2> QED
    BY <2>2, <2>3, Zenon
<1>7. CopiesMatch'
  BY <1>1, <1>2, <1>3, CopiesKept, Zenon DEF RInv, FillPcs
<1>8. \A d \in Clones \ muddled' : \A t \in Targets \cup {NoTarget} : Answer(d, t)' => Answer(d, t)
  BY <1>2, Zenon DEF Answer
<1>9. AnswersHeld'
  BY <1>1, <1>2, <1>3, <1>8, AnswersKept, Zenon DEF RInv, MaterializePcs
<1> QED
  BY <1>5, <1>6, <1>7, <1>9, Zenon DEF RInv

\* A clone write is put only while no materialization has marked the clone.
LEMMA CommitHolds ==
  ASSUME CallOK, RecordsOK, SoleHandler, RInv, NEW w \in Workers, NEW k \in Chunks,
         CloneWriteCommit(w, k)
  PROVE  RInv'
<1> DEFINE c == call[w].clone
           x == Base + writes + 1
<1>1. c \in Clones /\ call[w].pc = "commit" /\ clone[c].state = "available"
  BY Zenon DEF CloneWriteCommit, CallOK
<1>2. /\ call'[w].pc = "idle" /\ \A v \in Workers \ {w} : call'[v] = call[v]
      /\ UNCHANGED <<clone, volume, muddled, restored>>
  BY PageTypes DEF CloneWriteCommit, Return, CallOK
<1>3. /\ delta'[c] = [call[w].page EXCEPT ![k] = x]
      /\ last'[c] = [last[c] EXCEPT ![k] = x]
      /\ \A d \in Clones \ {c} : delta'[d] = delta[d] /\ last'[d] = last[d]
  BY <1>1, Zenon DEF CloneWriteCommit, NewDelta, RecordsOK
<1>4. Elsewhere(w)
  BY <1>2, Zenon DEF Elsewhere
<1>5. SoleTarget'
  BY <1>2, TargetKept, Zenon DEF RInv, MaterializePcs
<1>6. PagesMatch'
  <2> SUFFICES ASSUME NEW d \in Clones \ muddled' PROVE PageOf(d)'
    BY Zenon DEF PagesMatch
  <2>1. PageOf(d)
    BY <1>2 DEF RInv, PagesMatch
  <2>2. CASE d = c
    <3>1. call[w].page = last[c]
      BY <1>1, <2>1, <2>2, Zenon DEF PageOf
    <3>2. delta'[c] = last'[c]
      BY <1>3, <3>1, Zenon
    <3>3. \A v \in Workers : ~(call'[v].pc = "commit" /\ call'[v].clone = c)
      BY <1>1, <1>2, <2>1, <2>2, Zenon DEF PageOf
    <3> QED
      BY <2>2, <3>2, <3>3, Zenon DEF PageOf
  <2>3. CASE d # c
    <3>1. delta'[d] = delta[d] /\ last'[d] = last[d]
      BY <1>3, <2>3, Zenon
    <3>2. \A v \in Workers : call'[v].pc = "commit" => call'[v] = call[v]
      BY <1>2
    <3> QED
      BY <2>1, <3>1, <3>2, Zenon DEF PageOf
  <2> QED
    BY <2>2, <2>3, Zenon
<1>7. \A v \in Workers : call[v].pc \in FillPcs /\ call[v].clone \notin muddled =>
        call[v].clone \in Clones \ {c}
  BY <1>1, Zenon DEF CallOK, SoleHandler, Materializing, MaterializePcs, FillPcs
<1>8. CopiesMatch'
  BY <1>2, <1>3, <1>4, <1>7, CopiesKept, Zenon DEF RInv, FillPcs
<1>9. \A d \in Clones \ muddled' : \A t \in Targets \cup {NoTarget} : Answer(d, t)' => Answer(d, t)
  BY <1>2, Zenon DEF Answer
<1>10. \A d \in Clones \ muddled' : clone[d].state \in {"materialized", "deleted"} =>
         clone'[d].state \in {"materialized", "deleted"} /\ last'[d] = last[d]
  BY <1>1, <1>2, <1>3
<1>11. AnswersHeld'
  BY <1>2, <1>4, <1>9, <1>10, AnswersKept, Zenon DEF RInv, MaterializePcs
<1> QED
  BY <1>5, <1>6, <1>8, <1>11, Zenon DEF RInv

\* A crash leaves no handler, and the records as they are.
LEMMA CrashHolds ==
  ASSUME RInv, Crash
  PROVE  RInv'
<1>1. \A w \in Workers : call'[w].pc = "idle"
  BY PageTypes, Zenon DEF Crash
<1>2. UNCHANGED <<clone, delta, volume, muddled, last, restored>>
  BY Zenon DEF Crash
<1>3. SoleTarget' /\ CopiesMatch'
  BY <1>1, Zenon DEF SoleTarget, CopiesMatch, Materializing, MaterializePcs, FillPcs
<1>4. PagesMatch'
  BY <1>1, <1>2, Zenon DEF RInv, PagesMatch, PageOf
<1>5. AnswersHeld'
  <2> SUFFICES ASSUME NEW c \in Clones \ muddled', NEW t \in Targets \cup {NoTarget},
                      Answer(c, t)'
               PROVE  Held(c, t)'
    BY Zenon DEF AnswersHeld
  <2>1. Held(c, t)
    BY <1>2, Zenon DEF RInv, AnswersHeld, Answer
  <2> QED
    BY <1>1, <1>2, <2>1 DEF Held, Materializing, MaterializePcs
<1> QED
  BY <1>3, <1>4, <1>5, Zenon DEF RInv

\* Every step keeps the answers.
LEMMA StepHolds == CInv /\ RInv /\ [Next]_vars => RInv'
<1> SUFFICES ASSUME CInv, RInv, [Next]_vars PROVE RInv'
  OBVIOUS
<1>0. CallOK /\ RecordsOK /\ SoleHandler
  BY Zenon DEF CInv
<1>1. ASSUME NEW c \in Clones, CreateClone(c) \/ DeleteClone(c) \/ MaterializeReplay(c)
      PROVE  RInv'
  BY <1>0, <1>1, AdminHolds, Zenon
<1>2. ASSUME NEW w \in Workers,
             DeleteSnapshotRead(w) \/ DeleteSnapshotMark(w) \/ CloneWriteFail(w)
      PROVE  RInv'
  BY <1>0, <1>2, IdleHolds, Zenon
<1>3. ASSUME NEW w \in Workers, NEW c \in Clones, NEW t \in Targets, MaterializeRead(w, c, t)
      PROVE  RInv'
  BY <1>0, <1>3, ReadHolds, Zenon
<1>4. ASSUME NEW w \in Workers, MaterializeStep(w)
      PROVE  RInv'
  BY <1>0, <1>4, AsideHolds, FillHolds, FinishHolds, Zenon DEF MaterializeStep
<1>5. ASSUME NEW w \in Workers, NEW c \in Clones, CloneWritePlan(w, c)
      PROVE  RInv'
  BY <1>0, <1>5, PlanHolds, Zenon
<1>6. ASSUME NEW w \in Workers, NEW k \in Chunks, CloneWriteCommit(w, k)
      PROVE  RInv'
  BY <1>0, <1>6, CommitHolds
<1>7. CASE Crash
  BY <1>7, CrashHolds, Zenon
<1>8. CASE UNCHANGED vars
  <2>1. /\ UNCHANGED <<clone, delta, volume, call, last, restored, muddled>>
    BY <1>8, Zenon DEF vars
  <2>2. \A c \in Clones \ muddled' : \A t \in Targets \cup {NoTarget} :
          Answer(c, t)' => Answer(c, t)
    BY <2>1 DEF Answer
  <2> QED
    BY <2>1, <2>2, RecordStep, Zenon
<1> QED
  BY <1>1, <1>2, <1>3, <1>4, <1>5, <1>6, <1>7, <1>8 DEF Next

\* Nothing is answered at the start.
LEMMA InitHolds == Init => RInv
<1> SUFFICES ASSUME Init PROVE RInv
  OBVIOUS
<1>1. \A w \in Workers : call[w].pc = "idle"
  BY PageTypes, Zenon DEF Init
<1>2. SoleTarget /\ CopiesMatch
  BY <1>1, Zenon DEF SoleTarget, CopiesMatch, Materializing, MaterializePcs, FillPcs
<1>3. PagesMatch
  BY <1>1, Zenon DEF Init, PagesMatch, PageOf
<1>4. AnswersHeld
  BY DEF Init, AnswersHeld, Answer
<1> QED
  BY <1>2, <1>3, <1>4, Zenon DEF RInv

-----------------------------------------------------------------------------
\* CInv holds in every reachable state of the clone handlers.
THEOREM Invariance == Spec => []CInv
BY InitKeeps, StepKeeps, PTL DEF Spec

\* The type invariant of the records and the handlers.
THEOREM TypeCorrect == Spec => []CloneTypeOK
<1>1. CInv => CloneTypeOK
  BY TypeParts DEF CInv
<1> QED
  BY <1>1, Invariance, PTL

\* However CreateClone, DeleteClone, MaterializeClone and crashes interleave,
\* CloneReferenceCount is at most the number of clones that need the snapshot.
THEOREM NoLeak == Spec => []NoReferenceLeak
<1>1. CInv => NoReferenceLeak
  BY DEF CInv, Counted
<1> QED
  BY <1>1, Invariance, PTL

\* Without conflicting handlers, CloneReferenceCount is exact.
THEOREM ExactCount == Spec => []RefsMatchClones
<1>1. CInv => RefsMatchClones
  BY Zenon DEF CInv, Counted
<1> QED
  BY <1>1, Invariance, PTL

\* Without conflicting handlers, a readable clone has its base snapshot unless
\* it was created inside a DeleteSnapshot.
THEOREM BaseStays == Spec => []BaseKept
<1>1. CInv => BaseKept
  BY DEF CInv, RecordsOK, SnapType, DeletedUnused, BaseKept, Readable, Holders
<1> QED
  BY <1>1, Invariance, PTL
\* The volume MaterializeClone answered with is there and holds every write put
\* to the clone, unless handlers conflicted on it: the writes that raced the
\* copy were refused or copied, for any number of windows, handlers and crashes.
THEOREM RestoredWhole == Spec => []RestoreComplete
<1>1. CInv /\ RInv /\ [Next]_vars => (CInv /\ RInv)'
  BY StepKeeps, StepHolds
<1>2. Init => CInv /\ RInv
  BY InitKeeps, InitHolds, Zenon
<1>3. CInv /\ RInv => RestoreComplete
  <2> SUFFICES ASSUME CInv, RInv, NEW r \in restored, r[1] \notin muddled
               PROVE  /\ r[2] \in Targets
                      /\ volume[r[2]].exists /\ volume[r[2]].data = last[r[1]]
    BY Zenon DEF RestoreComplete
  <2>1. r[1] \in Clones /\ r[2] \in Targets \cup {NoTarget} /\ r = <<r[1], r[2]>>
    BY DEF CInv, RecordsOK
  <2>2. Answer(r[1], r[2])
    BY <2>1, Zenon DEF Answer
  <2>3. Held(r[1], r[2])
    BY <2>1, <2>2 DEF RInv, AnswersHeld
  <2> QED
    BY <2>3, Zenon DEF Held
<1> QED
  BY <1>1, <1>2, <1>3, PTL DEF Spec

=============================================================================
