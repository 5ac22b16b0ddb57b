----------------------------- MODULE CommitLock -----------------------------
(***************************************************************************)
(* The per-volume commit lock that serialises metadata commits of the      *)
(* volume_scoped modes (sbs/cluster/replication/service.go).               *)
(*                                                                         *)
(* metadataCommitLockSet maps a volume key to a reference-counted entry    *)
(* whose token channel has capacity 1.  A goroutine looks the entry up (or *)
(* creates it) and takes a reference under the set's mutex, then waits for *)
(* the token or for its context; release puts the token back and only then *)
(* drops the reference under the mutex, so an entry may be deleted and a   *)
(* new one made for the same key while others come and go.                 *)
(***************************************************************************)
EXTENDS Naturals, FiniteSets

CONSTANTS
    Procs,      \* goroutines running commitMetadataWithRetry
    Keys,       \* volume ids
    Entries,    \* addresses of metadataCommitLock objects
    NoEntry     \* the nil *metadataCommitLock

ASSUME NoEntryAssumption == NoEntry \notin Entries

ASSUME FiniteProcsAssumption == IsFiniteSet(Procs)

VARIABLES
    locks,      \* metadataCommitLockSet.locks
    token,      \* number of values in an entry's token channel (capacity 1)
    refs,       \* metadataCommitLock.refs
    pc,         \* where each goroutine is
    key,        \* the volume each goroutine locks
    ent         \* the entry each goroutine looked up

lockVars == <<locks, token, refs, pc, key, ent>>

Active(p) == pc[p] # "idle"

Users(e) == {p \in Procs : Active(p) /\ ent[p] = e}

\* An address new metadataCommitLock objects may get: nothing points to it.
Fresh(e) == Users(e) = {} /\ \A k \in Keys : locks[k] # e

LockInit ==
    /\ locks = [k \in Keys |-> NoEntry]
    /\ token = [e \in Entries |-> 0]
    /\ refs = [e \in Entries |-> 0]
    /\ pc = [p \in Procs |-> "idle"]
    /\ key \in [Procs -> Keys]
    /\ ent = [p \in Procs |-> NoEntry]

\* acquire, first half, the key is in the map: one more reference.
LookupHit(p, k) ==
    /\ pc[p] = "idle"
    /\ locks[k] # NoEntry
    /\ refs' = [refs EXCEPT ![locks[k]] = @ + 1]
    /\ ent' = [ent EXCEPT ![p] = locks[k]]
    /\ key' = [key EXCEPT ![p] = k]
    /\ pc' = [pc EXCEPT ![p] = "waiting"]
    /\ UNCHANGED <<locks, token>>

\* acquire, first half, the key is not in the map: a new entry with its token.
LookupMiss(p, k, e) ==
    /\ pc[p] = "idle"
    /\ locks[k] = NoEntry
    /\ Fresh(e)
    /\ locks' = [locks EXCEPT ![k] = e]
    /\ token' = [token EXCEPT ![e] = 1]
    /\ refs' = [refs EXCEPT ![e] = 1]
    /\ ent' = [ent EXCEPT ![p] = e]
    /\ key' = [key EXCEPT ![p] = k]
    /\ pc' = [pc EXCEPT ![p] = "waiting"]

\* acquire, the select receives the token.
TakeToken(p) ==
    /\ pc[p] = "waiting"
    /\ token[ent[p]] = 1
    /\ token' = [token EXCEPT ![ent[p]] = 0]
    /\ pc' = [pc EXCEPT ![p] = "holding"]
    /\ UNCHANGED <<locks, refs, key, ent>>

\* Mutant: the cancelled waiter puts a token back as release does.
CancelReturnsToken(p) ==
    /\ pc[p] = "waiting"
    /\ token' = [token EXCEPT ![ent[p]] = 1]
    /\ pc' = [pc EXCEPT ![p] = "unref"]
    /\ UNCHANGED <<locks, refs, key, ent>>

\* Mutant: the cancelled waiter returns without releaseRef.
CancelKeepsRef(p) ==
    /\ pc[p] = "waiting"
    /\ pc' = [pc EXCEPT ![p] = "idle"]
    /\ UNCHANGED <<locks, token, refs, key, ent>>

\* Mutant: the cancelled waiter drops its reference twice.
CancelReleasesTwice(p) ==
    /\ pc[p] = "waiting"
    /\ pc' = [pc EXCEPT ![p] = "unref"]
    /\ refs' = [refs EXCEPT ![ent[p]] = @ - 1]
    /\ UNCHANGED <<locks, token, key, ent>>

\* acquire, the select sees ctx.Done() (possibly with the token available).
Cancel(p) ==
    /\ pc[p] = "waiting"
    /\ pc' = [pc EXCEPT ![p] = "unref"]
    /\ UNCHANGED <<locks, token, refs, key, ent>>

\* Mutant: release forgets the token.
ReturnNoToken(p) ==
    /\ pc[p] = "holding"
    /\ pc' = [pc EXCEPT ![p] = "unref"]
    /\ UNCHANGED <<locks, token, refs, key, ent>>

\* release, the send on the token channel; it blocks while the channel is full.
ReturnToken(p) ==
    /\ pc[p] = "holding"
    /\ token[ent[p]] = 0
    /\ token' = [token EXCEPT ![ent[p]] = 1]
    /\ pc' = [pc EXCEPT ![p] = "unref"]
    /\ UNCHANGED <<locks, refs, key, ent>>

\* Mutant: releaseRef deletes the entry whatever the count.
DropsEntryAlways(p) == locks[key[p]] = ent[p]

\* The entry's last reference is gone and the map still holds this entry.
DropsEntry(p) == refs[ent[p]] = 1 /\ locks[key[p]] = ent[p]

\* releaseRef, under the mutex.
ReleaseRef(p) ==
    /\ pc[p] = "unref"
    /\ refs' = [refs EXCEPT ![ent[p]] = @ - 1]
    /\ locks' = IF DropsEntry(p) THEN [locks EXCEPT ![key[p]] = NoEntry] ELSE locks
    /\ pc' = [pc EXCEPT ![p] = "idle"]
    /\ ent' = [ent EXCEPT ![p] = NoEntry]
    /\ UNCHANGED <<token, key>>

LockNext ==
    \E p \in Procs :
        \/ \E k \in Keys : LookupHit(p, k)
        \/ \E k \in Keys, e \in Entries : LookupMiss(p, k, e)
        \/ TakeToken(p)
        \/ Cancel(p)
        \/ ReturnToken(p)
        \/ ReleaseRef(p)

LockSpec == LockInit /\ [][LockNext]_lockVars

(***************************************************************************)
(* Fairness.  Goroutines are scheduled, a holder's commit loop is bounded, *)
(* and the runtime hands a channel's value to its waiters in FIFO order,   *)
(* which is strong fairness of each receive.                               *)
(***************************************************************************)
Fairness ==
    \A p \in Procs :
        /\ SF_lockVars(TakeToken(p))
        /\ WF_lockVars(ReturnToken(p))
        /\ WF_lockVars(ReleaseRef(p))

FairSpec == LockSpec /\ Fairness

-----------------------------------------------------------------------------

\* Every variable has its type.
TypeOK ==
    /\ locks \in [Keys -> Entries \cup {NoEntry}]
    /\ token \in [Entries -> {0, 1}]
    /\ refs \in [Entries -> Nat]
    /\ pc \in [Procs -> {"idle", "waiting", "holding", "unref"}]
    /\ key \in [Procs -> Keys]
    /\ ent \in [Procs -> Entries \cup {NoEntry}]

\* At most one goroutine at a time is between acquire and release of a volume,
\* however entries are deleted and recreated (service.go:551-589).
MutualExclusion ==
    \A p, q \in Procs :
        (pc[p] = "holding" /\ pc[q] = "holding" /\ key[p] = key[q]) => p = q

\* A holder finds the token channel empty, so release never blocks
\* (service.go:578).
ReleaseNeverBlocks ==
    \A p \in Procs : pc[p] = "holding" => token[ent[p]] = 0

\* The map holds an entry exactly while some goroutine uses the key: no entry
\* is leaked when the last user leaves, by release or by cancellation, and no
\* entry in use is dropped (service.go:582-589).
MapHoldsUsedKeys ==
    \A k \in Keys :
        locks[k] # NoEntry <=> \E p \in Procs : Active(p) /\ key[p] = k

\* A goroutine waiting for the token gets it or gives up (service.go:565-571).
WaitersProceed ==
    \A p \in Procs : pc[p] = "waiting" ~> pc[p] # "waiting"

=============================================================================
