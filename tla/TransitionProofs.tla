-------------------------- MODULE TransitionProofs --------------------------
(***************************************************************************)
(* Proofs about Transition for any nodes, replica set, pages and bounds.   *)
(*                                                                         *)
(* The mapped set keeps what was acknowledged because of what lies behind  *)
(* it: the progress recorded for a page and the copies a node remembers    *)
(* stand for data that is really there (Kept), for the last acknowledged   *)
(* write and for the one in flight.  A plan never touches the mapped set,  *)
(* as a derived ref names a node that its own set does not have (Derived). *)
(***************************************************************************)
EXTENDS Transition, FiniteSetTheorems, WellFoundedInduction, TLAPS

Lists == UNION {[D -> Nodes] : D \in SUBSET Nat}
ReplicaSets == [nodes : Lists, primary : Nodes \cup {NoNode}]
Transitions == [state : {"none", "queued", "running", "failed", "completed"},
                target : Refs]
Operations == [state : {"none", "running", "pending", "failed", "committed"},
               done : SUBSET Pages]
Batches == [state : {"none", "failed", "committed"}, version : 0..MaxVersion,
            to : SUBSET Nodes]
Writes == [page : Pages, version : 1..MaxVersion, behind : BOOLEAN]
LoopPcs == {"idle", "cleanup", "requeue", "failover", "repairs", "pick", "open", "copy",
            "complete"}
Attempts == [pc : LoopPcs, ref : Refs, target : Refs, to : SUBSET Nodes,
             left : SUBSET Pages, done : SUBSET Pages, opened : SUBSET Nodes,
             lost : SUBSET Nodes]

RecordTypes ==
    /\ mapping \in Refs /\ moves \in 0..MaxMoves
    /\ sets \in [Refs -> ReplicaSets] /\ trans \in [Refs -> Transitions]
    /\ op \in [Refs -> Operations] /\ batch \in [Refs -> [Pages -> Batches]]

NodeTypes ==
    /\ up \subseteq Nodes /\ draining \in Nodes \cup {NoNode} /\ faults \in 0..MaxFaults
    /\ session \in [Nodes -> WriterContexts]
    /\ holds \in [Nodes -> [Pages -> 0..MaxVersion]]
    /\ taken \subseteq Nodes \X WriterContexts \X Refs \X Pages \X (1..MaxVersion)

WriteTypes ==
    /\ written \in [Pages -> 1..MaxVersion] /\ committed \in [Pages -> 1..MaxVersion]
    /\ gw \in [open : BOOLEAN, handles : SUBSET Nodes, write : {NoWrite} \cup Writes]
    /\ stale \subseteq Pages /\ intruded \in BOOLEAN

Types == RecordTypes /\ NodeTypes /\ WriteTypes /\ att \in Attempts

\* A replica set has its primary, and the set of a derived ref is without the
\* node the ref is named after.
Derived ==
    \A r \in Refs : /\ sets[r] # NoSet => sets[r].primary \in Members(sets[r])
                    /\ r # Root => r[2] \notin Members(sets[r])

\* A transition there is leads to a derived ref.
Leads == \A r \in Refs : trans[r].state # "none" => trans[r].target # Root

\* A running attempt is of the mapped ref, with both replica sets as they are.
Trying ==
    /\ att.pc \in {"open", "copy"} =>
          /\ att.ref = mapping
          /\ sets[att.target] # NoSet /\ att.to = Members(sets[att.target])
    /\ att.pc \in {"open", "copy", "complete"} => trans[att.ref].state = "running"

\* A source node that did not restart is open for the attempt.
Holding ==
    att.pc = "copy" => \A n \in From : session[n] = Source(att.ref) \/ n \in att.lost

\* No version is stored, recorded or acknowledged that was not written.
Dated ==
    \A p \in Pages :
        /\ committed[p] <= written[p]
        /\ gw.write.page = p => gw.write.version <= written[p]
        /\ \A n \in Nodes : holds[n][p] <= written[p]
        /\ \A r \in Refs : batch[r][p].version <= written[p]
        /\ \A t \in taken : t[4] = p => t[5] <= written[p]

\* The mapped set serves version v of page p, and so does every node that the
\* recorded progress or the node's own records count as having it.
Kept(p, v) ==
    /\ Quorum({n \in Nodes : holds[n][p] >= v}, Mapped)
    /\ \A r \in Refs : batch[r][p].version >= v =>
          \A n \in batch[r][p].to : holds[n][p] >= v
    /\ \A t \in taken : t[4] = p /\ t[5] >= v => holds[t[1]][p] >= v

AckedKept == \A p \in Pages \ stale : Kept(p, committed[p])
SentKept == gw.write # NoWrite /\ ~gw.write.behind => Kept(gw.write.page, gw.write.version)

IInv ==
    /\ Types /\ sets[mapping] # NoSet
    /\ Derived /\ Leads /\ Trying /\ Holding /\ Dated
    /\ AckedKept /\ SentKept /\ ~intruded

-----------------------------------------------------------------------------
(* Lists, quorums and sessions *)

\* A set of places of a list has a first one: Min is what it says.
LEMMA LeastPlace ==
  ASSUME NEW T, T \subseteq Nat, T # {}
  PROVE  Min(T) \in T
<1>1. PICK m \in T : \A y \in T : ~(<<y, m>> \in OpToRel(<, Nat))
  BY NatLessThanWellFounded, WFMin, Zenon
<1>2. ASSUME NEW y \in T
      PROVE  m =< y
  <2>1. y < m => <<y, m>> \in OpToRel(<, Nat)
    BY DEF OpToRel
  <2>2. ~(y < m)
    BY <1>1, <2>1, Zenon
  <2> QED
    BY <2>2
<1> QED
  BY <1>2, Zenon DEF Min

\* Replicas are read from Lists: every sequence of nodes is one.
LEMMA ListsOfNodes == \A s \in Seq(Nodes) : s \in Lists
<1> SUFFICES ASSUME NEW s \in Seq(Nodes)
             PROVE  s \in Lists
  OBVIOUS
<1>1. s \in [1..Len(s) -> Nodes] /\ 1..Len(s) \in SUBSET Nat
  OBVIOUS
<1> QED
  BY <1>1, Zenon DEF Lists

\* The members of a replica set are nodes, finitely many.
LEMMA MembersAreNodes ==
  ASSUME NEW rs \in ReplicaSets
  PROVE  /\ DOMAIN rs.nodes \subseteq Nat /\ rs.nodes \in [DOMAIN rs.nodes -> Nodes]
         /\ Members(rs) \subseteq Nodes /\ IsFiniteSet(Members(rs))
<1>1. PICK D \in SUBSET Nat : rs.nodes \in [D -> Nodes]
  BY Zenon DEF ReplicaSets, Lists
<1>2. Members(rs) \subseteq Nodes
  BY <1>1, Zenon DEF Members
<1> QED
  BY <1>1, <1>2, FS_Subset, TransitionAssumption, Zenon

\* FirstIn finds a member, when there is one to find.
LEMMA FirstInFinds ==
  ASSUME NEW rs \in ReplicaSets, NEW S, Members(rs) \cap S # {}
  PROVE  FirstIn(rs.nodes, S) \in Members(rs) \cap S
<1> DEFINE T == {i \in DOMAIN rs.nodes : rs.nodes[i] \in S}
<1>1. T \subseteq Nat /\ T # {}
  BY MembersAreNodes, Zenon DEF Members
<1>2. Min(T) \in T
  <2> HIDE DEF T
  <2> QED
    BY <1>1, LeastPlace, Zenon
<1>3. Min(T) \in DOMAIN rs.nodes /\ rs.nodes[Min(T)] \in S
  BY <1>2, Zenon
<1> QED
  BY <1>3, Zenon DEF FirstIn, Members

\* ReadExtent ends up at one of the replicas that have data.
LEMMA FirstTriedFinds ==
  ASSUME NEW rs \in ReplicaSets, NEW S, S # {}, S \subseteq Members(rs)
  PROVE  FirstTried(rs, S) \in S
<1>1. Members(rs) \cap S # {}
  BY Zenon
<1> QED
  BY <1>1, FirstInFinds, Zenon DEF FirstTried

\* A quorum stays one with more nodes.
LEMMA QuorumGrows ==
  ASSUME NEW Q, NEW R, NEW S, IsFiniteSet(S), Q \cap S \subseteq R, Quorum(Q, S)
  PROVE  Quorum(R, S)
<1>1. Q \cap S \in SUBSET (R \cap S) /\ IsFiniteSet(R \cap S) /\ IsFiniteSet(Q \cap S)
  BY FS_Subset
<1>2. Cardinality(Q \cap S) <= Cardinality(R \cap S)
  BY <1>1, FS_Subset
<1>3. Cardinality(Q \cap S) \in Nat /\ Cardinality(R \cap S) \in Nat /\ Cardinality(S) \in Nat
  BY <1>1, FS_CardinalityType
<1> QED
  BY <1>2, <1>3 DEF Quorum

\* All of a replica set are a quorum of it, and a quorum is somebody.
LEMMA QuorumOfAll ==
  ASSUME NEW Q, NEW S, IsFiniteSet(S), S # {}, S \subseteq Q
  PROVE  Quorum(Q, S)
<1>1. Q \cap S = S
  BY Zenon
<1>2. Cardinality(S) \in Nat /\ Cardinality(S) # 0
  BY FS_CardinalityType, FS_EmptySet
<1> QED
  BY <1>1, <1>2 DEF Quorum

LEMMA QuorumIsSomebody ==
  ASSUME NEW Q, NEW S, IsFiniteSet(S), Quorum(Q, S)
  PROVE  S \cap Q # {}
<1> SUFFICES ASSUME Q \cap S = {}
             PROVE  FALSE
  BY Zenon
<1>1. Cardinality(S) \in Nat
  BY FS_CardinalityType
<1> QED
  BY <1>1, FS_EmptySet DEF Quorum

\* Writer contexts are told apart.
LEMMA Contexts ==
  /\ Free \in WriterContexts /\ Gateway \in WriterContexts
  /\ \A r \in Refs : /\ Source(r) \in WriterContexts /\ Target(r) \in WriterContexts
                     /\ Source(r) \notin {Free, Gateway} /\ Target(r) # Source(r)
BY DEF Free, Gateway, Source, Target, WriterContexts

\* OpenReplicaSessions opens nodes that were free, or all it is asked to.
LEMMA OpenedAt ==
  ASSUME session \in [Nodes -> WriterContexts], NEW S, S \subseteq Nodes,
         NEW c, c \in WriterContexts
  PROVE  /\ Opened(S, c) \in [Nodes -> WriterContexts]
         /\ \A n \in Nodes : Opened(S, c)[n] # session[n] => n \in S /\ session[n] = Free
         /\ Refusing(S, c) = {} => \A n \in S : Opened(S, c)[n] = c
<1> DEFINE before == {n \in S : \A m \in Refusing(S, c) : n < m}
<1>1. ASSUME NEW n \in before
      PROVE  session[n] \in {Free, c}
  <2>1. ~(n < n)
    BY TransitionAssumption
  <2> QED
    BY <2>1 DEF Refusing, Admits
<1>2. Opened(S, c) = [n \in Nodes |-> IF n \in before THEN c ELSE session[n]]
  BY DEF Opened
<1>3. Refusing(S, c) = {} => before = S
  BY Zenon
<1> HIDE DEF before
<1> QED
  BY <1>1, <1>2, <1>3 DEF before

\* closeRemoteReplicas frees only sessions of the contexts it is given.
LEMMA ClosedAt ==
  ASSUME NEW sess \in [Nodes -> WriterContexts], NEW S, NEW contexts
  PROVE  /\ Closed(sess, S, contexts) \in [Nodes -> WriterContexts]
         /\ \A n \in Nodes : Closed(sess, S, contexts)[n] # sess[n] => sess[n] \in contexts
BY Contexts DEF Closed

-----------------------------------------------------------------------------
(* What the mapped set keeps *)

\* Pages whose data, progress and records a step leaves alone.
LEMMA KeptSame ==
  ASSUME NEW p, NEW v, Kept(p, v), UNCHANGED <<holds, taken>>, Mapped' = Mapped,
         \A r \in Refs : \/ batch'[r][p] = batch[r][p]
                         \/ ~(batch'[r][p].version >= v)
                         \/ /\ batch'[r][p].version = batch[r][p].version
                            /\ batch'[r][p].to = batch[r][p].to
  PROVE  Kept(p, v)'
<1>1. Quorum({n \in Nodes : holds[n][p] >= v}, Mapped)'
  BY DEF Kept, Quorum
<1>2. ASSUME NEW r \in Refs, batch'[r][p].version >= v, NEW n \in batch'[r][p].to
      PROVE  holds'[n][p] >= v
  BY <1>2 DEF Kept
<1>3. \A t \in taken' : t[4] = p /\ t[5] >= v => holds'[t[1]][p] >= v
  BY DEF Kept
<1> QED
  BY <1>1, <1>2, <1>3, Zenon DEF Kept

\* The two facts about Kept, from what a step keeps of the versions they name.
LEMMA AckedStep ==
  ASSUME committed' \in [Pages -> 1..MaxVersion],
         \A p \in Pages, v \in 1..MaxVersion :
            p \notin stale' /\ v = committed'[p] => Kept(p, v)'
  PROVE  AckedKept'
<1> SUFFICES ASSUME NEW p \in Pages, p \notin stale'
             PROVE  Kept(p, committed[p])'
  BY Zenon DEF AckedKept
<1>1. PICK v \in 1..MaxVersion : v = committed'[p]
  BY Zenon
<1>2. Kept(p, v)'
  BY <1>1, Zenon
<1> QED
  BY <1>1, <1>2, Zenon DEF Kept

LEMMA SentStep ==
  ASSUME gw'.write \in {NoWrite} \cup Writes,
         \A p \in Pages, v \in 1..MaxVersion :
            /\ gw'.write # NoWrite /\ ~gw'.write.behind
            /\ p = gw'.write.page /\ v = gw'.write.version
            => Kept(p, v)'
  PROVE  SentKept'
<1> SUFFICES ASSUME gw'.write # NoWrite, ~gw'.write.behind
             PROVE  Kept(gw.write.page, gw.write.version)'
  BY Zenon DEF SentKept
<1>1. PICK p \in Pages, v \in 1..MaxVersion : p = gw'.write.page /\ v = gw'.write.version
  BY DEF Writes
<1>2. Kept(p, v)'
  BY <1>1, Zenon
<1> QED
  BY <1>1, <1>2, Zenon DEF Kept
\* A foreground write only adds a version that is newer than all there is.
LEMMA WriteKeeps ==
  ASSUME IInv, NEW q \in Pages, WritePayload(q), NEW p \in Pages, NEW v \in 1..MaxVersion,
         \/ Kept(p, v)
         \/ /\ p = q /\ v = written[q] + 1 /\ gw'.write # NoWrite
  PROVE  Kept(p, v)'
<1> DEFINE reached == {n \in Mapped \cap Usable \cap gw.handles : session[n] = Gateway}
           u == written[q] + 1
<1>1. /\ holds' = [n \in Nodes |-> IF n \in reached THEN [holds[n] EXCEPT ![q] = u]
                                                    ELSE holds[n]]
      /\ gw'.write # NoWrite => Acked(reached)
      /\ UNCHANGED <<batch, taken>> /\ Mapped' = Mapped
  BY Zenon DEF WritePayload, records, Mapped
<1>2. /\ holds \in [Nodes -> [Pages -> 0..MaxVersion]] /\ u \in Nat
      /\ \A n \in Nodes : holds[n][q] <= u
      /\ \A r \in Refs : batch[r][q].version \in Nat /\ batch[r][q].version < u
      /\ \A t \in taken : t[4] = q => t[5] < u /\ t[5] \in Nat
      /\ \A t \in taken : t[1] \in Nodes
  <2>1. /\ written[q] \in 1..MaxVersion
        /\ \A n \in Nodes : holds[n][q] \in 0..MaxVersion /\ holds[n][q] <= written[q]
        /\ \A r \in Refs : batch[r][q] \in Batches /\ batch[r][q].version <= written[q]
        /\ \A t \in taken : t[1] \in Nodes /\ t[5] \in 1..MaxVersion
        /\ \A t \in taken : t[4] = q => t[5] <= written[q]
    BY DEF IInv, Types, RecordTypes, NodeTypes, WriteTypes, Dated
  <2> QED
    BY <2>1 DEF IInv, Types, NodeTypes, Batches
<1>3. IsFiniteSet(Mapped) /\ Mapped \subseteq Nodes
  BY MembersAreNodes, Zenon DEF IInv, Types, RecordTypes, Mapped
<1> HIDE DEF u
<1>4. ASSUME NEW n \in Nodes
      PROVE  /\ holds[n][p] >= v => holds'[n][p] >= v
             /\ n \in reached => holds'[n][q] = u
  BY <1>1, <1>2
<1>5. CASE Kept(p, v)
  <2>1. Quorum({n \in Nodes : holds[n][p] >= v}, Mapped)'
    <3>1. {n \in Nodes : holds[n][p] >= v} \cap Mapped \subseteq {n \in Nodes : holds'[n][p] >= v}
      BY <1>4
    <3> QED
      BY <1>1, <1>3, <1>5, <3>1, QuorumGrows DEF Kept
  <2>2. ASSUME NEW r \in Refs, batch'[r][p].version >= v, NEW n \in batch'[r][p].to
        PROVE  holds'[n][p] >= v
    <3>1. n \in Nodes
      BY <1>1 DEF IInv, Types, RecordTypes, Batches
    <3> QED
      BY <1>1, <1>4, <1>5, <2>2, <3>1, Zenon DEF Kept
  <2>3. \A t \in taken' : t[4] = p /\ t[5] >= v => holds'[t[1]][p] >= v
    BY <1>1, <1>2, <1>4, <1>5, Zenon DEF Kept
  <2> QED
    BY <2>1, <2>2, <2>3, Zenon DEF Kept
<1>6. CASE p = q /\ v = u /\ gw'.write # NoWrite
  <2>1. Quorum({n \in Nodes : holds[n][p] >= v}, Mapped)'
    <3>1. reached \cap Mapped \subseteq {n \in Nodes : holds'[n][p] >= v}
      BY <1>2, <1>3, <1>4, <1>6
    <3> QED
      BY <1>1, <1>3, <1>6, <3>1, QuorumGrows DEF Acked
  <2>2. \A r \in Refs : ~(batch'[r][p].version >= v)
    BY <1>1, <1>2, <1>6
  <2>3. \A t \in taken' : t[4] = p => ~(t[5] >= v)
    BY <1>1, <1>2, <1>6
  <2> QED
    BY <2>1, <2>2, <2>3, Zenon DEF Kept
<1> QED
  BY <1>5, <1>6 DEF u

\* A copy that is no older than v keeps v: a node that answers from its records
\* has the data, one that stores it has it now.
LEMMA CopyKeeps ==
  ASSUME IInv, NEW q \in Pages, NEW u \in 1..MaxVersion, NEW sess, WriteCopy(q, u, sess),
         UNCHANGED <<mapping, sets>>,
         NEW p \in Pages, NEW v \in 1..MaxVersion, Kept(p, v), p = q => v <= u
  PROVE  Kept(p, v)'
<1> DEFINE acks == {n \in att.to : Takes(n, q, u)}
<1>1. /\ holds' = [n \in Nodes |-> IF n \in acks /\ Copies(n, q) = {}
                                   THEN [holds[n] EXCEPT ![q] = u] ELSE holds[n]]
      /\ taken' = taken \cup {<<n, Context(n), att.ref, q, u>> : n \in acks}
      /\ \/ AllAcked(acks) /\ CommitBatch(q, u)
         \/ batch' = [batch EXCEPT ![att.ref][q].state = "failed"]
      /\ Mapped' = Mapped
  BY Zenon DEF WriteCopy, FailPage, Mapped
<1>2. /\ holds \in [Nodes -> [Pages -> 0..MaxVersion]]
      /\ batch \in [Refs -> [Pages -> Batches]] /\ att.ref \in Refs
      /\ acks \subseteq Nodes /\ att.to \subseteq Nodes
      /\ \A t \in taken : t[1] \in Nodes
  BY DEF IInv, Types, RecordTypes, NodeTypes, Attempts
<1>3. IsFiniteSet(Mapped) /\ Mapped \subseteq Nodes
  BY MembersAreNodes, Zenon DEF IInv, Types, RecordTypes, Mapped
<1>4. ASSUME NEW n \in acks, Copies(n, q) # {}
      PROVE  p = q => holds[n][p] >= v
  <2>1. PICK t \in taken : t[1] = n /\ t[4] = q /\ t[5] = u
    BY <1>4, Zenon DEF Takes, Copies
  <2> QED
    BY <2>1 DEF Kept
<1> HIDE DEF acks
<1>5. ASSUME NEW n \in Nodes, holds[n][p] >= v
      PROVE  holds'[n][p] >= v
  BY <1>1, <1>2, <1>5
<1>6. ASSUME NEW n \in acks, p = q
      PROVE  holds'[n][p] >= v
  <2>1. CASE Copies(n, q) = {}
    BY <1>1, <1>2, <1>6, <2>1
  <2>2. CASE Copies(n, q) # {}
    BY <1>2, <1>4, <1>5, <1>6, <2>2, Zenon
  <2> QED
    BY <2>1, <2>2
<1>7. Quorum({n \in Nodes : holds[n][p] >= v}, Mapped)'
  <2>1. {n \in Nodes : holds[n][p] >= v} \cap Mapped \subseteq {n \in Nodes : holds'[n][p] >= v}
    BY <1>5
  <2> QED
    BY <1>1, <1>3, <2>1, QuorumGrows, Zenon DEF Kept
<1>8. ASSUME NEW r \in Refs, batch'[r][p].version >= v, NEW n \in batch'[r][p].to
      PROVE  holds'[n][p] >= v
  <2>1. CASE AllAcked(acks) /\ CommitBatch(q, u) /\ r = att.ref /\ p = q
    <3>1. batch'[r][p].to = att.to
      BY <1>2, <2>1 DEF CommitBatch
    <3> QED
      BY <1>6, <1>8, <2>1, <3>1, Zenon DEF AllAcked
  <2>2. CASE ~(AllAcked(acks) /\ CommitBatch(q, u) /\ r = att.ref /\ p = q)
    <3>1. /\ batch'[r][p].version = batch[r][p].version
          /\ batch'[r][p].to = batch[r][p].to
      BY <1>1, <1>2, <2>2 DEF CommitBatch, Batches
    <3>2. n \in Nodes
      BY <1>2, <1>8, <3>1 DEF Batches
    <3> QED
      BY <1>5, <1>8, <3>1, <3>2, Zenon DEF Kept
  <2> QED
    BY <2>1, <2>2
<1>9. ASSUME NEW t \in taken', t[4] = p, t[5] >= v
      PROVE  holds'[t[1]][p] >= v
  <2>1. CASE t \in taken
    BY <1>2, <1>5, <1>9, <2>1, Zenon DEF Kept
  <2>2. CASE t \notin taken
    <3>1. PICK n \in acks : t = <<n, Context(n), att.ref, q, u>>
      BY <1>1, <2>2, Zenon
    <3> QED
      BY <1>6, <1>9, <3>1
  <2> QED
    BY <2>1, <2>2
<1> QED
  BY <1>7, <1>8, <1>9, Zenon DEF Kept

\* What the recorded progress stands for is on all of the target set, and so is
\* served by it once PutExtentMapping has made it the mapped one.
LEMMA PublishKeeps ==
  ASSUME IInv, Publish, NEW p \in Pages, NEW v \in 1..MaxVersion, Kept(p, v), ~Lacks(p, v)
  PROVE  Kept(p, v)'
<1>1. /\ att.target \in Refs /\ att.ref \in Refs
      /\ sets[att.target] \in ReplicaSets /\ sets[att.target] # NoSet
      /\ att.to = Members(sets[att.target])
      /\ sets[att.target].primary \in Members(sets[att.target])
      /\ batch[att.ref][p] \in Batches
  BY DEF IInv, Types, RecordTypes, Attempts, Publish, Trying, Derived
<1>2. /\ Mapped' = Members(sets[att.target])
      /\ UNCHANGED <<batch, holds, taken>>
  BY DEF Publish, Mapped
<1>3. batch[att.ref][p].version >= v /\ batch[att.ref][p].to = Mapped'
  BY <1>1, <1>2 DEF Lacks, Batches
<1>4. \A n \in Mapped' : holds[n][p] >= v
  BY <1>1, <1>3, Zenon DEF Kept
<1>5. IsFiniteSet(Mapped') /\ Mapped' \subseteq Nodes /\ Mapped' # {}
  BY <1>1, <1>2, MembersAreNodes, Zenon
<1>6. Quorum({n \in Nodes : holds[n][p] >= v}, Mapped')
  <2>1. Mapped' \subseteq {n \in Nodes : holds[n][p] >= v}
    BY <1>4, <1>5, Zenon
  <2> QED
    BY <1>5, <2>1, QuorumOfAll
<1> QED
  BY <1>2, <1>6 DEF Kept
-----------------------------------------------------------------------------
(* Shapes of steps *)

\* Kept, of the versions that AckedKept and SentKept name.
LEMMA KeptNow ==
  ASSUME IInv, NEW p \in Pages, NEW v
  PROVE  /\ p \notin stale /\ v = committed[p] => Kept(p, v)
         /\ /\ gw.write # NoWrite /\ ~gw.write.behind
            /\ p = gw.write.page /\ v = gw.write.version
            => Kept(p, v)
<1>1. p \notin stale => Kept(p, committed[p])
  BY Zenon DEF IInv, AckedKept
<1>2. gw.write # NoWrite /\ ~gw.write.behind => Kept(gw.write.page, gw.write.version)
  BY Zenon DEF IInv, SentKept
<1> QED
  BY <1>1, <1>2, Zenon

\* Steps that leave the data and the mapped replicas alone.
LEMMA KeptFrame ==
  ASSUME IInv, WriteTypes', UNCHANGED <<holds, taken, batch, committed, stale>>,
         Mapped' = Mapped, gw'.write \in {gw.write, NoWrite}
  PROVE  AckedKept' /\ SentKept'
<1>1. ASSUME NEW p \in Pages, NEW v \in 1..MaxVersion, Kept(p, v)
      PROVE  Kept(p, v)'
  BY <1>1, KeptSame, Zenon
<1>2. AckedKept'
  <2>1. committed' \in [Pages -> 1..MaxVersion]
    BY Zenon DEF WriteTypes
  <2>2. ASSUME NEW p \in Pages, NEW v \in 1..MaxVersion, p \notin stale', v = committed'[p]
        PROVE  Kept(p, v)'
    BY <1>1, <2>2, KeptNow, Zenon
  <2> QED
    BY <2>1, <2>2, AckedStep, Zenon
<1>3. SentKept'
  <2>1. gw'.write \in {NoWrite} \cup Writes
    BY DEF WriteTypes
  <2>2. ASSUME NEW p \in Pages, NEW v \in 1..MaxVersion, gw'.write # NoWrite,
               ~gw'.write.behind, p = gw'.write.page, v = gw'.write.version
        PROVE  Kept(p, v)'
    <3>1. gw'.write = gw.write
      BY <2>2, Zenon
    <3>2. Kept(p, v)
      BY <2>2, <3>1, KeptNow, Zenon
    <3> QED
      BY <1>1, <3>2, Zenon
  <2> QED
    BY <2>1, <2>2, SentStep, Zenon
<1> QED
  BY <1>2, <1>3

\* Steps that leave the records, the stored data and the loop alone, and the
\* source sessions.
LEMMA Aside ==
  ASSUME IInv, NodeTypes', WriteTypes', UNCHANGED <<records, data, att>>,
         gw'.write \in {gw.write, NoWrite},
         \A n \in Nodes : session'[n] # session[n] => session[n] \in {Free, Gateway}
  PROVE  IInv'
<1>1. UNCHANGED <<mapping, sets, trans, op, batch, moves, holds, taken, written, committed,
                  stale, intruded, att>>
  BY DEF records, data
<1>2. Types' /\ sets'[mapping'] # NoSet /\ ~intruded'
  BY <1>1 DEF IInv, Types, RecordTypes
<1>3. Derived' /\ Leads'
  BY <1>1 DEF IInv, Derived, Leads
<1>4. Trying'
  BY <1>1 DEF IInv, Trying
<1>5. Dated'
  <2>1. \A p \in Pages : gw'.write.page = p => gw'.write = gw.write
    BY TransitionAssumption DEF NoWrite
  <2> QED
    BY <1>1, <2>1 DEF IInv, Dated
<1>6. Holding'
  <2>1. From' = From /\ att.ref \in Refs
    BY <1>1 DEF From, IInv, Types, Attempts
  <2>2. From \subseteq Nodes
    BY <2>1, MembersAreNodes, Zenon DEF From, IInv, Types, RecordTypes
  <2>3. Source(att.ref) \notin {Free, Gateway}
    BY <2>1, Contexts, Zenon
  <2> QED
    BY <1>1, <2>1, <2>2, <2>3, Zenon DEF IInv, Holding
<1>7. Mapped' = Mapped
  BY <1>1 DEF Mapped
<1>8. AckedKept' /\ SentKept'
  BY <1>1, <1>7, KeptFrame, Zenon
<1> QED
  BY <1>2, <1>3, <1>4, <1>5, <1>6, <1>8, Zenon DEF IInv

\* Steps of the loop outside the copying: the mapping and the data stay.
LEMMA LoopStep ==
  ASSUME IInv, RecordTypes', NodeTypes', att' \in Attempts, att'.pc # "copy",
         UNCHANGED <<mapping, batch, data, gw>>,
         Members(sets'[mapping]) = Members(sets[mapping]), sets'[mapping] # NoSet,
         Derived', Leads', Trying'
  PROVE  IInv'
<1>1. UNCHANGED <<mapping, batch, holds, taken, written, committed, stale, intruded, gw>>
  BY DEF data
<1>2. WriteTypes'
  BY <1>1 DEF IInv, Types, WriteTypes
<1>3. Types' /\ sets'[mapping'] # NoSet /\ ~intruded'
  BY <1>1, <1>2, Zenon DEF IInv, Types
<1>4. Holding'
  BY Zenon DEF Holding
<1>5. Dated'
  BY <1>1 DEF IInv, Dated
<1>6. Mapped' = Mapped
  BY <1>1, Zenon DEF Mapped
<1>7. AckedKept' /\ SentKept'
  BY <1>1, <1>2, <1>6, KeptFrame, Zenon
<1> QED
  BY <1>3, <1>4, <1>5, <1>7, Zenon DEF IInv

\* The loop between attempts.
LEMMA AtTypes ==
  ASSUME NEW pc \in LoopPcs
  PROVE  At(pc) \in Attempts /\ At(pc).pc = pc
BY DEF At, Attempts, Refs

-----------------------------------------------------------------------------
(* The gateway *)

\* OpenVolume, CloseVolume and a refresh take or free sessions of the gateway.
LEMMA SessionsHold ==
  ASSUME IInv, OpenVolume \/ CloseVolume \/ RefreshSessions
  PROVE  IInv'
<1>1. /\ session \in [Nodes -> WriterContexts] /\ Usable \subseteq Nodes
      /\ gw \in [open : BOOLEAN, handles : SUBSET Nodes, write : {NoWrite} \cup Writes]
  BY DEF IInv, Types, NodeTypes, WriteTypes, Usable
<1>2. /\ Opened(Usable, Gateway) \in [Nodes -> WriterContexts]
      /\ \A n \in Nodes : Opened(Usable, Gateway)[n] # session[n] => session[n] = Free
  BY <1>1, OpenedAt, Contexts
<1>3. /\ session' \in [Nodes -> WriterContexts]
      /\ \A n \in Nodes : session'[n] # session[n] => session[n] \in {Free, Gateway}
  <2>1. CASE session' = Opened(Usable, Gateway)
    BY <1>2, <2>1
  <2>2. CASE \E S : session' = Closed(session, S, {Gateway})
    <3>1. PICK S : session' = Closed(session, S, {Gateway})
      BY <2>2
    <3>2. /\ Closed(session, S, {Gateway}) \in [Nodes -> WriterContexts]
          /\ \A n \in Nodes : Closed(session, S, {Gateway})[n] # session[n] =>
                session[n] \in {Gateway}
      BY <1>1, ClosedAt
    <3> QED
      BY <3>1, <3>2
  <2>3. CASE \E S : session' = Closed(Opened(Usable, Gateway), S, {Gateway})
    <3>1. PICK S : session' = Closed(Opened(Usable, Gateway), S, {Gateway})
      BY <2>3
    <3>2. PICK sess \in [Nodes -> WriterContexts] : sess = Opened(Usable, Gateway)
      BY <1>2, Zenon
    <3>3. /\ Closed(sess, S, {Gateway}) \in [Nodes -> WriterContexts]
          /\ \A n \in Nodes : Closed(sess, S, {Gateway})[n] # sess[n] =>
                sess[n] \in {Gateway}
      BY ClosedAt
    <3> QED
      BY <1>2, <3>1, <3>2, <3>3
  <2> QED
    BY <2>1, <2>2, <2>3, Zenon DEF OpenVolume, CloseVolume, RefreshSessions
<1>4. gw' \in [open : BOOLEAN, handles : SUBSET Nodes, write : {NoWrite} \cup Writes]
      /\ gw'.write = gw.write
  BY <1>1, Zenon DEF OpenVolume, CloseVolume, RefreshSessions
<1>5. UNCHANGED <<records, data, att, draining, up, faults>>
  BY DEF OpenVolume, CloseVolume, RefreshSessions
<1>6. NodeTypes' /\ WriteTypes'
  BY <1>3, <1>4, <1>5 DEF IInv, Types, NodeTypes, WriteTypes, data
<1> QED
  BY <1>3, <1>4, <1>5, <1>6, Aside, Zenon
\* A payload write adds a version; while an attempt copies, only source nodes
\* that restarted take part in it.
LEMMA PayloadHolds ==
  ASSUME IInv, NEW q \in Pages, WritePayload(q)
  PROVE  IInv'
<1> DEFINE reached == {n \in Mapped \cap Usable \cap gw.handles : session[n] = Gateway}
           u == written[q] + 1
           sent == [page |-> q, version |-> u, behind |-> FALSE]
<1>1. /\ UNCHANGED <<mapping, sets, trans, op, batch, moves, taken, committed, stale, session,
                     att, draining, up, faults>>
      /\ holds' = [n \in Nodes |-> IF n \in reached THEN [holds[n] EXCEPT ![q] = u]
                                                    ELSE holds[n]]
      /\ written' = [written EXCEPT ![q] = u] /\ u <= MaxVersion
      /\ gw' = IF Acked(reached) THEN [gw EXCEPT !.write = sent] ELSE gw
      /\ gw.write = NoWrite
      /\ intruded' = (intruded \/ /\ Acked(reached)
                                  /\ att.pc = "copy" /\ att.ref = mapping
                                  /\ ~Quorum(att.lost, Mapped))
  BY Zenon DEF WritePayload, records
<1>2. /\ written \in [Pages -> 1..MaxVersion]
      /\ holds \in [Nodes -> [Pages -> 0..MaxVersion]]
      /\ gw \in [open : BOOLEAN, handles : SUBSET Nodes, write : {NoWrite} \cup Writes]
  BY DEF IInv, Types, NodeTypes, WriteTypes
<1>3. u \in 1..MaxVersion /\ u > written[q]
  BY <1>1, <1>2, TransitionAssumption
<1> HIDE DEF u
<1>4. ~intruded'
  <2> SUFFICES ASSUME Acked(reached), att.pc = "copy", att.ref = mapping
               PROVE  Quorum(att.lost, Mapped)
    BY <1>1, Zenon DEF IInv
  <2>1. /\ \A n \in Mapped : session[n] = Source(att.ref) \/ n \in att.lost
        /\ Source(att.ref) # Gateway
    BY Contexts, Zenon DEF IInv, Types, RecordTypes, Holding, From, Mapped
  <2>2. reached \cap Mapped \subseteq att.lost
    BY <2>1, Zenon
  <2>3. IsFiniteSet(Mapped)
    BY MembersAreNodes, Zenon DEF IInv, Types, RecordTypes, Mapped
  <2> QED
    BY <2>2, <2>3, QuorumGrows, Zenon DEF Acked
<1> HIDE DEF reached
<1>5. NodeTypes'
  <2>1. holds' \in [Nodes -> [Pages -> 0..MaxVersion]]
    BY <1>1, <1>2, <1>3
  <2> QED
    BY <1>1, <2>1 DEF IInv, Types, NodeTypes
<1>6. gw'.write \in {NoWrite, sent} /\ gw'.open = gw.open /\ gw'.handles = gw.handles
  BY <1>1, <1>2
<1>7. WriteTypes'
  <2>1. sent \in Writes
    BY <1>3 DEF Writes
  <2>2. gw' \in [open : BOOLEAN, handles : SUBSET Nodes, write : {NoWrite} \cup Writes]
    <3> HIDE DEF sent
    <3> QED
      BY <1>1, <1>2, <2>1
  <2>3. written' \in [Pages -> 1..MaxVersion]
    BY <1>1, <1>2, <1>3
  <2>4. intruded' \in BOOLEAN
    BY <1>1, Zenon
  <2> QED
    BY <1>1, <2>2, <2>3, <2>4 DEF IInv, Types, WriteTypes
<1>8. Types' /\ sets'[mapping'] # NoSet
  BY <1>1, <1>5, <1>7 DEF IInv, Types, RecordTypes
<1>9. Derived' /\ Leads'
  BY <1>1 DEF IInv, Derived, Leads
<1>10. Trying'
  BY <1>1 DEF IInv, Trying
<1>11. Holding'
  BY <1>1 DEF IInv, Holding, From
<1>12. Dated'
  <2> SUFFICES ASSUME NEW p \in Pages
               PROVE  /\ committed'[p] <= written'[p]
                      /\ gw'.write.page = p => gw'.write.version <= written'[p]
                      /\ \A n \in Nodes : holds'[n][p] <= written'[p]
                      /\ \A r \in Refs : batch'[r][p].version <= written'[p]
                      /\ \A t \in taken' : t[4] = p => t[5] <= written'[p]
    BY Zenon DEF Dated
  <2>1. /\ written[p] <= written'[p] /\ written[p] \in Nat /\ written'[p] \in Nat
        /\ p = q => written'[p] = u
    BY <1>1, <1>2, <1>3
  <2>2. /\ committed[p] <= written[p] /\ committed[p] \in Nat
        /\ \A n \in Nodes : holds[n][p] <= written[p] /\ holds[n][p] \in Nat
        /\ \A r \in Refs : batch[r][p].version <= written[p] /\ batch[r][p] \in Batches
        /\ \A t \in taken : t[5] \in Nat /\ (t[4] = p => t[5] <= written[p])
    BY DEF IInv, Dated, Types, RecordTypes, NodeTypes, WriteTypes
  <2>3. \A n \in Nodes : holds'[n][p] <= written'[p]
    BY <1>1, <1>2, <1>3, <2>1, <2>2
  <2>4. gw'.write.page = p => gw'.write.version <= written'[p]
    BY <1>6, <2>1, TransitionAssumption DEF NoWrite
  <2> QED
    BY <1>1, <2>1, <2>2, <2>3, <2>4 DEF Batches
<1>13. AckedKept'
  <2>1. committed' \in [Pages -> 1..MaxVersion]
    BY <1>7, Zenon DEF WriteTypes
  <2>2. ASSUME NEW p \in Pages, NEW v \in 1..MaxVersion, p \notin stale', v = committed'[p]
        PROVE  Kept(p, v)'
    BY <1>1, <2>2, KeptNow, WriteKeeps, Zenon
  <2> QED
    BY <2>1, <2>2, AckedStep, Zenon
<1>14. SentKept'
  <2>1. gw'.write \in {NoWrite} \cup Writes
    BY <1>7 DEF WriteTypes
  <2>2. ASSUME NEW p \in Pages, NEW v \in 1..MaxVersion, gw'.write # NoWrite,
               ~gw'.write.behind, p = gw'.write.page, v = gw'.write.version
        PROVE  Kept(p, v)'
    <3>1. p = q /\ v = written[q] + 1
      BY <1>6, <2>2 DEF u
    <3> QED
      BY <2>2, <3>1, WriteKeeps, Zenon
  <2> QED
    BY <2>1, <2>2, SentStep, Zenon
<1> QED
  BY <1>4, <1>8, <1>9, <1>10, <1>11, <1>12, <1>13, <1>14, Zenon DEF IInv

\* The commit makes the write in flight the acknowledged one.
LEMMA CommitHolds ==
  ASSUME IInv, CommitWrite
  PROVE  IInv'
<1>1. PICK w \in Writes : w = gw.write
  BY DEF IInv, Types, WriteTypes, CommitWrite
<1>2. /\ UNCHANGED <<mapping, sets, trans, op, batch, moves, holds, taken, written, intruded,
                     session, att, draining, up, faults>>
      /\ committed' = [committed EXCEPT ![w.page] = w.version]
      /\ stale' = IF w.behind THEN stale \cup {w.page} ELSE stale \ {w.page}
      /\ gw' = [gw EXCEPT !.write = NoWrite]
  BY <1>1 DEF CommitWrite, records
<1>3. /\ w.page \in Pages /\ w.version \in 1..MaxVersion
      /\ gw \in [open : BOOLEAN, handles : SUBSET Nodes, write : {NoWrite} \cup Writes]
      /\ committed \in [Pages -> 1..MaxVersion]
  BY <1>1 DEF IInv, Types, WriteTypes, Writes
<1>4. gw' \in [open : BOOLEAN, handles : SUBSET Nodes, write : {NoWrite} \cup Writes]
      /\ gw'.write = NoWrite
  BY <1>2, <1>3
<1>5. WriteTypes'
  BY <1>2, <1>3, <1>4 DEF IInv, Types, WriteTypes
<1>6. Types' /\ sets'[mapping'] # NoSet /\ ~intruded'
  BY <1>2, <1>5 DEF IInv, Types, RecordTypes, NodeTypes
<1>7. Derived' /\ Leads'
  BY <1>2 DEF IInv, Derived, Leads
<1>8. Trying'
  BY <1>2 DEF IInv, Trying
<1>9. Holding'
  BY <1>2 DEF IInv, Holding, From
<1>10. Dated'
  BY <1>1, <1>2, <1>3, <1>4, TransitionAssumption DEF IInv, Dated, NoWrite
<1>11. Mapped' = Mapped
  BY <1>2 DEF Mapped
<1>12. AckedKept'
  <2>1. committed' \in [Pages -> 1..MaxVersion]
    BY <1>5, Zenon DEF WriteTypes
  <2>2. ASSUME NEW p \in Pages, NEW v \in 1..MaxVersion, p \notin stale', v = committed'[p]
        PROVE  Kept(p, v)'
    <3>1. Kept(p, v)
      <4>1. CASE p = w.page
        <5>1. v = w.version /\ ~w.behind
          BY <1>2, <1>3, <2>2, <4>1
        <5>2. gw.write # NoWrite
          BY DEF CommitWrite
        <5> QED
          BY <1>1, <4>1, <5>1, <5>2, KeptNow, Zenon
      <4>2. CASE p # w.page
        <5>1. v = committed[p] /\ p \notin stale
          BY <1>2, <1>3, <2>2, <4>2
        <5> QED
          BY <5>1, KeptNow, Zenon
      <4> QED
        BY <4>1, <4>2
    <3> QED
      BY <1>2, <1>11, <3>1, KeptSame, Zenon
  <2> QED
    BY <2>1, <2>2, AckedStep, Zenon
<1>13. SentKept'
  BY <1>4, Zenon DEF SentKept
<1> QED
  BY <1>6, <1>7, <1>8, <1>9, <1>10, <1>12, <1>13, Zenon DEF IInv
-----------------------------------------------------------------------------
(* The scans of the maintenance loop *)

\* planReplacementReplicaSet takes the node out, and its replacement has its role.
LEMMA ReplacementGood ==
  ASSUME NEW rs \in ReplicaSets, NEW n, up \subseteq Nodes, NEW to \in Replacements(rs, n),
         rs # NoSet => rs.primary \in Members(rs)
  PROVE  /\ n \in Members(rs) /\ n \notin Members(to)
         /\ to \in ReplicaSets /\ to.primary \in Members(to)
<1>1. n \in Members(rs)
  BY Zenon DEF Replacements
<1>2. PICK m \in Usable \ Members(rs) : to = Replace(rs, n, m)
  BY <1>1, Zenon DEF Replacements
<1>3. m \in Nodes /\ m # n
  BY <1>1 DEF Usable
<1>4. PICK D \in SUBSET Nat : rs.nodes \in [D -> Nodes]
  BY Zenon DEF ReplicaSets, Lists
<1>5. /\ to.nodes = [i \in D |-> IF rs.nodes[i] = n THEN m ELSE rs.nodes[i]]
      /\ to.primary = IF rs.primary = n THEN m ELSE rs.primary
      /\ to = [nodes |-> to.nodes, primary |-> to.primary]
  BY <1>2, <1>4 DEF Replace
<1>6. to.nodes \in [D -> Nodes]
  BY <1>3, <1>4, <1>5
<1>7. to.nodes \in Lists
  BY <1>6, Zenon DEF Lists
<1>8. to.primary \in Nodes \cup {NoNode}
  BY <1>3, <1>5 DEF ReplicaSets
<1>9. to \in ReplicaSets
  BY <1>5, <1>7, <1>8 DEF ReplicaSets
<1>10. n \notin Members(to)
  BY <1>3, <1>5, <1>6 DEF Members
<1>11. to.primary \in Members(to)
  <2>1. rs # NoSet
    BY <1>1 DEF NoSet, Members
  <2>2. PICK i \in D : rs.nodes[i] = rs.primary
    BY <1>4, <2>1, Zenon DEF Members
  <2>3. to.nodes[i] = to.primary
    BY <1>5, <2>2
  <2>4. DOMAIN to.nodes = D
    BY <1>6
  <2> QED
    BY <2>2, <2>3, <2>4, Zenon DEF Members
<1> QED
  BY <1>1, <1>9, <1>10, <1>11

\* A plan for a node of the mapped set is stored under another ref than the
\* mapped one: the mapped set stays as it is.
LEMMA PlanGood ==
  ASSUME IInv, NEW reason \in {"drain", "repair"}, NEW n,
         NEW to \in Replacements(sets[mapping], n),
         sets' = [sets EXCEPT ![<<reason, n>>] = to]
  PROVE  /\ <<reason, n>> \in Refs \ {Root}
         /\ sets' \in [Refs -> ReplicaSets] /\ sets'[mapping] = sets[mapping] /\ Derived'
<1>1. /\ mapping \in Refs /\ sets \in [Refs -> ReplicaSets] /\ up \subseteq Nodes
      /\ Derived
  BY DEF IInv, Types, RecordTypes, NodeTypes
<1>2. /\ n \in Members(sets[mapping]) /\ n \notin Members(to)
      /\ to \in ReplicaSets /\ to.primary \in Members(to)
  BY <1>1, ReplacementGood, Zenon DEF Derived
<1>3. n \in Nodes
  BY <1>1, <1>2, MembersAreNodes, Zenon
<1>4. <<reason, n>> \in Refs \ {Root}
  BY <1>3 DEF Refs, Root
<1>5. mapping # <<reason, n>>
  <2> SUFFICES ASSUME mapping = <<reason, n>>
               PROVE  FALSE
    OBVIOUS
  <2>1. mapping[2] \notin Members(sets[mapping])
    BY <1>1, <1>4, Zenon DEF Derived
  <2> QED
    BY <1>2, <2>1
<1>6. sets' \in [Refs -> ReplicaSets] /\ sets'[mapping] = sets[mapping]
  BY <1>1, <1>2, <1>4, <1>5
<1>7. ASSUME NEW r \in Refs
      PROVE  /\ sets'[r] # NoSet => sets'[r].primary \in Members(sets'[r])
             /\ r # Root => r[2] \notin Members(sets'[r])
  <2>1. CASE r = <<reason, n>>
    <3>1. sets'[r] = to /\ r[2] = n
      BY <1>1, <2>1
    <3> QED
      BY <1>2, <3>1, Zenon
  <2>2. CASE r # <<reason, n>>
    <3>1. sets'[r] = sets[r]
      BY <1>1, <2>2
    <3> QED
      BY <1>1, <3>1, Zenon DEF Derived
  <2> QED
    BY <2>1, <2>2
<1> QED
  BY <1>4, <1>6, <1>7, Zenon DEF Derived

\* Both scans that queue a transition.
LEMMA EnqueueGood ==
  ASSUME IInv, NEW reason \in {"drain", "repair"}, NEW n, Enqueue(reason, n)
  PROVE  /\ sets' \in [Refs -> ReplicaSets] /\ sets'[mapping] = sets[mapping] /\ Derived'
         /\ trans' \in [Refs -> Transitions] /\ Leads' /\ moves' \in 0..MaxMoves
<1>1. /\ mapping \in Refs /\ sets \in [Refs -> ReplicaSets] /\ moves \in 0..MaxMoves
      /\ trans \in [Refs -> Transitions] /\ Derived /\ Leads
  BY DEF IInv, Types, RecordTypes
<1>2. CASE UNCHANGED <<sets, trans, moves>>
  BY <1>1, <1>2 DEF Derived, Leads
<1>3. ASSUME moves < MaxMoves, NEW to \in Replacements(sets[mapping], n),
             sets' = [sets EXCEPT ![<<reason, n>>] = to],
             trans' = [trans EXCEPT ![mapping] = [state |-> "queued", target |-> <<reason, n>>]],
             moves' = moves + 1
      PROVE  /\ sets' \in [Refs -> ReplicaSets] /\ sets'[mapping] = sets[mapping] /\ Derived'
             /\ trans' \in [Refs -> Transitions] /\ Leads' /\ moves' \in 0..MaxMoves
  <2>1. /\ <<reason, n>> \in Refs \ {Root}
        /\ sets' \in [Refs -> ReplicaSets] /\ sets'[mapping] = sets[mapping] /\ Derived'
    BY <1>3, PlanGood, Zenon
  <2>2. trans' \in [Refs -> Transitions]
    BY <1>1, <1>3, <2>1 DEF Transitions
  <2>3. Leads'
    BY <1>1, <1>3, <2>1 DEF Leads
  <2>4. moves' \in 0..MaxMoves
    BY <1>1, <1>3, TransitionAssumption
  <2> QED
    BY <2>1, <2>2, <2>3, <2>4
<1> QED
  BY <1>2, <1>3, Zenon DEF Enqueue

LEMMA EnqueueHolds ==
  ASSUME IInv, EnqueueDrain \/ ScanAndEnqueueRepairs
  PROVE  IInv'
<1>1. /\ UNCHANGED <<mapping, op, batch, data, session, gw, draining, up, faults>>
      /\ \/ UNCHANGED <<sets, trans, moves>>
         \/ \E reason \in {"drain", "repair"} : \E n : Enqueue(reason, n)
      /\ \E pc \in {"cleanup", "pick"} : att' = At(pc)
  BY Zenon DEF EnqueueDrain, ScanAndEnqueueRepairs
<1>2. PICK pc \in {"cleanup", "pick"} : att' = At(pc)
  BY <1>1
<1>3. att' \in Attempts /\ att'.pc \notin {"open", "copy", "complete"}
  BY <1>2, AtTypes DEF LoopPcs
<1>4. /\ sets' \in [Refs -> ReplicaSets] /\ sets'[mapping] = sets[mapping] /\ Derived'
      /\ trans' \in [Refs -> Transitions] /\ Leads' /\ moves' \in 0..MaxMoves
  <2>1. CASE UNCHANGED <<sets, trans, moves>>
    BY <2>1 DEF IInv, Types, RecordTypes, Derived, Leads
  <2>2. CASE \E reason \in {"drain", "repair"} : \E n : Enqueue(reason, n)
    <3>1. PICK reason \in {"drain", "repair"} : \E n : Enqueue(reason, n)
      BY <2>2
    <3>2. PICK n : Enqueue(reason, n)
      BY <3>1
    <3> QED
      BY <3>2, EnqueueGood, Zenon
  <2> QED
    BY <1>1, <2>1, <2>2
<1>5. RecordTypes'
  BY <1>1, <1>4 DEF IInv, Types, RecordTypes
<1>6. NodeTypes'
  BY <1>1 DEF IInv, Types, NodeTypes, data
<1>7. Trying'
  BY <1>3, Zenon DEF Trying
<1>8. sets'[mapping] # NoSet
  BY <1>4 DEF IInv
<1> QED
  BY <1>1, <1>3, <1>4, <1>5, <1>6, <1>7, <1>8, LoopStep
\* Cleanup deletes sets other than the mapped one.
LEMMA CleanupHolds ==
  ASSUME IInv, CleanupCompletedTransitions
  PROVE  IInv'
<1>1. /\ UNCHANGED <<mapping, op, batch, moves, data, session, gw, draining, up, faults>>
      /\ att' = At("requeue") /\ sets' = KeptSets
      /\ trans' = [r \in Refs |-> IF r \in Completed THEN NoTransition ELSE trans[r]]
  BY DEF CleanupCompletedTransitions
<1>2. att' \in Attempts /\ att'.pc \notin {"open", "copy", "complete"}
  BY <1>1, AtTypes DEF LoopPcs
<1>3. NoSet \in ReplicaSets /\ Members(NoSet) = {}
  <2>1. <<>> \in Lists
    <3>1. <<>> \in Seq(Nodes)
      OBVIOUS
    <3> QED
      BY <3>1, ListsOfNodes, Zenon
  <2> QED
    BY <2>1 DEF NoSet, ReplicaSets, Members
<1>4. /\ mapping \in Refs /\ sets \in [Refs -> ReplicaSets] /\ sets[mapping] # NoSet
      /\ trans \in [Refs -> Transitions] /\ Derived /\ Leads
  BY DEF IInv, Types, RecordTypes
<1>5. \A r \in Refs : sets'[r] \in {NoSet, sets[r]}
  BY <1>1 DEF KeptSets
<1>6. sets' \in [Refs -> ReplicaSets] /\ sets'[mapping] = sets[mapping]
  BY <1>1, <1>3, <1>4 DEF KeptSets
<1>7. Derived'
  BY <1>3, <1>4, <1>5, Zenon DEF Derived
<1>8. trans' \in [Refs -> Transitions]
  BY <1>1, <1>4 DEF NoTransition, Transitions, Refs
<1>9. Leads'
  BY <1>1, <1>4 DEF Leads, NoTransition
<1>10. RecordTypes'
  BY <1>1, <1>6, <1>8 DEF IInv, Types, RecordTypes
<1>11. NodeTypes'
  BY <1>1 DEF IInv, Types, NodeTypes, data
<1>12. Trying'
  BY <1>2, Zenon DEF Trying
<1> QED
  BY <1>1, <1>2, <1>4, <1>6, <1>7, <1>9, <1>10, <1>11, <1>12, LoopStep

\* A retry changes the states of transitions there are.
LEMMA RequeueHolds ==
  ASSUME IInv, RequeueRetryableFailedTransitions
  PROVE  IInv'
<1>1. /\ UNCHANGED <<mapping, sets, batch, moves, data, session, gw, draining, up, faults>>
      /\ att' = At("failover")
      /\ trans' = [r \in Refs |-> IF Retryable(r) THEN [trans[r] EXCEPT !.state = "queued"]
                                                  ELSE trans[r]]
      /\ op' = [r \in Refs |-> IF Retryable(r) THEN [op[r] EXCEPT !.state = "pending"]
                                               ELSE op[r]]
  BY DEF RequeueRetryableFailedTransitions
<1>2. att' \in Attempts /\ att'.pc \notin {"open", "copy", "complete"}
  BY <1>1, AtTypes DEF LoopPcs
<1>3. /\ mapping \in Refs /\ sets \in [Refs -> ReplicaSets] /\ sets[mapping] # NoSet
      /\ trans \in [Refs -> Transitions] /\ op \in [Refs -> Operations] /\ Derived /\ Leads
  BY DEF IInv, Types, RecordTypes
<1>4. trans' \in [Refs -> Transitions]
  BY <1>1, <1>3 DEF Transitions
<1>5. op' \in [Refs -> Operations]
  BY <1>1, <1>3 DEF Operations
<1>6. Leads'
  <2>1. ASSUME NEW r \in Refs
        PROVE  /\ trans'[r].target = trans[r].target
               /\ trans'[r].state # "none" => trans[r].state # "none"
    BY <1>1, <1>3 DEF Transitions, Retryable
  <2> QED
    BY <1>3, <2>1, Zenon DEF Leads
<1>7. Derived'
  BY <1>1, <1>3 DEF Derived
<1>8. RecordTypes'
  BY <1>1, <1>3, <1>4, <1>5 DEF IInv, Types, RecordTypes
<1>9. NodeTypes'
  BY <1>1 DEF IInv, Types, NodeTypes, data
<1>10. Trying'
  BY <1>2, Zenon DEF Trying
<1> QED
  BY <1>1, <1>2, <1>3, <1>6, <1>7, <1>8, <1>9, <1>10, LoopStep

\* A failover takes a member of the set as its primary.
LEMMA FailedOverGood ==
  ASSUME NEW rs \in ReplicaSets, rs # NoSet => rs.primary \in Members(rs)
  PROVE  /\ FailedOver(rs) \in ReplicaSets /\ Members(FailedOver(rs)) = Members(rs)
         /\ FailedOver(rs) # NoSet => FailedOver(rs).primary \in Members(rs)
         /\ rs # NoSet => FailedOver(rs) # NoSet
<1>1. CASE FailedOver(rs) = rs
  BY <1>1
<1>2. CASE FailedOver(rs) # rs
  <2> DEFINE n == FirstIn(rs.nodes, up)
  <2>1. FailedOver(rs) = [rs EXCEPT !.primary = n] /\ Quorum(up, Members(rs))
    BY <1>2, Zenon DEF FailedOver
  <2>2. IsFiniteSet(Members(rs)) /\ Members(rs) \subseteq Nodes
    BY MembersAreNodes, Zenon
  <2>3. Members(rs) \cap up # {}
    BY <2>1, <2>2, QuorumIsSomebody, Zenon
  <2>4. n \in Members(rs)
    BY <2>3, FirstInFinds, Zenon
  <2> HIDE DEF n
  <2>5. /\ FailedOver(rs) \in ReplicaSets
        /\ FailedOver(rs).nodes = rs.nodes /\ FailedOver(rs).primary = n
    BY <2>1, <2>2, <2>4 DEF ReplicaSets
  <2>6. Members(FailedOver(rs)) = Members(rs)
    BY <2>5, Zenon DEF Members
  <2>7. n # NoNode
    BY <2>2, <2>4, TransitionAssumption DEF NoNode
  <2> QED
    BY <2>4, <2>5, <2>6, <2>7 DEF NoSet
<1> QED
  BY <1>1, <1>2

LEMMA FailoverHolds ==
  ASSUME IInv, ScanAndFailoverPrimaries
  PROVE  IInv'
<1>1. /\ UNCHANGED <<mapping, trans, op, batch, moves, data, session, gw, draining, up, faults>>
      /\ att' = At("repairs") /\ sets' = [r \in Refs |-> FailedOver(sets[r])]
  BY DEF ScanAndFailoverPrimaries
<1>2. att' \in Attempts /\ att'.pc \notin {"open", "copy", "complete"}
  BY <1>1, AtTypes DEF LoopPcs
<1>3. /\ mapping \in Refs /\ sets \in [Refs -> ReplicaSets] /\ sets[mapping] # NoSet
      /\ Derived /\ Leads
  BY DEF IInv, Types, RecordTypes
<1>4. ASSUME NEW r \in Refs
      PROVE  /\ sets'[r] \in ReplicaSets /\ Members(sets'[r]) = Members(sets[r])
             /\ sets'[r] # NoSet => sets'[r].primary \in Members(sets[r])
             /\ sets[r] # NoSet => sets'[r] # NoSet
  <2>1. PICK rs \in ReplicaSets : rs = sets[r]
    BY <1>3, Zenon
  <2>2. sets'[r] = FailedOver(rs)
    BY <1>1, <2>1, Zenon
  <2>3. rs # NoSet => rs.primary \in Members(rs)
    BY <1>3, <2>1, Zenon DEF Derived
  <2> QED
    BY <2>1, <2>2, <2>3, FailedOverGood, Zenon
<1>5. sets' \in [Refs -> ReplicaSets]
  BY <1>1, <1>4
<1>6. Derived'
  BY <1>3, <1>4, Zenon DEF Derived
<1>7. Leads'
  BY <1>1, <1>3 DEF Leads
<1>8. RecordTypes'
  BY <1>1, <1>5 DEF IInv, Types, RecordTypes
<1>9. NodeTypes'
  BY <1>1 DEF IInv, Types, NodeTypes, data
<1>10. Trying'
  BY <1>2, Zenon DEF Trying
<1> QED
  BY <1>1, <1>2, <1>3, <1>4, <1>6, <1>7, <1>8, <1>9, <1>10, LoopStep
-----------------------------------------------------------------------------
(* The attempt *)

\* A transition there is changes its state, and the loop starts over.
LEMMA EndsGood ==
  ASSUME IInv, NEW r \in Refs, NEW state \in {"queued", "failed", "completed"},
         trans[r].state # "none", Ends(r, state)
  PROVE  /\ trans' \in [Refs -> Transitions] /\ Leads'
         /\ att' \in Attempts /\ att'.pc = "idle" /\ Trying'
<1>1. trans \in [Refs -> Transitions] /\ Leads
  BY DEF IInv, Types, RecordTypes
<1>2. trans' = [trans EXCEPT ![r].state = state] /\ att' = At("idle")
  BY DEF Ends
<1>3. att' \in Attempts /\ att'.pc = "idle"
  BY <1>2, AtTypes DEF LoopPcs
<1>4. trans' \in [Refs -> Transitions]
  BY <1>1, <1>2 DEF Transitions
<1>5. Leads'
  <2>1. ASSUME NEW s \in Refs
        PROVE  /\ trans'[s].target = trans[s].target
               /\ trans'[s].state # "none" => trans[s].state # "none"
    BY <1>1, <1>2 DEF Transitions
  <2> QED
    BY <1>1, <2>1, Zenon DEF Leads
<1>6. Trying'
  BY <1>3, Zenon DEF Trying
<1> QED
  BY <1>3, <1>4, <1>5, <1>6

\* ApplyTransition up to the operation record: it ends, plans again, or starts
\* an attempt of the mapped ref.
LEMMA RunHolds ==
  ASSUME IInv, RunTransition
  PROVE  IInv'
<1>1. /\ mapping \in Refs /\ sets \in [Refs -> ReplicaSets] /\ sets[mapping] # NoSet
      /\ trans \in [Refs -> Transitions] /\ op \in [Refs -> Operations]
      /\ Derived /\ Leads
  BY DEF IInv, Types, RecordTypes
<1>2. /\ UNCHANGED <<mapping, batch, moves, data, session, gw, draining, up, faults>>
      /\ \/ att' = At("idle") /\ UNCHANGED <<sets, trans, op>>
         \/ \E r \in Runnable : BeginAttempt(r)
  BY Zenon DEF RunTransition
<1>3. NodeTypes'
  BY <1>2 DEF IInv, Types, NodeTypes, data
<1>4. UNCHANGED sets => Derived'
  BY <1>1 DEF Derived
<1>5. CASE att' = At("idle") /\ UNCHANGED <<sets, trans, op>>
  <2>1. att' \in Attempts /\ att'.pc = "idle"
    BY <1>5, AtTypes DEF LoopPcs
  <2>2. Trying'
    BY <2>1, Zenon DEF Trying
  <2>3. Leads'
    BY <1>1, <1>5 DEF Leads
  <2>4. RecordTypes'
    BY <1>2, <1>5 DEF IInv, Types, RecordTypes
  <2> QED
    BY <1>1, <1>2, <1>3, <1>4, <1>5, <2>1, <2>2, <2>3, <2>4, LoopStep
<1>6. ASSUME NEW r \in Runnable, BeginAttempt(r)
      PROVE  IInv'
  <2>1. r \in Refs /\ trans[r].state # "none" /\ trans[r].target \in Refs \ {Root}
    BY <1>1 DEF Runnable, Leads, Transitions
  <2>2. CASE /\ \E state \in {"queued", "failed", "completed"} : Ends(r, state)
             /\ UNCHANGED <<sets, op>>
    <3>1. PICK state \in {"queued", "failed", "completed"} : Ends(r, state)
      BY <2>2
    <3>2. /\ trans' \in [Refs -> Transitions] /\ Leads'
          /\ att' \in Attempts /\ att'.pc = "idle" /\ Trying'
      BY <2>1, <3>1, EndsGood, Zenon
    <3>3. RecordTypes'
      BY <1>2, <2>2, <3>2 DEF IInv, Types, RecordTypes
    <3> QED
      BY <1>1, <1>2, <1>3, <1>4, <2>2, <3>2, <3>3, LoopStep
  <2>3. ASSUME mapping = r, UNCHANGED op, NEW n,
               NEW to \in Replacements(sets[r], n),
               sets' = [sets EXCEPT ![<<trans[r].target[1], n>>] = to],
               trans' = [trans EXCEPT ![r] =
                            [state |-> "queued", target |-> <<trans[r].target[1], n>>]],
               att' = At("idle")
        PROVE  IInv'
    <3>1. PICK reason \in {"drain", "repair"} : reason = trans[r].target[1]
      BY <2>1 DEF Refs
    <3>2. /\ <<reason, n>> \in Refs \ {Root}
          /\ sets' \in [Refs -> ReplicaSets] /\ sets'[mapping] = sets[mapping] /\ Derived'
      BY <2>3, <3>1, PlanGood, Zenon
    <3>3. trans' \in [Refs -> Transitions]
      BY <1>1, <2>3, <3>1, <3>2 DEF Transitions
    <3>4. Leads'
      BY <1>1, <2>1, <2>3, <3>1, <3>2 DEF Leads
    <3>5. att' \in Attempts /\ att'.pc = "idle"
      BY <2>3, AtTypes DEF LoopPcs
    <3>6. Trying'
      BY <3>5, Zenon DEF Trying
    <3>7. RecordTypes'
      BY <1>2, <2>3, <3>2, <3>3 DEF IInv, Types, RecordTypes
    <3> QED
      BY <1>1, <1>2, <1>3, <3>2, <3>4, <3>5, <3>6, <3>7, LoopStep
  <2>4. CASE /\ mapping = r /\ NoSet \notin {sets[r], sets[trans[r].target]}
             /\ StartAttempt(r)
    <3>1. /\ sets' = sets
          /\ trans' = [trans EXCEPT ![r].state = "running"]
          /\ op' = [op EXCEPT ![r].state = "running"]
          /\ att' = [At("open") EXCEPT !.ref = r, !.target = trans[r].target,
                                       !.to = Members(sets[trans[r].target]),
                                       !.left = Pages \ op[r].done, !.done = op[r].done]
      BY <2>4 DEF StartAttempt
    <3>2. Members(sets[trans[r].target]) \subseteq Nodes
      BY <1>1, <2>1, MembersAreNodes, Zenon
    <3>3. /\ att' \in Attempts /\ att'.pc = "open" /\ att'.ref = r
          /\ att'.target = trans[r].target /\ att'.to = Members(sets[trans[r].target])
      <4>1. op[r].done \subseteq Pages
        BY <1>1, <2>1 DEF Operations
      <4> QED
        BY <2>1, <3>1, <3>2, <4>1, Zenon DEF At, Attempts, LoopPcs
    <3>4. /\ trans' \in [Refs -> Transitions] /\ trans'[r].state = "running"
          /\ op' \in [Refs -> Operations]
      BY <1>1, <2>1, <3>1 DEF Transitions, Operations
    <3>5. Leads'
      <4>1. ASSUME NEW s \in Refs
            PROVE  /\ trans'[s].target = trans[s].target
                   /\ trans'[s].state # "none" => trans[s].state # "none"
        BY <1>1, <2>1, <3>1 DEF Transitions
      <4> QED
        BY <1>1, <4>1, Zenon DEF Leads
    <3>6. Trying'
      BY <1>2, <2>4, <3>1, <3>3, <3>4, Zenon DEF Trying
    <3>7. RecordTypes'
      BY <1>2, <3>1, <3>4 DEF IInv, Types, RecordTypes
    <3>8. Derived'
      BY <1>4, <3>1
    <3> QED
      BY <1>1, <1>2, <1>3, <3>1, <3>3, <3>5, <3>6, <3>7, <3>8, LoopStep
  <2>5. CASE ReplanTransitionTarget(r) /\ mapping = r /\ UNCHANGED op
    <3>1. CASE \/ Ends(r, "completed") /\ UNCHANGED sets
               \/ Ends(r, "queued") /\ UNCHANGED sets
      BY <2>2, <2>5, <3>1, Zenon
    <3>2. CASE \E n : \E to \in Replacements(sets[r], n) :
                  /\ sets' = [sets EXCEPT ![<<trans[r].target[1], n>>] = to]
                  /\ trans' = [trans EXCEPT ![r] =
                                  [state |-> "queued", target |-> <<trans[r].target[1], n>>]]
                  /\ att' = At("idle")
      BY <2>3, <2>5, <3>2, Zenon
    <3> QED
      BY <2>5, <3>1, <3>2, Zenon DEF ReplanTransitionTarget
  <2> QED
    BY <1>6, <2>2, <2>4, <2>5, Zenon DEF BeginAttempt
<1> QED
  BY <1>2, <1>5, <1>6, Zenon
\* The source sessions: all of them are open when the copying begins.
LEMMA OpenHolds ==
  ASSUME IInv, OpenSource
  PROVE  IInv'
<1>1. /\ att.pc = "open" /\ session' = Opened(From, Source(att.ref))
      /\ UNCHANGED <<mapping, sets, batch, moves, data, gw, draining, up, faults>>
  BY DEF OpenSource
<1>2. /\ att \in Attempts /\ att.ref \in Refs /\ att.ref = mapping
      /\ trans[att.ref].state = "running" /\ sets[mapping] # NoSet
      /\ sets \in [Refs -> ReplicaSets] /\ session \in [Nodes -> WriterContexts]
      /\ op \in [Refs -> Operations] /\ att.done \subseteq Pages /\ att.lost \subseteq Nodes
      /\ Derived /\ Leads
  BY <1>1 DEF IInv, Types, RecordTypes, NodeTypes, Attempts, Trying
<1>3. From \subseteq Nodes /\ Source(att.ref) \in WriterContexts
  BY <1>2, MembersAreNodes, Contexts, Zenon DEF From
<1>4. /\ session' \in [Nodes -> WriterContexts]
      /\ Refusing(From, Source(att.ref)) = {} => \A n \in From : session'[n] = Source(att.ref)
  <2>1. /\ Opened(From, Source(att.ref)) \in [Nodes -> WriterContexts]
        /\ Refusing(From, Source(att.ref)) = {} =>
              \A n \in From : Opened(From, Source(att.ref))[n] = Source(att.ref)
    <3>1. PICK S : S = From
      BY Zenon
    <3>2. PICK c : c = Source(att.ref)
      BY Zenon
    <3>3. /\ Opened(S, c) \in [Nodes -> WriterContexts]
          /\ Refusing(S, c) = {} => \A n \in S : Opened(S, c)[n] = c
      BY <1>2, <1>3, <3>1, <3>2, OpenedAt
    <3> QED
      BY <3>1, <3>2, <3>3, Zenon
  <2> QED
    BY <1>1, <2>1
<1>5. NodeTypes'
  BY <1>1, <1>4 DEF IInv, Types, NodeTypes, data
<1>6. Derived' /\ Mapped' = Mapped
  BY <1>1, <1>2 DEF Derived, Mapped
<1>7. CASE /\ Refusing(From, Source(att.ref)) = {}
           /\ att' = [att EXCEPT !.pc = "copy", !.opened = From] /\ UNCHANGED <<trans, op>>
  <2>1. /\ att' \in Attempts /\ att'.pc = "copy" /\ att'.ref = att.ref
        /\ att'.target = att.target /\ att'.to = att.to
    BY <1>2, <1>3, <1>7, Zenon DEF Attempts, LoopPcs
  <2>2. RecordTypes' /\ WriteTypes'
    BY <1>1, <1>7 DEF IInv, Types, RecordTypes, WriteTypes, data
  <2>3. Types' /\ sets'[mapping'] # NoSet /\ ~intruded'
    BY <1>1, <1>2, <1>5, <2>1, <2>2 DEF IInv, Types, data
  <2>4. Leads'
    BY <1>2, <1>7 DEF Leads
  <2>5. Trying'
    BY <1>1, <1>7, <2>1 DEF IInv, Trying
  <2>6. Holding'
    BY <1>1, <1>4, <1>7, <2>1 DEF Holding, From
  <2>7. Dated'
    BY <1>1 DEF IInv, Dated, data
  <2>8. AckedKept' /\ SentKept'
    BY <1>1, <1>6, <2>2, KeptFrame DEF data
  <2> QED
    BY <1>6, <2>3, <2>4, <2>5, <2>6, <2>7, <2>8, Zenon DEF IInv
<1>8. CASE /\ \E state \in {"queued", "failed", "completed"} : Ends(att.ref, state)
           /\ FailOperation
  <2>1. PICK r \in Refs, state \in {"queued", "failed", "completed"} :
           r = att.ref /\ Ends(r, state)
    BY <1>2, <1>8
  <2>2. /\ trans' \in [Refs -> Transitions] /\ Leads'
        /\ att' \in Attempts /\ att'.pc = "idle" /\ Trying'
    BY <1>2, <2>1, EndsGood
  <2>3. op' \in [Refs -> Operations]
    BY <1>2, <1>8 DEF FailOperation, Operations
  <2>4. RecordTypes'
    BY <1>1, <2>2, <2>3, Zenon DEF IInv, Types, RecordTypes
  <2> QED
    BY <1>1, <1>2, <1>5, <1>6, <2>2, <2>4, LoopStep DEF Mapped
<1> QED
  BY <1>7, <1>8, Zenon DEF OpenSource

\* Sessions close, the operation is committed.
LEMMA CompleteHolds ==
  ASSUME IInv, CompleteAttempt
  PROVE  IInv'
<1>1. /\ att.pc = "complete" /\ Ends(att.ref, "completed")
      /\ op' = [op EXCEPT ![att.ref] = [state |-> "committed", done |-> Pages]]
      /\ session' = Closed(session, att.opened, AttemptContexts)
      /\ UNCHANGED <<mapping, sets, batch, moves, data, gw, draining, up, faults>>
  BY Zenon DEF CompleteAttempt
<1>2. /\ att.ref \in Refs /\ trans[att.ref].state = "running" /\ sets[mapping] # NoSet
      /\ session \in [Nodes -> WriterContexts] /\ op \in [Refs -> Operations] /\ Derived
  BY <1>1 DEF IInv, Types, RecordTypes, NodeTypes, Attempts, Trying
<1>3. PICK r \in Refs : r = att.ref
  BY <1>2
<1>4. /\ trans' \in [Refs -> Transitions] /\ Leads'
      /\ att' \in Attempts /\ att'.pc = "idle" /\ Trying'
  BY <1>1, <1>2, <1>3, EndsGood, Zenon
<1>5. op' \in [Refs -> Operations]
  BY <1>1, <1>2, Zenon DEF Operations
<1>6. session' \in [Nodes -> WriterContexts]
  BY <1>1, <1>2, ClosedAt, Zenon
<1>7. RecordTypes' /\ NodeTypes'
  BY <1>1, <1>4, <1>5, <1>6, Zenon DEF IInv, Types, RecordTypes, NodeTypes, data
<1>8. Derived'
  BY <1>1, <1>2, Zenon DEF Derived
<1> QED
  BY <1>1, <1>2, <1>4, <1>7, <1>8, LoopStep

\* The write in flight, when a copy or a publish may leave it behind.
LEMMA LeftBehind ==
  ASSUME WriteTypes, NEW b \in BOOLEAN, b => gw.write # NoWrite,
         gw' = [gw EXCEPT !.write.behind = @ \/ b]
  PROVE  /\ gw' \in [open : BOOLEAN, handles : SUBSET Nodes, write : {NoWrite} \cup Writes]
         /\ gw'.write.page = gw.write.page /\ gw'.write.version = gw.write.version
         /\ gw'.write # NoWrite /\ ~gw'.write.behind =>
               gw.write # NoWrite /\ ~gw.write.behind /\ ~b
<1>1. gw \in [open : BOOLEAN, handles : SUBSET Nodes, write : {NoWrite} \cup Writes]
  BY DEF WriteTypes
<1>2. gw' = [gw EXCEPT !.write = [gw.write EXCEPT !.behind = gw.write.behind \/ b]]
  BY <1>1
<1>3. CASE gw.write = NoWrite
  <2>0. PICK f : f = FALSE
    BY Zenon
  <2>a. NoWrite = [page |-> NoPage, version |-> 0, behind |-> f]
    BY <2>0, Zenon DEF NoWrite
  <2>b. NoWrite.behind = f /\ [NoWrite EXCEPT !.behind = f] = NoWrite
    BY <2>a
  <2>1. gw.write.behind = FALSE
    BY <1>3, <2>0, <2>b, Zenon
  <2>2. (gw.write.behind \/ b) = FALSE
    BY <1>3, <2>1, Zenon
  <2>3. [NoWrite EXCEPT !.behind = FALSE] = NoWrite
    BY <2>0, <2>b, Zenon
  <2>4. [gw.write EXCEPT !.behind = gw.write.behind \/ b] = NoWrite
    BY <1>3, <2>2, <2>3, Zenon
  <2> QED
    BY <1>1, <1>2, <1>3, <2>4
<1>4. CASE gw.write \in Writes /\ gw.write # NoWrite
  <2>1. PICK w \in Writes : w = gw.write
    BY <1>4
  <2>2. PICK x \in BOOLEAN : x = (w.behind \/ b)
    BY Zenon
  <2>3. PICK y : y = [w EXCEPT !.behind = x]
    BY Zenon
  <2>4. y \in Writes /\ y.page = w.page /\ y.version = w.version /\ y.behind = x
    BY <2>2, <2>3 DEF Writes
  <2>5. gw' = [gw EXCEPT !.write = y]
    BY <1>2, <2>1, <2>2, <2>3, Zenon
  <2>6. gw'.write = y /\ gw' \in [open : BOOLEAN, handles : SUBSET Nodes, write : {NoWrite} \cup Writes]
    BY <1>1, <2>4, <2>5
  <2>7. ~y.behind => ~w.behind /\ ~b
    BY <2>2, <2>4, Zenon
  <2> QED
    BY <1>4, <2>1, <2>4, <2>6, <2>7, Zenon
<1> QED
  BY <1>1, <1>3, <1>4

\* PutExtentMapping: the pages and the write that the progress lacks are noted.
LEMMA PublishHolds ==
  ASSUME IInv, Publish
  PROVE  IInv'
<1> DEFINE b == gw.write # NoWrite /\ Lacks(gw.write.page, gw.write.version)
<1>1. /\ att.pc = "copy" /\ mapping' = att.target
      /\ stale' = stale \cup {p \in Pages : Lacks(p, committed[p])}
      /\ gw' = [gw EXCEPT !.write.behind = @ \/ b]
      /\ att' = [att EXCEPT !.pc = "complete"]
      /\ UNCHANGED <<sets, trans, op, batch, moves, holds, taken, written, committed, intruded,
                     session, draining, up, faults>>
  BY DEF Publish
<1>2. /\ att \in Attempts /\ att.target \in Refs /\ sets[att.target] # NoSet
      /\ trans[att.ref].state = "running" /\ Derived /\ Leads /\ WriteTypes
  BY <1>1 DEF IInv, Types, Attempts, Trying
<1>3. /\ gw' \in [open : BOOLEAN, handles : SUBSET Nodes, write : {NoWrite} \cup Writes]
      /\ gw'.write.page = gw.write.page /\ gw'.write.version = gw.write.version
      /\ gw'.write # NoWrite /\ ~gw'.write.behind =>
            gw.write # NoWrite /\ ~gw.write.behind /\ ~b
  <2>1. PICK x \in BOOLEAN : x = b
    BY Zenon
  <2> HIDE DEF b
  <2>2. gw' = [gw EXCEPT !.write.behind = @ \/ x]
    BY <1>1, <2>1, Zenon
  <2>3. x => gw.write # NoWrite
    BY <2>1, Zenon DEF b
  <2> QED
    BY <1>2, <2>1, <2>2, <2>3, LeftBehind, Zenon
<1>4. att' \in Attempts /\ att'.pc = "complete" /\ att'.ref = att.ref
  BY <1>1, <1>2 DEF Attempts, LoopPcs
<1>5. RecordTypes' /\ NodeTypes'
  BY <1>1, <1>2 DEF IInv, Types, RecordTypes, NodeTypes
<1>6. WriteTypes'
  BY <1>1, <1>3 DEF IInv, Types, WriteTypes
<1>7. Types' /\ sets'[mapping'] # NoSet /\ ~intruded'
  BY <1>1, <1>2, <1>4, <1>5, <1>6 DEF IInv, Types
<1>8. Derived' /\ Leads' /\ Trying' /\ Holding'
  BY <1>1, <1>2, <1>4 DEF Derived, Leads, Trying, Holding
<1>9. Dated'
  BY <1>1, <1>3 DEF IInv, Dated
<1>10. AckedKept'
  <2>1. committed' \in [Pages -> 1..MaxVersion]
    BY <1>6, Zenon DEF WriteTypes
  <2>2. ASSUME NEW p \in Pages, NEW v \in 1..MaxVersion, p \notin stale', v = committed'[p]
        PROVE  Kept(p, v)'
    <3>1. v = committed[p] /\ p \notin stale /\ ~Lacks(p, committed[p])
      BY <1>1, <2>2, Zenon
    <3>2. ~Lacks(p, v) /\ Kept(p, v)
      BY <3>1, KeptNow, Zenon
    <3> QED
      BY <3>2, PublishKeeps, Zenon
  <2> QED
    BY <2>1, <2>2, AckedStep, Zenon
<1>11. SentKept'
  <2>1. gw'.write \in {NoWrite} \cup Writes
    BY <1>3
  <2>2. ASSUME NEW p \in Pages, NEW v \in 1..MaxVersion, gw'.write # NoWrite,
               ~gw'.write.behind, p = gw'.write.page, v = gw'.write.version
        PROVE  Kept(p, v)'
    <3>1. /\ gw.write # NoWrite /\ ~gw.write.behind /\ p = gw.write.page
          /\ v = gw.write.version /\ ~Lacks(gw.write.page, gw.write.version)
      BY <1>3, <2>2, Zenon
    <3>2. ~Lacks(p, v) /\ Kept(p, v)
      BY <3>1, KeptNow, Zenon
    <3> QED
      BY <3>2, PublishKeeps, Zenon
  <2> QED
    BY <2>1, <2>2, SentStep, Zenon
<1> QED
  BY <1>7, <1>8, <1>9, <1>10, <1>11, Zenon DEF IInv
\* What the copy reads is a version that was written.
LEMMA ReadVersion ==
  ASSUME IInv, NEW p \in Pages
  PROVE  PageRead(p) \in 0..MaxVersion /\ PageRead(p) <= written[p]
<1>1. /\ att.ref \in Refs /\ sets \in [Refs -> ReplicaSets]
      /\ holds \in [Nodes -> [Pages -> 0..MaxVersion]] /\ written \in [Pages -> 1..MaxVersion]
      /\ \A n \in Nodes : holds[n][p] <= written[p]
  BY Zenon DEF IInv, Types, RecordTypes, NodeTypes, WriteTypes, Attempts, Dated
<1> DEFINE found == {n \in Answering : holds[n][p] > 0}
<1>2. CASE found = {}
  <2>1. PageRead(p) = 0
    BY <1>2, Zenon DEF PageRead
  <2> QED
    BY <1>1, <2>1, TransitionAssumption
<1>3. CASE found # {}
  <2>1. PICK rs \in ReplicaSets : rs = sets[att.ref]
    BY <1>1, Zenon
  <2>2. found \subseteq Members(rs)
    BY <2>1, Zenon DEF Answering, From
  <2>3. PageRead(p) = holds[FirstTried(rs, found)][p]
    BY <1>3, <2>1, Zenon DEF PageRead
  <2> HIDE DEF found
  <2>4. FirstTried(rs, found) \in Members(rs)
    BY <1>3, <2>2, FirstTriedFinds, Zenon
  <2>5. FirstTried(rs, found) \in Nodes
    BY <2>4, MembersAreNodes, Zenon
  <2> QED
    BY <1>1, <2>3, <2>5
<1> QED
  BY <1>2, <1>3

\* A page that is done leaves the attempt as it is but for the progress; a page
\* that fails ends it.
LEMMA CopyControl ==
  ASSUME IInv, NEW p \in Pages, CopyPage(p)
  PROVE  /\ trans' \in [Refs -> Transitions] /\ op' \in [Refs -> Operations] /\ Leads'
         /\ att' \in Attempts /\ Trying'
         /\ att'.pc = "copy" => att'.ref = att.ref /\ att'.lost = att.lost
<1>1. /\ att \in Attempts /\ att.pc = "copy" /\ att.ref \in Refs /\ att.to \subseteq Nodes
      /\ sets \in [Refs -> ReplicaSets] /\ trans \in [Refs -> Transitions]
      /\ op \in [Refs -> Operations] /\ Leads /\ Trying
      /\ trans[att.ref].state = "running"
  BY Zenon DEF IInv, Types, RecordTypes, Attempts, Trying, CopyPage
<1>2. UNCHANGED <<mapping, sets>>
  BY Zenon DEF CopyPage
<1>3. \/ \E opened \in {att.opened, att.opened \cup NewNodes} : MarkCompleted(p, opened)
      \/ /\ \E state \in {"queued", "failed", "completed"} : Ends(att.ref, state)
         /\ FailOperation
  BY Zenon DEF CopyPage, WriteCopy, FailPage
<1>4. ASSUME NEW opened \in {att.opened, att.opened \cup NewNodes}, MarkCompleted(p, opened)
      PROVE  /\ trans' = trans /\ op' \in [Refs -> Operations]
             /\ att' \in Attempts /\ att'.pc = "copy" /\ att'.ref = att.ref
             /\ att'.target = att.target /\ att'.to = att.to /\ att'.lost = att.lost
  <2>1. opened \subseteq Nodes
    BY <1>1 DEF NewNodes, Attempts
  <2>2. op' \in [Refs -> Operations]
    BY <1>1, <1>4 DEF MarkCompleted, Operations
  <2> QED
    BY <1>1, <1>4, <2>1, <2>2, Zenon DEF MarkCompleted, Attempts
<1>5. CASE \E opened \in {att.opened, att.opened \cup NewNodes} : MarkCompleted(p, opened)
  <2>1. /\ trans' = trans /\ op' \in [Refs -> Operations]
        /\ att' \in Attempts /\ att'.pc = "copy" /\ att'.ref = att.ref
        /\ att'.target = att.target /\ att'.to = att.to /\ att'.lost = att.lost
    BY <1>4, <1>5, Zenon
  <2>2. Leads' /\ trans' \in [Refs -> Transitions]
    BY <1>1, <2>1 DEF Leads
  <2>3. Trying'
    BY <1>1, <1>2, <2>1, Zenon DEF Trying
  <2> QED
    BY <2>1, <2>2, <2>3, Zenon
<1>6. CASE /\ \E state \in {"queued", "failed", "completed"} : Ends(att.ref, state)
           /\ FailOperation
  <2>1. PICK r \in Refs, state \in {"queued", "failed", "completed"} :
           r = att.ref /\ Ends(r, state)
    BY <1>1, <1>6, Zenon
  <2>2. /\ trans' \in [Refs -> Transitions] /\ Leads'
        /\ att' \in Attempts /\ att'.pc = "idle" /\ Trying'
    BY <1>1, <2>1, EndsGood
  <2>3. op' \in [Refs -> Operations]
    BY <1>1, <1>6 DEF FailOperation, Operations, Attempts
  <2> QED
    BY <2>2, <2>3
<1> QED
  BY <1>3, <1>5, <1>6

\* While the attempt goes on, its source sessions are not touched.
LEMMA CopySessions ==
  ASSUME IInv, NEW p \in Pages, CopyPage(p)
  PROVE  /\ session' \in [Nodes -> WriterContexts]
         /\ att'.pc = "copy" => \A n \in From : session'[n] = session[n]
<1> DEFINE opening == Opened(NewNodes, Target(att.target))
<1>1. /\ att.pc = "copy" /\ att.ref \in Refs /\ att.target \in Refs /\ att.to \subseteq Nodes
      /\ sets \in [Refs -> ReplicaSets] /\ session \in [Nodes -> WriterContexts]
  BY Zenon DEF IInv, Types, RecordTypes, NodeTypes, Attempts, CopyPage
<1>2. NewNodes \subseteq Nodes /\ From \subseteq Nodes /\ Target(att.target) \in WriterContexts
  BY <1>1, MembersAreNodes, Contexts, Zenon DEF NewNodes, From
<1>3. /\ opening \in [Nodes -> WriterContexts]
      /\ \A n \in From : opening[n] = session[n]
  <2>1. PICK S : S = NewNodes
    BY Zenon
  <2>2. PICK c : c = Target(att.target)
    BY Zenon
  <2>3. /\ Opened(S, c) \in [Nodes -> WriterContexts]
        /\ \A n \in Nodes : Opened(S, c)[n] # session[n] => n \in S
    BY <1>1, <1>2, <2>1, <2>2, OpenedAt
  <2>4. opening = Opened(S, c)
    BY <2>1, <2>2, Zenon
  <2> QED
    BY <1>2, <2>1, <2>3, <2>4, Zenon DEF NewNodes
<1> HIDE DEF opening
<1>4. \/ session' \in {session, opening}
      \/ /\ att' = At("idle")
         /\ \E sess \in {session, opening}, S \in {att.opened, att.opened \cup NewNodes} :
               session' = Closed(sess, S, AttemptContexts)
  BY Zenon DEF CopyPage, WriteCopy, FailPage, Ends, opening
<1>5. CASE session' \in {session, opening}
  BY <1>1, <1>2, <1>3, <1>5
<1>6. CASE /\ att' = At("idle")
           /\ \E sess \in {session, opening}, S \in {att.opened, att.opened \cup NewNodes} :
                 session' = Closed(sess, S, AttemptContexts)
  <2>1. att'.pc = "idle"
    BY <1>6, AtTypes DEF LoopPcs
  <2>2. PICK sess \in {session, opening}, S \in {att.opened, att.opened \cup NewNodes} :
           session' = Closed(sess, S, AttemptContexts)
    BY <1>6
  <2>3. sess \in [Nodes -> WriterContexts]
    BY <1>1, <1>3
  <2> QED
    BY <2>1, <2>2, <2>3, ClosedAt
<1> QED
  BY <1>4, <1>5, <1>6
\* The progress of a page, when its batch is committed or fails.
LEMMA BatchOf ==
  ASSUME batch \in [Refs -> [Pages -> Batches]], att.ref \in Refs, att.to \subseteq Nodes,
         NEW p \in Pages, NEW v \in 0..MaxVersion,
         CommitBatch(p, v) \/ batch' = [batch EXCEPT ![att.ref][p].state = "failed"]
  PROVE  /\ batch' \in [Refs -> [Pages -> Batches]]
         /\ \A r \in Refs, q \in Pages :
               \/ q = p /\ batch'[r][q].version = v
               \/ /\ batch'[r][q].version = batch[r][q].version
                  /\ batch'[r][q].to = batch[r][q].to
<1>1. PICK b \in Batches :
         /\ batch' = [batch EXCEPT ![att.ref][p] = b]
         /\ \/ b.version = v
            \/ b.version = batch[att.ref][p].version /\ b.to = batch[att.ref][p].to
  <2>1. CASE CommitBatch(p, v)
    <3>1. PICK b : b = [state |-> "committed", version |-> v, to |-> att.to]
      BY Zenon
    <3>2. b \in Batches /\ b.version = v
      BY <3>1 DEF Batches
    <3>3. batch' = [batch EXCEPT ![att.ref][p] = b]
      BY <2>1, <3>1, Zenon DEF CommitBatch
    <3> QED
      BY <3>2, <3>3, Zenon
  <2>2. CASE batch' = [batch EXCEPT ![att.ref][p].state = "failed"]
    <3>1. PICK a \in Batches : a = batch[att.ref][p]
      OBVIOUS
    <3>2. PICK b : b = [a EXCEPT !.state = "failed"]
      BY Zenon
    <3>3. b \in Batches /\ b.version = a.version /\ b.to = a.to
      BY <3>2, Zenon DEF Batches
    <3>4. batch' = [batch EXCEPT ![att.ref][p] = b]
      BY <2>2, <3>1, <3>2
    <3> QED
      BY <3>1, <3>3, <3>4, Zenon
  <2> QED
    BY <2>1, <2>2, Zenon
<1>2. batch' \in [Refs -> [Pages -> Batches]]
  BY <1>1
<1>3. \A r \in Refs, q \in Pages :
         batch'[r][q] = IF r = att.ref /\ q = p THEN b ELSE batch[r][q]
  BY <1>1
<1> QED
  BY <1>1, <1>2, <1>3, Zenon

\* The ways a page's copy leaves the data: nothing stored, with the progress as
\* it was, failed or of version 0, or a copy of what was read.
LEMMA CopyKinds ==
  ASSUME IInv, NEW p \in Pages, CopyPage(p)
  PROVE  \/ /\ UNCHANGED <<holds, taken, stale, gw>>
            /\ \/ UNCHANGED batch
               \/ batch' = [batch EXCEPT ![att.ref][p].state = "failed"]
               \/ CommitBatch(p, 0)
         \/ \E u \in 1..MaxVersion : \E sess : u <= written[p] /\ WriteCopy(p, u, sess)
<1>1. PICK u : u = PageRead(p)
  BY Zenon
<1>2. u \in 0..MaxVersion /\ u <= written[p]
  BY <1>1, ReadVersion
<1>3. CASE u > 0 /\ \E sess : WriteCopy(p, u, sess)
  BY <1>2, <1>3
<1>4. CASE /\ UNCHANGED <<holds, taken, stale, gw>>
           /\ \/ UNCHANGED batch
              \/ batch' = [batch EXCEPT ![att.ref][p].state = "failed"]
              \/ CommitBatch(p, 0)
  BY <1>4
<1> QED
  BY <1>1, <1>3, <1>4, Zenon DEF CopyPage, FailPage

\* A copy that stores nothing.
LEMMA IdleCopy ==
  ASSUME IInv, NEW p \in Pages, UNCHANGED <<mapping, sets, written, committed>>,
         UNCHANGED <<holds, taken, stale, gw>>,
         \/ UNCHANGED batch
         \/ batch' = [batch EXCEPT ![att.ref][p].state = "failed"]
         \/ CommitBatch(p, 0)
  PROVE  /\ batch' \in [Refs -> [Pages -> Batches]] /\ Dated'
         /\ AckedKept' /\ SentKept'
<1>1. /\ batch \in [Refs -> [Pages -> Batches]] /\ att.ref \in Refs /\ att.to \subseteq Nodes
      /\ written \in [Pages -> 1..MaxVersion] /\ WriteTypes
      /\ committed \in [Pages -> 1..MaxVersion] /\ gw.write \in {NoWrite} \cup Writes
  BY DEF IInv, Types, RecordTypes, WriteTypes, Attempts
<1>2. /\ batch' \in [Refs -> [Pages -> Batches]]
      /\ \A r \in Refs, q \in Pages : \/ batch'[r][q].version = 0
                                      \/ /\ batch'[r][q].version = batch[r][q].version
                                         /\ batch'[r][q].to = batch[r][q].to
  <2>1. 0 \in 0..MaxVersion
    BY TransitionAssumption
  <2> QED
    BY <1>1, <2>1, BatchOf, Zenon
<1>3. ASSUME NEW r \in Refs, NEW q \in Pages
      PROVE  \/ batch'[r][q].version = 0
             \/ /\ batch'[r][q].version = batch[r][q].version
                /\ batch'[r][q].to = batch[r][q].to
  BY <1>2, Zenon
<1>4. Dated'
  <2>1. ASSUME NEW r \in Refs, NEW q \in Pages
        PROVE  batch'[r][q].version <= written[q]
    <3>1. batch[r][q].version <= written[q] /\ written[q] \in Nat
      BY <1>1 DEF IInv, Dated
    <3> QED
      BY <1>3, <3>1
  <2> QED
    BY <2>1 DEF IInv, Dated
<1>5. Mapped' = Mapped
  BY DEF Mapped
<1>6. ASSUME NEW q \in Pages, NEW v \in 1..MaxVersion, Kept(q, v)
      PROVE  Kept(q, v)'
  <2>1. ~(0 >= v)
    OBVIOUS
  <2>2. \A r \in Refs : \/ ~(batch'[r][q].version >= v)
                        \/ /\ batch'[r][q].version = batch[r][q].version
                           /\ batch'[r][q].to = batch[r][q].to
    BY <1>3, <2>1, Zenon
  <2> QED
    BY <1>5, <1>6, <2>2, KeptSame, Zenon
<1>7. AckedKept'
  <2>1. ASSUME NEW q \in Pages, NEW v \in 1..MaxVersion, q \notin stale', v = committed'[q]
        PROVE  Kept(q, v)'
    BY <1>6, <2>1, KeptNow, Zenon
  <2>2. committed' \in [Pages -> 1..MaxVersion]
    BY <1>1
  <2> QED
    BY <2>1, <2>2, AckedStep, Zenon
<1>8. SentKept'
  <2>1. ASSUME NEW q \in Pages, NEW v \in 1..MaxVersion, gw'.write # NoWrite,
               ~gw'.write.behind, q = gw'.write.page, v = gw'.write.version
        PROVE  Kept(q, v)'
    BY <1>6, <2>1, KeptNow, Zenon
  <2>2. gw'.write \in {NoWrite} \cup Writes
    BY <1>1
  <2> QED
    BY <2>1, <2>2, SentStep, Zenon
<1> QED
  BY <1>2, <1>4, <1>7, <1>8

\* A copy of what was read.
LEMMA StoringCopy ==
  ASSUME IInv, NEW p \in Pages, NEW u \in 1..MaxVersion, NEW sess, u <= written[p],
         WriteCopy(p, u, sess), UNCHANGED <<mapping, sets, written, committed, intruded>>
  PROVE  /\ batch' \in [Refs -> [Pages -> Batches]]
         /\ holds' \in [Nodes -> [Pages -> 0..MaxVersion]]
         /\ taken' \subseteq Nodes \X WriterContexts \X Refs \X Pages \X (1..MaxVersion)
         /\ WriteTypes' /\ Dated' /\ AckedKept' /\ SentKept'
<1> DEFINE acks == {n \in att.to : Takes(n, p, u)}
           b == gw.write.page = p /\ u < gw.write.version
<1>1. /\ holds' = [n \in Nodes |-> IF n \in acks /\ Copies(n, p) = {}
                                   THEN [holds[n] EXCEPT ![p] = u] ELSE holds[n]]
      /\ taken' = taken \cup {<<n, Context(n), att.ref, p, u>> : n \in acks}
      /\ stale' = IF u < committed[p] THEN stale \cup {p} ELSE stale
      /\ gw' = [gw EXCEPT !.write.behind = @ \/ b]
      /\ CommitBatch(p, u) \/ batch' = [batch EXCEPT ![att.ref][p].state = "failed"]
  BY Zenon DEF WriteCopy, FailPage
<1>2. /\ batch \in [Refs -> [Pages -> Batches]] /\ att.ref \in Refs /\ att.target \in Refs
      /\ att.to \subseteq Nodes /\ acks \subseteq Nodes
      /\ holds \in [Nodes -> [Pages -> 0..MaxVersion]]
      /\ taken \subseteq Nodes \X WriterContexts \X Refs \X Pages \X (1..MaxVersion)
      /\ written \in [Pages -> 1..MaxVersion] /\ WriteTypes
      /\ committed \in [Pages -> 1..MaxVersion]
  BY Zenon DEF IInv, Types, RecordTypes, NodeTypes, WriteTypes, Attempts
<1>3. /\ batch' \in [Refs -> [Pages -> Batches]]
      /\ \A r \in Refs, q \in Pages : \/ q = p /\ batch'[r][q].version = u
                                      \/ /\ batch'[r][q].version = batch[r][q].version
                                         /\ batch'[r][q].to = batch[r][q].to
  <2>1. u \in 0..MaxVersion
    OBVIOUS
  <2> QED
    BY <1>1, <1>2, <2>1, BatchOf, Zenon
<1>4. /\ gw' \in [open : BOOLEAN, handles : SUBSET Nodes, write : {NoWrite} \cup Writes]
      /\ gw'.write.page = gw.write.page /\ gw'.write.version = gw.write.version
      /\ gw'.write # NoWrite /\ ~gw'.write.behind =>
            gw.write # NoWrite /\ ~gw.write.behind /\ ~b
  <2>1. PICK x \in BOOLEAN : x = b
    BY Zenon
  <2>2. x => gw.write # NoWrite
    <3>1. gw.write = NoWrite => gw.write.page # p
      BY TransitionAssumption DEF NoWrite
    <3> QED
      BY <2>1, <3>1, Zenon
  <2> HIDE DEF b
  <2>3. gw' = [gw EXCEPT !.write.behind = @ \/ x]
    BY <1>1, <2>1, Zenon
  <2> QED
    BY <1>2, <2>1, <2>2, <2>3, LeftBehind, Zenon
<1>5. \A n \in Nodes : Context(n) \in WriterContexts
  BY <1>2, Contexts, Zenon DEF Context
<1> HIDE DEF acks
<1>6. holds' \in [Nodes -> [Pages -> 0..MaxVersion]]
  BY <1>1, <1>2
<1>7. taken' \subseteq Nodes \X WriterContexts \X Refs \X Pages \X (1..MaxVersion)
  BY <1>1, <1>2, <1>5
<1>8. WriteTypes'
  <2>1. stale' \subseteq Pages
    BY <1>1, <1>2, Zenon DEF WriteTypes
  <2> QED
    BY <1>2, <1>4, <2>1, Zenon DEF WriteTypes
<1>9. Dated'
  <2> SUFFICES ASSUME NEW q \in Pages
               PROVE  /\ committed'[q] <= written'[q]
                      /\ gw'.write.page = q => gw'.write.version <= written'[q]
                      /\ \A n \in Nodes : holds'[n][q] <= written'[q]
                      /\ \A r \in Refs : batch'[r][q].version <= written'[q]
                      /\ \A t \in taken' : t[4] = q => t[5] <= written'[q]
    BY Zenon DEF Dated
  <2>1. /\ committed[q] <= written[q]
        /\ gw.write.page = q => gw.write.version <= written[q]
        /\ \A n \in Nodes : holds[n][q] <= written[q]
        /\ \A r \in Refs : batch[r][q].version <= written[q]
        /\ \A t \in taken : t[4] = q => t[5] <= written[q]
    BY DEF IInv, Dated
  <2>2. \A n \in Nodes : holds'[n][q] <= written[q]
    BY <1>1, <1>2, <2>1
  <2>3. \A r \in Refs : batch'[r][q].version <= written[q]
    BY <1>3, <2>1, Zenon
  <2>4. ASSUME NEW t \in taken', t[4] = q
        PROVE  t[5] <= written[q]
    BY <1>1, <2>1, <2>4
  <2> QED
    BY <1>4, <2>1, <2>2, <2>3, <2>4, Zenon
<1>10. AckedKept'
  <2>1. ASSUME NEW q \in Pages, NEW v \in 1..MaxVersion, q \notin stale', v = committed'[q]
        PROVE  Kept(q, v)'
    <3>1. v = committed[q] /\ q \notin stale /\ (q = p => ~(u < v))
      BY <1>1, <2>1, Zenon
    <3>2. q = p => v <= u
      BY <3>1
    <3>3. Kept(q, v)
      BY <3>1, KeptNow, Zenon
    <3> QED
      BY <3>2, <3>3, CopyKeeps, Zenon
  <2>2. committed' \in [Pages -> 1..MaxVersion]
    BY <1>2
  <2> QED
    BY <2>1, <2>2, AckedStep, Zenon
<1>11. SentKept'
  <2>1. ASSUME NEW q \in Pages, NEW v \in 1..MaxVersion, gw'.write # NoWrite,
               ~gw'.write.behind, q = gw'.write.page, v = gw'.write.version
        PROVE  Kept(q, v)'
    <3>1. /\ gw.write # NoWrite /\ ~gw.write.behind
          /\ q = gw.write.page /\ v = gw.write.version /\ ~b
      BY <1>4, <2>1, Zenon
    <3>2. q = p => v <= u
      BY <3>1
    <3>3. Kept(q, v)
      BY <3>1, KeptNow, Zenon
    <3> QED
      BY <3>2, <3>3, CopyKeeps, Zenon
  <2>2. gw'.write \in {NoWrite} \cup Writes
    BY <1>4
  <2> QED
    BY <2>1, <2>2, SentStep, Zenon
<1> QED
  BY <1>3, <1>6, <1>7, <1>8, <1>9, <1>10, <1>11
\* copyTransitionSegments, one page of it.
LEMMA CopyHolds ==
  ASSUME IInv, NEW p \in Pages, CopyPage(p)
  PROVE  IInv'
<1>1. /\ att.pc = "copy"
      /\ UNCHANGED <<mapping, sets, moves, written, committed, intruded, draining, up, faults>>
  BY Zenon DEF CopyPage
<1>2. /\ trans' \in [Refs -> Transitions] /\ op' \in [Refs -> Operations] /\ Leads'
      /\ att' \in Attempts /\ Trying'
      /\ att'.pc = "copy" => att'.ref = att.ref /\ att'.lost = att.lost
  BY CopyControl, Zenon
<1>3. /\ session' \in [Nodes -> WriterContexts]
      /\ att'.pc = "copy" => \A n \in From : session'[n] = session[n]
  BY CopySessions
<1>4. /\ batch' \in [Refs -> [Pages -> Batches]]
      /\ holds' \in [Nodes -> [Pages -> 0..MaxVersion]]
      /\ taken' \subseteq Nodes \X WriterContexts \X Refs \X Pages \X (1..MaxVersion)
      /\ WriteTypes' /\ Dated' /\ AckedKept' /\ SentKept'
  <2>1. CASE /\ UNCHANGED <<holds, taken, stale, gw>>
             /\ \/ UNCHANGED batch
                \/ batch' = [batch EXCEPT ![att.ref][p].state = "failed"]
                \/ CommitBatch(p, 0)
    <3>1. batch' \in [Refs -> [Pages -> Batches]] /\ Dated' /\ AckedKept' /\ SentKept'
      BY <1>1, <2>1, IdleCopy, Zenon
    <3> QED
      BY <1>1, <2>1, <3>1 DEF IInv, Types, NodeTypes, WriteTypes
  <2>2. CASE \E u \in 1..MaxVersion : \E sess : u <= written[p] /\ WriteCopy(p, u, sess)
    <3>1. PICK u \in 1..MaxVersion : \E sess : u <= written[p] /\ WriteCopy(p, u, sess)
      BY <2>2, Zenon
    <3>2. PICK sess : u <= written[p] /\ WriteCopy(p, u, sess)
      BY <3>1, Zenon
    <3> QED
      BY <1>1, <3>2, StoringCopy, Zenon
  <2> QED
    BY <2>1, <2>2, CopyKinds, Zenon
<1>5. RecordTypes' /\ NodeTypes'
  BY <1>1, <1>2, <1>3, <1>4, Zenon DEF IInv, Types, RecordTypes, NodeTypes
<1>6. Types' /\ sets'[mapping'] # NoSet /\ ~intruded'
  BY <1>1, <1>2, <1>4, <1>5 DEF IInv, Types
<1>7. Derived'
  BY <1>1 DEF IInv, Derived
<1>8. Holding'
  BY <1>1, <1>2, <1>3, Zenon DEF IInv, Holding, From
<1> QED
  BY <1>2, <1>4, <1>6, <1>7, <1>8, Zenon DEF IInv

-----------------------------------------------------------------------------
(* Faults, and all steps together *)

\* A restart frees a session and is noted while the copying goes on; the loop
\* forgets its attempt when the service dies.
LEMMA FaultsHold ==
  ASSUME IInv
  PROVE  /\ (\E n \in Nodes : RestartNode(n)) => IInv'
         /\ CrashService => IInv'
<1>1. /\ session \in [Nodes -> WriterContexts] /\ att \in Attempts
      /\ faults \in 0..MaxFaults /\ sets[mapping] # NoSet /\ Derived /\ Leads
      /\ att.ref \in Refs /\ sets \in [Refs -> ReplicaSets]
  BY DEF IInv, Types, RecordTypes, NodeTypes, Attempts
<1>2. Fault => faults' \in 0..MaxFaults
  BY <1>1, TransitionAssumption DEF Fault
<1>3. UNCHANGED records => RecordTypes' /\ Derived' /\ Leads' /\ Mapped' = Mapped
  BY Zenon DEF IInv, Types, RecordTypes, Derived, Leads, records, Mapped
<1>4. ASSUME NEW n \in Nodes, RestartNode(n)
      PROVE  IInv'
  <2>1. /\ session' = [session EXCEPT ![n] = Free] /\ Fault
        /\ att' = IF att.pc = "copy" THEN [att EXCEPT !.lost = @ \cup {n}] ELSE att
        /\ UNCHANGED <<records, data, gw, draining, up>>
    BY <1>4 DEF RestartNode
  <2>2. /\ att' \in Attempts /\ att'.pc = att.pc /\ att'.ref = att.ref
        /\ att'.target = att.target /\ att'.to = att.to
        /\ att.pc = "copy" => att'.lost = att.lost \cup {n}
    BY <1>1, <2>1 DEF Attempts
  <2>3. NodeTypes' /\ WriteTypes'
    BY <1>1, <1>2, <2>1, Contexts DEF IInv, Types, NodeTypes, WriteTypes, data
  <2>4. Types' /\ sets'[mapping'] # NoSet /\ ~intruded'
    BY <1>1, <1>3, <2>1, <2>2, <2>3 DEF IInv, Types, records, data
  <2>5. Trying'
    BY <2>1, <2>2 DEF IInv, Trying, records
  <2>6. Holding'
    <3>1. From' = From /\ From \subseteq Nodes
      BY <1>1, <2>1, <2>2, MembersAreNodes DEF From, records
    <3>2. \A m \in From : m = n \/ session'[m] = session[m]
      BY <1>1, <2>1, <3>1
    <3> QED
      BY <2>2, <3>1, <3>2 DEF IInv, Holding
  <2>7. Dated'
    BY <2>1 DEF IInv, Dated, records, data
  <2>8. AckedKept' /\ SentKept'
    BY <1>3, <2>1, <2>3, KeptFrame DEF records, data
  <2> QED
    BY <1>3, <2>1, <2>4, <2>5, <2>6, <2>7, <2>8, Zenon DEF IInv
<1>5. ASSUME CrashService
      PROVE  IInv'
  <2>1. /\ Fault /\ att' = At("idle")
        /\ UNCHANGED <<records, data, session, gw, draining, up>>
    BY <1>5 DEF CrashService
  <2>2. att' \in Attempts /\ att'.pc = "idle"
    BY <2>1, AtTypes DEF LoopPcs
  <2>3. Trying'
    BY <2>2, Zenon DEF Trying
  <2>4. NodeTypes'
    BY <1>2, <2>1 DEF IInv, Types, NodeTypes, data
  <2> QED
    BY <1>1, <1>3, <2>1, <2>2, <2>3, <2>4, LoopStep DEF records
<1> QED
  BY <1>4, <1>5

\* Steps beside the data: a write is given up, a drain begins or ends, a node
\* fails or answers again.
LEMMA AsideSteps ==
  ASSUME IInv
  PROVE  /\ AbandonWrite => IInv'
         /\ (\E n \in Drainable : SetDraining(n)) => IInv'
         /\ (\E n \in Nodes : FailNode(n) \/ RecoverNode(n)) => IInv'
<1>1. /\ NodeTypes /\ WriteTypes /\ faults \in 0..MaxFaults
      /\ gw \in [open : BOOLEAN, handles : SUBSET Nodes, write : {NoWrite} \cup Writes]
  BY DEF IInv, Types, NodeTypes, WriteTypes
<1>2. ASSUME AbandonWrite
      PROVE  IInv'
  <2>1. /\ gw' = [gw EXCEPT !.write = NoWrite]
        /\ UNCHANGED <<records, data, session, att, draining, up, faults>>
    BY <1>2 DEF AbandonWrite
  <2>2. gw' \in [open : BOOLEAN, handles : SUBSET Nodes, write : {NoWrite} \cup Writes]
        /\ gw'.write = NoWrite
    BY <1>1, <2>1
  <2>3. NodeTypes' /\ WriteTypes'
    BY <1>1, <2>1, <2>2 DEF NodeTypes, WriteTypes, data
  <2> QED
    BY <2>1, <2>2, <2>3, Aside
<1>3. ASSUME NEW n \in Drainable, SetDraining(n)
      PROVE  IInv'
  <2>1. /\ draining' = IF draining = n THEN NoNode ELSE n
        /\ UNCHANGED <<records, data, session, gw, att, up, faults>>
    BY <1>3 DEF SetDraining
  <2>2. NodeTypes' /\ WriteTypes'
    BY <1>1, <2>1, TransitionAssumption DEF NodeTypes, WriteTypes, data
  <2> QED
    BY <2>1, <2>2, Aside
<1>4. ASSUME NEW n \in Nodes, FailNode(n) \/ RecoverNode(n)
      PROVE  IInv'
  <2>1. /\ up' \subseteq Nodes /\ faults' \in 0..MaxFaults
        /\ UNCHANGED <<records, data, session, gw, att, draining>>
    <3>1. /\ up' = up \ {n} \/ up' = up \cup {n}
          /\ faults' = faults \/ (faults < MaxFaults /\ faults' = faults + 1)
          /\ UNCHANGED <<records, data, session, gw, att, draining>>
      BY <1>4, Zenon DEF FailNode, RecoverNode, Fault
    <3>2. up \subseteq Nodes /\ faults \in 0..MaxFaults
      BY <1>1, Zenon DEF NodeTypes
    <3>3. up' \subseteq Nodes
      BY <3>1, <3>2
    <3>4. faults' \in 0..MaxFaults
      BY <3>1, <3>2, TransitionAssumption
    <3> QED
      BY <3>1, <3>3, <3>4, Zenon
  <2>2. NodeTypes' /\ WriteTypes'
    BY <1>1, <2>1 DEF NodeTypes, WriteTypes, data
  <2> QED
    BY <2>1, <2>2, Aside
<1> QED
  BY <1>2, <1>3, <1>4, Zenon

\* The replicas the extent begins with hold its pages, on every member.
LEMMA InitHolds == Init => IInv
<1> SUFFICES ASSUME Init
             PROVE  IInv
  OBVIOUS
<1> DEFINE rs == [nodes |-> First, primary |-> First[1]]
<1>1. /\ First \in Seq(Nodes) /\ First # <<>> /\ First \in Lists
      /\ 1 \in DOMAIN First /\ First[1] \in Nodes
  BY TransitionAssumption, ListsOfNodes
<1>2. /\ rs \in ReplicaSets /\ NoSet \in ReplicaSets /\ rs # NoSet
      /\ rs.primary \in Members(rs) /\ Members(NoSet) = {}
      /\ Members(rs) = {First[i] : i \in DOMAIN First}
  <2>1. <<>> \in Lists
    <3>1. <<>> \in Seq(Nodes)
      OBVIOUS
    <3> QED
      BY <3>1, ListsOfNodes, Zenon
  <2> QED
    BY <1>1, <2>1 DEF ReplicaSets, NoSet, Members
<1>3. Root \in Refs
  BY DEF Refs
<1>4. sets = [r \in Refs |-> IF r = Root THEN rs ELSE NoSet] /\ mapping = Root
  BY DEF Init
<1> HIDE DEF rs
<1>5. RecordTypes
  <2>1. sets \in [Refs -> ReplicaSets]
    BY <1>2, <1>4
  <2>2. trans \in [Refs -> Transitions]
    BY <1>3 DEF Init, Transitions, NoTransition
  <2>3. op \in [Refs -> Operations]
    BY Zenon DEF Init, Operations, NoOp
  <2>4. batch \in [Refs -> [Pages -> Batches]]
    <3>1. 0 \in 0..MaxVersion
      BY TransitionAssumption
    <3>2. NoBatch \in Batches
      BY <3>1, Zenon DEF Batches, NoBatch
    <3> QED
      BY <3>2, Zenon DEF Init
  <2>5. mapping \in Refs /\ moves \in 0..MaxMoves
    BY <1>3, TransitionAssumption DEF Init
  <2> QED
    BY <2>1, <2>2, <2>3, <2>4, <2>5, Zenon DEF RecordTypes
<1>6. NodeTypes
  <2>1. session \in [Nodes -> WriterContexts]
    BY Contexts DEF Init
  <2>2. holds \in [Nodes -> [Pages -> 0..MaxVersion]]
    BY TransitionAssumption DEF Init
  <2> QED
    BY <2>1, <2>2, TransitionAssumption DEF Init, NodeTypes
<1>7. WriteTypes
  <2>1. gw \in [open : BOOLEAN, handles : SUBSET Nodes, write : {NoWrite} \cup Writes]
    BY Zenon DEF Init
  <2>2. /\ written \in [Pages -> 1..MaxVersion]
        /\ committed \in [Pages -> 1..MaxVersion]
    BY TransitionAssumption DEF Init
  <2>3. stale \subseteq Pages /\ intruded \in BOOLEAN
    BY Zenon DEF Init
  <2> QED
    BY <2>1, <2>2, <2>3, Zenon DEF WriteTypes
<1>8. att \in Attempts /\ att.pc = "idle"
  BY AtTypes DEF Init, LoopPcs
<1>9. Types /\ sets[mapping] # NoSet /\ ~intruded
  BY <1>2, <1>3, <1>4, <1>5, <1>6, <1>7, <1>8, Zenon DEF Types, Init
<1>10. Derived
  BY <1>2, <1>4 DEF Derived
<1>11. Leads
  BY DEF Leads, Init, NoTransition
<1>12. Trying /\ Holding
  BY <1>8, Zenon DEF Trying, Holding
<1>13. /\ committed = [p \in Pages |-> 1] /\ written = [p \in Pages |-> 1]
       /\ batch = [r \in Refs |-> [p \in Pages |-> NoBatch]] /\ taken = {}
       /\ gw.write = NoWrite
       /\ \A n \in Nodes, p \in Pages : /\ holds[n][p] \in {0, 1}
                                        /\ n \in Members(rs) => holds[n][p] = 1
  BY <1>2, Zenon DEF Init
<1>14. Dated
  <2>1. gw.write.version = 0 /\ \A r \in Refs, p \in Pages : batch[r][p].version = 0
    <3>1. NoWrite.version = 0 /\ NoBatch.version = 0
      BY DEF NoWrite, NoBatch
    <3>2. \A r \in Refs, p \in Pages : batch[r][p] = NoBatch
      BY <1>13, Zenon
    <3> QED
      BY <1>13, <3>1, <3>2, Zenon
  <2>2. 0 <= 1 /\ 1 <= 1 /\ \A x \in {0, 1} : x <= 1
    OBVIOUS
  <2>3. \A p \in Pages : committed[p] = 1 /\ written[p] = 1
    BY <1>13, Zenon
  <2> QED
    BY <1>13, <2>1, <2>2, <2>3, Zenon DEF Dated
<1>15. AckedKept
  <2> SUFFICES ASSUME NEW p \in Pages
               PROVE  Kept(p, 1)
    BY <1>13 DEF AckedKept
  <2>1. Mapped = Members(rs)
    BY <1>3, <1>4 DEF Mapped
  <2>2. IsFiniteSet(Mapped) /\ Mapped # {} /\ Mapped \subseteq Nodes
    BY <1>2, <2>1, MembersAreNodes, Zenon
  <2>3. Mapped \subseteq {n \in Nodes : holds[n][p] >= 1}
    BY <1>13, <2>1, <2>2
  <2>4. Quorum({n \in Nodes : holds[n][p] >= 1}, Mapped)
    BY <2>2, <2>3, QuorumOfAll
  <2> QED
    BY <1>13, <2>4, Zenon DEF Kept, NoBatch
<1>16. SentKept
  BY <1>13, Zenon DEF SentKept
<1> QED
  BY <1>9, <1>10, <1>11, <1>12, <1>14, <1>15, <1>16 DEF IInv

\* The invariant is inductive.
LEMMA StepHolds == IInv /\ [Next]_vars => IInv'
<1> SUFFICES ASSUME IInv, [Next]_vars
             PROVE  IInv'
  OBVIOUS
<1>1. CASE UNCHANGED vars
  <2>1. /\ NodeTypes' /\ WriteTypes' /\ UNCHANGED <<records, data, att>>
        /\ UNCHANGED <<gw, session>>
    BY <1>1, Zenon DEF IInv, Types, NodeTypes, WriteTypes, vars, records, data
  <2> QED
    BY <2>1, Aside
<1>2. CASE OpenVolume \/ CloseVolume \/ RefreshSessions
  BY <1>2, SessionsHold, Zenon
<1>3. CASE CommitWrite
  BY <1>3, CommitHolds, Zenon
<1>4. CASE AbandonWrite \/ \E n \in Drainable : SetDraining(n)
  BY <1>4, AsideSteps, Zenon
<1>5. CASE \E n \in Nodes : RestartNode(n) \/ FailNode(n) \/ RecoverNode(n)
  BY <1>5, AsideSteps, FaultsHold, Zenon
<1>6. CASE \E p \in Pages : WritePayload(p) \/ CopyPage(p)
  BY <1>6, PayloadHolds, CopyHolds, Zenon
<1>7. CASE EnqueueDrain \/ ScanAndEnqueueRepairs
  BY <1>7, EnqueueHolds, Zenon
<1>8. CASE CleanupCompletedTransitions
  BY <1>8, CleanupHolds, Zenon
<1>9. CASE RequeueRetryableFailedTransitions
  BY <1>9, RequeueHolds, Zenon
<1>10. CASE ScanAndFailoverPrimaries
  BY <1>10, FailoverHolds, Zenon
<1>11. CASE RunTransition
  BY <1>11, RunHolds, Zenon
<1>12. CASE OpenSource
  BY <1>12, OpenHolds, Zenon
<1>13. CASE Publish
  BY <1>13, PublishHolds, Zenon
<1>14. CASE CompleteAttempt
  BY <1>14, CompleteHolds, Zenon
<1>15. CASE CrashService
  BY <1>15, FaultsHold, Zenon
<1> QED
  BY <1>1, <1>2, <1>3, <1>4, <1>5, <1>6, <1>7, <1>8, <1>9, <1>10, <1>11, <1>12, <1>13,
     <1>14, <1>15, Zenon DEF Next

\* Every reachable state satisfies the invariant.
LEMMA Inductive == Spec => []IInv
BY InitHolds, StepHolds, PTL DEF Spec

-----------------------------------------------------------------------------
(* The theorems *)

\* Records are of their types, and the attempt that runs is of the mapped ref,
\* whose transition is running (ApplyTransition).
THEOREM TransitionTypes == Spec => []TransitionTypeOK
<1>1. IInv => TransitionTypeOK
  <2> SUFFICES ASSUME IInv
               PROVE  TransitionTypeOK
    OBVIOUS
  <2>1. RecordTypes /\ NodeTypes /\ WriteTypes /\ att \in Attempts
    BY DEF IInv, Types
  <2>2. ASSUME NEW r \in Refs
        PROVE  /\ Members(sets[r]) \subseteq Nodes
               /\ sets[r] # NoSet => sets[r].primary \in Members(sets[r])
    <3>1. sets[r] \in ReplicaSets
      BY <2>1 DEF RecordTypes
    <3> QED
      BY <3>1, MembersAreNodes, Zenon DEF IInv, Derived
  <2>3. ASSUME NEW r \in Refs
        PROVE  /\ trans[r].state \in {"none", "queued", "running", "failed", "completed"}
               /\ trans[r].target \in Refs
               /\ op[r].state \in {"none", "running", "pending", "failed", "committed"}
               /\ op[r].done \subseteq Pages
    BY <2>1 DEF RecordTypes, Transitions, Operations
  <2>4. \A r \in Refs, p \in Pages : batch[r][p].state \in {"none", "failed", "committed"}
    BY <2>1 DEF RecordTypes, Batches
  <2>5. /\ gw.open \in BOOLEAN /\ gw.handles \subseteq Nodes
        /\ gw.write \in {NoWrite} \cup Writes
    BY <2>1, Zenon DEF WriteTypes
  <2>6. gw.write # NoWrite => gw.write.page \in Pages /\ gw.write.version \in 1..MaxVersion
    BY <2>5 DEF Writes
  <2>7. att.pc \in {"open", "copy"} => att.ref = mapping /\ trans[att.ref].state = "running"
    BY Zenon DEF IInv, Trying
  <2> QED
    BY <2>1, <2>2, <2>3, <2>4, <2>5, <2>6, <2>7, Zenon
       DEF TransitionTypeOK, RecordTypes, NodeTypes, WriteTypes
<1> QED
  BY <1>1, Inductive, PTL

\* The mapped set exists, and a write quorum of it stores the last acknowledged
\* write of every page that none of the unguarded cases left behind.
THEOREM MappedServes == Spec => []MappedSetServes
<1>1. IInv => MappedSetServes
  <2> SUFFICES ASSUME IInv
               PROVE  MappedSetServes
    OBVIOUS
  <2>1. ASSUME NEW p \in Pages \ stale
        PROVE  Quorum(Serving(p), Mapped)
    BY Zenon DEF IInv, AckedKept, Kept, Serving
  <2> QED
    BY <2>1, Zenon DEF MappedSetServes, IInv
<1> QED
  BY <1>1, Inductive, PTL

\* No foreground write is acknowledged past the source sessions of an attempt
\* that copies, unless a write quorum of the source nodes restarted.
THEOREM SourceKept == Spec => []SourceHeld
<1>1. IInv => SourceHeld
  BY Zenon DEF IInv, SourceHeld
<1> QED
  BY <1>1, Inductive, PTL
=============================================================================
