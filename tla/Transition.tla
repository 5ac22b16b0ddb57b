----------------------------- MODULE Transition -----------------------------
(***************************************************************************)
(* The replicas of one extent: how foreground writes reach them, and how    *)
(* maintenance moves them off a draining or failed node.                    *)
(*                                                                          *)
(* A gateway stores a payload on the writable replicas of the mapped set    *)
(* and commits once the planned primary and a write quorum have it; a chunk *)
(* that is mapped already is overwritten in place.  The maintenance loop of *)
(* sbs-service queues a placement transition, copies the pages of the       *)
(* extent to the target replica set and points the extent mapping at it.    *)
(* It keeps foreground writes out by opening the volume on the source nodes *)
(* as exclusive writer: a node admits one writer context and forgets it     *)
(* when it restarts.  Progress is recorded page by page in mutation         *)
(* operations keyed by the placement ref that is left, so that a failed or  *)
(* interrupted attempt resumes; a node remembers the copies it took.        *)
(*                                                                          *)
(* A version stands for the contents of a page.  One extent whose pages all *)
(* hold data, one volume, one gateway context.  A node that is down is also *)
(* reported so.  Copying one page is one step.  Rebalances are paused; the  *)
(* volume has no snapshot.  Nodes and the service fail, the metadata store  *)
(* does not.                                                                *)
(*                                                                          *)
(* Sources: sbs/cluster/maintenance/{service,worker}.go, the maintenance    *)
(* loop of cmd/sbs-service/main.go, replication/{coordinator,               *)
(* remote_adapter}.go, sbs/local/client.go and sbs/cluster/client.go.       *)
(***************************************************************************)
EXTENDS Integers, FiniteSets, FiniteSetsExt, Sequences

CONSTANTS Nodes,        \* storage nodes, positive numbers: sessions open in order
          First,        \* replica set of the extent: its nodes, the primary first
          Pages,        \* pages of the extent
          Drainable,    \* nodes the operator may drain
          MaxVersion,   \* bound: versions of a page
          MaxMoves,     \* bound: transitions queued
          MaxFaults     \* bound: node restarts, node failures, service crashes

Members(rs) == {rs.nodes[i] : i \in DOMAIN rs.nodes}

NoPage == "no page"

ASSUME TransitionAssumption ==
    /\ Nodes \subseteq Nat \ {0} /\ IsFiniteSet(Nodes)
    /\ First \in Seq(Nodes) /\ First # <<>> /\ Drainable \subseteq Nodes
    /\ IsFiniteSet(Pages) /\ Pages # {} /\ NoPage \notin Pages
    /\ MaxVersion \in Nat \ {0} /\ MaxMoves \in Nat /\ MaxFaults \in Nat

NoNode == 0

\* A derived placement ref is <base>-<reason>-<replaced node>: earlier suffixes
\* are cut from the base, so reason and node name the ref.
Root == <<"base", NoNode>>
Refs == {Root} \cup ({"drain", "repair"} \X Nodes)

\* Writer contexts a node can be opened by.
Free == <<"none", Root>>
Gateway == <<"gateway", Root>>
Source(r) == <<"source", r>>
Target(r) == <<"target", r>>
WriterContexts ==
    {Free, Gateway} \cup {Source(r) : r \in Refs} \cup {Target(r) : r \in Refs}

VARIABLES
    mapping,    \* placement ref of the extent mapping
    sets,       \* replica set record by placement ref: nodes in order, primary
    trans,      \* placement transition by the ref it leaves
    op,         \* transition operation by ref: state and CompletedPageNos
    batch,      \* page batch operation by ref and page; what it copied, and to where
    session,    \* writer context each node is opened by
    holds,      \* version of each page each node stores, 0 when it has none
    taken,      \* idempotency records of the nodes: copies by node, context and page
    written,    \* versions of each page written so far
    committed,  \* version of the last acknowledged write of each page
    gw,         \* gateway: volume open, nodes it has handles to, write in flight
                \* (history: whether a copy or a publish has left the write behind)
    att,        \* the maintenance loop: where it is, and its running attempt
    draining,   \* node being drained, or NoNode
    up,         \* nodes that answer and are reported healthy
    moves,      \* transitions queued so far
    faults,     \* faults so far
    stale,      \* history: pages of which a write was left behind
    intruded    \* history: a write reached source nodes the attempt still held

vars == <<mapping, sets, trans, op, batch, session, holds, taken, written, committed, gw,
          att, draining, up, moves, faults, stale, intruded>>
records == <<mapping, sets, trans, op, batch, moves>>
data == <<holds, taken, written, committed, stale, intruded>>

NoSet == [nodes |-> <<>>, primary |-> NoNode]
NoOp == [state |-> "none", done |-> {}]
NoBatch == [state |-> "none", version |-> 0, to |-> {}]
NoWrite == [page |-> NoPage, version |-> 0, behind |-> FALSE]
NoTransition == [state |-> "none", target |-> Root]
At(pc) == [pc |-> pc, ref |-> Root, target |-> Root, to |-> {},
           left |-> {}, done |-> {}, opened |-> {}, lost |-> {}]

Init ==
    /\ mapping = Root
    /\ sets = [r \in Refs |-> IF r = Root THEN [nodes |-> First, primary |-> First[1]]
                                          ELSE NoSet]
    /\ trans = [r \in Refs |-> NoTransition]
    /\ op = [r \in Refs |-> NoOp]
    /\ batch = [r \in Refs |-> [p \in Pages |-> NoBatch]]
    /\ session = [n \in Nodes |-> Free]
    /\ holds = [n \in Nodes |-> [p \in Pages |->
                   IF \E i \in DOMAIN First : First[i] = n THEN 1 ELSE 0]]
    /\ taken = {}
    /\ written = [p \in Pages |-> 1]
    /\ committed = [p \in Pages |-> 1]
    /\ gw = [open |-> FALSE, handles |-> {}, write |-> NoWrite]
    /\ att = At("idle")
    /\ draining = NoNode
    /\ up = Nodes
    /\ moves = 0
    /\ faults = 0
    /\ stale = {}
    /\ intruded = FALSE

\* The first node of a list that is in S.
FirstIn(nodes, S) == nodes[Min({i \in DOMAIN nodes : nodes[i] \in S})]

Quorum(Q, S) == 2 * Cardinality(Q \cap S) > Cardinality(S)
Mapped == Members(sets[mapping])

-----------------------------------------------------------------------------
(* Sessions.                                                               *)

\* Mutant: a node lets a second writer context take the volume over.
TakeOver(n, c) == TRUE

\* OpenVolume on a node: refused while another writer context has it open.
Admits(n, c) == session[n] \in {Free, c}

\* OpenReplicaSessions: nodes in sorted order, up to the first that refuses or
\* does not answer.  Sessions opened before that one are left behind.
Refusing(S, c) == {n \in S : n \notin up \/ ~Admits(n, c)}

Opened(S, c) ==
    LET before == {n \in S : \A m \in Refusing(S, c) : n < m}
    IN  [n \in Nodes |-> IF n \in before THEN c ELSE session[n]]

\* The writer-context conflict is the error of the first node that fails.
Conflict(S, c) ==
    /\ Refusing(S, c) # {}
    /\ Min(Refusing(S, c)) \in up

\* closeRemoteReplicas: errors are dropped, another context's session stays.
Closed(sess, S, contexts) ==
    [n \in Nodes |-> IF n \in S \cap up /\ sess[n] \in contexts
                     THEN Free ELSE sess[n]]

-----------------------------------------------------------------------------
(* The gateway.                                                            *)

\* The targets the published view calls usable; the writable replicas of the
\* mapped set are among them.  A draining node can be read, not written.
Usable == up \ {draining}

OpenVolume ==
    /\ ~gw.open
    /\ session' = Opened(Usable, Gateway)
    /\ gw' = IF Refusing(Usable, Gateway) = {}
             THEN [gw EXCEPT !.open = TRUE, !.handles = Usable] ELSE gw
    /\ UNCHANGED <<records, data, att, draining, up, faults>>

\* Handles are closed in no particular order, up to the first that fails; then
\* the volume stays open at the gateway.
CloseVolume ==
    /\ gw.open
    /\ LET failing == {n \in gw.handles :
                          n \notin up \/ session[n] \notin {Free, Gateway}}
       IN  \/ /\ failing = {}
              /\ session' = Closed(session, gw.handles, {Gateway})
              /\ gw' = [gw EXCEPT !.open = FALSE, !.handles = {}]
           \/ /\ failing # {}
              /\ \E S \in SUBSET (gw.handles \ failing) :
                    session' = Closed(session, S, {Gateway})
              /\ gw' = gw
    /\ UNCHANGED <<records, data, att, draining, up, faults>>

\* Replicas are tried in the order primary, then the others as listed: the first
\* of them in S, and the last.
FirstTried(rs, S) == IF rs.primary \in S THEN rs.primary ELSE FirstIn(rs.nodes, S)

LastTried(rs, S) ==
    LET others == {i \in DOMAIN rs.nodes : rs.nodes[i] \in S \ {rs.primary}}
    IN  IF others = {} THEN rs.primary ELSE rs.nodes[Max(others)]

\* A read that no replica answers refreshes the sessions when the last replica
\* it tried reports that the volume is not open for the gateway.  Writes flatten
\* their errors to text and never do.
RefreshSessions ==
    LET tried == Mapped \cap up
    IN  /\ gw.open /\ tried # {}
        /\ \A n \in tried : ~(n \in gw.handles /\ session[n] = Gateway)
        /\ LastTried(sets[mapping], tried) \in gw.handles
        /\ IF Refusing(Usable, Gateway) = {}
           THEN /\ session' = Closed(Opened(Usable, Gateway), gw.handles \ Usable, {Gateway})
                /\ gw' = [gw EXCEPT !.handles = Usable]
           ELSE session' = Opened(Usable, Gateway) /\ gw' = gw
        /\ UNCHANGED <<records, data, att, draining, up, faults>>

\* The primary a write is planned with: the set's own, or else the first
\* replica that can be written.
PlannedPrimary(rs) == FirstTried(rs, Usable)

\* Mutant: the planned primary alone is enough.
PrimaryAcked(reached) == PlannedPrimary(sets[mapping]) \in reached

\* MarkReplicaAck: the planned primary and a write quorum have the payload.
Acked(reached) ==
    PlannedPrimary(sets[mapping]) \in reached /\ Quorum(reached, Mapped)

\* A foreground write up to its payload: every writable replica that has the
\* volume open for the gateway stores it, also when that is too few.  The source
\* sessions of an attempt should keep it out: the history variable records a
\* write that came through although too few source nodes restarted.
WritePayload(p) ==
    LET reached == {n \in Mapped \cap Usable \cap gw.handles : session[n] = Gateway}
        v == written[p] + 1
    IN  /\ gw.open /\ gw.write = NoWrite /\ v <= MaxVersion
        /\ Quorum(Usable, Mapped) /\ reached # {}
        /\ holds' = [n \in Nodes |-> IF n \in reached THEN [holds[n] EXCEPT ![p] = v]
                                                      ELSE holds[n]]
        /\ written' = [written EXCEPT ![p] = v]
        /\ gw' = IF Acked(reached)
                 THEN [gw EXCEPT !.write = [page |-> p, version |-> v, behind |-> FALSE]]
                 ELSE gw
        /\ intruded' = (intruded \/ /\ Acked(reached)
                                    /\ att.pc = "copy" /\ att.ref = mapping
                                    /\ ~Quorum(att.lost, Mapped))
        /\ UNCHANGED <<records, taken, committed, stale, session, att, draining, up, faults>>

\* The metadata commit of that write.  It checks the volume epoch and the
\* idempotency record, not the placement: a write that was left behind commits.
CommitWrite ==
    LET w == gw.write
    IN  /\ w # NoWrite
        /\ committed' = [committed EXCEPT ![w.page] = w.version]
        /\ stale' = IF w.behind THEN stale \cup {w.page} ELSE stale \ {w.page}
        /\ gw' = [gw EXCEPT !.write = NoWrite]
        /\ UNCHANGED <<records, holds, taken, written, intruded, session, att, draining, up,
                       faults>>

AbandonWrite ==
    /\ gw.write # NoWrite
    /\ gw' = [gw EXCEPT !.write = NoWrite]
    /\ UNCHANGED <<records, data, session, att, draining, up, faults>>

-----------------------------------------------------------------------------
(* The maintenance loop: drain scan, cleanup, requeue, failover and repair   *)
(* scans, then one attempt.                                                  *)

\* The operator drains a node, or takes the drain back.
SetDraining(n) ==
    /\ draining' = IF draining = n THEN NoNode ELSE n
    /\ UNCHANGED <<records, data, session, gw, att, up, faults>>

\* New members have to be active and healthy, and so does a write quorum.
TargetEligible(from, to) ==
    Members(to) \ Members(from) \subseteq Usable /\ Quorum(Usable, Members(to))

\* planReplacementReplicaSet: another node takes n's place, and its role.
Replace(rs, n, m) ==
    [nodes |-> [i \in DOMAIN rs.nodes |-> IF rs.nodes[i] = n THEN m ELSE rs.nodes[i]],
     primary |-> IF rs.primary = n THEN m ELSE rs.primary]

Replacements(rs, n) ==
    IF n \notin Members(rs) THEN {}
    ELSE {to \in {Replace(rs, n, m) : m \in Usable \ Members(rs)} : TargetEligible(rs, to)}

\* The target set and the transition, or nothing when there is no replacement.
Enqueue(reason, n) ==
    \/ /\ moves < MaxMoves
       /\ \E to \in Replacements(sets[mapping], n) : sets' = [sets EXCEPT ![<<reason, n>>] = to]
       /\ trans' = [trans EXCEPT ![mapping] = [state |-> "queued", target |-> <<reason, n>>]]
       /\ moves' = moves + 1
    \/ /\ moves = MaxMoves \/ Replacements(sets[mapping], n) = {}
       /\ UNCHANGED <<sets, trans, moves>>

\* enqueueDrainTransitionsLegacy: any transition of the mapped ref, in whatever
\* state, keeps another one from being queued.
EnqueueDrain ==
    /\ att.pc = "idle"
    /\ att' = At("cleanup")
    /\ IF draining # NoNode /\ trans[mapping].state = "none"
       THEN Enqueue("drain", draining)
       ELSE UNCHANGED <<sets, trans, moves>>
    /\ UNCHANGED <<mapping, op, batch, data, session, gw, draining, up, faults>>

Completed == {r \in Refs : trans[r].state = "completed"}

\* cleanupCompletedTransitions deletes the set a completed transition left,
\* unless the mapping still refers to it.
KeptSets == [r \in Refs |-> IF r \in Completed \ {mapping} THEN NoSet ELSE sets[r]]

CleanupCompletedTransitions ==
    /\ att.pc = "cleanup"
    /\ att' = At("requeue")
    /\ sets' = KeptSets
    /\ trans' = [r \in Refs |-> IF r \in Completed THEN NoTransition ELSE trans[r]]
    /\ UNCHANGED <<mapping, op, batch, moves, data, session, gw, draining, up, faults>>

\* requeueRetryableFailedTransitions: the progress made is kept.
Retryable(r) ==
    /\ trans[r].state = "failed"
    /\ op[r].state # "none" /\ op[r].done # Pages
    /\ \/ op[r].state = "failed"
       \/ \E p \in Pages : batch[r][p].state = "failed"

RequeueRetryableFailedTransitions ==
    /\ att.pc = "requeue"
    /\ att' = At("failover")
    /\ trans' = [r \in Refs |-> IF Retryable(r) THEN [trans[r] EXCEPT !.state = "queued"]
                                                ELSE trans[r]]
    /\ op' = [r \in Refs |-> IF Retryable(r) THEN [op[r] EXCEPT !.state = "pending"]
                                             ELSE op[r]]
    /\ UNCHANGED <<mapping, sets, batch, moves, data, session, gw, draining, up, faults>>

\* evaluatePrimaryFailover: with a write quorum left, the first healthy replica
\* follows a primary that is down.  What it stores is not looked at.
FailedOver(rs) ==
    IF rs.primary \notin up /\ Quorum(up, Members(rs))
    THEN [rs EXCEPT !.primary = FirstIn(rs.nodes, up)] ELSE rs

ScanAndFailoverPrimaries ==
    /\ att.pc = "failover"
    /\ att' = At("repairs")
    /\ sets' = [r \in Refs |-> FailedOver(sets[r])]
    /\ UNCHANGED <<mapping, trans, op, batch, moves, data, session, gw, draining, up, faults>>

DegradedWritable(rs) == Quorum(up, Members(rs)) /\ ~(Members(rs) \subseteq up)

FirstDown(rs) == FirstIn(rs.nodes, Nodes \ up)

ScanAndEnqueueRepairs ==
    /\ att.pc = "repairs"
    /\ att' = At("pick")
    /\ IF /\ DegradedWritable(sets[mapping])
          /\ trans[mapping].state \in {"none", "completed"}
       THEN Enqueue("repair", FirstDown(sets[mapping]))
       ELSE UNCHANGED <<sets, trans, moves>>
    /\ UNCHANGED <<mapping, op, batch, data, session, gw, draining, up, faults>>

Runnable == {r \in Refs : trans[r].state \in {"queued", "running"}}
Ends(r, state) ==
    /\ trans' = [trans EXCEPT ![r].state = state]
    /\ att' = At("idle")

\* The node a new plan of the transition replaces: the first that is down in a
\* repair, the same as before in a drain.
ReplacedNode(r) ==
    IF trans[r].target[1] = "drain" THEN trans[r].target[2]
    ELSE IF DegradedWritable(sets[r]) THEN FirstDown(sets[r]) ELSE NoNode

\* ReplanTransitionTarget: a healthy source completes the transition where it
\* is; otherwise the target set is planned again, and the progress recorded for
\* the ref stays.
ReplanTransitionTarget(r) ==
    LET n == ReplacedNode(r)
        ref == <<trans[r].target[1], n>>
        better == Replacements(sets[r], n)
    IN  \/ /\ Members(sets[r]) \subseteq up
           /\ Ends(r, "completed") /\ UNCHANGED sets
        \/ /\ ~(Members(sets[r]) \subseteq up) /\ better = {}
           /\ Ends(r, "queued") /\ UNCHANGED sets
        \/ /\ ~(Members(sets[r]) \subseteq up)
           /\ \E to \in better : sets' = [sets EXCEPT ![ref] = to]
           /\ trans' = [trans EXCEPT ![r] = [state |-> "queued", target |-> ref]]
           /\ att' = At("idle")

StartAttempt(r) ==
    /\ trans' = [trans EXCEPT ![r].state = "running"]
    /\ op' = [op EXCEPT ![r].state = "running"]
    /\ att' = [At("open") EXCEPT !.ref = r, !.target = trans[r].target,
                                 !.to = Members(sets[trans[r].target]),
                                 !.left = Pages \ op[r].done, !.done = op[r].done]
    /\ UNCHANGED sets

\* Mutant: the transition is not checked against the mapping.
AttemptAnyway(r) == StartAttempt(r)

\* ApplyTransition up to the operation record.
BeginAttempt(r) ==
    LET from == sets[r]
        to == sets[trans[r].target]
    IN  \/ /\ mapping # r                      \* obsolete
           /\ Ends(r, "completed") /\ UNCHANGED <<sets, op>>
        \/ /\ mapping = r /\ NoSet \in {from, to}   \* a replica set is not found
           /\ Ends(r, "failed") /\ UNCHANGED <<sets, op>>
        \/ /\ mapping = r /\ NoSet \notin {from, to}
           /\ ~TargetEligible(from, to)
           /\ ReplanTransitionTarget(r) /\ UNCHANGED op
        \/ /\ mapping = r /\ NoSet \notin {from, to}
           /\ TargetEligible(from, to) /\ Members(from) \cap up = {}
           /\ Ends(r, "queued") /\ UNCHANGED <<sets, op>>
        \/ /\ mapping = r /\ NoSet \notin {from, to}
           /\ TargetEligible(from, to) /\ Members(from) \cap up # {}
           /\ StartAttempt(r)

\* The rest of RunOnce: one runnable transition is tried.
RunTransition ==
    /\ att.pc = "pick"
    /\ \/ /\ Runnable = {} /\ att' = At("idle")
          /\ UNCHANGED <<sets, trans, op>>
       \/ \E r \in Runnable : BeginAttempt(r)
    /\ UNCHANGED <<mapping, batch, moves, data, session, gw, draining, up, faults>>

-----------------------------------------------------------------------------
(* The attempt.                                                            *)

\* The deferred put of a failed attempt writes the operation as it was read:
\* pages completed since are dropped from it, their batches stay committed.
FailOperation == op' = [op EXCEPT ![att.ref] = [state |-> "failed", done |-> att.done]]

From == Members(sets[att.ref])
NewNodes == att.to \ From
Context(n) == IF n \in From THEN Source(att.ref) ELSE Target(att.target)
AttemptContexts == {Source(att.ref), Target(att.target)}

\* The source sessions; the ones opened before a refusal are not closed.
OpenSource ==
    LET c == Source(att.ref)
    IN  /\ att.pc = "open"
        /\ session' = Opened(From, c)
        /\ \/ /\ Refusing(From, c) = {}
              /\ att' = [att EXCEPT !.pc = "copy", !.opened = From]
              /\ UNCHANGED <<trans, op>>
           \/ /\ Refusing(From, c) # {}
              /\ Ends(att.ref, IF Conflict(From, c) THEN "queued" ELSE "failed")
              /\ FailOperation
        /\ UNCHANGED <<mapping, sets, batch, moves, data, gw, draining, up, faults>>

\* ReadExtent over the source: the first replica tried that answers with data.
\* Where those that answer have none, the page reads as zeroes.
Answering == {n \in From \cap up : session[n] = Source(att.ref)}

PageRead(p) ==
    LET found == {n \in Answering : holds[n][p] > 0}
    IN  IF found = {} THEN 0 ELSE holds[FirstTried(sets[att.ref], found)][p]

\* A node takes the copy of v under its session: a record of the same copy
\* answers without storing, a record of another one is an idempotency conflict.
Copies(n, p) == {t \in taken : t[1] = n /\ t[2] = Context(n) /\ t[3] = att.ref /\ t[4] = p}
Takes(n, p, v) ==
    /\ n \in up
    /\ n \in att.opened => session[n] = Context(n)
    /\ \A t \in Copies(n, p) : t[5] = v

\* The strict writer needs every target, kept nodes included.
AllAcked(acks) == acks = att.to

MarkCompleted(p, opened) ==
    /\ op' = [op EXCEPT ![att.ref].done = @ \cup {p}]
    /\ att' = [att EXCEPT !.left = @ \ {p}, !.opened = opened]
    /\ UNCHANGED trans

CommitBatch(p, v) ==
    batch' = [batch EXCEPT ![att.ref][p] =
                 [state |-> "committed", version |-> v, to |-> att.to]]

\* The page's batch fails and the attempt with it; its sessions are closed.
FailPage(p, sess, opened, state) ==
    /\ batch' = [batch EXCEPT ![att.ref][p].state = "failed"]
    /\ Ends(att.ref, state)
    /\ FailOperation
    /\ session' = Closed(sess, opened, AttemptContexts)

\* The copy of v: the targets that take it store it even when the page fails.
\* The history notes a copy that is older than the last acknowledged write, or
\* than the write in flight.
WriteCopy(p, v, sess) ==
    LET acks == {n \in att.to : Takes(n, p, v)}
    IN  /\ holds' = [n \in Nodes |-> IF n \in acks /\ Copies(n, p) = {}
                                     THEN [holds[n] EXCEPT ![p] = v] ELSE holds[n]]
        /\ taken' = taken \cup {<<n, Context(n), att.ref, p, v>> : n \in acks}
        /\ stale' = IF v < committed[p] THEN stale \cup {p} ELSE stale
        /\ gw' = [gw EXCEPT !.write.behind = @ \/ (gw.write.page = p /\ v < gw.write.version)]
        /\ \/ /\ AllAcked(acks)
              /\ session' = sess
              /\ CommitBatch(p, v) /\ MarkCompleted(p, att.opened \cup NewNodes)
           \/ /\ ~AllAcked(acks)
              /\ FailPage(p, sess, att.opened \cup NewNodes, "failed")

\* copyTransitionSegments for one page: a batch committed before is skipped, and
\* so is a page that reads as zeroes.  Target sessions are opened with the first
\* page written.
CopyPage(p) ==
    LET c == Target(att.target)
        v == PageRead(p)
        opens == ~(NewNodes \subseteq att.opened)
        done == batch[att.ref][p].state = "committed"
    IN  /\ att.pc = "copy" /\ p \in att.left
        /\ \/ /\ done
              /\ MarkCompleted(p, att.opened)
              /\ UNCHANGED <<batch, holds, taken, stale, session, gw>>
           \/ /\ ~done /\ Answering # {} /\ v = 0
              /\ CommitBatch(p, 0) /\ MarkCompleted(p, att.opened)
              /\ UNCHANGED <<holds, taken, stale, session, gw>>
           \/ /\ ~done /\ v > 0
              /\ ~opens \/ Refusing(NewNodes, c) = {}
              /\ WriteCopy(p, v, IF opens THEN Opened(NewNodes, c) ELSE session)
           \/ /\ ~done /\ Answering = {}
              /\ FailPage(p, session, att.opened, "failed")
              /\ UNCHANGED <<holds, taken, stale, gw>>
           \/ /\ ~done /\ v > 0 /\ opens /\ Refusing(NewNodes, c) # {}
              /\ FailPage(p, Opened(NewNodes, c), att.opened,
                          IF Conflict(NewNodes, c) THEN "queued" ELSE "failed")
              /\ UNCHANGED <<holds, taken, stale, gw>>
        /\ UNCHANGED <<mapping, sets, moves, written, committed, intruded, draining, up, faults>>

\* The recorded progress of page p is older than version v, or of another target.
Lacks(p, v) == batch[att.ref][p].version < v \/ batch[att.ref][p].to # att.to

\* PutExtentMapping.  The history collects the writes that are not in the pages
\* the recorded progress stands for.
Publish ==
    /\ att.pc = "copy" /\ att.left = {}
    /\ mapping' = att.target
    /\ stale' = stale \cup {p \in Pages : Lacks(p, committed[p])}
    /\ gw' = [gw EXCEPT !.write.behind =
                 @ \/ (gw.write # NoWrite /\ Lacks(gw.write.page, gw.write.version))]
    /\ att' = [att EXCEPT !.pc = "complete"]
    /\ UNCHANGED <<sets, trans, op, batch, moves, holds, taken, written, committed, intruded,
                   session, draining, up, faults>>

CompleteAttempt ==
    /\ att.pc = "complete"
    /\ Ends(att.ref, "completed")
    /\ op' = [op EXCEPT ![att.ref] = [state |-> "committed", done |-> Pages]]
    /\ session' = Closed(session, att.opened, AttemptContexts)
    /\ UNCHANGED <<mapping, sets, batch, moves, data, gw, draining, up, faults>>

-----------------------------------------------------------------------------
(* Faults.                                                                 *)

Fault == faults < MaxFaults /\ faults' = faults + 1

\* A node restarts: sessions are in memory, payload and records are not.
RestartNode(n) ==
    /\ Fault /\ n \in up
    /\ session' = [session EXCEPT ![n] = Free]
    /\ att' = IF att.pc = "copy" THEN [att EXCEPT !.lost = @ \cup {n}] ELSE att
    /\ UNCHANGED <<records, data, gw, draining, up>>

\* A node stops answering, and answers again.
FailNode(n) ==
    /\ Fault /\ n \in up
    /\ up' = up \ {n}
    /\ UNCHANGED <<records, data, session, gw, att, draining>>

RecoverNode(n) ==
    /\ n \notin up
    /\ up' = up \cup {n}
    /\ UNCHANGED <<records, data, session, gw, att, draining, faults>>

\* The service dies: its attempt is lost, sessions stay open on the nodes.
CrashService ==
    /\ Fault /\ att.pc # "idle"
    /\ att' = At("idle")
    /\ UNCHANGED <<records, data, session, gw, draining, up>>

Next ==
    \/ OpenVolume \/ CloseVolume \/ RefreshSessions \/ CommitWrite \/ AbandonWrite
    \/ \E p \in Pages : WritePayload(p) \/ CopyPage(p)
    \/ EnqueueDrain \/ CleanupCompletedTransitions \/ RequeueRetryableFailedTransitions
    \/ ScanAndFailoverPrimaries \/ ScanAndEnqueueRepairs \/ RunTransition
    \/ OpenSource \/ Publish \/ CompleteAttempt \/ CrashService
    \/ \E n \in Drainable : SetDraining(n)
    \/ \E n \in Nodes : RestartNode(n) \/ FailNode(n) \/ RecoverNode(n)

Spec == Init /\ [][Next]_vars

-----------------------------------------------------------------------------
(* Properties.                                                             *)

\* Every record is of its type, and a running attempt is of the transition of
\* the mapped ref (ApplyTransition finds it obsolete otherwise).
TransitionTypeOK ==
    /\ mapping \in Refs /\ draining \in Nodes \cup {NoNode} /\ up \subseteq Nodes
    /\ \A r \in Refs :
          /\ Members(sets[r]) \subseteq Nodes
          /\ sets[r] # NoSet => sets[r].primary \in Members(sets[r])
          /\ trans[r].state \in {"none", "queued", "running", "failed", "completed"}
          /\ trans[r].target \in Refs
          /\ op[r].state \in {"none", "running", "pending", "failed", "committed"}
          /\ op[r].done \subseteq Pages
          /\ \A p \in Pages : batch[r][p].state \in {"none", "failed", "committed"}
    /\ session \in [Nodes -> WriterContexts]
    /\ holds \in [Nodes -> [Pages -> 0..MaxVersion]]
    /\ taken \subseteq Nodes \X WriterContexts \X Refs \X Pages \X (1..MaxVersion)
    /\ written \in [Pages -> 1..MaxVersion] /\ committed \in [Pages -> 1..MaxVersion]
    /\ gw.open \in BOOLEAN /\ gw.handles \subseteq Nodes
    /\ gw.write # NoWrite => gw.write.page \in Pages /\ gw.write.version \in 1..MaxVersion
    /\ moves \in 0..MaxMoves /\ faults \in 0..MaxFaults
    /\ stale \subseteq Pages /\ intruded \in BOOLEAN
    /\ att.pc \in {"open", "copy"} => att.ref = mapping /\ trans[att.ref].state = "running"

Serving(p) == {n \in Nodes : holds[n][p] >= committed[p]}

\* The mapped replica set exists and can serve every page: a write quorum of it
\* stores the last acknowledged write or a later one.  Left out are exactly the
\* pages of the cases ApplyTransition and the commit do not guard: a write that
\* a copy read from a replica without it has overwritten, and a write missing
\* from the progress, of an older version or another target, that a publish
\* relies on, acknowledged before or committed afterwards.
MappedSetServes ==
    /\ sets[mapping] # NoSet
    /\ \A p \in Pages \ stale : Quorum(Serving(p), Mapped)

\* While an attempt copies, no foreground write is acknowledged past its source
\* sessions (OpenReplicaSessions as exclusive writer) unless a write quorum of the
\* source nodes restarted and forgot them.
SourceHeld == ~intruded

\* "Quorum proves backend durability for that object" (07-replicated-backend.md):
\* some replica of the mapped set stores every acknowledged write.  The copy of a
\* drain breaks it: it reads the draining primary, which writes have left out
\* since the drain began, and stores what it read on every target replica.
AckedWritesStored == \A p \in Pages : Serving(p) \cap Mapped # {}
=============================================================================
