-------------------------- MODULE AttachmentProofs --------------------------
(***************************************************************************)
(* Proofs about Attachment for any number of gateways, hosts, calls and    *)
(* requests in flight.                                                     *)
(***************************************************************************)
EXTENDS Attachment, FiniteSetTheorems, TLAPS

-----------------------------------------------------------------------------
(* Types, with the generations that may have been given out as a parameter. *)

MaybeGateway == Gateways \cup {Nobody}

MaybeHost == Hosts \cup {Nobody}

Attachments(K) == [gen : 0 .. K, host : MaybeHost, owner : MaybeGateway]

Statuses(K) == [current : MaybeGateway, gen : 0 .. K, required : BOOLEAN,
                desired : SUBSET Gateways, acked : 0 .. K, ready : BOOLEAN,
                eligible : BOOLEAN]

\* The calls that may still move the volume to a new generation.
Spendable == {"read", "existing", "close", "closelocal", "evict", "closing", "detach",
              "remove"}

CallRecords(K) ==
    [pc : Spendable \cup {"idle", "create", "takeover", "ack", "ackput", "reply", "put"},
     gw : MaybeGateway, host : MaybeHost, gen : 0 .. K, rec : Attachments(K),
     base : Statuses(K), handoff : BOOLEAN]

RequestRecords(K) ==
    [pc : {"idle", "reload", "reclose", "status", "attachment", "open", "opening", "io", "ok"},
     gw : MaybeGateway, op : {"write", "reload"}, gen : 0 .. K, tries : {0, 1},
     era : SUBSET Int, gate : BOOLEAN]

TypedUpTo(K) ==
    /\ att \in Attachments(K)
    /\ nextGen \in 1 .. K
    /\ status \in Statuses(K)
    /\ known \in [Hosts -> 0 .. K]
    /\ call \in [Calls -> CallRecords(K)]
    /\ req \in [Requests -> RequestRecords(K)]
    /\ handle \in [Gateways -> 0 .. K]
    /\ session \in 0 .. K
    /\ work \in 0 .. MaxWork

Unspent == {c \in Calls : call[c].pc \in Spendable}

\* A call gives out at most one generation, so there are at most as many as
\* calls were begun, less the ones that have not given out theirs.
Room == work + 1 - Cardinality(Unspent)

-----------------------------------------------------------------------------
(* Calls and requests.                                                     *)

\* What a call holds once it has read etcd.
CallHolds(m) ==
    /\ m.pc \in {"read", "existing", "create", "takeover", "remove"} =>
          m.host \in Hosts /\ m.gw \in Gateways
    /\ m.pc \in {"close", "closelocal", "evict", "closing", "detach"} =>
          m.host \in Hosts /\ m.gw \in Gateways /\ m.gen # 0
    /\ m.pc = "existing" => m.gen # 0
    /\ m.pc \in {"create", "takeover"} =>
          m.rec.gen # 0 /\ m.rec.host = m.host /\ m.rec.owner = m.gw
    /\ m.pc = "remove" =>
          m.gen # 0 /\ m.rec.gen = m.gen /\ m.rec.host = m.host

CallsHold ==
    /\ Attached => att.host \in Hosts /\ att.owner \in Gateways
    /\ \A c \in Calls : CallHolds(call[c])

\* What a request has seen: the generations attached and whether the fence was
\* open include the present ones, and each check it has passed leaves its mark.
RequestSees(m) ==
    /\ m.pc \notin {"idle", "ok"} =>
          /\ m.gw \in Gateways
          /\ att.gen \in m.era
          /\ gatewayAllowedDuringHandoff(status, m.gw) => m.gate
    /\ m.pc \in {"attachment", "open", "opening", "io", "ok"} => m.gate
    /\ m.pc \in {"open", "opening", "io", "ok"} => m.gen \in m.era /\ m.gen # 0

RequestsSee == \A r \in Requests : RequestSees(req[r])

\* A gateway's mutex is held by one open at a time, and until its answer the
\* handle is not the one asked for.
OneOpening ==
    /\ \A q, r \in Requests :
          req[q].pc = "opening" /\ req[r].pc = "opening" /\ req[q].gw = req[r].gw => q = r
    /\ \A r \in Requests : req[r].pc = "opening" => handle[req[r].gw] # req[r].gen

Good(K) ==
    /\ TypedUpTo(K)
    /\ CallsHold
    /\ RequestsSee
    /\ OneOpening

IInv == IsFiniteSet(Unspent) /\ Good(Room)

-----------------------------------------------------------------------------
(* Types.                                                                  *)

\* The values that stand for nothing are typed.
LEMMA Values ==
    ASSUME NEW K \in Nat
    PROVE  /\ NoAttachment \in Attachments(K) /\ NoStatus \in Statuses(K)
           /\ NoCall \in CallRecords(K) /\ NoRequest \in RequestRecords(K)
<1>1. NoAttachment \in Attachments(K)
  BY DEF NoAttachment, Attachments, MaybeHost, MaybeGateway
<1>2. NoStatus \in Statuses(K)
  BY DEF NoStatus, Statuses, MaybeGateway
<1>3. NoCall \in CallRecords(K)
  BY <1>1, <1>2 DEF NoCall, CallRecords, MaybeHost, MaybeGateway
<1>4. NoRequest \in RequestRecords(K)
  BY DEF NoRequest, RequestRecords, MaybeGateway
<1> QED
  BY <1>1, <1>2, <1>3, <1>4

\* More generations leave every record typed.
LEMMA Grows ==
    ASSUME NEW K \in Nat, NEW L \in Nat, K <= L
    PROVE  /\ 0 .. K \subseteq 0 .. L
           /\ Attachments(K) \subseteq Attachments(L) /\ Statuses(K) \subseteq Statuses(L)
           /\ CallRecords(K) \subseteq CallRecords(L)
           /\ RequestRecords(K) \subseteq RequestRecords(L)
           /\ TypedUpTo(K) => TypedUpTo(L)
<1>1. 0 .. K \subseteq 0 .. L /\ 1 .. K \subseteq 1 .. L
  OBVIOUS
<1>2. Attachments(K) \subseteq Attachments(L)
  BY <1>1 DEF Attachments
<1>3. Statuses(K) \subseteq Statuses(L)
  BY <1>1 DEF Statuses
<1>4. CallRecords(K) \subseteq CallRecords(L)
  BY <1>1, <1>2, <1>3 DEF CallRecords
<1>5. RequestRecords(K) \subseteq RequestRecords(L)
  BY <1>1 DEF RequestRecords
<1>6. TypedUpTo(K) => TypedUpTo(L)
  BY <1>1, <1>2, <1>3, <1>4, <1>5 DEF TypedUpTo
<1> QED
  BY <1>1, <1>2, <1>3, <1>4, <1>5, <1>6

\* The reconciliation and the acknowledgement make a status of a status.
LEMMA StatusTypes ==
    ASSUME NEW K \in Nat, NEW s \in Statuses(K), NEW due \in BOOLEAN
    PROVE  /\ \A D \in SUBSET Gateways : ReconcileVolumePathPlanStatus(s, D, due) \in Statuses(K)
           /\ \A g \in MaybeGateway : Acknowledged(s, g, due) \in Statuses(K)
<1>0. 0 \in 0 .. K
  OBVIOUS
<1>1. ASSUME NEW u \in Statuses(K)
      PROVE  updateHandoffCompletionEligibility(u) \in Statuses(K)
  BY Zenon DEF updateHandoffCompletionEligibility, Statuses
<1>2. ASSUME NEW D \in SUBSET Gateways
      PROVE  ReconcileVolumePathPlanStatus(s, D, due) \in Statuses(K)
  <2> DEFINE required == /\ ~handoffCompletionSatisfied(s, due)
                         /\ s.required \/ (s.current # Nobody /\ D # {} /\ s.current \notin D)
             u == [s EXCEPT !.required = required, !.desired = D,
                            !.ready = @ /\ D = s.desired,
                            !.acked = IF required THEN @ ELSE 0]
  <2>1. required \in BOOLEAN
    OBVIOUS
  <2> HIDE DEF required
  <2>2. u \in Statuses(K)
    BY <1>0, <2>1, Zenon DEF Statuses
  <2>3. ReconcileVolumePathPlanStatus(s, D, due) = updateHandoffCompletionEligibility(u)
    BY DEF ReconcileVolumePathPlanStatus, required
  <2> HIDE DEF u
  <2> QED
    BY <1>1, <2>2, <2>3
<1>3. ASSUME NEW g \in MaybeGateway
      PROVE  Acknowledged(s, g, due) \in Statuses(K)
  <2> DEFINE u == IF s.current = g /\ s.gen > 0 THEN [s EXCEPT !.acked = s.gen] ELSE s
  <2>1. u \in Statuses(K)
    BY DEF Statuses
  <2>2. Acknowledged(s, g, due) =
          IF handoffCompletionSatisfied(u, due)
          THEN [u EXCEPT !.required = FALSE, !.acked = 0, !.eligible = FALSE]
          ELSE updateHandoffCompletionEligibility(u)
    BY DEF Acknowledged
  <2> HIDE DEF u
  <2>3. [u EXCEPT !.required = FALSE, !.acked = 0, !.eligible = FALSE] \in Statuses(K)
    BY <1>0, <2>1, Zenon DEF Statuses
  <2> QED
    BY <1>1, <2>1, <2>2, <2>3
<1> QED
  BY <1>2, <1>3

\* The fence is open or not.
LEMMA AllowedType ==
    ASSUME NEW s, NEW g
    PROVE  gatewayAllowedDuringHandoff(s, g) \in BOOLEAN
BY DEF gatewayAllowedDuringHandoff

\* One call goes on.
LEMMA CallUpdate ==
    ASSUME NEW K \in Nat, TypedUpTo(K), NEW c \in Calls, NEW m \in CallRecords(K),
           call' = [call EXCEPT ![c] = m]
    PROVE  /\ call' \in [Calls -> CallRecords(K)]
           /\ call'[c] = m /\ \A d \in Calls : d # c => call'[d] = call[d]
BY DEF TypedUpTo

\* One request goes on.
LEMMA RequestUpdate ==
    ASSUME NEW K \in Nat, TypedUpTo(K), NEW r \in Requests, NEW m \in RequestRecords(K),
           req' = [req EXCEPT ![r] = m]
    PROVE  /\ req' \in [Requests -> RequestRecords(K)]
           /\ req'[r] = m /\ \A q \in Requests : q # r => req'[q] = req[q]
BY DEF TypedUpTo

\* A write to etcd keeps what requests see.
LEMMA StoreKeeps ==
    ASSUME NEW K \in Nat, TypedUpTo(K), RequestsSee, OneOpening, handle' = handle,
           NEW L \in Nat, NEW a \in Attachments(L), NEW n, NEW s, Store(a, n, s)
    PROVE  /\ req' \in [Requests -> RequestRecords(K)]
           /\ RequestsSee' /\ OneOpening'
<1> DEFINE m(r) == [req[r] EXCEPT !.era = @ \cup {a.gen},
                              !.gate = @ \/ gatewayAllowedDuringHandoff(s, req[r].gw)]
<1>1. ASSUME NEW r \in Requests
      PROVE  /\ m(r) \in RequestRecords(K)
             /\ m(r).pc = req[r].pc /\ m(r).gw = req[r].gw /\ m(r).gen = req[r].gen
             /\ m(r).era = req[r].era \cup {a.gen}
             /\ m(r).gate = (req[r].gate \/ gatewayAllowedDuringHandoff(s, req[r].gw))
  <2>1. req[r] \in RequestRecords(K) /\ a.gen \in Int
    BY DEF TypedUpTo, Attachments
  <2>2. gatewayAllowedDuringHandoff(s, req[r].gw) \in BOOLEAN
    BY AllowedType
  <2> QED
    BY <2>1, <2>2, Zenon DEF RequestRecords
<1>2. /\ req' = [r \in Requests |-> IF req[r].pc \in {"idle", "ok"} THEN req[r] ELSE m(r)]
      /\ att' = a /\ status' = s
  BY Zenon DEF Store
<1> HIDE DEF m
<1>3. req' \in [Requests -> RequestRecords(K)]
  BY <1>1, <1>2 DEF TypedUpTo
<1>4. \A r \in Requests : req'[r] = IF req[r].pc \in {"idle", "ok"} THEN req[r] ELSE m(r)
  BY <1>2
<1>5. RequestsSee'
  BY <1>1, <1>2, <1>4, Zenon DEF RequestsSee, RequestSees
<1>6. OneOpening'
  BY <1>1, <1>4 DEF OneOpening
<1> QED
  BY <1>3, <1>5, <1>6

\* Handles may go while requests open: none asks for generation 0.
LEMMA ClosingKeeps ==
    ASSUME NEW K \in Nat, Good(K), req' = req,
           handle' = handle \/ \E g \in Gateways : handle' = [handle EXCEPT ![g] = 0]
    PROVE  handle' \in [Gateways -> 0 .. K] /\ OneOpening'
<1>1. 0 \in 0 .. K
  OBVIOUS
<1>2. \A r \in Requests : req[r].pc = "opening" => req[r].gen # 0 /\ req[r].gw \in Gateways
  BY DEF Good, RequestsSee, RequestSees
<1>3. CASE handle' = handle
  BY <1>3 DEF Good, TypedUpTo, OneOpening
<1>4. ASSUME NEW g \in Gateways, handle' = [handle EXCEPT ![g] = 0]
      PROVE  handle' \in [Gateways -> 0 .. K] /\ OneOpening'
  BY <1>1, <1>2, <1>4 DEF Good, TypedUpTo, OneOpening
<1> QED
  BY <1>3, <1>4

\* A step of a call that does not write to etcd.
LEMMA CallOnly ==
    ASSUME NEW K \in Nat, Good(K), NEW c \in Calls, NEW m \in CallRecords(K), CallHolds(m),
           call' = [call EXCEPT ![c] = m], UNCHANGED <<etcd, req>>,
           handle' = handle \/ \E g \in Gateways : handle' = [handle EXCEPT ![g] = 0],
           known' \in [Hosts -> 0 .. K], session' \in 0 .. K, work' \in 0 .. MaxWork
    PROVE  Good(K)'
<1>1. /\ call' \in [Calls -> CallRecords(K)] /\ call'[c] = m
      /\ \A d \in Calls : d # c => call'[d] = call[d]
  BY CallUpdate, Zenon DEF Good
<1>2. handle' \in [Gateways -> 0 .. K] /\ OneOpening'
  BY ClosingKeeps
<1>3. TypedUpTo(K)'
  BY <1>1, <1>2 DEF Good, TypedUpTo, etcd
<1>4. CallsHold'
  BY <1>1 DEF Good, CallsHold, Attached, etcd
<1>5. RequestsSee'
  BY DEF Good, RequestsSee, RequestSees, etcd
<1> QED
  BY <1>2, <1>3, <1>4, <1>5 DEF Good

\* A step of a call that writes to etcd.
LEMMA CallStores ==
    ASSUME NEW K \in Nat, NEW L \in Nat, K <= L, Good(K),
           NEW c \in Calls, NEW m \in CallRecords(K), CallHolds(m),
           call' = [call EXCEPT ![c] = m],
           NEW a \in Attachments(L), a.gen # 0 => a.host \in Hosts /\ a.owner \in Gateways,
           NEW n \in 1 .. L, NEW s \in Statuses(L), Store(a, n, s),
           known' \in [Hosts -> 0 .. K], UNCHANGED <<sbs, work>>
    PROVE  Good(L)'
<1>1. /\ call' \in [Calls -> CallRecords(K)] /\ call'[c] = m
      /\ \A d \in Calls : d # c => call'[d] = call[d]
  BY CallUpdate, Zenon DEF Good
<1>2. /\ req' \in [Requests -> RequestRecords(K)] /\ RequestsSee' /\ OneOpening'
  BY StoreKeeps DEF Good, sbs
<1>3. att' = a /\ nextGen' = n /\ status' = s
  BY Zenon DEF Store
<1>4. /\ 0 .. K \subseteq 0 .. L /\ CallRecords(K) \subseteq CallRecords(L)
      /\ RequestRecords(K) \subseteq RequestRecords(L)
  BY Grows
<1>5. TypedUpTo(L)'
  BY <1>1, <1>2, <1>3, <1>4 DEF Good, TypedUpTo, sbs
<1>6. CallsHold'
  BY <1>1, <1>3 DEF Good, CallsHold, Attached
<1> QED
  BY <1>2, <1>5, <1>6 DEF Good

\* The parts of a good state that steps of calls read.
LEMMA Parts ==
    ASSUME NEW K \in Nat, Good(K)
    PROVE  /\ att \in Attachments(K) /\ nextGen \in 1 .. K /\ nextGen \in 0 .. K
           /\ status \in Statuses(K) /\ known \in [Hosts -> 0 .. K]
           /\ session \in 0 .. K /\ work \in 0 .. MaxWork
           /\ \A c \in Calls : call[c] \in CallRecords(K) /\ CallHolds(call[c])
           /\ \A r \in Requests : req[r] \in RequestRecords(K)
           /\ NoCall \in CallRecords(K) /\ CallHolds(NoCall)
<1>1. NoCall \in CallRecords(K) /\ CallHolds(NoCall)
  BY Values, Zenon DEF NoCall, CallHolds
<1> QED
  BY <1>1 DEF Good, TypedUpTo, CallsHold

\* The bound on calls and faults.
LEMMA BeginsType ==
    ASSUME work \in 0 .. MaxWork, Begins
    PROVE  work' \in 0 .. MaxWork /\ work' = work + 1
BY AttachmentAssumption DEF Begins

\* A host is told a generation that was given out.
LEMMA LearnsType ==
    ASSUME NEW K \in Nat, Good(K), NEW h, NEW gen \in 0 .. K, Learns(h, gen)
    PROVE  known' \in [Hosts -> 0 .. K]
BY DEF Learns, Good, TypedUpTo

\* The first steps of an attach and of a detach.
LEMMA BeginCall ==
    ASSUME NEW K \in Nat, Good(K), NEW c \in Calls, NEW g \in Gateways, NEW h \in Hosts,
           Attach(c, g, h) \/ Detach(c, g, h)
    PROVE  Good(K)'
<1>1. CASE Attach(c, g, h)
  <2> DEFINE m == [NoCall EXCEPT !.pc = "read", !.gw = g, !.host = h,
                                 !.handoff = status.required]
  <2>1. m \in CallRecords(K) /\ CallHolds(m)
    BY Parts, Zenon DEF NoCall, CallRecords, Spendable, MaybeGateway, MaybeHost, Statuses, CallHolds
  <2>2. call' = [call EXCEPT ![c] = m] /\ UNCHANGED <<etcd, known, req, sbs>> /\ Begins
    BY <1>1 DEF Attach
  <2> HIDE DEF m
  <2> QED
    BY <2>1, <2>2, CallOnly, Parts, BeginsType, Zenon DEF sbs
<1>2. CASE Detach(c, g, h)
  <2> DEFINE m == [NoCall EXCEPT !.gw = g, !.host = h, !.gen = known[h],
                                 !.pc = IF Attached THEN "close" ELSE "closelocal"]
  <2>0. known[h] # 0 /\ known[h] \in 0 .. K
    BY <1>2, Parts DEF Detach
  <2>1. m \in CallRecords(K) /\ CallHolds(m)
    BY <2>0, Parts, Zenon DEF NoCall, CallRecords, Spendable, MaybeGateway, MaybeHost, CallHolds
  <2>2. call' = [call EXCEPT ![c] = m] /\ UNCHANGED <<etcd, known, req, sbs>> /\ Begins
    BY <1>2 DEF Detach
  <2> HIDE DEF m
  <2> QED
    BY <2>1, <2>2, CallOnly, Parts, BeginsType, Zenon DEF sbs
<1> QED
  BY <1>1, <1>2

\* A call that goes on keeps its fields.
LEMMA GoesType ==
    ASSUME NEW K \in Nat, NEW m \in CallRecords(K),
           NEW pc \in Spendable \cup {"idle", "create", "takeover", "ack", "ackput", "reply", "put"}
    PROVE  LET n == [m EXCEPT !.pc = pc] IN
           /\ n \in CallRecords(K) /\ n.pc = pc /\ n.host = m.host /\ n.gw = m.gw
           /\ n.gen = m.gen /\ n.rec = m.rec /\ n.base = m.base
BY DEF CallRecords

\* AttachContext's reads, and what it does with the status.
LEMMA AttachSteps ==
    ASSUME NEW K \in Nat, Good(K), NEW c \in Calls,
           \/ AttachRead(c) \/ AttachAcknowledge(c) \/ AttachReply(c) \/ RefreshStatus(c)
    PROVE  Good(K)'
<1>1. /\ call[c] \in CallRecords(K) /\ CallHolds(call[c])
      /\ status \in Statuses(K) /\ call[c].gw \in MaybeGateway
      /\ att.gen \in 0 .. K /\ nextGen \in 0 .. K /\ nextGen # 0
  BY Parts DEF CallRecords, Attachments
<1>2. CASE AttachRead(c)
  <2> DEFINE m == [call[c] EXCEPT !.pc = "existing", !.base = status, !.gen = nextGen]
  <2>1. m \in CallRecords(K) /\ CallHolds(m)
    BY <1>1, <1>2, Zenon DEF AttachRead, CallRecords, Spendable, CallHolds
  <2>2. call' = [call EXCEPT ![c] = m] /\ UNCHANGED <<etcd, known, req, sbs, work>>
    BY <1>2, Zenon DEF AttachRead
  <2> HIDE DEF m
  <2> QED
    BY <2>1, <2>2, CallOnly, Parts, Zenon DEF sbs
<1>3. CASE AttachAcknowledge(c)
  <2>1. PICK due \in BOOLEAN :
          call' = [call EXCEPT ![c].pc = "ackput",
                               ![c].base = Acknowledged(status, call[c].gw, due)]
    BY <1>3, Zenon DEF AttachAcknowledge
  <2> DEFINE s == Acknowledged(status, call[c].gw, due)
             m == [call[c] EXCEPT !.pc = "ackput", !.base = s]
  <2>2. s \in Statuses(K)
    BY <1>1, StatusTypes
  <2>3. call' = [call EXCEPT ![c] = m] /\ UNCHANGED <<etcd, known, req, sbs, work>>
    BY <1>3, <2>1, Zenon DEF AttachAcknowledge
  <2> HIDE DEF s
  <2>4. m \in CallRecords(K) /\ CallHolds(m)
    BY <1>1, <2>2, Zenon DEF CallRecords, CallHolds
  <2> HIDE DEF m
  <2> QED
    BY <2>3, <2>4, CallOnly, Parts, Zenon DEF sbs
<1>4. CASE AttachReply(c)
  <2>1. PICK D \in SUBSET Gateways, due \in BOOLEAN :
          LET next == ReconcileVolumePathPlanStatus(status, D, due) IN
          \/ Returns(c) /\ UNCHANGED known
          \/ /\ call' = [call EXCEPT ![c].pc = "put", ![c].gen = att.gen, ![c].base = next]
             /\ UNCHANGED known
          \/ Returns(c) /\ Learns(call[c].host, att.gen)
    BY <1>4 DEF AttachReply
  <2> DEFINE s == ReconcileVolumePathPlanStatus(status, D, due)
             m == [call[c] EXCEPT !.pc = "put", !.gen = att.gen, !.base = s]
  <2>2. s \in Statuses(K)
    BY <1>1, StatusTypes
  <2>3. \/ call' = [call EXCEPT ![c] = NoCall] /\ known' \in [Hosts -> 0 .. K]
        \/ call' = [call EXCEPT ![c] = m] /\ UNCHANGED known
    BY <1>1, <2>1, LearnsType, Parts, Zenon DEF Returns
  <2>4. UNCHANGED <<etcd, req, sbs, work>>
    BY <1>4 DEF AttachReply
  <2> HIDE DEF s
  <2>5. m \in CallRecords(K) /\ CallHolds(m)
    BY <1>1, <2>2, Zenon DEF CallRecords, CallHolds
  <2> HIDE DEF m
  <2> QED
    BY <2>3, <2>4, <2>5, CallOnly, Parts DEF sbs
<1>5. CASE RefreshStatus(c)
  <2>1. PICK s \in Statuses(K) : Puts(c, s)
    <3>1. CASE \E D \in SUBSET Gateways, due \in BOOLEAN :
                 Puts(c, ReconcileVolumePathPlanStatus(status, D, due))
      BY <1>1, <3>1, StatusTypes
    <3>2. CASE \E b \in BOOLEAN : Puts(c, [status EXCEPT !.ready = b])
      <4>1. \A b \in BOOLEAN : [status EXCEPT !.ready = b] \in Statuses(K)
        BY <1>1 DEF Statuses
      <4> QED
        BY <3>2, <4>1
    <3> QED
      BY <1>5, <3>1, <3>2 DEF RefreshStatus
  <2> DEFINE m == [NoCall EXCEPT !.pc = "put", !.base = s]
  <2>2. NoCall \in CallRecords(K)
    BY Parts
  <2>3. m \in CallRecords(K) /\ CallHolds(m)
    BY <2>2, Zenon DEF CallRecords, CallHolds
  <2>4. call' = [call EXCEPT ![c] = m] /\ UNCHANGED <<etcd, known, req, sbs>> /\ Begins
    BY <1>5, <2>1, Zenon DEF RefreshStatus, Puts
  <2> HIDE DEF m
  <2> QED
    BY <2>3, <2>4, CallOnly, Parts, BeginsType, Zenon DEF sbs
<1> QED
  BY <1>2, <1>3, <1>4, <1>5

\* Attach's transactions: the attachment that was prepared, or a status.
LEMMA AttachStores ==
    ASSUME NEW K \in Nat, Good(K), NEW c \in Calls,
           AttachCommit(c) \/ AttachPutStatus(c) \/ PutVolumeStatus(c)
    PROVE  Good(K)'
<1> DEFINE k == call[c]
<1>1. /\ k \in CallRecords(K) /\ CallHolds(k) /\ att \in Attachments(K)
      /\ k.base \in Statuses(K) /\ k.rec \in Attachments(K) /\ k.gen \in 0 .. K
      /\ nextGen \in 1 .. K /\ known \in [Hosts -> 0 .. K]
      /\ att.gen # 0 => att.host \in Hosts /\ att.owner \in Gateways
  BY Parts DEF CallRecords, Good, CallsHold, Attached
<1>2. CASE AttachCommit(c)
  <2> DEFINE m == [k EXCEPT !.pc = Attaches(c)]
             s == [k.base EXCEPT !.current = k.rec.owner, !.gen = k.rec.gen]
  <2>1. m \in CallRecords(K) /\ CallHolds(m)
    BY <1>1 DEF Attaches, CallRecords, CallHolds
  <2>2. s \in Statuses(K)
    BY <1>1, Zenon DEF Statuses, Attachments
  <2>3. k.rec.host \in Hosts /\ k.rec.owner \in Gateways
    BY <1>1, <1>2 DEF AttachCommit, CallHolds
  <2>4. /\ \/ Store(k.rec, nextGen, s) /\ call' = [call EXCEPT ![c] = m]
           \/ call' = [call EXCEPT ![c] = NoCall] /\ UNCHANGED <<etcd, req>>
        /\ UNCHANGED <<known, sbs, work>>
    BY <1>2 DEF AttachCommit, Goes, Returns
  <2> HIDE DEF m, s, k
  <2>5. CASE Store(k.rec, nextGen, s) /\ call' = [call EXCEPT ![c] = m]
    <3>1. K <= K
      OBVIOUS
    <3> QED
      BY <1>1, <2>1, <2>2, <2>3, <2>4, <2>5, <3>1, CallStores, Zenon
  <2>6. CASE call' = [call EXCEPT ![c] = NoCall] /\ UNCHANGED <<etcd, req>>
    BY <2>4, <2>6, CallOnly, Parts, Zenon DEF sbs
  <2> QED
    BY <2>4, <2>5, <2>6
<1>3. CASE AttachPutStatus(c)
  <2> DEFINE m == [k EXCEPT !.pc = "reply"]
  <2>1. m \in CallRecords(K) /\ CallHolds(m)
    BY <1>1 DEF CallRecords, CallHolds
  <2>2. /\ Store(att, nextGen, k.base) /\ call' = [call EXCEPT ![c] = m]
        /\ UNCHANGED <<known, sbs, work>>
    BY <1>3 DEF AttachPutStatus, Goes
  <2>3. K <= K
    OBVIOUS
  <2> HIDE DEF m, k
  <2> QED
    BY <1>1, <2>1, <2>2, <2>3, CallStores, Zenon
<1>4. CASE PutVolumeStatus(c)
  <2>1. /\ Store(att, nextGen, k.base) /\ call' = [call EXCEPT ![c] = NoCall]
        /\ Learns(k.host, k.gen) /\ UNCHANGED <<sbs, work>>
    BY <1>4 DEF PutVolumeStatus, Returns
  <2>2. K <= K
    OBVIOUS
  <2> HIDE DEF k
  <2>3. known' \in [Hosts -> 0 .. K]
    BY <1>1, <2>1, LearnsType
  <2> QED
    BY <1>1, <2>1, <2>2, <2>3, CallStores, Parts, Zenon
<1> QED
  BY <1>2, <1>3, <1>4

\* closeHandleLocked: the session closes or stays, the handle goes or stays.
LEMMA CloseTypes ==
    ASSUME NEW K \in Nat, Good(K), NEW g \in Gateways, NEW gen, NEW outcome \in Outcomes,
           CloseHandle(g, gen, outcome)
    PROVE  /\ session' \in 0 .. K /\ work' \in 0 .. MaxWork
           /\ handle' = handle \/ handle' = [handle EXCEPT ![g] = 0]
           /\ work' = work \/ work' = work + 1
<1>1. session \in 0 .. K /\ 0 \in 0 .. K /\ work \in 0 .. MaxWork
  BY Parts
<1>2. CloseVolume(gen) => session' \in 0 .. K
  BY <1>1 DEF CloseVolume
<1> QED
  BY <1>1, <1>2, BeginsType DEF CloseHandle

\* Detach up to its transaction.
LEMMA DetachSteps ==
    ASSUME NEW K \in Nat, Good(K), NEW c \in Calls,
           DetachLook(c) \/ DetachEvict(c) \/ DetachClose(c) \/ DetachRead(c)
    PROVE  Good(K)'
<1> DEFINE k == call[c]
<1>1. /\ k \in CallRecords(K) /\ CallHolds(k) /\ k.gw \in Gateways /\ k.host \in Hosts
      /\ k.gen # 0 /\ att \in Attachments(K) /\ status \in Statuses(K)
  BY Parts DEF CallHolds, DetachLook, DetachEvict, DetachClose, DetachRead
<1> DEFINE m(pc) == [k EXCEPT !.pc = pc]
<1>2. \A pc \in {"closing", "evict", "detach"} : m(pc) \in CallRecords(K) /\ CallHolds(m(pc))
  BY <1>1 DEF CallRecords, Spendable, CallHolds
<1>3. CASE DetachLook(c)
  <2>1. PICK pc \in {"closing", "evict", "detach"} : call' = [call EXCEPT ![c] = m(pc)]
    BY <1>3, Zenon DEF DetachLook, Goes
  <2>2. UNCHANGED <<etcd, known, req, sbs, work>>
    BY <1>3 DEF DetachLook
  <2> HIDE DEF m, k
  <2> QED
    BY <1>2, <2>1, <2>2, CallOnly, Parts, Zenon DEF sbs
<1>4. CASE DetachEvict(c)
  <2>1. /\ call' = [call EXCEPT ![c] = m("detach")] /\ handle' = [handle EXCEPT ![k.gw] = 0]
        /\ UNCHANGED <<etcd, known, req, session, work>>
    BY <1>4 DEF DetachEvict, Goes
  <2> HIDE DEF m, k
  <2> QED
    BY <1>1, <1>2, <2>1, CallOnly, Parts, Zenon
<1>5. CASE DetachClose(c)
  <2>1. PICK outcome \in Outcomes :
          /\ CloseHandle(k.gw, k.gen, outcome)
          /\ call' = [call EXCEPT ![c] = NoCall] \/ call' = [call EXCEPT ![c] = m("detach")]
    BY <1>5 DEF DetachClose, Goes, Returns
  <2>2. UNCHANGED <<etcd, known, req>>
    BY <1>5 DEF DetachClose
  <2> HIDE DEF m, k
  <2>3. /\ session' \in 0 .. K /\ work' \in 0 .. MaxWork
        /\ handle' = handle \/ handle' = [handle EXCEPT ![k.gw] = 0]
    BY <1>1, <2>1, CloseTypes
  <2> QED
    BY <1>1, <1>2, <2>1, <2>2, <2>3, CallOnly, Parts
<1>6. CASE DetachRead(c)
  <2> DEFINE n == [k EXCEPT !.pc = "remove", !.rec = att, !.base = status]
  <2>1. /\ \/ Learns(k.host, 0) /\ call' = [call EXCEPT ![c] = NoCall]
           \/ UNCHANGED known /\ call' = [call EXCEPT ![c] = NoCall]
           \/ /\ att.host = k.host /\ att.gen = k.gen
              /\ call' = [call EXCEPT ![c] = n] /\ UNCHANGED known
        /\ UNCHANGED <<etcd, req, sbs, work>>
    BY <1>6, Zenon DEF DetachRead, Returns
  <2>2. n \in CallRecords(K)
    BY <1>1, Zenon DEF CallRecords, Spendable
  <2>3. att.host = k.host /\ att.gen = k.gen => CallHolds(n)
    BY <1>1 DEF CallRecords, CallHolds
  <2>4. 0 \in 0 .. K
    OBVIOUS
  <2>5. known' \in [Hosts -> 0 .. K]
    BY <2>1, <2>4, LearnsType, Parts
  <2> HIDE DEF m, k, n
  <2> QED
    BY <2>1, <2>2, <2>3, <2>5, CallOnly, Parts DEF sbs
<1> QED
  BY <1>3, <1>4, <1>5, <1>6

\* The two steps that give out a generation.
LEMMA Spends ==
    ASSUME NEW K \in Nat, Good(K), NEW c \in Calls, AttachExisting(c) \/ DetachCommit(c)
    PROVE  Good(K + 1)'
<1> DEFINE k == call[c]
           L == K + 1
<1>1. L \in Nat /\ K <= L /\ K + 1 = L
  OBVIOUS
<1>2. /\ k \in CallRecords(K) /\ CallHolds(k) /\ k.gw \in Gateways /\ k.host \in Hosts
      /\ att \in Attachments(K) /\ k.rec \in Attachments(K) /\ k.base \in Statuses(K)
      /\ k.gen \in 0 .. K
  BY Parts DEF CallHolds, CallRecords, AttachExisting, DetachCommit
<1>3. Good(L)
  BY <1>1, Grows DEF Good
<1>4. k \in CallRecords(L)
  BY <1>1, <1>2, Grows
<1> HIDE DEF L
<1>5. CASE AttachExisting(c)
  <2> DEFINE Record(gen) == [gen |-> gen, host |-> k.host, owner |-> k.gw]
             m(pc, gen) == [k EXCEPT !.pc = pc, !.rec = Record(gen)]
             n == [k EXCEPT !.pc = Attaches(c)]
  <2>1. k.pc = "existing" /\ k.gen # 0
    BY <1>2, <1>5 DEF AttachExisting, CallHolds
  <2>2. \A pc \in {"create", "takeover"} : \A gen \in 0 .. L : gen # 0 =>
          m(pc, gen) \in CallRecords(L) /\ CallHolds(m(pc, gen))
    <3>1. \A gen \in 0 .. L : Record(gen) \in Attachments(L)
      BY <1>2 DEF Attachments, MaybeHost, MaybeGateway
    <3> SUFFICES ASSUME NEW pc \in {"create", "takeover"}, NEW gen \in 0 .. L, gen # 0
                 PROVE  m(pc, gen) \in CallRecords(L) /\ CallHolds(m(pc, gen))
      BY Zenon
    <3> DEFINE x == Record(gen)
    <3>2. x \in Attachments(L) /\ x.gen # 0 /\ x.host = k.host /\ x.owner = k.gw
      BY <3>1
    <3>3. m(pc, gen) = [k EXCEPT !.pc = pc, !.rec = x]
      OBVIOUS
    <3> HIDE DEF x, m, Record
    <3>4. /\ [k EXCEPT !.pc = pc, !.rec = x] \in CallRecords(L)
          /\ [k EXCEPT !.pc = pc, !.rec = x].pc = pc
          /\ [k EXCEPT !.pc = pc, !.rec = x].rec = x
          /\ [k EXCEPT !.pc = pc, !.rec = x].host = k.host
          /\ [k EXCEPT !.pc = pc, !.rec = x].gw = k.gw
      BY <1>4, <3>2, Zenon DEF CallRecords
    <3> QED
      BY <1>2, <3>2, <3>3, <3>4 DEF CallHolds
  <2>3. n \in CallRecords(L) /\ CallHolds(n)
    BY <1>4 DEF Attaches, CallRecords, CallHolds
  <2>4. /\ \/ call' = [call EXCEPT ![c] = m("create", k.gen)]
           \/ call' = [call EXCEPT ![c] = n]
           \/ call' = [call EXCEPT ![c] = m("takeover", att.gen + 1)]
           \/ call' = [call EXCEPT ![c] = NoCall]
        /\ UNCHANGED <<etcd, known, req, sbs, work>>
    BY <1>5, Zenon DEF AttachExisting, Goes, Returns
  <2>5. att.gen + 1 \in 0 .. L /\ att.gen + 1 # 0 /\ k.gen \in 0 .. L
    BY <1>1, <1>2 DEF Attachments
  <2> DEFINE m1 == m("create", k.gen)
             m2 == m("takeover", att.gen + 1)
  <2>6. m1 \in CallRecords(L) /\ CallHolds(m1) /\ m2 \in CallRecords(L) /\ CallHolds(m2)
    BY <2>1, <2>2, <2>5, Zenon
  <2> HIDE DEF m, n, k, Record, m1, m2
  <2> QED
    BY <1>1, <1>3, <2>3, <2>4, <2>6, CallOnly, Parts DEF sbs, m1, m2
<1>6. CASE DetachCommit(c)
  <2> DEFINE next == k.rec.gen + 1
             s == [k.base EXCEPT !.current = Nobody, !.gen = next]
  <2>1. /\ \/ Store(NoAttachment, next, s) /\ Learns(k.host, 0)
           \/ UNCHANGED <<etcd, req, known>>
        /\ call' = [call EXCEPT ![c] = NoCall] /\ UNCHANGED <<sbs, work>>
    BY <1>6 DEF DetachCommit, Returns
  <2>2. next \in 1 .. L /\ next \in 0 .. L
    BY <1>1, <1>2 DEF Attachments
  <2> HIDE DEF next
  <2>3. s \in Statuses(L)
    <3>1. k.base \in Statuses(L)
      BY <1>1, <1>2, Grows
    <3> QED
      BY <2>2, <3>1, Zenon DEF Statuses, MaybeGateway
  <2>4. NoAttachment \in Attachments(L) /\ NoAttachment.gen = 0 /\ 0 \in 0 .. L /\ L <= L
    BY <1>1, Values DEF NoAttachment
  <2> HIDE DEF s, k
  <2>5. CASE Store(NoAttachment, next, s) /\ Learns(k.host, 0)
    <3>1. known' \in [Hosts -> 0 .. L]
      BY <1>1, <1>3, <2>4, <2>5, LearnsType
    <3> QED
      BY <1>1, <1>3, <2>1, <2>2, <2>3, <2>4, <2>5, <3>1, CallStores, Parts, Zenon
  <2>6. CASE UNCHANGED <<etcd, req, known>>
    BY <1>1, <1>3, <2>1, <2>6, CallOnly, Parts, Zenon DEF sbs
  <2> QED
    BY <2>1, <2>5, <2>6
<1> QED
  BY <1>5, <1>6 DEF L

\* A step of a request.
LEMMA RequestOnly ==
    ASSUME NEW K \in Nat, Good(K), NEW r \in Requests, NEW m \in RequestRecords(K),
           RequestSees(m), req' = [req EXCEPT ![r] = m], UNCHANGED <<etcd, known, call>>,
           handle' \in [Gateways -> 0 .. K], session' \in 0 .. K, work' \in 0 .. MaxWork,
           OneOpening'
    PROVE  Good(K)'
<1>1. /\ req' \in [Requests -> RequestRecords(K)] /\ req'[r] = m
      /\ \A q \in Requests : q # r => req'[q] = req[q]
  BY RequestUpdate, Zenon DEF Good
<1>2. TypedUpTo(K)'
  BY <1>1 DEF Good, TypedUpTo, etcd
<1>3. CallsHold'
  BY DEF Good, CallsHold, Attached, etcd
<1>4. RequestsSee'
  BY <1>1 DEF Good, RequestsSee, RequestSees, etcd
<1> QED
  BY <1>2, <1>3, <1>4 DEF Good

\* A step of a request that does not leave it opening, nor a handle in place.
LEMMA RequestQuiet ==
    ASSUME NEW K \in Nat, Good(K), NEW r \in Requests, NEW m \in RequestRecords(K),
           RequestSees(m), req' = [req EXCEPT ![r] = m], UNCHANGED <<etcd, known, call>>,
           m.pc # "opening",
           handle' = handle \/ \E g \in Gateways : handle' = [handle EXCEPT ![g] = 0],
           session' \in 0 .. K, work' \in 0 .. MaxWork
    PROVE  Good(K)'
<1>1. /\ req'[r] = m
      /\ \A q \in Requests : q # r => req'[q] = req[q]
  BY RequestUpdate, Zenon DEF Good
<1>2. \A q \in Requests : req'[q].pc = "opening" => q # r /\ req[q].pc = "opening"
  BY <1>1
<1>3. \A q \in Requests : req[q].pc = "opening" => req[q].gen # 0 /\ req[q].gw \in Gateways
  BY DEF Good, RequestsSee, RequestSees
<1>4. 0 \in 0 .. K /\ handle \in [Gateways -> 0 .. K]
  BY DEF Good, TypedUpTo
<1>5. handle' \in [Gateways -> 0 .. K]
  BY <1>4
<1>6. \A g \in Gateways : handle'[g] = handle[g] \/ handle'[g] = 0
  BY <1>4
<1>7. OneOpening'
  BY <1>1, <1>2, <1>3, <1>6 DEF Good, OneOpening
<1> QED
  BY <1>5, <1>7, RequestOnly, Zenon

\* A request at any point may end, and before the open it may go on.
LEMMA StepSees ==
    ASSUME NEW K \in Nat, Good(K), NEW r \in Requests
    PROVE  /\ RequestSees([req[r] EXCEPT !.pc = "idle"])
           /\ [req[r] EXCEPT !.pc = "idle"] \in RequestRecords(K)
           /\ [req[r] EXCEPT !.pc = "idle"].pc # "opening"
           /\ [req[r] EXCEPT !.pc = "status"] \in RequestRecords(K)
           /\ [req[r] EXCEPT !.pc = "status"].pc # "opening"
           /\ req[r].pc \notin {"idle", "ok"} =>
                RequestSees([req[r] EXCEPT !.pc = "status"])
<1>1. req[r] \in RequestRecords(K) /\ RequestSees(req[r])
  BY DEF Good, TypedUpTo, RequestsSee
<1> DEFINE i == [req[r] EXCEPT !.pc = "idle"]
           s == [req[r] EXCEPT !.pc = "status"]
<1>2. i \in RequestRecords(K) /\ i.pc = "idle"
  BY <1>1 DEF RequestRecords
<1>3. /\ s \in RequestRecords(K) /\ s.pc = "status" /\ s.gw = req[r].gw
      /\ s.era = req[r].era /\ s.gate = req[r].gate
  BY <1>1 DEF RequestRecords
<1> HIDE DEF i, s
<1>4. RequestSees(i)
  BY <1>2 DEF RequestSees
<1>5. req[r].pc \notin {"idle", "ok"} => RequestSees(s)
  BY <1>1, <1>3 DEF RequestSees
<1> QED
  BY <1>2, <1>3, <1>4, <1>5 DEF i, s

\* The steps of a request up to its open.
LEMMA RequestReads ==
    ASSUME NEW K \in Nat, Good(K), NEW r \in Requests,
           \/ ReloadAttachment(r) \/ CheckHandoff(r) \/ ReadAttachment(r) \/ ReuseHandle(r)
           \/ \E g \in Gateways, op \in {"write", "reload"} : BeginRequest(r, g, op)
    PROVE  Good(K)'
<1> DEFINE k == req[r]
<1>1. /\ k \in RequestRecords(K) /\ RequestSees(k) /\ att.gen \in 0 .. K
      /\ handle \in [Gateways -> 0 .. K]
  BY DEF Good, TypedUpTo, RequestsSee, Attachments
<1>2. CASE ReloadAttachment(r)
  <2> DEFINE m == [k EXCEPT !.pc = "reclose", !.gen = att.gen]
  <2>1. k.pc = "reload" /\ UNCHANGED <<etcd, known, call, sbs, work>>
    BY <1>2 DEF ReloadAttachment
  <2>2. \/ req' = [req EXCEPT ![r] = [req[r] EXCEPT !.pc = "idle"]]
        \/ req' = [req EXCEPT ![r] = [req[r] EXCEPT !.pc = "status"]]
        \/ req' = [req EXCEPT ![r] = m]
    BY <1>2, Zenon DEF ReloadAttachment, Step
  <2>3. m \in RequestRecords(K) /\ RequestSees(m) /\ m.pc # "opening"
    BY <1>1, <2>1, Zenon DEF RequestRecords, RequestSees
  <2> HIDE DEF m
  <2> QED
    BY <2>1, <2>2, <2>3, StepSees, RequestQuiet, Parts, Zenon DEF sbs
<1>3. CASE CheckHandoff(r)
  <2> DEFINE m == [k EXCEPT !.pc = "attachment"]
  <2>1. k.pc = "status" /\ UNCHANGED <<etcd, known, call, sbs, work>>
    BY <1>3 DEF CheckHandoff
  <2>2. \/ req' = [req EXCEPT ![r] = [req[r] EXCEPT !.pc = "idle"]]
        \/ gatewayAllowedDuringHandoff(status, k.gw) /\ req' = [req EXCEPT ![r] = m]
    BY <1>3, Zenon DEF CheckHandoff, Step
  <2>3. m \in RequestRecords(K) /\ m.pc # "opening"
    BY <1>1 DEF RequestRecords
  <2>4. gatewayAllowedDuringHandoff(status, k.gw) => RequestSees(m)
    BY <1>1, <2>1 DEF RequestRecords, RequestSees
  <2> HIDE DEF m
  <2> QED
    BY <2>1, <2>2, <2>3, <2>4, StepSees, RequestQuiet, Parts, Zenon DEF sbs
<1>4. CASE ReadAttachment(r)
  <2> DEFINE m == [k EXCEPT !.pc = "open", !.gen = att.gen]
  <2>1. k.pc = "attachment" /\ UNCHANGED <<etcd, known, call, sbs, work>>
    BY <1>4 DEF ReadAttachment
  <2>2. \/ req' = [req EXCEPT ![r] = [req[r] EXCEPT !.pc = "idle"]]
        \/ att.gen # 0 /\ req' = [req EXCEPT ![r] = m]
    BY <1>4, Zenon DEF ReadAttachment, Step, Attached
  <2>3. m \in RequestRecords(K) /\ m.pc # "opening"
    BY <1>1, Zenon DEF RequestRecords
  <2>4. att.gen # 0 => RequestSees(m)
    BY <1>1, <2>1 DEF RequestRecords, RequestSees
  <2> HIDE DEF m
  <2> QED
    BY <2>1, <2>2, <2>3, <2>4, StepSees, RequestQuiet, Parts, Zenon DEF sbs
<1>5. CASE ReuseHandle(r)
  <2> DEFINE m == [k EXCEPT !.pc = "io", !.gen = handle[k.gw]]
  <2>1. /\ k.pc = "open" /\ handle[k.gw] = k.gen /\ req' = [req EXCEPT ![r] = m]
        /\ UNCHANGED <<etcd, known, call, sbs, work>>
    BY <1>5, Zenon DEF ReuseHandle, Reusable
  <2>2. m \in RequestRecords(K) /\ RequestSees(m) /\ m.pc # "opening"
    BY <1>1, <2>1, Zenon DEF RequestRecords, RequestSees
  <2> HIDE DEF m
  <2> QED
    BY <2>1, <2>2, RequestQuiet, Parts, Zenon DEF sbs
<1>6. ASSUME NEW g \in Gateways, NEW op \in {"write", "reload"}, BeginRequest(r, g, op)
      PROVE  Good(K)'
  <2> DEFINE m == [NoRequest EXCEPT !.gw = g, !.op = op, !.era = {att.gen},
                       !.gate = gatewayAllowedDuringHandoff(status, g),
                       !.pc = IF op = "reload" THEN "reload" ELSE "status"]
  <2>1. /\ req' = [req EXCEPT ![r] = m] /\ UNCHANGED <<etcd, known, call, sbs>> /\ Begins
    BY <1>6, Zenon DEF BeginRequest
  <2>2. NoRequest \in RequestRecords(K) /\ gatewayAllowedDuringHandoff(status, g) \in BOOLEAN
    BY Values, AllowedType
  <2>3. {att.gen} \in SUBSET Int
    BY <1>1
  <2>4. m \in RequestRecords(K)
    BY <2>2, <2>3, Zenon DEF RequestRecords, MaybeGateway
  <2>5. /\ m.pc \in {"reload", "status"} /\ m.gw = g /\ m.era = {att.gen}
        /\ m.gate = gatewayAllowedDuringHandoff(status, g)
    BY <2>2 DEF RequestRecords
  <2> HIDE DEF m
  <2>6. RequestSees(m) /\ m.pc # "opening"
    BY <2>5 DEF RequestSees
  <2> QED
    BY <2>1, <2>4, <2>6, RequestQuiet, Parts, BeginsType, Zenon DEF sbs
<1> QED
  BY <1>2, <1>3, <1>4, <1>5, <1>6

\* The steps of a request that use the SBS node and leave no handle in place.
LEMMA RequestUses ==
    ASSUME NEW K \in Nat, Good(K), NEW r \in Requests, ReloadClose(r) \/ SubmitIO(r)
    PROVE  Good(K)'
<1> DEFINE k == req[r]
<1>1. /\ k \in RequestRecords(K) /\ RequestSees(k)
      /\ handle \in [Gateways -> 0 .. K] /\ session \in 0 .. K /\ work \in 0 .. MaxWork
  BY DEF Good, TypedUpTo, RequestsSee
<1>2. k.gw \in Gateways /\ k.pc \notin {"idle", "ok"}
  BY <1>1 DEF RequestSees, ReloadClose, SubmitIO
<1>3. CASE ReloadClose(r)
  <2>1. PICK outcome \in Outcomes :
          /\ CloseHandle(k.gw, k.gen, outcome)
          /\ \/ req' = [req EXCEPT ![r] = [req[r] EXCEPT !.pc = "idle"]]
             \/ req' = [req EXCEPT ![r] = [req[r] EXCEPT !.pc = "status"]]
    BY <1>3, Zenon DEF ReloadClose, Step
  <2>2. UNCHANGED <<etcd, known, call>>
    BY <1>3 DEF ReloadClose
  <2>3. /\ session' \in 0 .. K /\ work' \in 0 .. MaxWork
        /\ handle' = handle \/ handle' = [handle EXCEPT ![k.gw] = 0]
    BY <1>2, <2>1, CloseTypes
  <2> QED
    BY <1>2, <2>1, <2>2, <2>3, StepSees, RequestQuiet, Zenon
<1>4. CASE SubmitIO(r)
  <2> DEFINE a == [k EXCEPT !.pc = "ok"]
             b == [k EXCEPT !.pc = "status", !.tries = 1]
  <2>1. k.pc = "io" /\ UNCHANGED <<etcd, known, call, session>>
    BY <1>4 DEF SubmitIO
  <2>2. \/ req' = [req EXCEPT ![r] = [req[r] EXCEPT !.pc = "idle"]] /\ UNCHANGED <<handle, work>>
        \/ req' = [req EXCEPT ![r] = a] /\ UNCHANGED <<handle, work>>
        \/ /\ req' = [req EXCEPT ![r] = b] /\ handle' = [handle EXCEPT ![k.gw] = 0]
           /\ Begins \/ UNCHANGED work
    BY <1>4, Zenon DEF SubmitIO, Step
  <2>3. /\ a \in RequestRecords(K) /\ a.pc = "ok" /\ a.gen = k.gen /\ a.era = k.era
        /\ a.gate = k.gate
        /\ b \in RequestRecords(K) /\ b.pc = "status" /\ b.gw = k.gw /\ b.era = k.era
        /\ b.gate = k.gate
    BY <1>1, Zenon DEF RequestRecords
  <2> HIDE DEF a, b
  <2>4. RequestSees(a) /\ RequestSees(b)
    BY <1>1, <2>1, <2>3 DEF RequestSees
  <2> QED
    BY <1>1, <1>2, <2>1, <2>2, <2>3, <2>4, StepSees, RequestQuiet, BeginsType, Zenon
<1> QED
  BY <1>3, <1>4

\* The mutex is taken for an open: no other request at the gateway is opening.
LEMMA CloseStaleGood ==
    ASSUME NEW K \in Nat, Good(K), NEW r \in Requests, CloseStale(r)
    PROVE  Good(K)'
<1> DEFINE k == req[r]
           m == [k EXCEPT !.pc = "opening"]
<1>1. /\ k \in RequestRecords(K) /\ RequestSees(k) /\ handle \in [Gateways -> 0 .. K]
  BY DEF Good, TypedUpTo, RequestsSee
<1>2. /\ k.pc = "open" /\ Unlocked(k.gw) /\ handle[k.gw] # k.gen
      /\ \E outcome \in Outcomes : CloseHandle(k.gw, handle[k.gw], outcome)
      /\ req' = [req EXCEPT ![r] = m] /\ UNCHANGED <<etcd, known, call>>
  BY DEF CloseStale, Reusable, Step
<1>3. k.gw \in Gateways /\ k.gen # 0
  BY <1>1, <1>2 DEF RequestSees
<1>4. /\ session' \in 0 .. K /\ work' \in 0 .. MaxWork
      /\ handle' = handle \/ handle' = [handle EXCEPT ![k.gw] = 0]
  BY <1>2, <1>3, CloseTypes
<1>5. /\ m \in RequestRecords(K) /\ m.pc = "opening" /\ m.gen = k.gen /\ m.gw = k.gw
      /\ m.era = k.era /\ m.gate = k.gate
  BY <1>1 DEF RequestRecords
<1> HIDE DEF m
<1>6. RequestSees(m)
  BY <1>1, <1>2, <1>5 DEF RequestSees
<1>7. /\ req'[r] = m /\ \A q \in Requests : q # r => req'[q] = req[q]
  BY <1>2, <1>5, RequestUpdate, Zenon DEF Good
<1>8. 0 \in 0 .. K
  OBVIOUS
<1>9. handle' \in [Gateways -> 0 .. K]
  BY <1>1, <1>4, <1>8
<1>10. \A g \in Gateways : handle'[g] = handle[g] \/ handle'[g] = 0
  BY <1>1, <1>4
<1>11. \A q \in Requests : req[q].pc = "opening" =>
         req[q].gen # 0 /\ req[q].gw \in Gateways /\ req[q].gw # k.gw
  BY <1>2 DEF Good, RequestsSee, RequestSees, Unlocked
<1>12. OneOpening'
  <2>1. ASSUME NEW q \in Requests, NEW s \in Requests, req'[q].pc = "opening",
               req'[s].pc = "opening", req'[q].gw = req'[s].gw
        PROVE  q = s
    BY <1>5, <1>7, <1>11, <2>1 DEF Good, OneOpening
  <2>2. ASSUME NEW q \in Requests, req'[q].pc = "opening"
        PROVE  handle'[req'[q].gw] # req'[q].gen
    <3>1. CASE q = r
      BY <1>2, <1>3, <1>5, <1>7, <1>10, <3>1
    <3>2. CASE q # r
      BY <1>7, <1>10, <1>11, <2>2, <3>2 DEF Good, OneOpening
    <3> QED
      BY <3>1, <3>2
  <2> QED
    BY <2>1, <2>2 DEF OneOpening
<1> QED
  BY <1>2, <1>4, <1>5, <1>6, <1>9, <1>12, RequestOnly, Zenon

\* The answer of OpenVolume puts the handle in place where no other request is
\* opening.
LEMMA OpenVolumeGood ==
    ASSUME NEW K \in Nat, Good(K), NEW r \in Requests, OpenVolume(r)
    PROVE  Good(K)'
<1> DEFINE k == req[r]
           m == [k EXCEPT !.pc = "io"]
<1>1. /\ k \in RequestRecords(K) /\ RequestSees(k) /\ handle \in [Gateways -> 0 .. K]
      /\ session \in 0 .. K /\ work \in 0 .. MaxWork
  BY DEF Good, TypedUpTo, RequestsSee
<1>2. /\ k.pc = "opening" \/ (k.pc = "open" /\ Unlocked(k.gw))
      /\ UNCHANGED <<etcd, known, call>>
  BY DEF OpenVolume
<1>3. k.gw \in Gateways /\ k.gen # 0 /\ k.gen \in 0 .. K
  BY <1>1, <1>2 DEF RequestSees, RequestRecords
<1>4. \/ /\ session' = k.gen /\ handle' = [handle EXCEPT ![k.gw] = k.gen]
         /\ req' = [req EXCEPT ![r] = m] /\ UNCHANGED work
      \/ /\ req' = [req EXCEPT ![r] = [req[r] EXCEPT !.pc = "idle"]] /\ UNCHANGED <<sbs, work>>
      \/ /\ Begins /\ session' \in {session, k.gen} /\ handle' = [handle EXCEPT ![k.gw] = 0]
         /\ req' = [req EXCEPT ![r] = [req[r] EXCEPT !.pc = "idle"]]
  BY DEF OpenVolume, Step
<1>5. CASE /\ session' = k.gen /\ handle' = [handle EXCEPT ![k.gw] = k.gen]
           /\ req' = [req EXCEPT ![r] = m] /\ UNCHANGED work
  <2>1. /\ m \in RequestRecords(K) /\ m.pc = "io" /\ m.gen = k.gen /\ m.gw = k.gw
        /\ m.era = k.era /\ m.gate = k.gate
    BY <1>1 DEF RequestRecords
  <2> HIDE DEF m
  <2>2. RequestSees(m)
    BY <1>1, <1>2, <2>1 DEF RequestSees
  <2>3. /\ req'[r] = m /\ \A q \in Requests : q # r => req'[q] = req[q]
    BY <1>5, <2>1, RequestUpdate, Zenon DEF Good
  <2>4. handle' \in [Gateways -> 0 .. K] /\ \A g \in Gateways : g # k.gw => handle'[g] = handle[g]
    BY <1>1, <1>3, <1>5
  <2>5. \A q \in Requests : q # r /\ req[q].pc = "opening" =>
          req[q].gw \in Gateways /\ req[q].gw # k.gw
    BY <1>2 DEF Good, RequestsSee, RequestSees, OneOpening, Unlocked
  <2>6. OneOpening'
    BY <2>1, <2>3, <2>4, <2>5 DEF Good, OneOpening
  <2> QED
    BY <1>1, <1>2, <1>3, <1>5, <2>1, <2>2, <2>4, <2>6, RequestOnly, Zenon
<1>6. CASE /\ req' = [req EXCEPT ![r] = [req[r] EXCEPT !.pc = "idle"]] /\ UNCHANGED <<sbs, work>>
  BY <1>1, <1>2, <1>6, StepSees, RequestQuiet, Zenon DEF sbs
<1>7. CASE /\ Begins /\ session' \in {session, k.gen} /\ handle' = [handle EXCEPT ![k.gw] = 0]
           /\ req' = [req EXCEPT ![r] = [req[r] EXCEPT !.pc = "idle"]]
  BY <1>1, <1>2, <1>3, <1>7, StepSees, RequestQuiet, BeginsType, Zenon
<1> QED
  BY <1>4, <1>5, <1>6, <1>7

\* A restart of a gateway or of the SBS node forgets, and nothing more.
LEMMA RestartGood ==
    ASSUME NEW K \in Nat, Good(K),
           RestartNode \/ \E g \in Gateways : RestartGateway(g)
    PROVE  Good(K)'
<1>1. 0 \in 0 .. K /\ work \in 0 .. MaxWork /\ Begins
  BY Parts DEF RestartNode, RestartGateway
<1>2. work' \in 0 .. MaxWork
  BY <1>1, BeginsType
<1>3. CASE RestartNode
  BY <1>1, <1>2, <1>3, Zenon DEF RestartNode, Good, TypedUpTo, CallsHold, Attached, RequestsSee,
                          RequestSees, OneOpening, etcd
<1>4. ASSUME NEW g \in Gateways, RestartGateway(g) PROVE Good(K)'
  <2>1. /\ handle' = [handle EXCEPT ![g] = 0]
        /\ req' = [r \in Requests |-> IF req[r].gw = g THEN NoRequest ELSE req[r]]
        /\ call' = [c \in Calls |-> IF call[c].gw = g THEN NoCall ELSE call[c]]
        /\ UNCHANGED <<etcd, known, session>>
    BY <1>4, Zenon DEF RestartGateway
  <2>2. NoCall \in CallRecords(K) /\ CallHolds(NoCall) /\ NoRequest \in RequestRecords(K)
    BY Values, Parts
  <2>3. NoRequest.pc = "idle"
    BY DEF NoRequest
  <2>4. TypedUpTo(K)'
    BY <1>1, <1>2, <2>1, <2>2 DEF Good, TypedUpTo, etcd
  <2>5. CallsHold'
    BY <2>1, <2>2 DEF Good, CallsHold, Attached, etcd
  <2>6. RequestsSee'
    BY <2>1, <2>3 DEF Good, RequestsSee, RequestSees, etcd
  <2>7. \A r \in Requests : req'[r].pc = "opening" =>
          req'[r] = req[r] /\ handle'[req[r].gw] = handle[req[r].gw]
    BY <2>1, <2>3 DEF Good, TypedUpTo
  <2>8. OneOpening'
    BY <2>7 DEF Good, OneOpening
  <2> QED
    BY <2>4, <2>5, <2>6, <2>8 DEF Good
<1> QED
  BY <1>3, <1>4

-----------------------------------------------------------------------------
(* Generations given out.                                                  *)

\* The calls that may still give out a generation are fewer, or there is one more
\* and one more piece of work.
LEMMA QuietUnspent ==
    ASSUME NEW K \in Nat, Good(K), NEW c \in Calls,
           \/ \E g \in Gateways, h \in Hosts : Attach(c, g, h) \/ Detach(c, g, h)
           \/ AttachRead(c) \/ AttachCommit(c)
           \/ AttachAcknowledge(c) \/ AttachPutStatus(c) \/ AttachReply(c)
           \/ RefreshStatus(c) \/ PutVolumeStatus(c)
           \/ DetachLook(c) \/ DetachEvict(c) \/ DetachClose(c) \/ DetachRead(c)
    PROVE  \/ Unspent' \subseteq Unspent /\ (work' = work \/ work' = work + 1)
           \/ /\ Unspent' = Unspent \cup {c} /\ c \notin Unspent /\ work' = work + 1
<1>1. call \in [Calls -> CallRecords(K)] /\ work \in 0 .. MaxWork
  BY DEF Good, TypedUpTo
<1>2. ASSUME NEW m, call' = [call EXCEPT ![c] = m],
             m.pc \in Spendable => call[c].pc \in Spendable
      PROVE  Unspent' \subseteq Unspent
  BY <1>1, <1>2 DEF Unspent
<1>3. ASSUME NEW pc, call' = [call EXCEPT ![c].pc = pc],
             pc \in Spendable => call[c].pc \in Spendable
      PROVE  Unspent' \subseteq Unspent
  <2> DEFINE m == [call[c] EXCEPT !.pc = pc]
  <2>1. call' = [call EXCEPT ![c] = m]
    BY <1>3
  <2>2. m.pc = pc
    BY <1>1 DEF CallRecords
  <2> HIDE DEF m
  <2> QED
    BY <1>2, <1>3, <2>1, <2>2, Zenon
<1>4. Returns(c) => Unspent' \subseteq Unspent
  BY <1>2, Zenon DEF Returns, NoCall, Spendable
<1>5. ASSUME NEW g \in Gateways, NEW h \in Hosts, Attach(c, g, h) \/ Detach(c, g, h)
      PROVE  Unspent' = Unspent \cup {c} /\ c \notin Unspent /\ work' = work + 1
  <2>1. call[c].pc = "idle" /\ Begins
    BY <1>5, Zenon DEF Attach, Detach
  <2>2. /\ \A d \in Calls : d # c => call'[d] = call[d]
        /\ call'[c].pc \in {"read", "close", "closelocal"}
    BY <1>1, <1>5, Zenon DEF Attach, Detach, NoCall
  <2> QED
    BY <1>1, <2>1, <2>2, BeginsType DEF Unspent, Spendable
<1>6. CASE AttachRead(c)
  <2> DEFINE m == [call[c] EXCEPT !.pc = "existing", !.base = status, !.gen = nextGen]
  <2>1. call' = [call EXCEPT ![c] = m] /\ call[c].pc \in Spendable
    BY <1>6, Zenon DEF AttachRead, Spendable
  <2> HIDE DEF m
  <2> QED
    BY <1>2, <1>6, <2>1, Zenon DEF AttachRead
<1>7. CASE AttachCommit(c) \/ AttachPutStatus(c) \/ PutVolumeStatus(c)
  BY <1>3, <1>4, <1>7
     DEF AttachCommit, AttachPutStatus, PutVolumeStatus, Goes, Attaches, Spendable
<1>8. CASE AttachAcknowledge(c)
  <2>1. PICK due \in BOOLEAN :
          call' = [call EXCEPT ![c].pc = "ackput",
                               ![c].base = Acknowledged(status, call[c].gw, due)]
    BY <1>8, Zenon DEF AttachAcknowledge
  <2> DEFINE m == [call[c] EXCEPT !.pc = "ackput", !.base = Acknowledged(status, call[c].gw, due)]
  <2>2. call' = [call EXCEPT ![c] = m] /\ m.pc = "ackput"
    BY <1>1, <2>1, Zenon DEF CallRecords
  <2> HIDE DEF m
  <2> QED
    BY <1>2, <1>8, <2>2, Zenon DEF AttachAcknowledge, Spendable
<1>9. CASE AttachReply(c)
  <2>1. PICK s :
          \/ Returns(c)
          \/ call' = [call EXCEPT ![c].pc = "put", ![c].gen = att.gen, ![c].base = s]
    BY <1>9 DEF AttachReply
  <2> DEFINE m == [call[c] EXCEPT !.pc = "put", !.gen = att.gen, !.base = s]
  <2>2. m.pc = "put"
    BY <1>1 DEF CallRecords
  <2>3. Returns(c) \/ call' = [call EXCEPT ![c] = m]
    BY <2>1, Zenon
  <2> HIDE DEF m
  <2> QED
    BY <1>2, <1>4, <1>9, <2>2, <2>3 DEF AttachReply, Spendable
<1>10. CASE RefreshStatus(c)
  <2>1. PICK s : Puts(c, s)
    BY <1>10, Zenon DEF RefreshStatus
  <2> DEFINE m == [NoCall EXCEPT !.pc = "put", !.base = s]
  <2>2. call' = [call EXCEPT ![c] = m] /\ m.pc = "put"
    BY <2>1 DEF Puts, NoCall
  <2>3. work' = work + 1
    BY <1>1, <1>10, BeginsType DEF RefreshStatus
  <2> HIDE DEF m
  <2> QED
    BY <1>2, <2>2, <2>3, Zenon DEF Spendable
<1>11. CASE DetachLook(c) \/ DetachEvict(c)
  BY <1>3, <1>11 DEF DetachLook, DetachEvict, Goes, Spendable
<1>12. CASE DetachClose(c)
  <2>1. PICK outcome \in Outcomes :
          /\ CloseHandle(call[c].gw, call[c].gen, outcome)
          /\ Returns(c) \/ Goes(c, "detach")
    BY <1>12, Zenon DEF DetachClose
  <2>2. work' = work \/ work' = work + 1
    BY <1>1, <2>1, BeginsType DEF CloseHandle
  <2>3. call[c].pc \in Spendable
    BY <1>12, Zenon DEF DetachClose, Spendable
  <2> QED
    BY <1>3, <1>4, <2>1, <2>2, <2>3 DEF Goes
<1>13. CASE DetachRead(c)
  <2> DEFINE m == [call[c] EXCEPT !.pc = "remove", !.rec = att, !.base = status]
  <2>1. Returns(c) \/ call' = [call EXCEPT ![c] = m]
    BY <1>13, Zenon DEF DetachRead
  <2>2. call[c].pc \in Spendable
    BY <1>13 DEF DetachRead, Spendable
  <2> HIDE DEF m
  <2> QED
    BY <1>2, <1>4, <1>13, <2>1, <2>2 DEF DetachRead
<1> QED
  BY <1>5, <1>6, <1>7, <1>8, <1>9, <1>10, <1>11, <1>12, <1>13

\* The room in a good state is a number, and there is a generation in it.
LEMMA RoomType ==
    ASSUME IInv
    PROVE  Room \in Nat /\ Cardinality(Unspent) \in Nat /\ work \in Nat
<1>1. Cardinality(Unspent) \in Nat
  BY FS_CardinalityType DEF IInv
<1>2. work \in Nat /\ nextGen \in 1 .. Room
  BY AttachmentAssumption DEF IInv, Good, TypedUpTo
<1>3. Room \in Int
  BY <1>1, <1>2 DEF Room
<1> QED
  BY <1>1, <1>2, <1>3

\* Fewer unspent calls leave at least as much room.
LEMMA RoomKept ==
    ASSUME IInv, work' = work \/ work' = work + 1, Unspent' \subseteq Unspent
    PROVE  IsFiniteSet(Unspent)' /\ Room' \in Nat /\ Room <= Room'
<1>1. IsFiniteSet(Unspent') /\ Cardinality(Unspent') <= Cardinality(Unspent)
  BY FS_Subset DEF IInv
<1>2. Cardinality(Unspent') \in Nat
  BY <1>1, FS_CardinalityType
<1>3. Room \in Nat /\ Cardinality(Unspent) \in Nat /\ work \in Nat
  BY RoomType
<1>4. Room = work + 1 - Cardinality(Unspent) /\ Room' = work' + 1 - Cardinality(Unspent')
  BY DEF Room
<1> QED
  BY <1>1, <1>2, <1>3, <1>4

\* A call begins: the room stays.
LEMMA RoomBegun ==
    ASSUME IInv, NEW c \in Calls, Unspent' = Unspent \cup {c}, c \notin Unspent,
           work' = work + 1
    PROVE  IsFiniteSet(Unspent)' /\ Room' = Room
<1>1. IsFiniteSet(Unspent') /\ Cardinality(Unspent') = Cardinality(Unspent) + 1
  BY FS_AddElement DEF IInv
<1>2. Room \in Nat /\ Cardinality(Unspent) \in Nat /\ work \in Nat
  BY RoomType
<1>3. Room = work + 1 - Cardinality(Unspent) /\ Room' = work' + 1 - Cardinality(Unspent')
  BY DEF Room
<1> QED
  BY <1>1, <1>2, <1>3

\* A call that gives out a generation makes the room for it.
LEMMA RoomSpent ==
    ASSUME IInv, NEW c \in Calls, AttachExisting(c) \/ DetachCommit(c)
    PROVE  IsFiniteSet(Unspent)' /\ Room' = Room + 1
<1>1. call \in [Calls -> CallRecords(Room)] /\ call[c].pc \in Spendable /\ work' = work
  BY DEF IInv, Good, TypedUpTo, AttachExisting, DetachCommit, Spendable
<1>2. /\ \A d \in Calls : d # c => call'[d] = call[d]
      /\ call'[c].pc \notin Spendable
  <2>1. call[c] \in CallRecords(Room)
    BY <1>1
  <2> DEFINE Record(gen) == [gen |-> gen, host |-> call[c].host, owner |-> call[c].gw]
             m(pc, gen) == [call[c] EXCEPT !.pc = pc, !.rec = Record(gen)]
             n == [call[c] EXCEPT !.pc = Attaches(c)]
  <2>2. \/ call' = [call EXCEPT ![c] = m("create", call[c].gen)]
        \/ call' = [call EXCEPT ![c] = n]
        \/ call' = [call EXCEPT ![c] = m("takeover", att.gen + 1)]
        \/ call' = [call EXCEPT ![c] = NoCall]
    BY Zenon DEF AttachExisting, DetachCommit, Goes, Returns
  <2>3. /\ m("create", call[c].gen).pc = "create"
        /\ m("takeover", att.gen + 1).pc = "takeover"
        /\ n.pc \in {"ack", "reply"} /\ NoCall.pc = "idle"
    BY <2>1 DEF CallRecords, Attaches, NoCall
  <2> HIDE DEF Record, m, n
  <2> QED
    BY <1>1, <2>2, <2>3 DEF Spendable
<1>3. Unspent' = Unspent \ {c} /\ c \in Unspent
  BY <1>1, <1>2 DEF Unspent
<1>4. IsFiniteSet(Unspent') /\ Cardinality(Unspent') = Cardinality(Unspent) - 1
  BY <1>3, FS_RemoveElement DEF IInv
<1>5. Room \in Nat /\ Cardinality(Unspent) \in Nat /\ work \in Nat
  BY RoomType
<1>6. Room = work + 1 - Cardinality(Unspent) /\ Room' = work' + 1 - Cardinality(Unspent')
  BY DEF Room
<1> QED
  BY <1>1, <1>4, <1>5, <1>6

\* Steps of requests and restarts do not add an unspent call.
LEMMA RequestUnspent ==
    ASSUME NEW K \in Nat, Good(K),
           \/ \E r \in Requests, g \in Gateways, op \in {"write", "reload"} :
                BeginRequest(r, g, op)
           \/ \E r \in Requests :
                 \/ ReloadAttachment(r) \/ ReloadClose(r)
                 \/ CheckHandoff(r) \/ ReadAttachment(r)
                 \/ ReuseHandle(r) \/ CloseStale(r) \/ OpenVolume(r) \/ SubmitIO(r)
           \/ \E g \in Gateways : RestartGateway(g)
           \/ RestartNode
    PROVE  Unspent' \subseteq Unspent /\ (work' = work \/ work' = work + 1)
<1>1. work \in 0 .. MaxWork
  BY Parts
<1>2. work' = work \/ work' = work + 1
  BY <1>1, BeginsType, Zenon
     DEF BeginRequest, ReloadAttachment, ReloadClose, CheckHandoff, ReadAttachment,
         ReuseHandle, CloseStale, OpenVolume, SubmitIO, RestartGateway, RestartNode,
         CloseHandle
<1>3. \/ call' = call
      \/ \E g \in Gateways :
           call' = [c \in Calls |-> IF call[c].gw = g THEN NoCall ELSE call[c]]
  BY Zenon DEF BeginRequest, ReloadAttachment, ReloadClose, CheckHandoff, ReadAttachment,
         ReuseHandle, CloseStale, OpenVolume, SubmitIO, RestartGateway, RestartNode
<1>4. Unspent' \subseteq Unspent
  BY <1>3 DEF Unspent, Spendable, NoCall
<1> QED
  BY <1>2, <1>4

-----------------------------------------------------------------------------
(* The invariant.                                                          *)

\* The initial states: detached, or attached with a handoff at any stage.
LEMMA InitIInv ==
    ASSUME Init
    PROVE  IInv
<1>1. call = [c \in Calls |-> NoCall] /\ req = [r \in Requests |-> NoRequest] /\ work = 0
  BY DEF Init
<1>2. Unspent = {}
  BY <1>1 DEF Unspent, NoCall, Spendable
<1>3. IsFiniteSet(Unspent) /\ Room = 1
  BY <1>1, <1>2, FS_EmptySet DEF Room
<1>4. 0 \in 0 .. 1 /\ 1 \in 0 .. 1 /\ 1 \in 1 .. 1 /\ 1 \in Nat /\ 0 \in 0 .. MaxWork
  BY AttachmentAssumption
<1>5. /\ NoAttachment \in Attachments(1) /\ NoStatus \in Statuses(1)
      /\ NoCall \in CallRecords(1) /\ NoRequest \in RequestRecords(1)
  BY <1>4, Values
<1>6. /\ att \in Attachments(1) /\ status \in Statuses(1) /\ known \in [Hosts -> 0 .. 1]
      /\ handle \in [Gateways -> 0 .. 1] /\ session \in 0 .. 1
      /\ Attached => att.host \in Hosts /\ att.owner \in Gateways
  <2>1. CASE /\ att = NoAttachment
             /\ status = NoStatus
             /\ known = [h \in Hosts |-> 0]
             /\ handle = [g \in Gateways |-> 0]
             /\ session = 0
    BY <1>4, <1>5, <2>1 DEF Attached, NoAttachment
  <2>2. ASSUME NEW h \in Hosts, NEW g \in Gateways,
               \E D \in (SUBSET Gateways) \ {{}}, required \in BOOLEAN, acked \in {0, 1},
                  ready \in BOOLEAN :
                 /\ IF g \in D THEN acked = 1 => required ELSE required /\ acked = 0
                 /\ att = [gen |-> 1, host |-> h, owner |-> g]
                 /\ status = updateHandoffCompletionEligibility(
                       [current |-> g, gen |-> 1, required |-> required, desired |-> D,
                        acked |-> acked, ready |-> ready, eligible |-> FALSE])
                 /\ known = [k \in Hosts |-> IF k = h THEN 1 ELSE 0]
                 /\ handle = [k \in Gateways |-> IF k = g THEN 1 ELSE 0]
                 /\ session = 1
        PROVE  /\ att \in Attachments(1) /\ status \in Statuses(1) /\ known \in [Hosts -> 0 .. 1]
               /\ handle \in [Gateways -> 0 .. 1] /\ session \in 0 .. 1
               /\ Attached => att.host \in Hosts /\ att.owner \in Gateways
    <3>1. PICK D \in (SUBSET Gateways) \ {{}}, required \in BOOLEAN, acked \in {0, 1},
               ready \in BOOLEAN :
            /\ att = [gen |-> 1, host |-> h, owner |-> g]
            /\ status = updateHandoffCompletionEligibility(
                  [current |-> g, gen |-> 1, required |-> required, desired |-> D,
                   acked |-> acked, ready |-> ready, eligible |-> FALSE])
            /\ known = [k \in Hosts |-> IF k = h THEN 1 ELSE 0]
            /\ handle = [k \in Gateways |-> IF k = g THEN 1 ELSE 0]
            /\ session = 1
      BY <2>2, Zenon
    <3>2. att \in Attachments(1) /\ att.host \in Hosts /\ att.owner \in Gateways
      BY <1>4, <3>1 DEF Attachments, MaybeHost, MaybeGateway
    <3> DEFINE s == [current |-> g, gen |-> 1, required |-> required, desired |-> D,
                     acked |-> acked, ready |-> ready, eligible |-> FALSE]
    <3>3. s \in Statuses(1)
      BY <1>4 DEF Statuses, MaybeGateway
    <3>4. status = updateHandoffCompletionEligibility(s)
      BY <3>1
    <3> HIDE DEF s
    <3>5. status \in Statuses(1)
      BY <3>3, <3>4, Zenon DEF updateHandoffCompletionEligibility, Statuses
    <3> QED
      BY <1>4, <3>1, <3>2, <3>5
  <2> QED
    BY <2>1, <2>2, Zenon DEF Init
<1>7. TypedUpTo(1)
  BY <1>1, <1>4, <1>5, <1>6 DEF TypedUpTo, Init
<1>8. CallsHold
  BY <1>1, <1>6, Zenon DEF CallsHold, CallHolds, NoCall
<1>9. RequestsSee /\ OneOpening
  BY <1>1 DEF RequestsSee, RequestSees, OneOpening, NoRequest
<1> QED
  BY <1>3, <1>7, <1>8, <1>9 DEF IInv, Good

\* The room grows with the generations given out.
LEMMA GoodGrows ==
    ASSUME NEW K \in Nat, Good(K)', Room' \in Nat, K <= Room'
    PROVE  Good(Room)'
<1>1. PICK L \in Nat : L = Room'
  OBVIOUS
<1>2. K <= L
  BY <1>1
<1>3. /\ 0 .. K \subseteq 0 .. L /\ Attachments(K) \subseteq Attachments(L)
      /\ Statuses(K) \subseteq Statuses(L) /\ CallRecords(K) \subseteq CallRecords(L)
      /\ RequestRecords(K) \subseteq RequestRecords(L)
  BY <1>2, Grows
<1>4. 1 .. K \subseteq 1 .. L
  BY <1>2
<1>5. TypedUpTo(K)'
  BY DEF Good
<1>6. TypedUpTo(L)'
  BY <1>3, <1>4, <1>5 DEF TypedUpTo
<1>7. TypedUpTo(Room)'
  BY <1>1, <1>6 DEF TypedUpTo
<1> QED
  BY <1>7 DEF Good

\* Every step keeps the invariant.
LEMMA NextIInv ==
    ASSUME IInv, [Next]_vars
    PROVE  IInv'
<1>0. Room \in Nat
  BY RoomType
<1>1. PICK K \in Nat : K = Room
  BY <1>0
<1>2. Good(K)
  BY <1>1 DEF IInv
<1>3. ASSUME Good(K)', Unspent' \subseteq Unspent, work' = work \/ work' = work + 1
      PROVE  IInv'
  BY <1>1, <1>3, RoomKept, GoodGrows DEF IInv
<1>4. CASE UNCHANGED vars
  BY <1>4, Zenon DEF vars, IInv, Good, Room, Unspent, TypedUpTo, CallsHold, CallHolds, Attached,
              RequestsSee, RequestSees, OneOpening
<1>5. ASSUME NEW c \in Calls,
             \/ \E g \in Gateways, h \in Hosts : Attach(c, g, h) \/ Detach(c, g, h)
             \/ AttachRead(c) \/ AttachCommit(c)
             \/ AttachAcknowledge(c) \/ AttachPutStatus(c) \/ AttachReply(c)
             \/ RefreshStatus(c) \/ PutVolumeStatus(c)
             \/ DetachLook(c) \/ DetachEvict(c) \/ DetachClose(c) \/ DetachRead(c)
      PROVE  IInv'
  <2>1. Good(K)'
    BY <1>2, <1>5, BeginCall, AttachSteps, AttachStores, DetachSteps
  <2>2. \/ Unspent' \subseteq Unspent /\ (work' = work \/ work' = work + 1)
        \/ Unspent' = Unspent \cup {c} /\ c \notin Unspent /\ work' = work + 1
    BY <1>2, <1>5, QuietUnspent
  <2>3. CASE Unspent' = Unspent \cup {c} /\ c \notin Unspent /\ work' = work + 1
    <3>1. IsFiniteSet(Unspent)' /\ Room' = K
      BY <1>1, <2>3, RoomBegun
    <3>2. Good(Room)'
      BY <2>1, <3>1, GoodGrows
    <3> QED
      BY <3>1, <3>2 DEF IInv
  <2> QED
    BY <1>3, <2>1, <2>2, <2>3
<1>6. ASSUME NEW c \in Calls, AttachExisting(c) \/ DetachCommit(c) PROVE IInv'
  <2>1. Good(K + 1)'
    BY <1>2, <1>6, Spends
  <2>2. IsFiniteSet(Unspent)' /\ Room' = K + 1
    BY <1>1, <1>6, RoomSpent
  <2>3. PICK L \in Nat : L = K + 1
    OBVIOUS
  <2>4. Good(L)' /\ L <= Room' /\ Room' \in Nat
    BY <2>1, <2>2, <2>3
  <2>5. Good(Room)'
    BY <2>4, GoodGrows
  <2> QED
    BY <2>2, <2>5 DEF IInv
<1>7. CASE \/ \E r \in Requests, g \in Gateways, op \in {"write", "reload"} :
                 BeginRequest(r, g, op)
           \/ \E r \in Requests :
                 \/ ReloadAttachment(r) \/ ReloadClose(r)
                 \/ CheckHandoff(r) \/ ReadAttachment(r)
                 \/ ReuseHandle(r) \/ CloseStale(r) \/ OpenVolume(r) \/ SubmitIO(r)
           \/ \E g \in Gateways : RestartGateway(g)
           \/ RestartNode
  <2>1. Good(K)'
    BY <1>2, <1>7, RequestReads, RequestUses, CloseStaleGood, OpenVolumeGood, RestartGood
  <2>2. Unspent' \subseteq Unspent /\ (work' = work \/ work' = work + 1)
    BY <1>2, <1>7, RequestUnspent
  <2> QED
    BY <1>3, <2>1, <2>2
<1> QED
  BY <1>4, <1>5, <1>6, <1>7 DEF Next

\* IInv is the inductive invariant.
LEMMA AttachmentIInv == Spec => []IInv
<1>1. Init => IInv
  BY InitIInv
<1>2. IInv /\ [Next]_vars => IInv'
  BY NextIInv
<1> QED
  BY <1>1, <1>2, PTL DEF Spec

\* Attachment, status and handles have their shape whatever reads and writes of
\* etcd interleave, no more generations are given out than calls were made, and an
\* open keeps its gateway's mutex to the answer (Attach, Detach, ensureOpen).
THEOREM AttachmentTypes == Spec => []AttachmentTypeOK
<1>1. IInv => AttachmentTypeOK
  <2> SUFFICES ASSUME IInv PROVE AttachmentTypeOK
    OBVIOUS
  <2>1. Room \in Nat /\ Cardinality(Unspent) \in Nat /\ work \in 0 .. MaxWork
    BY RoomType DEF IInv, Good, TypedUpTo
  <2>2. Room <= MaxWork + 1 /\ MaxWork + 1 \in Nat
    BY <2>1, AttachmentAssumption DEF Room
  <2>3. TypedUpTo(MaxWork + 1)
    BY <2>1, <2>2, Grows DEF IInv, Good
  <2>4. OneOpening /\ CallsHold
    BY DEF IInv, Good
  <2>5. 1 .. MaxWork + 1 = Generations \ {0} /\ 0 .. MaxWork + 1 = Generations
    BY AttachmentAssumption DEF Generations
  <2> QED
    BY <2>3, <2>4, <2>5, Zenon DEF TypedUpTo, OneOpening, CallsHold, AttachmentTypeOK, Attachments,
                            Statuses, MaybeHost, MaybeGateway
<1> QED
  BY <1>1, AttachmentIInv, PTL

\* I/O is accepted only for an attachment and through a fence that a moment of the
\* request saw, in every interleaving of calls, requests and restarts
\* (ensureOpen, SubmitIO).
THEOREM AttachmentAdmitted == Spec => []AcceptedWasAdmitted
<1>1. IInv => AcceptedWasAdmitted
  BY DEF IInv, Good, RequestsSee, RequestSees, AcceptedWasAdmitted
<1> QED
  BY <1>1, AttachmentIInv, PTL

\* Only the detach of the host that holds the attachment removes it, whatever
\* takeovers and detaches overtake it (Detach's comparison).
THEOREM AttachmentDetachTakesOwn == Spec => DetachTakesOwn
<1> DEFINE Own == \E c \in Calls : /\ call[c].pc = "remove" /\ call'[c].pc = "idle"
                                   /\ call[c].host = att.host /\ call[c].gen = att.gen
<1>1. IInv /\ [Next]_vars => [Attached /\ ~Attached' => Own]_vars
  <2> SUFFICES ASSUME IInv, Next, Attached, ~Attached' PROVE Own
    BY DEF vars, Attached
  <2>1. CASE att' = att
    BY <2>1 DEF Attached
  <2>2. ASSUME NEW c \in Calls, AttachCommit(c) PROVE att' = att
    <3>1. call[c].rec.gen # 0
      BY <2>2 DEF IInv, Good, CallsHold, CallHolds, AttachCommit
    <3> QED
      BY <2>2, <3>1, Zenon DEF AttachCommit, Store, etcd, Attached
  <2>3. ASSUME NEW c \in Calls, DetachCommit(c) PROVE att' = att \/ Own
    <3>1. CASE Unmoved(c)
      <4>1. /\ call[c].pc = "remove" /\ att = call[c].rec
            /\ call' = [call EXCEPT ![c] = NoCall]
        BY <2>3, <3>1 DEF DetachCommit, Unmoved, Returns
      <4>2. call[c].rec.gen = call[c].gen /\ call[c].rec.host = call[c].host
        BY <4>1 DEF IInv, Good, CallsHold, CallHolds
      <4>3. call'[c].pc = "idle"
        BY <4>1 DEF IInv, Good, TypedUpTo, NoCall
      <4> QED
        BY <4>1, <4>2, <4>3
    <3>2. CASE ~Unmoved(c)
      BY <2>3, <3>2 DEF DetachCommit, etcd
    <3> QED
      BY <3>1, <3>2
  <2>4. \/ att' = att
        \/ \E c \in Calls : AttachCommit(c) \/ DetachCommit(c)
    BY Zenon DEF Next, Attach, Detach, AttachRead, AttachExisting, AttachAcknowledge,
           AttachPutStatus, AttachReply, RefreshStatus, PutVolumeStatus, DetachLook,
           DetachEvict, DetachClose, DetachRead, BeginRequest, ReloadAttachment,
           ReloadClose, CheckHandoff, ReadAttachment, ReuseHandle, CloseStale, OpenVolume,
           SubmitIO, RestartGateway, RestartNode, Store, etcd
  <2> QED
    BY <2>1, <2>2, <2>3, <2>4
<1> QED
  BY <1>1, AttachmentIInv, PTL DEF Spec, DetachTakesOwn
=============================================================================
