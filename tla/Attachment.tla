----------------------------- MODULE Attachment -----------------------------
(***************************************************************************)
(* Who may write a volume through which gateway.                            *)
(*                                                                          *)
(* A host attaches a volume at one of several gateways.  The attachment,    *)
(* its generation and the volume status are keys in etcd, which every       *)
(* gateway reads one by one and writes in transactions with a comparison of *)
(* their own, or in none.  The path-plan reconciliation can ask for a       *)
(* handoff: until the attachment is acknowledged at a target gateway, other *)
(* gateways are fenced.  A request checks that fence, reads the attachment  *)
(* and sends its I/O with a handle of that attachment; the SBS node admits  *)
(* one attachment at a time, in memory.                                     *)
(*                                                                          *)
(* An attachment id is its generation (FormatAttachmentID), and a host      *)
(* stands for a host and its device.  The reconciliation's scoring of       *)
(* gateways is a free choice of the desired set, whether the runtime        *)
(* applied the path plan is one flag, and time is a free choice of whether  *)
(* the stabilization delay has passed.  The handle reuse cache is off, as   *)
(* by default.  One volume and one SBS node; the lab-only recovery calls    *)
(* (UnsafeClearAttachment, UnsafeSetGeneration) are left out.               *)
(*                                                                          *)
(* Sources: gateway/metadata/etcd.go, gateway/service/{service,handoff,     *)
(* path_plan_status,sbs_data_repository}.go, gateway/httpapi/server.go,     *)
(* cmd/namrbd-gateway/main.go, sbs/local/client.go.                         *)
(***************************************************************************)
EXTENDS Integers, FiniteSets

CONSTANTS Gateways,     \* gateways
          Hosts,        \* hosts, each with one device
          Nobody,       \* no host, no gateway
          Calls,        \* control calls that can be in flight at once
          Requests,     \* I/O requests that can be in flight at once
          MaxWork       \* bound: control calls, I/O requests and faults together

ASSUME AttachmentAssumption ==
    /\ Nobody \notin Gateways \cup Hosts
    /\ Gateways # {} /\ Hosts # {}
    /\ MaxWork \in Nat

VARIABLES
    att,        \* etcd: the attachment record
    nextGen,    \* etcd: the generation key, for the next first attach
    status,     \* etcd: the volume status record
    known,      \* generation of the attachment each host believes it has
    call,       \* attach, detach and status calls in flight
    req,        \* I/O requests in flight
    handle,     \* generation of the SBS handle each gateway keeps, 0 for none
    session,    \* SBS node: generation the volume is open for, 0 for closed
    work        \* control calls, requests and faults so far

vars == <<att, nextGen, status, known, call, req, handle, session, work>>
etcd == <<att, nextGen, status>>
sbs == <<handle, session>>

NoAttachment == [gen |-> 0, host |-> Nobody, owner |-> Nobody]
NoStatus == [current |-> Nobody, gen |-> 0, required |-> FALSE, desired |-> Gateways,
             acked |-> 0, ready |-> FALSE, eligible |-> FALSE]
NoCall == [pc |-> "idle", gw |-> Nobody, host |-> Nobody, gen |-> 0,
           rec |-> NoAttachment, base |-> NoStatus, handoff |-> FALSE]
NoRequest == [pc |-> "idle", gw |-> Nobody, op |-> "write", gen |-> 0, tries |-> 0,
              era |-> {}, gate |-> FALSE]

Attached == att.gen # 0

-----------------------------------------------------------------------------
(* Handoff.  The target gateways of a required handoff are the desired ones. *)

handoffStage(s) ==
    CASE ~s.required -> ""
      [] s.required /\ (s.current \notin s.desired \/ s.gen = 0) -> "pending"
      [] s.required /\ s.current \in s.desired /\ s.gen # 0 ->
            IF s.acked # s.gen THEN "attached"
            ELSE IF s.ready THEN "ready" ELSE "acknowledged"

gatewayAllowedDuringHandoff(s, g) ==
    s.required => IF handoffStage(s) = "pending" THEN g \in s.desired
                                                 ELSE g = s.current

handoffCompletionSatisfied(s, due) ==
    handoffStage(s) = "ready" /\ s.eligible /\ due

updateHandoffCompletionEligibility(s) ==
    [s EXCEPT !.eligible = handoffStage(s) = "ready"]

\* ReconcileVolumePathPlanStatus for the desired set D.  A new desired set is a
\* new path plan, which the runtime has yet to apply.
ReconcileVolumePathPlanStatus(s, D, due) ==
    LET required ==
            /\ ~handoffCompletionSatisfied(s, due)
            /\ s.required \/ (s.current # Nobody /\ D # {} /\ s.current \notin D)
    IN  updateHandoffCompletionEligibility(
            [s EXCEPT !.required = required, !.desired = D,
                      !.ready = @ /\ D = s.desired,
                      !.acked = IF required THEN @ ELSE 0])

\* The end of an attach that was let through by a handoff.
Acknowledged(s, g, due) ==
    LET u == IF s.current = g /\ s.gen > 0 THEN [s EXCEPT !.acked = s.gen] ELSE s
    IN  IF handoffCompletionSatisfied(u, due)
        THEN [u EXCEPT !.required = FALSE, !.acked = 0, !.eligible = FALSE]
        ELSE updateHandoffCompletionEligibility(u)

\* One more call, request or fault.
Begins == work < MaxWork /\ work' = work + 1

\* The volume is detached; or attached and in use at a gateway, with no handoff
\* or one at any stage.
Init ==
    /\ \/ /\ att = NoAttachment
          /\ status = NoStatus
          /\ known = [h \in Hosts |-> 0]
          /\ handle = [g \in Gateways |-> 0]
          /\ session = 0
       \/ \E h \in Hosts, g \in Gateways, D \in (SUBSET Gateways) \ {{}},
             required \in BOOLEAN, acked \in {0, 1}, ready \in BOOLEAN :
          /\ IF g \in D THEN acked = 1 => required ELSE required /\ acked = 0
          /\ att = [gen |-> 1, host |-> h, owner |-> g]
          /\ status = updateHandoffCompletionEligibility(
                [current |-> g, gen |-> 1, required |-> required, desired |-> D,
                 acked |-> acked, ready |-> ready, eligible |-> FALSE])
          /\ known = [k \in Hosts |-> IF k = h THEN 1 ELSE 0]
          /\ handle = [k \in Gateways |-> IF k = g THEN 1 ELSE 0]
          /\ session = 1
    /\ nextGen = 1
    /\ call = [c \in Calls |-> NoCall]
    /\ req = [r \in Requests |-> NoRequest]
    /\ work = 0

-----------------------------------------------------------------------------
(* Steps of a call.                                                        *)

Goes(c, pc) == call' = [call EXCEPT ![c].pc = pc]
Returns(c) == call' = [call EXCEPT ![c] = NoCall]
Learns(h, gen) == known' = [k \in Hosts |-> IF k = h THEN gen ELSE known[k]]

\* A write to etcd.  Requests in flight collect the generations that were
\* attached and whether the fence was open to them, for AcceptedWasAdmitted.
Store(a, n, s) ==
    /\ att' = a /\ nextGen' = n /\ status' = s
    /\ req' = [r \in Requests |->
                  IF req[r].pc \in {"idle", "ok"} THEN req[r]
                  ELSE [req[r] EXCEPT !.era = @ \cup {a.gen},
                            !.gate = @ \/ gatewayAllowedDuringHandoff(s, req[r].gw)]]

\* Attach: AttachContext lets a fenced gateway go no further.
Attach(c, g, h) ==
    /\ call[c].pc = "idle"
    /\ gatewayAllowedDuringHandoff(status, g)
    /\ call' = [call EXCEPT ![c] = [NoCall EXCEPT !.pc = "read", !.gw = g, !.host = h,
                                                  !.handoff = status.required]]
    /\ Begins
    /\ UNCHANGED <<etcd, known, req, sbs>>

AttachRead(c) ==
    /\ call[c].pc = "read"
    /\ call' = [call EXCEPT ![c].pc = "existing", ![c].base = status, ![c].gen = nextGen]
    /\ UNCHANGED <<etcd, known, req, sbs, work>>

Attaches(c) == IF call[c].handoff THEN "ack" ELSE "reply"

\* An existing attachment is returned to its host, moved to this gateway under
\* the next generation, or a conflict for another host.
AttachExisting(c) ==
    LET h == call[c].host
        g == call[c].gw
        Record(gen) == [gen |-> gen, host |-> h, owner |-> g]
    IN  /\ call[c].pc = "existing"
        /\ \/ /\ ~Attached
              /\ call' = [call EXCEPT ![c].pc = "create", ![c].rec = Record(call[c].gen)]
           \/ /\ Attached /\ att.host = h /\ att.owner = g
              /\ Goes(c, Attaches(c))
           \/ /\ Attached /\ att.host = h /\ att.owner # g
              /\ call' = [call EXCEPT ![c].pc = "takeover",
                                      ![c].rec = Record(att.gen + 1)]
           \/ /\ Attached /\ att.host # h
              /\ Returns(c)
        /\ UNCHANGED <<etcd, known, req, sbs, work>>

\* The transaction compares only whether the attachment key exists, and writes
\* the status over the one that was read.
AttachCommit(c) ==
    LET new == call[c].rec IN
    /\ call[c].pc \in {"create", "takeover"}
    /\ IF Attached <=> call[c].pc = "takeover"
       THEN /\ Store(new, nextGen, [call[c].base EXCEPT !.current = new.owner,
                                                        !.gen = new.gen])
            /\ Goes(c, Attaches(c))
       ELSE /\ Returns(c)
            /\ UNCHANGED <<etcd, req>>
    /\ UNCHANGED <<known, sbs, work>>

AttachAcknowledge(c) ==
    /\ call[c].pc = "ack"
    /\ \E due \in BOOLEAN :
          call' = [call EXCEPT ![c].pc = "ackput",
                               ![c].base = Acknowledged(status, call[c].gw, due)]
    /\ UNCHANGED <<etcd, known, req, sbs, work>>

AttachPutStatus(c) ==
    /\ call[c].pc = "ackput"
    /\ Store(att, nextGen, call[c].base)
    /\ Goes(c, "reply")
    /\ UNCHANGED <<known, sbs, work>>

\* volumeState reads the attachment the host is told, then the path plan is
\* reconciled: without a gateway to use, the attach fails.
AttachReply(c) ==
    /\ call[c].pc = "reply"
    /\ \E D \in SUBSET Gateways, due \in BOOLEAN :
          LET next == ReconcileVolumePathPlanStatus(status, D, due) IN
          \/ /\ D = {}
             /\ Returns(c) /\ UNCHANGED known
          \/ /\ D # {}
             /\ call' = [call EXCEPT ![c].pc = "put", ![c].gen = att.gen, ![c].base = next]
             /\ UNCHANGED known
          \/ /\ D # {} /\ next = status
             /\ Returns(c) /\ Learns(call[c].host, att.gen)
    /\ UNCHANGED <<etcd, req, sbs, work>>

\* The reconciliation loop and the runtime's feedback read the status and put
\* what they make of it.
Puts(c, next) == call' = [call EXCEPT ![c] = [NoCall EXCEPT !.pc = "put", !.base = next]]

RefreshStatus(c) ==
    /\ call[c].pc = "idle"
    /\ \/ \E D \in SUBSET Gateways, due \in BOOLEAN :
             Puts(c, ReconcileVolumePathPlanStatus(status, D, due))
       \/ \E b \in BOOLEAN : Puts(c, [status EXCEPT !.ready = b])
    /\ Begins
    /\ UNCHANGED <<etcd, known, req, sbs>>

PutVolumeStatus(c) ==
    /\ call[c].pc = "put"
    /\ Store(att, nextGen, call[c].base)
    /\ Learns(call[c].host, call[c].gen)
    /\ Returns(c)
    /\ UNCHANGED <<sbs, work>>

-----------------------------------------------------------------------------
(* The handles of a gateway, guarded by its mutex.                         *)

\* Mutant: an open does not keep the mutex.
NeverLocked(g) == TRUE

Unlocked(g) == \A r \in Requests : ~(req[r].gw = g /\ req[r].pc = "opening")

\* CloseVolume of the session of generation gen at the SBS node.
CloseVolume(gen) == session' = IF session = gen THEN 0 ELSE session

\* closeHandleLocked.  Whatever the handle is by now, it goes; it goes too when
\* the answer is lost, and any other failure keeps it.
Outcomes == {"closed", "lost", "failed"}

CloseHandle(g, gen, outcome) ==
    /\ \/ outcome = "closed" /\ CloseVolume(gen) /\ UNCHANGED work
       \/ outcome = "lost" /\ Begins /\ (CloseVolume(gen) \/ UNCHANGED session)
       \/ outcome = "failed" /\ Begins /\ UNCHANGED session
    /\ handle' = IF outcome = "failed" THEN handle ELSE [handle EXCEPT ![g] = 0]

\* Detach: the request of a host for the attachment it believes it has.
Detach(c, g, h) ==
    /\ call[c].pc = "idle" /\ known[h] # 0
    /\ Attached => att.host = h /\ att.gen = known[h]
    /\ call' = [call EXCEPT ![c] = [NoCall EXCEPT !.gw = g, !.host = h, !.gen = known[h],
                                       !.pc = IF Attached THEN "close" ELSE "closelocal"]]
    /\ Begins
    /\ UNCHANGED <<etcd, known, req, sbs>>

\* CloseAttachment and CloseLocalAttachment look at the handle before they lock.
DetachLook(c) ==
    LET mine == handle[call[c].gw] IN
    /\ call[c].pc \in {"close", "closelocal"}
    /\ Goes(c, IF mine = call[c].gen THEN "closing"
               ELSE IF mine # 0 /\ call[c].pc = "close" THEN "evict" ELSE "detach")
    /\ UNCHANGED <<etcd, known, req, sbs, work>>

DetachEvict(c) ==
    /\ call[c].pc = "evict" /\ Unlocked(call[c].gw)
    /\ handle' = [handle EXCEPT ![call[c].gw] = 0]
    /\ Goes(c, "detach")
    /\ UNCHANGED <<etcd, known, req, session, work>>

DetachClose(c) ==
    /\ call[c].pc = "closing" /\ Unlocked(call[c].gw)
    /\ \E outcome \in Outcomes :
          /\ CloseHandle(call[c].gw, call[c].gen, outcome)
          /\ IF outcome = "failed" THEN Returns(c) ELSE Goes(c, "detach")
    /\ UNCHANGED <<etcd, known, req>>

DetachRead(c) ==
    /\ call[c].pc = "detach"
    /\ \/ /\ ~Attached
          /\ Learns(call[c].host, 0) /\ Returns(c)
       \/ /\ Attached /\ ~(att.host = call[c].host /\ att.gen = call[c].gen)
          /\ UNCHANGED known /\ Returns(c)
       \/ /\ att.host = call[c].host /\ att.gen = call[c].gen
          /\ call' = [call EXCEPT ![c].pc = "remove", ![c].rec = att, ![c].base = status]
          /\ UNCHANGED known
    /\ UNCHANGED <<etcd, req, sbs, work>>

\* Mutant: the transaction only compares that there is an attachment.
StillAttached(c) == Attached

\* The transaction compares the attachment's value.
Unmoved(c) == att = call[c].rec

DetachCommit(c) ==
    LET next == call[c].rec.gen + 1 IN
    /\ call[c].pc = "remove"
    /\ IF Unmoved(c)
       THEN /\ Store(NoAttachment, next, [call[c].base EXCEPT !.current = Nobody,
                                                              !.gen = next])
            /\ Learns(call[c].host, 0)
       ELSE UNCHANGED <<etcd, req, known>>
    /\ Returns(c)
    /\ UNCHANGED <<sbs, work>>

-----------------------------------------------------------------------------
(* I/O.                                                                    *)

Step(r, pc) == req' = [req EXCEPT ![r].pc = pc]

\* A request arrives at a gateway, or an operator reloads its data path.
BeginRequest(r, g, op) ==
    /\ req[r].pc \in {"idle", "ok"}
    /\ req' = [req EXCEPT ![r] =
                  [NoRequest EXCEPT !.gw = g, !.op = op, !.era = {att.gen},
                       !.gate = gatewayAllowedDuringHandoff(status, g),
                       !.pc = IF op = "reload" THEN "reload" ELSE "status"]]
    /\ Begins
    /\ UNCHANGED <<etcd, known, call, sbs>>

\* ReloadAttachment closes this gateway's handle of the attachment, if any.
ReloadAttachment(r) ==
    /\ req[r].pc = "reload"
    /\ IF ~Attached THEN Step(r, "idle")
       ELSE IF handle[req[r].gw] # att.gen THEN Step(r, "status")
       ELSE req' = [req EXCEPT ![r].pc = "reclose", ![r].gen = att.gen]
    /\ UNCHANGED <<etcd, known, call, sbs, work>>

ReloadClose(r) ==
    /\ req[r].pc = "reclose" /\ Unlocked(req[r].gw)
    /\ \E outcome \in Outcomes :
          /\ CloseHandle(req[r].gw, req[r].gen, outcome)
          /\ Step(r, IF outcome = "closed" THEN "status" ELSE "idle")
    /\ UNCHANGED <<etcd, known, call>>

\* ensureOpen: the fence, the attachment, then the handle under the mutex.
CheckHandoff(r) ==
    /\ req[r].pc = "status"
    /\ Step(r, IF gatewayAllowedDuringHandoff(status, req[r].gw) THEN "attachment"
               ELSE "idle")
    /\ UNCHANGED <<etcd, known, call, sbs, work>>

ReadAttachment(r) ==
    /\ req[r].pc = "attachment"
    /\ IF Attached THEN req' = [req EXCEPT ![r].pc = "open", ![r].gen = att.gen]
       ELSE Step(r, "idle")
    /\ UNCHANGED <<etcd, known, call, sbs, work>>

\* Mutant: a handle is reused whatever attachment it was opened for.
AnyHandle(r) == handle[req[r].gw] # 0

Reusable(r) == handle[req[r].gw] = req[r].gen

ReuseHandle(r) ==
    /\ req[r].pc = "open" /\ Unlocked(req[r].gw) /\ Reusable(r)
    /\ req' = [req EXCEPT ![r].pc = "io", ![r].gen = handle[req[r].gw]]
    /\ UNCHANGED <<etcd, known, call, sbs, work>>

\* The mutex stays locked from here to the answer of OpenVolume.
CloseStale(r) ==
    LET g == req[r].gw IN
    /\ req[r].pc = "open" /\ Unlocked(g) /\ ~Reusable(r) /\ handle[g] # 0
    /\ \E outcome \in Outcomes : CloseHandle(g, handle[g], outcome)
    /\ Step(r, "opening")
    /\ UNCHANGED <<etcd, known, call>>

OpenVolume(r) ==
    LET g == req[r].gw
        admitted == session \in {0, req[r].gen}
    IN  /\ \/ req[r].pc = "opening"
           \/ req[r].pc = "open" /\ Unlocked(g) /\ handle[g] = 0
        /\ \/ /\ admitted
              /\ session' = req[r].gen
              /\ handle' = [handle EXCEPT ![g] = req[r].gen]
              /\ Step(r, "io")
              /\ UNCHANGED work
           \/ /\ ~admitted
              /\ Step(r, "idle")
              /\ UNCHANGED <<sbs, work>>
           \/ /\ Begins
              /\ session' \in {session} \cup (IF admitted THEN {req[r].gen} ELSE {})
              /\ handle' = [handle EXCEPT ![g] = 0]
              /\ Step(r, "idle")
        /\ UNCHANGED <<etcd, known, call>>

\* The SBS node accepts the I/O of the attachment it is open for.  A mismatch,
\* or a lost answer, is retried once with a new handle.
SubmitIO(r) ==
    /\ req[r].pc = "io"
    /\ \/ /\ req[r].op = "reload"
          /\ Step(r, "idle") /\ UNCHANGED <<handle, work>>
       \/ /\ req[r].op = "write" /\ session = req[r].gen
          /\ Step(r, "ok") /\ UNCHANGED <<handle, work>>
       \/ /\ req[r].op = "write" /\ req[r].tries = 0 /\ Unlocked(req[r].gw)
          /\ IF session = req[r].gen THEN Begins ELSE UNCHANGED work
          /\ req' = [req EXCEPT ![r].pc = "status", ![r].tries = 1]
          /\ handle' = [handle EXCEPT ![req[r].gw] = 0]
       \/ /\ req[r].op = "write" /\ req[r].tries = 1 /\ session # req[r].gen
          /\ Step(r, "idle") /\ UNCHANGED <<handle, work>>
    /\ UNCHANGED <<etcd, known, call, session>>

RestartGateway(g) ==
    /\ Begins
    /\ handle' = [handle EXCEPT ![g] = 0]
    /\ req' = [r \in Requests |-> IF req[r].gw = g THEN NoRequest ELSE req[r]]
    /\ call' = [c \in Calls |-> IF call[c].gw = g THEN NoCall ELSE call[c]]
    /\ UNCHANGED <<etcd, known, session>>

RestartNode ==
    /\ Begins
    /\ session' = 0
    /\ UNCHANGED <<etcd, known, call, req, handle>>

Next ==
    \/ \E c \in Calls, g \in Gateways, h \in Hosts : Attach(c, g, h) \/ Detach(c, g, h)
    \/ \E c \in Calls :
          \/ AttachRead(c) \/ AttachExisting(c) \/ AttachCommit(c)
          \/ AttachAcknowledge(c) \/ AttachPutStatus(c) \/ AttachReply(c)
          \/ RefreshStatus(c) \/ PutVolumeStatus(c)
          \/ DetachLook(c) \/ DetachEvict(c) \/ DetachClose(c)
          \/ DetachRead(c) \/ DetachCommit(c)
    \/ \E r \in Requests, g \in Gateways, op \in {"write", "reload"} : BeginRequest(r, g, op)
    \/ \E r \in Requests :
          \/ ReloadAttachment(r) \/ ReloadClose(r)
          \/ CheckHandoff(r) \/ ReadAttachment(r)
          \/ ReuseHandle(r) \/ CloseStale(r) \/ OpenVolume(r) \/ SubmitIO(r)
    \/ \E g \in Gateways : RestartGateway(g)
    \/ RestartNode

Spec == Init /\ [][Next]_vars

-----------------------------------------------------------------------------
Generations == 0 .. MaxWork + 1

\* The records have their shape, generations are bounded by the calls made, and
\* while a request holds its gateway's mutex to open the volume, no other one has
\* put the handle in place.
AttachmentTypeOK ==
    /\ att \in [gen : Generations, host : Hosts \cup {Nobody}, owner : Gateways \cup {Nobody}]
    /\ Attached => att.host \in Hosts /\ att.owner \in Gateways
    /\ nextGen \in Generations \ {0}
    /\ status \in [current : Gateways \cup {Nobody}, gen : Generations, required : BOOLEAN,
                   desired : SUBSET Gateways, acked : Generations, ready : BOOLEAN,
                   eligible : BOOLEAN]
    /\ known \in [Hosts -> Generations]
    /\ handle \in [Gateways -> Generations]
    /\ session \in Generations
    /\ \A r \in Requests : req[r].pc = "opening" => handle[req[r].gw] # req[r].gen

\* An attachment leaves etcd only by the detach of the host that holds it, asked
\* for with its generation: a detach that was overtaken by a takeover, or by a
\* detach and another host's attach, removes nothing (Detach's comparison of the
\* attachment's value with the one it read).
DetachTakesOwn ==
    [][Attached /\ ~Attached' =>
          \E c \in Calls : /\ call[c].pc = "remove" /\ call'[c].pc = "idle"
                           /\ call[c].host = att.host /\ call[c].gen = att.gen]_vars

\* I/O that the SBS node accepted was sent for an attachment that was the
\* volume's at some moment of the request, at a gateway that the handoff fence
\* was open to at some moment of the request, however attaches, detaches,
\* handoffs and restarts interleave with it (ensureOpen's two checks, and the
\* comparison of the handle with the attachment).
AcceptedWasAdmitted ==
    \A r \in Requests : req[r].pc = "ok" => req[r].gen \in req[r].era /\ req[r].gate

\* A new attachment has a generation above every earlier one of the volume.  It
\* does not hold: Attach reads the attachment and the next generation outside the
\* transaction, which compares only whether an attachment exists.
GenerationAdvances ==
    [][att' # att /\ Attached' => att'.gen >= nextGen /\ att'.gen > att.gen]_vars

\* Whatever session the SBS node has open is the current attachment's, or some
\* gateway still has the handle to close it with.  It does not hold: evictHandle
\* and a restart forget the handle, and the node keeps the session.
SessionClosable ==
    session # 0 => session = att.gen \/ \E g \in Gateways : handle[g] = session
=============================================================================
