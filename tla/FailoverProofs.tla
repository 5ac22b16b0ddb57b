--------------------------- MODULE FailoverProofs ---------------------------
(***************************************************************************)
(* Proofs about IscsiFailover for any number of sbs-service processes,     *)
(* gateways, nodes, mutations and faults.                                  *)
(***************************************************************************)
EXTENDS IscsiFailover, WellFoundedInduction, TLAPS

Exports == [lun : Luns, run : Run]

Changes == [on : BOOLEAN, export : Exports]

Mutations ==
  [pc : {"idle", "project", "save"}, rev : Revisions, floor : Revisions,
   lun : Luns \X Luns, run : Run \X Run, fence : Fence,
   listed : SUBSET Nodes, todo : SUBSET Nodes, failed : BOOLEAN]

Writes == [node : Nodes, gateway : Gateways, epoch : Epochs,
           stale : BOOLEAN, published : BOOLEAN, torn : BOOLEAN]

\* The registry and what mutations, gateways and nodes copied from it.
Typed ==
  /\ registry \in [rev : Revisions, floor : Revisions, lun : Luns, run : Run,
                   export : Exports, changes : [Revisions -> Changes]]
  /\ server \in [Servers -> Mutations]
  /\ members \in SUBSET Nodes
  /\ fence \in [Nodes -> Fence]
  /\ cache \in [Nodes -> [on : BOOLEAN, fence : Fence]]
  /\ session \in [Nodes -> Session]
  /\ load \in [Nodes -> [on : BOOLEAN, fence : Fence]]
  /\ inflight \subseteq Nodes \X Fence
  /\ runtime \in [Gateways -> [epoch : Epochs, active : BOOLEAN, rev : Revisions]]
  /\ pending \in [Gateways -> [on : BOOLEAN, rev : Revisions, change : Changes]]
  /\ ops \in 0 .. MaxOps
  /\ floor \in [Nodes -> Epochs]
  /\ writes \subseteq Writes

\* A mutation adds one to the revision and at most one to the epoch it loaded.
Bounded ==
  /\ registry.rev <= ops + 2
  /\ registry.run.epoch <= ops + 2
  /\ \A s \in Servers : server[s].pc # "idle" => /\ server[s].rev < ops + 2
                                                 /\ server[s].run[2].epoch <= ops + 2

\* Only a promotion that is being projected lists nodes.
ListsWhileProjecting ==
  \A s \in Servers : /\ server[s].todo \subseteq server[s].listed
                     /\ server[s].pc # "project" => server[s].listed = {}

TInv == Typed /\ Bounded /\ ListsWhileProjecting

\* A node that answered a projection no node refused so far has its fence, or one
\* of a later epoch.
ProjectionAcks ==
  \A s \in Servers : server[s].pc = "project" /\ ~server[s].failed =>
    \A n \in server[s].listed \ server[s].todo :
      fence[n].epoch > server[s].fence.epoch \/ fence[n] = server[s].fence

\* An accepted write is of the fence its node has, or of an earlier epoch.
WritesFollowFence ==
  \A w \in writes : ~w.torn =>
    \/ fence[w.node].epoch > w.epoch
    \/ fence[w.node].epoch = w.epoch /\ fence[w.node].gateway = w.gateway

\* At a node, one gateway writes under an epoch.
OneWriterAtNode ==
  \A v, w \in writes :
    ~v.torn /\ ~w.torn /\ v.epoch = w.epoch /\ v.node = w.node => v.gateway = w.gateway

Holds(x, e, g) == x.epoch = e /\ x.gateway = g

\* The pairs of epoch and gateway that node n has fenced, or that went through
\* it: the fence it has, a fence published over some node, the fence of a
\* promotion n acknowledged, and a write under a published epoch.
Claim(n, e, g) ==
  \/ Holds(fence[n], e, g)
  \/ \E m \in Nodes : /\ floor[m] > 0 /\ fence[m].epoch = floor[m]
                      /\ Holds(fence[m], e, g)
  \/ \E s \in Servers : /\ server[s].pc = "project" /\ ~server[s].failed
                        /\ n \notin server[s].todo /\ Holds(server[s].fence, e, g)
  \/ \E w \in writes : ~w.torn /\ w.published /\ Holds(w, e, g)

\* Node n is asked by every promotion that may still be published, so its fence orders all the claims.
Anchor(n) ==
  /\ n \in members
  /\ \A s \in Servers :
       server[s].pc = "project" /\ ~server[s].failed => n \in server[s].listed
  /\ \A e \in Epochs : \A g, h \in MaybeGateway :
       Claim(n, e, g) => e <= fence[n].epoch /\ (Claim(n, e, h) => g = h)

SInv ==
  /\ ProjectionAcks
  /\ PublishedIsFenced
  /\ StaleWriterFenced
  /\ WritesFollowFence
  /\ OneWriterAtNode
  /\ \E n \in Nodes : Anchor(n)

-----------------------------------------------------------------------------
(* Types.                                                                  *)

\* The values that stand for nothing are typed.
LEMMA Constants ==
  /\ 0 \in Revisions /\ 1 \in Epochs /\ 2 \in Revisions /\ 2 \in Epochs /\ 0 \in Epochs
  /\ 0 \in Luns /\ 1 \in Luns /\ NoGateway \in MaybeGateway
  /\ NoRun \in Run /\ NoFence \in Fence /\ NoSession \in Session
  /\ NoChange \in Changes
  /\ Unloaded \in [on : BOOLEAN, fence : Fence]
  /\ NoRuntime \in [epoch : Epochs, active : BOOLEAN, rev : Revisions]
  /\ NoPending \in [on : BOOLEAN, rev : Revisions, change : Changes]
  /\ Idle \in Mutations
<1>1. /\ 0 \in Revisions /\ 1 \in Epochs /\ 2 \in Revisions /\ 2 \in Epochs /\ 0 \in Epochs
      /\ 0 \in Luns /\ 1 \in Luns /\ NoGateway \in MaybeGateway
  BY FailoverAssumption DEF Revisions, Epochs, Luns, MaybeGateway
<1>2. NoRun \in Run /\ NoFence \in Fence /\ NoSession \in Session
  BY <1>1 DEF NoRun, Run, NoFence, Fence, NoSession, Session
<1>3. NoChange \in Changes
  BY <1>1, <1>2 DEF NoChange, Changes, Exports, Export
<1>4. Idle \in Mutations
  BY <1>1, <1>2 DEF Idle, Mutations
<1> QED
  BY <1>1, <1>2, <1>3, <1>4 DEF Unloaded, NoRuntime, NoPending

\* Epochs and revisions are numbers.
LEMMA Numerals == Epochs \subseteq Nat /\ Revisions \subseteq Nat
BY FailoverAssumption DEF Epochs, Revisions

\* The revision and the epoch that a mutation carries are numbers.
LEMMA MutationNumbers ==
  ASSUME server \in [Servers -> Mutations]
  PROVE  \A t \in Servers : server[t].rev \in Nat /\ server[t].run[2].epoch \in Nat
<1> SUFFICES ASSUME NEW t \in Servers
             PROVE  server[t].rev \in Nat /\ server[t].run[2].epoch \in Nat
  BY Zenon
<1>1. PICK m \in Mutations : m = server[t]
  BY Zenon
<1>2. m.rev \in Revisions /\ m.run \in Run \X Run
  BY DEF Mutations
<1>3. PICK r \in Run : r = m.run[2]
  BY <1>2
<1>4. r.epoch \in Epochs
  BY Zenon DEF Run
<1> QED
  BY <1>1, <1>2, <1>3, <1>4, Numerals, Zenon

\* The floor of retained changes stays a revision.
LEMMA FloorType ==
  ASSUME NEW old \in Revisions, NEW rev \in Revisions
  PROVE  Floor(old, rev) \in Revisions
BY FailoverAssumption DEF Floor, Larger, Revisions

\* An export record built from a LUN and a runtime.
LEMMA ExportType ==
  ASSUME NEW lun \in Luns, NEW run \in Run
  PROVE  Export(lun, run) \in Exports /\ Change(Export(lun, run)) \in Changes
BY Constants DEF Export, Exports, Change, Changes

\* A mutation that loads the registry and changes it keeps the types.
LEMMA BeginTInv ==
  ASSUME TInv, NEW s \in Servers, NEW lun \in Luns, NEW run \in Run,
         run.epoch <= registry.run.epoch + 1, Begin(s, lun, run)
  PROVE  TInv'
<1>1. ops' \in 0 .. MaxOps /\ ops' = ops + 1 /\ ops \in Nat
  BY FailoverAssumption DEF TInv, Typed, Begin
<1>2. /\ registry.rev \in Revisions /\ registry.floor \in Revisions
      /\ registry.lun \in Luns /\ registry.run \in Run
      /\ registry.rev <= ops + 2 /\ registry.run.epoch <= ops + 2
  BY DEF TInv, Typed, Bounded
<1> DEFINE m == [Idle EXCEPT !.pc = "save", !.rev = registry.rev, !.floor = registry.floor,
                   !.lun = <<registry.lun, lun>>, !.run = <<registry.run, run>>]
<1>3. /\ m \in Mutations /\ m.pc = "save" /\ m.listed = {} /\ m.todo = {}
      /\ m.rev = registry.rev /\ m.run[2] = run
  BY <1>2, Constants, Zenon DEF Mutations, Idle
<1>4. server' = [server EXCEPT ![s] = m]
  BY DEF Begin
<1> HIDE DEF m
<1>5. run.epoch \in Nat /\ registry.run.epoch \in Nat /\ registry.rev \in Nat
  BY <1>2, FailoverAssumption DEF Run, Epochs, Revisions
<1>6. Typed'
  BY <1>1, <1>3, <1>4 DEF TInv, Typed, Begin, receivers
<1>7. Bounded'
  <2>1. \A t \in Servers : t # s => server'[t] = server[t]
    BY <1>4 DEF TInv, Typed
  <2>2. server'[s] = m
    BY <1>4 DEF TInv, Typed
  <2>3. \A t \in Servers : server[t].rev \in Nat /\ server[t].run[2].epoch \in Nat
    BY MutationNumbers, Zenon DEF TInv, Typed
  <2> QED
    BY <1>1, <1>2, <1>3, <1>5, <2>1, <2>2, <2>3 DEF Bounded, Begin, TInv
<1>8. ListsWhileProjecting'
  BY <1>3, <1>4 DEF TInv, Typed, ListsWhileProjecting
<1> QED
  BY <1>6, <1>7, <1>8 DEF TInv

\* The runtimes that the failover calls make of the registered one.
LEMMA RunTypes ==
  ASSUME TInv, ops < MaxOps, NEW g \in Gateways
  PROVE  /\ registry.run \in Run /\ registry.lun \in Luns
         /\ registry.run.epoch + 1 \in Epochs
         /\ Promoted(registry.run, g) \in Run
         /\ Promoted(registry.run, g).epoch = registry.run.epoch + 1
<1>1. registry.run \in Run /\ registry.lun \in Luns
  BY DEF TInv, Typed
<1>2. registry.run.epoch + 1 \in Epochs
  BY <1>1, FailoverAssumption DEF TInv, Typed, Bounded, Run, Epochs
<1> QED
  BY <1>1, <1>2, Zenon DEF Promoted, Run, MaybeGateway

\* The mutations without projection keep the types.
LEMMA MutateTInv ==
  ASSUME TInv, NEW s \in Servers,
         \/ DemoteISCSIFailover(s) \/ ExportISCSILUN(s) \/ UnexportISCSILUN(s)
         \/ SetISCSILUNMode(s)
         \/ \E g \in Gateways : StandbyISCSIFailover(s, g) \/ RevokeStaleISCSIFailover(s, g)
  PROVE  TInv'
<1> DEFINE R == registry.run
<1>1. /\ R \in Run /\ R.epoch \in Nat /\ registry.lun \in Luns
      /\ R.active \in MaybeGateway /\ R.standby \in SUBSET Gateways
      /\ R.revoked \in MaybeGateway /\ R.epoch \in Epochs
  BY FailoverAssumption DEF TInv, Typed, Run, Epochs
<1>2. ops < MaxOps => R.epoch + 1 \in Epochs
  BY FailoverAssumption DEF TInv, Typed, Bounded, Run, Epochs
<1>3. CASE DemoteISCSIFailover(s)
  <2> DEFINE new == [R EXCEPT !.active = NoGateway, !.standby = @ \cup {R.active},
                              !.epoch = @ + 1]
  <2>1. Begin(s, registry.lun, new) /\ R.active # NoGateway /\ ops < MaxOps
    BY <1>3 DEF DemoteISCSIFailover, Begin
  <2>2. R.active \in Gateways
    BY <1>1, <2>1 DEF MaybeGateway
  <2>3. new \in Run /\ new.epoch = R.epoch + 1
    BY <1>1, <1>2, <2>1, <2>2, Constants, Zenon DEF Run
  <2> HIDE DEF new
  <2> QED
    BY <1>1, <2>1, <2>3, BeginTInv
<1>4. CASE ExportISCSILUN(s)
  <2> DEFINE new == IF R.epoch = 0 THEN [NoRun EXCEPT !.epoch = 1] ELSE R
  <2>1. new \in Run /\ new.epoch <= R.epoch + 1
    BY <1>1, Constants DEF Run, NoRun
  <2>2. Begin(s, 1, new)
    BY <1>4 DEF ExportISCSILUN
  <2> HIDE DEF new
  <2> QED
    BY <1>1, <2>1, <2>2, BeginTInv, Constants, Zenon
<1>5. CASE UnexportISCSILUN(s)
  <2>1. NoRun.epoch <= R.epoch + 1
    BY <1>1 DEF NoRun
  <2> QED
    BY <1>5, <2>1, BeginTInv, Constants DEF UnexportISCSILUN
<1>6. CASE SetISCSILUNMode(s)
  <2>1. PICK mode \in Luns \ {0} : Begin(s, mode, R)
    BY <1>6 DEF SetISCSILUNMode
  <2> QED
    BY <1>1, <2>1, BeginTInv
<1>7. ASSUME NEW g \in Gateways, StandbyISCSIFailover(s, g) PROVE TInv'
  <2> DEFINE new == [R EXCEPT !.standby = @ \cup {g}]
  <2>1. new \in Run /\ new.epoch = R.epoch
    BY <1>1 DEF Run
  <2>2. Begin(s, registry.lun, new)
    BY <1>7 DEF StandbyISCSIFailover
  <2> HIDE DEF new
  <2> QED
    BY <1>1, <2>1, <2>2, BeginTInv
<1>8. ASSUME NEW g \in Gateways, RevokeStaleISCSIFailover(s, g) PROVE TInv'
  <2> DEFINE new == [R EXCEPT !.active = IF @ = g THEN NoGateway ELSE @,
                              !.standby = @ \ {g}, !.revoked = g, !.epoch = @ + 1]
  <2>1. Begin(s, registry.lun, new) /\ ops < MaxOps
    BY <1>8, Zenon DEF RevokeStaleISCSIFailover, Begin
  <2>2. new \in Run /\ new.epoch = R.epoch + 1
    BY <1>1, <1>2, <2>1, Constants, Zenon DEF Run, MaybeGateway
  <2> HIDE DEF new
  <2> QED
    BY <1>1, <2>1, <2>2, BeginTInv
<1> QED
  BY <1>3, <1>4, <1>5, <1>6, <1>7, <1>8

\* So does a promotion, whose fence is typed and whose list is of members.
LEMMA PromoteTInv ==
  ASSUME TInv, NEW s \in Servers, NEW g \in Gateways, Promote(s, g)
  PROVE  TInv'
<1> DEFINE new == Promoted(registry.run, g)
           m == [Idle EXCEPT !.pc = "project", !.rev = registry.rev,
                   !.floor = registry.floor, !.lun = <<registry.lun, registry.lun>>,
                   !.run = <<registry.run, new>>,
                   !.fence = [epoch |-> new.epoch, gateway |-> g, rev |-> registry.rev + 1],
                   !.listed = members, !.todo = members]
<1>1. ops < MaxOps /\ ops' = ops + 1 /\ ops \in Nat /\ ops' \in 0 .. MaxOps
  BY FailoverAssumption DEF Promote, TInv, Typed
<1>2. /\ registry.rev \in Revisions /\ registry.floor \in Revisions
      /\ registry.lun \in Luns /\ registry.run \in Run /\ members \in SUBSET Nodes
      /\ registry.rev <= ops + 2 /\ registry.run.epoch <= ops + 2
      /\ registry.rev \in Nat /\ registry.run.epoch \in Nat
  BY FailoverAssumption DEF TInv, Typed, Bounded, Revisions, Run, Epochs
<1>3. new \in Run /\ new.epoch = registry.run.epoch + 1 /\ new.epoch \in Epochs
  BY <1>1, RunTypes
<1>4. registry.rev + 1 \in Revisions
  BY <1>1, <1>2, FailoverAssumption DEF Revisions
<1> HIDE DEF new
<1>5. /\ m \in Mutations /\ m.pc = "project" /\ m.todo = m.listed
      /\ m.rev = registry.rev /\ m.run[2] = new
  BY <1>2, <1>3, <1>4, Constants, Zenon DEF Mutations, Idle, Fence, MaybeGateway
<1>6. server' = [server EXCEPT ![s] = m]
  BY DEF Promote, new
<1> HIDE DEF m
<1>7. Typed'
  BY <1>1, <1>5, <1>6 DEF TInv, Typed, Promote, receivers
<1>8. Bounded'
  <2>1. /\ \A t \in Servers : t # s => server'[t] = server[t]
        /\ server'[s] = m
    BY <1>6 DEF TInv, Typed
  <2>2. \A t \in Servers : server[t].rev \in Nat /\ server[t].run[2].epoch \in Nat
    BY MutationNumbers, Zenon DEF TInv, Typed
  <2>3. registry' = registry
    BY DEF Promote
  <2>4. m.rev < ops' + 2 /\ m.run[2].epoch <= ops' + 2
    BY <1>1, <1>2, <1>3, <1>5
  <2>5. registry.rev <= ops' + 2 /\ registry.run.epoch <= ops' + 2
    BY <1>1, <1>2
  <2>6. \A t \in Servers : server[t].pc # "idle" => /\ server[t].rev < ops' + 2
                                                   /\ server[t].run[2].epoch <= ops' + 2
    BY <1>1, <2>2 DEF Bounded, TInv
  <2> QED
    BY <2>1, <2>3, <2>4, <2>5, <2>6 DEF Bounded
<1>9. ListsWhileProjecting'
  BY <1>5, <1>6 DEF TInv, Typed, ListsWhileProjecting
<1> QED
  BY <1>7, <1>8, <1>9 DEF TInv

\* A mutation that ends leaves its server idle.
LEMMA EndTInv ==
  ASSUME TInv, NEW s \in Servers, server' = [server EXCEPT ![s] = Idle],
         Typed', ops' = ops, registry'.rev <= ops + 2, registry'.run.epoch <= ops + 2
  PROVE  TInv'
<1>1. /\ \A t \in Servers : t # s => server'[t] = server[t]
      /\ server'[s] = Idle
  BY DEF TInv, Typed
<1>2. Idle.pc = "idle" /\ Idle.listed = {} /\ Idle.todo = {}
  BY DEF Idle
<1>3. Bounded'
  BY <1>1, <1>2 DEF TInv, Bounded
<1>4. ListsWhileProjecting'
  BY <1>1, <1>2, Zenon DEF TInv, ListsWhileProjecting
<1> QED
  BY <1>3, <1>4 DEF TInv

\* The save publishes a revision and a runtime within the bounds.
LEMMA SaveTInv ==
  ASSUME TInv, NEW s \in Servers, Save(s)
  PROVE  TInv'
<1> DEFINE p == server[s]
           rev == p.rev + 1
           low == Floor(p.floor, rev)
           before == Export(p.lun[1], p.run[1])
           after == Export(p.lun[2], p.run[2])
           kept == [r \in Revisions |-> IF r \in (p.floor + 1) .. low THEN NoChange
                                                                      ELSE registry.changes[r]]
<1>1. p \in Mutations /\ p.pc # "idle"
  BY DEF TInv, Typed, Save, ReadyToSave
<1>2. rev \in Revisions /\ rev <= ops + 2 /\ p.run[2].epoch <= ops + 2
  <2>1. p.rev < ops + 2 /\ p.run[2].epoch <= ops + 2
    BY <1>1 DEF TInv, Bounded
  <2>2. p.rev \in 0 .. (MaxOps + 2) /\ ops \in 0 .. MaxOps
    BY <1>1 DEF TInv, Typed, Mutations, Revisions
  <2> HIDE DEF p
  <2> QED
    BY <2>1, <2>2, FailoverAssumption DEF Revisions
<1>3. low \in Revisions
  BY <1>1, <1>2, FloorType, Zenon DEF Mutations
<1>4. after \in Exports /\ Change(after) \in Changes
  BY <1>1, ExportType DEF Mutations
<1>5. kept \in [Revisions -> Changes]
  BY Constants, Zenon DEF TInv, Typed
<1>6. /\ registry' = [rev |-> rev, floor |-> low,
                  lun |-> IF p.lun[1] # p.lun[2] THEN p.lun[2] ELSE registry.lun,
                  run |-> IF p.run[1] # p.run[2] THEN p.run[2] ELSE registry.run,
                  export |-> IF before # after THEN after ELSE registry.export,
                  changes |-> IF before # after
                                THEN [kept EXCEPT ![rev] = Change(after)] ELSE kept]
      /\ floor' = [n \in Nodes |-> IF n \in p.listed THEN Larger(floor[n], p.fence.epoch)
                                                     ELSE floor[n]]
      /\ server' = [server EXCEPT ![s] = Idle]
      /\ UNCHANGED <<members, receivers, inflight, runtime, pending, ops, faults, writes>>
  BY Zenon DEF Save
<1>7. p.lun[2] \in Luns /\ p.run[2] \in Run /\ p.fence.epoch \in Epochs
  BY <1>1, Zenon DEF Mutations, Fence
<1> HIDE DEF p, rev, low, before, after, kept
<1>8. Typed'
  <2>1. registry' \in [rev : Revisions, floor : Revisions, lun : Luns, run : Run,
                       export : Exports, changes : [Revisions -> Changes]]
    BY <1>2, <1>3, <1>4, <1>5, <1>6, <1>7, Zenon DEF TInv, Typed
  <2>2. floor' \in [Nodes -> Epochs]
    BY <1>6, <1>7, Zenon DEF TInv, Typed, Larger
  <2> QED
    BY <1>6, <2>1, <2>2, Constants, Zenon DEF TInv, Typed, receivers
<1>9. registry'.rev <= ops + 2 /\ registry'.run.epoch <= ops + 2
  BY <1>2, <1>6 DEF TInv, Bounded
<1> QED
  BY <1>6, <1>8, <1>9, EndTInv, Zenon DEF receivers

\* What ApplyISCSIWriterFence leaves at a node.
LEMMA ApplyTypes ==
  ASSUME Typed, NEW n \in Nodes, NEW f \in Fence, ApplyISCSIWriterFence(n, f)
  PROVE  /\ fence' \in [Nodes -> Fence]
         /\ cache' \in [Nodes -> [on : BOOLEAN, fence : Fence]]
         /\ session' \in [Nodes -> Session]
         /\ load' \in [Nodes -> [on : BOOLEAN, fence : Fence]]
<1>1. CASE Accepts(fence[n], f) /\ f # fence[n]
  <2>1. Loaded(f) \in [on : BOOLEAN, fence : Fence]
    BY DEF Loaded
  <2>2. /\ fence' = [fence EXCEPT ![n] = f]
        /\ cache' = [cache EXCEPT ![n] = Loaded(f)]
        /\ session' = [session EXCEPT ![n] = IF SessionMatches(session[n], f) THEN session[n]
                                                                           ELSE NoSession]
        /\ load' = load
    BY <1>1, Zenon DEF ApplyISCSIWriterFence
  <2>3. session' \in [Nodes -> Session]
    BY <2>2, Constants, Zenon DEF Typed
  <2> QED
    BY <2>1, <2>2, <2>3 DEF Typed
<1>2. CASE ~(Accepts(fence[n], f) /\ f # fence[n])
  BY <1>2 DEF ApplyISCSIWriterFence, Typed, receivers
<1> QED
  BY <1>1, <1>2, Zenon

\* An answer of a node, whatever it is.
LEMMA ProjectedTInv ==
  ASSUME TInv, NEW s \in Servers, NEW n \in Nodes, NEW ok \in BOOLEAN,
         Projected(s, n, ok), registry' = registry, ops' = ops,
         Typed => (server' \in [Servers -> Mutations] => Typed')
  PROVE  TInv'
<1> DEFINE m == [server[s] EXCEPT !.todo = @ \ {n}, !.failed = @ \/ ~ok]
<1>1. server[s] \in Mutations
  BY DEF TInv, Typed
<1>2. /\ m \in Mutations /\ m.pc = server[s].pc /\ m.rev = server[s].rev
      /\ m.run = server[s].run /\ m.listed = server[s].listed
      /\ m.todo = server[s].todo \ {n}
  BY <1>1, Zenon DEF Mutations
<1>3. server' = [server EXCEPT ![s] = m]
  BY Zenon DEF Projected
<1> HIDE DEF m
<1>4. /\ \A t \in Servers : t # s => server'[t] = server[t]
      /\ server'[s] = m
      /\ server' \in [Servers -> Mutations]
  BY <1>2, <1>3 DEF TInv, Typed
<1>5. Typed'
  BY <1>4, Zenon DEF TInv
<1>6. Bounded'
  BY <1>2, <1>4 DEF TInv, Bounded
<1>7. ListsWhileProjecting'
  BY <1>2, <1>4 DEF TInv, ListsWhileProjecting
<1> QED
  BY <1>5, <1>6, <1>7, Zenon DEF TInv

\* A projection keeps the types.
LEMMA ProjectTInv ==
  ASSUME TInv, NEW s \in Servers, NEW n \in Nodes,
         Project(s, n) \/ ProjectTimesOut(s, n)
  PROVE  TInv'
<1>1. server[s].fence \in Fence
  BY DEF TInv, Typed, Mutations
<1>2. CASE Project(s, n)
  <2> DEFINE ok == Accepts(fence[n], server[s].fence)
  <2>1. ok \in BOOLEAN
    BY Zenon DEF Accepts
  <2>2. Projected(s, n, ok) /\ registry' = registry /\ ops' = ops
    BY <1>2, Zenon DEF Project
  <2>3. ApplyISCSIWriterFence(n, server[s].fence)
    BY <1>2 DEF Project
  <2>4. Typed => (server' \in [Servers -> Mutations] => Typed')
    BY <1>1, <1>2, <2>3, ApplyTypes, Zenon DEF Project, Typed
  <2> HIDE DEF ok
  <2> QED
    BY <2>1, <2>2, <2>4, ProjectedTInv
<1>3. CASE ProjectTimesOut(s, n)
  <2>1. Projected(s, n, FALSE) /\ registry' = registry /\ ops' = ops
    BY <1>3, Zenon DEF ProjectTimesOut
  <2>2. Typed => (server' \in [Servers -> Mutations] => Typed')
    BY <1>1, <1>3 DEF ProjectTimesOut, Typed, receivers
  <2> QED
    BY <2>1, <2>2, ProjectedTInv, Zenon
<1> QED
  BY <1>2, <1>3, Zenon

\* The end of a mutation that saves nothing keeps the types.
LEMMA GiveUpTInv ==
  ASSUME TInv, NEW s \in Servers, ProjectionFails(s) \/ Abandon(s)
  PROVE  TInv'
<1>1. /\ server' = [server EXCEPT ![s] = Idle] /\ ops' = ops /\ registry' = registry
  BY DEF ProjectionFails, Abandon
<1>2. registry'.rev <= ops + 2 /\ registry'.run.epoch <= ops + 2
  BY <1>1, Zenon DEF TInv, Bounded
<1>3. server' \in [Servers -> Mutations]
  BY <1>1, Constants DEF TInv, Typed
<1>4. inflight' \subseteq Nodes \X Fence
  <2>1. server[s].fence \in Fence /\ server[s].todo \subseteq Nodes
    BY DEF TInv, Typed, Mutations
  <2>2. CASE inflight' = inflight
    BY <2>2, Zenon DEF TInv, Typed
  <2>3. CASE inflight' = inflight \cup {<<n, server[s].fence>> : n \in server[s].todo}
    BY <2>1, <2>3 DEF TInv, Typed
  <2> QED
    BY <2>2, <2>3, Zenon DEF ProjectionFails, Abandon
<1>5. Typed'
  BY <1>1, <1>3, <1>4, Zenon DEF TInv, Typed, ProjectionFails, Abandon, receivers
<1> QED
  BY <1>1, <1>2, <1>5, EndTInv, Zenon

\* A step that changes neither the registry nor a mutation keeps the bounds.
LEMMA KeepsBounds ==
  ASSUME TInv, Typed', UNCHANGED <<registry, server, ops>>
  PROVE  TInv'
BY DEF TInv, Bounded, ListsWhileProjecting

\* The steps of nodes keep the types.
LEMMA NodeTInv ==
  ASSUME TInv,
         \/ \E m \in inflight : LateApply(m)
         \/ \E n \in Nodes : Join(n) \/ StartRead(n) \/ FinishRead(n) \/ Restart(n)
  PROVE  TInv'
<1>1. ASSUME NEW m \in inflight, LateApply(m) PROVE Typed'
  <2>1. m[1] \in Nodes /\ m[2] \in Fence
    BY Zenon DEF TInv, Typed
  <2> QED
    BY <1>1, <2>1, ApplyTypes DEF LateApply, TInv, Typed
<1>2. ASSUME NEW n \in Nodes, Join(n) PROVE Typed'
  BY <1>2 DEF Join, receivers, TInv, Typed
<1>3. ASSUME NEW n \in Nodes, StartRead(n) PROVE Typed'
  <2>1. Loaded(fence[n]) \in [on : BOOLEAN, fence : Fence]
    BY Zenon DEF Loaded, TInv, Typed
  <2> QED
    BY <1>3, <2>1, Zenon DEF StartRead, TInv, Typed
<1>4. ASSUME NEW n \in Nodes, FinishRead(n) PROVE Typed'
  <2> DEFINE f == IF load[n].fence # NoFence THEN load[n].fence ELSE cache[n].fence
  <2>1. f \in Fence
    BY Zenon DEF TInv, Typed
  <2>2. Loaded(f) \in [on : BOOLEAN, fence : Fence]
    BY <2>1, Zenon DEF Loaded
  <2>3. cache' = [cache EXCEPT ![n] = Loaded(f)]
    BY <1>4, Zenon DEF FinishRead
  <2> HIDE DEF f
  <2> QED
    BY <1>4, <2>2, <2>3, Constants DEF FinishRead, TInv, Typed
<1>5. ASSUME NEW n \in Nodes, Restart(n) PROVE Typed'
  BY <1>5, Constants DEF Restart, TInv, Typed
<1>6. UNCHANGED <<registry, server, ops>>
  BY Zenon DEF LateApply, Join, StartRead, FinishRead, Restart
<1> QED
  BY <1>1, <1>2, <1>3, <1>4, <1>5, <1>6, KeepsBounds, Zenon

\* A nonempty set of bounded numbers has a largest one.
LEMMA MaxExists ==
  ASSUME NEW K \in Nat, NEW T \in SUBSET (0 .. K), T # {}
  PROVE  \E x \in T : \A y \in T : y <= x
<1> DEFINE D == {d \in Nat : \E t \in T : d = K - t}
<1>1. D \subseteq Nat
  BY Zenon
<1>2. D # {}
  <2>1. PICK t \in T : TRUE
    BY Zenon
  <2>2. K - t \in Nat
    BY SMT
  <2> QED
    BY <2>1, <2>2, Zenon
<1>3. PICK d \in D : \A e \in D : ~(<<e, d>> \in OpToRel(<, Nat))
  <2> HIDE DEF D
  <2> QED
    BY <1>1, <1>2, NatLessThanWellFounded, WFMin, Zenon
<1>4. \A e \in Nat : e < d => <<e, d>> \in OpToRel(<, Nat)
  BY <1>1 DEF OpToRel
<1>5. \A e \in D : ~(e < d)
  BY <1>1, <1>3, <1>4, Zenon
<1>6. PICK x \in T : d = K - x
  BY <1>1, Zenon
<1>7. ASSUME NEW y \in T PROVE y <= x
  <2>1. K - y \in Nat
    BY SMT
  <2>2. K - y \in D
    BY <2>1, Zenon
  <2> HIDE DEF D
  <2>3. ~(K - y < K - x)
    BY <1>5, <1>6, <2>2
  <2> QED
    BY <2>3, SMT
<1> QED
  BY <1>7, Zenon

\* A gateway that is behind gets a change record.
LEMMA LatestChangeType ==
  ASSUME TInv, NEW g \in Gateways
  PROVE  LatestChange(g) \in Changes
<1>1. CASE Changed(g) = {}
  BY <1>1, Constants, Zenon DEF LatestChange
<1>2. CASE Changed(g) # {}
  <2>1. Changed(g) \in SUBSET (0 .. (MaxOps + 2)) /\ MaxOps + 2 \in Nat
    BY FailoverAssumption DEF Changed, Revisions
  <2>2. \E r \in Changed(g) : \A q \in Changed(g) : q <= r
    BY <1>2, <2>1, MaxExists, Zenon
  <2> DEFINE top == CHOOSE r \in Changed(g) : \A q \in Changed(g) : q <= r
  <2>3. top \in Revisions
    BY <2>1, <2>2 DEF Revisions
  <2>4. LatestChange(g) = registry.changes[top]
    BY <1>2 DEF LatestChange
  <2> HIDE DEF top
  <2> QED
    BY <2>3, <2>4 DEF TInv, Typed
<1> QED
  BY <1>1, <1>2, Zenon

\* What a node knows of its fence.
LEMMA CurrentType ==
  ASSUME Typed, NEW n \in Nodes
  PROVE  /\ Current(n) \in Fence
         /\ LoadFence(n) \in [Nodes -> [on : BOOLEAN, fence : Fence]]
<1>1. Current(n) \in Fence
  BY Zenon DEF Current, Typed
<1> QED
  BY <1>1, Zenon DEF LoadFence, Loaded, Typed

\* The runtime and the session a reload leaves.
LEMMA AdoptTypes ==
  ASSUME Typed, NEW g \in Gateways, NEW x \in Session,
         NEW new \in [epoch : Epochs, active : BOOLEAN, rev : Revisions], Adopt(g, new, x)
  PROVE  /\ runtime' \in [Gateways -> [epoch : Epochs, active : BOOLEAN, rev : Revisions]]
         /\ session' \in [Nodes -> Session]
<1>1. Closed(x, runtime[g]) \in Session
  BY Constants, Zenon DEF Closed
<1> QED
  BY <1>1, Zenon DEF Adopt, Typed

\* Reload keeps the types.
LEMMA ReloadTyped ==
  ASSUME Typed, NEW g \in Gateways, Reload(g)
  PROVE  Typed'
<1> DEFINE n == Endpoint[g]
           r == pending[g].rev
           x == pending[g].change.export
           assigned == x.lun # 0 /\ (x.run.active = g \/ g \in x.run.standby)
           RT == [epoch : Epochs, active : BOOLEAN, rev : Revisions]
<1>1. n \in Nodes /\ r \in Revisions /\ x.run.epoch \in Epochs /\ session[n] \in Session
  BY FailoverAssumption, Zenon DEF Typed, Changes, Exports, Run
<1>2. pending' \in [Gateways -> [on : BOOLEAN, rev : Revisions, change : Changes]]
  BY Constants, Zenon DEF Reload, Typed
<1>3. UNCHANGED <<registry, server, members, fence, load, inflight, ops, faults, floor, writes>>
  BY Zenon DEF Reload
<1>4. \/ runtime' = [runtime EXCEPT ![g].rev = r] /\ UNCHANGED <<session, cache>>
      \/ Adopt(g, [NoRuntime EXCEPT !.rev = r], session[n]) /\ UNCHANGED cache
      \/ /\ Adopt(g, [epoch |-> x.run.epoch, active |-> FALSE, rev |-> r], session[n])
         /\ UNCHANGED cache
      \/ /\ cache' = LoadFence(n)
         /\ \/ Adopt(g, [epoch |-> x.run.epoch, active |-> TRUE, rev |-> r],
                     [gateway |-> g, epoch |-> x.run.epoch])
            \/ UNCHANGED <<runtime, session>>
      \/ UNCHANGED <<runtime, session, cache>>
  BY DEF Reload
<1> HIDE DEF n, r, x, assigned
<1>5. /\ [NoRuntime EXCEPT !.rev = r] \in RT
      /\ [epoch |-> x.run.epoch, active |-> FALSE, rev |-> r] \in RT
      /\ [epoch |-> x.run.epoch, active |-> TRUE, rev |-> r] \in RT
      /\ [gateway |-> g, epoch |-> x.run.epoch] \in Session
  BY <1>1, Constants, Zenon DEF NoRuntime, Session, MaybeGateway
<1>6. LoadFence(n) \in [Nodes -> [on : BOOLEAN, fence : Fence]]
  BY <1>1, CurrentType, Zenon
<1>7. runtime' \in [Gateways -> RT] /\ session' \in [Nodes -> Session]
  <2>1. CASE runtime' = [runtime EXCEPT ![g].rev = r] /\ UNCHANGED <<session, cache>>
    BY <1>1, <2>1, Zenon DEF Typed
  <2>2. CASE Adopt(g, [NoRuntime EXCEPT !.rev = r], session[n])
    BY <1>1, <1>5, <2>2, AdoptTypes
  <2>3. CASE Adopt(g, [epoch |-> x.run.epoch, active |-> FALSE, rev |-> r], session[n])
    BY <1>1, <1>5, <2>3, AdoptTypes, Zenon
  <2>4. CASE Adopt(g, [epoch |-> x.run.epoch, active |-> TRUE, rev |-> r],
                   [gateway |-> g, epoch |-> x.run.epoch])
    BY <1>1, <1>5, <2>4, AdoptTypes, Zenon
  <2>5. CASE UNCHANGED <<runtime, session>>
    BY <2>5, Zenon DEF Typed
  <2> QED
    BY <1>4, <2>1, <2>2, <2>3, <2>4, <2>5, Zenon
<1>8. cache' \in [Nodes -> [on : BOOLEAN, fence : Fence]]
  BY <1>4, <1>6 DEF Typed
<1> QED
  BY <1>2, <1>3, <1>7, <1>8 DEF Typed

\* The steps of gateways keep the types.
LEMMA GatewayTInv ==
  ASSUME TInv, NEW g \in Gateways, Fetch(g) \/ Reload(g) \/ GatewayStops(g) \/ Write(g)
  PROVE  TInv'
<1>1. CASE Fetch(g)
  <2> DEFINE c == IF runtime[g].rev < registry.floor THEN Change(registry.export)
                                                     ELSE LatestChange(g)
  <2>1. c \in Changes
    BY LatestChangeType DEF Change, Changes, TInv, Typed
  <2>2. pending' = [pending EXCEPT ![g] = [on |-> TRUE, rev |-> registry.rev, change |-> c]]
    BY <1>1, Zenon DEF Fetch
  <2> HIDE DEF c
  <2> QED
    <3>1. PICK x : x = [on |-> TRUE, rev |-> registry.rev, change |-> c]
      BY Zenon
    <3>2. x \in [on : BOOLEAN, rev : Revisions, change : Changes]
      BY <2>1, <3>1, Zenon DEF TInv, Typed
    <3>3. pending' \in [Gateways -> [on : BOOLEAN, rev : Revisions, change : Changes]]
      BY <2>2, <3>1, <3>2, Zenon DEF TInv, Typed
    <3> QED
      BY <1>1, <3>3, KeepsBounds, Zenon DEF Fetch, receivers, TInv, Typed
<1>2. CASE Reload(g)
  BY <1>2, ReloadTyped, KeepsBounds, Zenon DEF TInv, Reload
<1>3. CASE GatewayStops(g)
  BY <1>3, Constants, KeepsBounds, Zenon DEF GatewayStops, receivers, TInv, Typed
<1>4. CASE Write(g)
  <2> DEFINE n == Endpoint[g]
             e == runtime[g].epoch
             w == [node |-> n, gateway |-> g, epoch |-> e, stale |-> e < floor[n],
                   published |-> e = floor[n], torn |-> Current(n) # fence[n]]
  <2>1. n \in Nodes /\ e \in Epochs
    BY FailoverAssumption, Zenon DEF TInv, Typed
  <2>2. w \in Writes
    BY <2>1 DEF Writes
  <2>3. writes' = writes \/ writes' = writes \cup {w}
    BY <1>4, Zenon DEF Write
  <2>4. cache' = LoadFence(n)
    BY <1>4, Zenon DEF Write
  <2> HIDE DEF w
  <2>5. writes' \subseteq Writes
    BY <2>2, <2>3 DEF TInv, Typed
  <2> QED
    BY <1>4, <2>1, <2>4, <2>5, CurrentType, KeepsBounds, Zenon DEF Write, TInv, Typed
<1> QED
  BY <1>1, <1>2, <1>3, <1>4, Zenon

\* The initial states, where one gateway was promoted, are typed.
LEMMA InitTInv ==
  ASSUME Init
  PROVE  TInv
<1> DEFINE new == [NoRun EXCEPT !.epoch = 1]
           f(g) == [epoch |-> 2, gateway |-> g, rev |-> 2]
           low == Floor(0, 2)
           c(r, run) == IF r \notin (low + 1) .. 2 THEN NoChange
                        ELSE Change(Export(1, IF r = 1 THEN new ELSE run))
<1>1. PICK g \in Gateways, m \in SUBSET Nodes :
        /\ registry = [rev |-> 2, floor |-> low, lun |-> 1, run |-> Promoted(new, g),
                       export |-> Export(1, Promoted(new, g)),
                       changes |-> [r \in Revisions |-> c(r, Promoted(new, g))]]
        /\ server = [s \in Servers |-> Idle]
        /\ members = m
        /\ fence = [n \in Nodes |-> IF n \in m THEN f(g) ELSE NoFence]
        /\ cache = [n \in Nodes |-> IF n \in m THEN Loaded(f(g)) ELSE Unloaded]
        /\ session = [n \in Nodes |-> IF n = Endpoint[g] THEN [gateway |-> g, epoch |-> 2]
                                                         ELSE NoSession]
        /\ load = [n \in Nodes |-> Unloaded]
        /\ inflight = {}
        /\ runtime = [NoRuntimes EXCEPT ![g] = [epoch |-> 2, active |-> TRUE, rev |-> 2]]
        /\ pending = [h \in Gateways |-> NoPending]
        /\ ops = 0
        /\ floor = [n \in Nodes |-> IF n \in m THEN 2 ELSE 0]
        /\ writes = {}
  BY Zenon DEF Init
<1> DEFINE run == Promoted(new, g)
<1>2. new \in Run /\ run \in Run /\ run.epoch = 2
  <2>1. new = [active |-> NoGateway, standby |-> {}, revoked |-> NoGateway, epoch |-> 1]
    BY DEF NoRun
  <2>2. new \in Run
    BY <2>1, Constants DEF Run
  <2>3. new.epoch = 1 /\ new.epoch + 1 \in Epochs
    BY <2>1, Constants
  <2> HIDE DEF new
  <2>4. run \in Run /\ run.epoch = new.epoch + 1
    BY <2>2, <2>3, Zenon DEF Promoted, Run, MaybeGateway
  <2> QED
    BY <2>2, <2>3, <2>4
<1>3. low \in Revisions
  BY Constants, FloorType, Zenon
<1>4. f(g) \in Fence /\ Loaded(f(g)) \in [on : BOOLEAN, fence : Fence]
  BY Constants, Zenon DEF Fence, MaybeGateway, Loaded
<1>5. Export(1, run) \in Exports /\ \A r \in Revisions : c(r, run) \in Changes
  <2> HIDE DEF new, run
  <2>1. Export(1, run) \in Exports /\ Change(Export(1, run)) \in Changes
    BY <1>2, Constants, ExportType, Zenon
  <2>2. Change(Export(1, new)) \in Changes
    BY <1>2, Constants, ExportType
  <2> QED
    BY <2>1, <2>2, Constants, Zenon
<1> HIDE DEF new, run, low, c, f
<1>6. registry \in [rev : Revisions, floor : Revisions, lun : Luns, run : Run,
                    export : Exports, changes : [Revisions -> Changes]]
  BY <1>1, <1>2, <1>3, <1>5, Constants, Zenon DEF run
<1>7. runtime \in [Gateways -> [epoch : Epochs, active : BOOLEAN, rev : Revisions]]
  BY <1>1, Constants, Zenon DEF NoRuntimes
<1>8. session \in [Nodes -> Session]
  BY <1>1, Constants, Zenon DEF Session, MaybeGateway
<1>9. server \in [Servers -> Mutations] /\ \A s \in Servers : server[s] = Idle
  BY <1>1, Constants, Zenon
<1>10. Typed
  BY <1>1, <1>4, <1>6, <1>7, <1>8, <1>9, Constants, FailoverAssumption DEF Typed
<1>11. Bounded
  <2>1. registry.rev = 2 /\ registry.run.epoch = 2 /\ ops = 0
    BY <1>1, <1>2, Zenon DEF run
  <2> QED
    BY <1>9, <2>1 DEF Bounded, Idle
<1>12. ListsWhileProjecting
  BY <1>9 DEF ListsWhileProjecting, Idle
<1> QED
  BY <1>10, <1>11, <1>12, Zenon DEF TInv

\* Every step keeps the types.
LEMMA NextTInv ==
  ASSUME TInv, [Next]_vars
  PROVE  TInv'
<1>1. CASE UNCHANGED vars
  BY <1>1, Zenon DEF vars, TInv, Typed, Bounded, ListsWhileProjecting
<1>2. ASSUME NEW s \in Servers, Mutate(s) PROVE TInv'
  BY <1>2, MutateTInv, PromoteTInv DEF Mutate
<1>3. ASSUME NEW s \in Servers, Save(s) \/ ProjectionFails(s) \/ Abandon(s) PROVE TInv'
  BY <1>3, SaveTInv, GiveUpTInv, Zenon
<1>4. ASSUME NEW s \in Servers, NEW n \in Nodes, Project(s, n) \/ ProjectTimesOut(s, n)
      PROVE  TInv'
  BY <1>4, ProjectTInv
<1>5. CASE \/ \E m \in inflight : LateApply(m)
           \/ \E n \in Nodes : Join(n) \/ StartRead(n) \/ FinishRead(n) \/ Restart(n)
  BY <1>5, NodeTInv, Zenon
<1>6. CASE \E g \in Gateways : Fetch(g) \/ Reload(g) \/ GatewayStops(g) \/ Write(g)
  BY <1>6, GatewayTInv
<1> QED
  BY <1>1, <1>2, <1>3, <1>4, <1>5, <1>6 DEF Next

\* TInv is the type invariant with the bounds it needs.
LEMMA FailoverTInv == Spec => []TInv
<1>1. Init => TInv
  BY InitTInv
<1>2. TInv /\ [Next]_vars => TInv'
  BY NextTInv
<1> QED
  BY <1>1, <1>2, PTL DEF Spec

\* Every reachable state of registry, mutations, nodes and gateways is typed: with
\* MaxOps mutations no revision or epoch passes MaxOps + 2, whatever updates the
\* sbs-service processes lose (mutateISCSIRegistryWithPrecommit).
THEOREM FailoverTypes == Spec => []FailoverTypeOK
<1>1. TInv => FailoverTypeOK
  BY Zenon DEF TInv, Typed, ListsWhileProjecting, FailoverTypeOK, Mutations, Exports
<1> QED
  BY <1>1, FailoverTInv, PTL

-----------------------------------------------------------------------------
(* What a step does to fences, projections, published epochs and writes.   *)

\* ApplyISCSIWriterFence only moves a node to a later epoch, and what it accepts
\* is what the node has afterwards.
LEMMA ApplyGrows ==
  ASSUME Typed, NEW n \in Nodes, NEW f \in Fence, ApplyISCSIWriterFence(n, f)
  PROVE  /\ \A k \in Nodes : fence'[k] = fence[k] \/ fence'[k].epoch > fence[k].epoch
         /\ Accepts(fence[n], f) => fence'[n] = f
<1>1. CASE Accepts(fence[n], f) /\ f # fence[n]
  <2>1. fence' = [fence EXCEPT ![n] = f]
    BY <1>1, Zenon DEF ApplyISCSIWriterFence
  <2>2. f.epoch > fence[n].epoch
    BY <1>1, Zenon DEF Accepts
  <2> QED
    BY <2>1, <2>2, Zenon DEF Typed
<1>2. CASE ~(Accepts(fence[n], f) /\ f # fence[n])
  BY <1>2, Zenon DEF ApplyISCSIWriterFence, receivers
<1> QED
  BY <1>1, <1>2, Zenon

\* No step takes the disk of a node back to an earlier epoch, or to another fence
\* of the same epoch.
LEMMA FenceGrows ==
  ASSUME TInv, [Next]_vars
  PROVE  \A n \in Nodes : fence'[n] = fence[n] \/ fence'[n].epoch > fence[n].epoch
<1>1. ASSUME NEW s \in Servers, NEW n \in Nodes, Project(s, n)
      PROVE  \A k \in Nodes : fence'[k] = fence[k] \/ fence'[k].epoch > fence[k].epoch
  BY <1>1, ApplyGrows, Zenon DEF Project, TInv, Typed, Mutations
<1>2. ASSUME NEW m \in inflight, LateApply(m)
      PROVE  \A k \in Nodes : fence'[k] = fence[k] \/ fence'[k].epoch > fence[k].epoch
  <2>1. m[1] \in Nodes /\ m[2] \in Fence
    BY Zenon DEF TInv, Typed
  <2> QED
    BY <1>2, <2>1, ApplyGrows, Zenon DEF LateApply, TInv
<1>3. CASE fence' = fence
  BY <1>3
<1>4. \/ fence' = fence
      \/ \E s \in Servers, n \in Nodes : Project(s, n)
      \/ \E m \in inflight : LateApply(m)
  BY Zenon DEF Next, vars, Mutate, DemoteISCSIFailover, ExportISCSILUN, UnexportISCSILUN,
         SetISCSILUNMode, StandbyISCSIFailover, RevokeStaleISCSIFailover, Begin, Promote,
         Save, ProjectionFails, Abandon, ProjectTimesOut, Join, StartRead, FinishRead,
         Restart, Fetch, Reload, GatewayStops, Write, receivers
<1> QED
  BY <1>1, <1>2, <1>3, <1>4

\* A projection that none refused is a new one, or goes on with the nodes that
\* accepted its fence.
Advances(s) ==
  /\ server[s].pc = "project" /\ ~server[s].failed
  /\ server'[s].fence = server[s].fence /\ server'[s].listed = server[s].listed
  /\ \A n \in server[s].listed :
       n \notin server'[s].todo => n \notin server[s].todo \/ fence'[n] = server[s].fence

\* How a projection that may still be published came about.
LEMMA ProjectionStep ==
  ASSUME TInv, [Next]_vars, NEW s \in Servers,
         server'[s].pc = "project", ~server'[s].failed
  PROVE  \/ server'[s].listed = members /\ server'[s].todo = members
         \/ Advances(s)
<1>1. server'[s] = server[s] => Advances(s)
  BY Zenon DEF Advances
<1>2. ASSUME NEW t \in Servers, server' = [server EXCEPT ![t] = Idle]
      PROVE  Advances(s)
  BY <1>1, <1>2, Zenon DEF Idle, TInv, Typed
<1>3. ASSUME NEW t \in Servers, NEW lun, NEW run, Begin(t, lun, run)
      PROVE  Advances(s)
  <2> DEFINE m == [Idle EXCEPT !.pc = "save", !.rev = registry.rev, !.floor = registry.floor,
                     !.lun = <<registry.lun, lun>>, !.run = <<registry.run, run>>]
  <2>1. server' = [server EXCEPT ![t] = m]
    BY <1>3 DEF Begin
  <2>2. m.pc = "save"
    BY Zenon DEF Idle
  <2> HIDE DEF m
  <2> QED
    BY <1>1, <2>1, <2>2 DEF TInv, Typed
<1>4. ASSUME NEW t \in Servers, NEW g \in Gateways, Promote(t, g)
      PROVE  (server'[s].listed = members /\ server'[s].todo = members) \/ Advances(s)
  <2> DEFINE m == [Idle EXCEPT !.pc = "project", !.rev = registry.rev,
                     !.floor = registry.floor, !.lun = <<registry.lun, registry.lun>>,
                     !.run = <<registry.run, Promoted(registry.run, g)>>,
                     !.fence = [epoch |-> Promoted(registry.run, g).epoch, gateway |-> g,
                                rev |-> registry.rev + 1],
                     !.listed = members, !.todo = members]
  <2>1. server' = [server EXCEPT ![t] = m]
    BY <1>4 DEF Promote
  <2>2. m.listed = members /\ m.todo = members
    BY Zenon DEF Idle
  <2> HIDE DEF m
  <2> QED
    BY <1>1, <2>1, <2>2 DEF TInv, Typed
<1>5. ASSUME NEW t \in Servers, NEW n \in Nodes, NEW ok \in BOOLEAN, Projected(t, n, ok),
             server[t].pc = "project", ok => fence'[n] = server[t].fence
      PROVE  Advances(s)
  <2> DEFINE m == [server[t] EXCEPT !.todo = @ \ {n}, !.failed = @ \/ ~ok]
  <2>1. server' = [server EXCEPT ![t] = m]
    BY <1>5, Zenon DEF Projected
  <2>2. server[t] \in Mutations
    BY DEF TInv, Typed
  <2>3. /\ m.pc = server[t].pc /\ m.fence = server[t].fence /\ m.listed = server[t].listed
        /\ m.todo = server[t].todo \ {n} /\ m.failed = (server[t].failed \/ ~ok)
    BY <2>2 DEF Mutations
  <2>4. s # t => server'[s] = server[s]
    BY <2>1 DEF TInv, Typed
  <2>5. server'[t] = m
    BY <2>1 DEF TInv, Typed
  <2> HIDE DEF m
  <2>6. ASSUME s = t PROVE Advances(s)
    <3>1. ~server[s].failed /\ ok
      BY <2>3, <2>5, <2>6, Zenon
    <3> QED
      BY <1>5, <2>3, <2>5, <2>6, <3>1, Zenon DEF Advances
  <2> QED
    BY <1>1, <2>4, <2>6
<1>6. ASSUME NEW t \in Servers, Mutate(t)
      PROVE  (server'[s].listed = members /\ server'[s].todo = members) \/ Advances(s)
  BY <1>3, <1>4, <1>6, Zenon DEF Mutate, DemoteISCSIFailover, ExportISCSILUN, UnexportISCSILUN,
         SetISCSILUNMode, StandbyISCSIFailover, RevokeStaleISCSIFailover
<1>7. ASSUME NEW t \in Servers, Save(t) \/ ProjectionFails(t) \/ Abandon(t)
      PROVE  Advances(s)
  BY <1>2, <1>7, Zenon DEF Save, ProjectionFails, Abandon
<1>8. ASSUME NEW t \in Servers, NEW n \in Nodes, Project(t, n)
      PROVE  Advances(s)
  <2>1. Accepts(fence[n], server[t].fence) \in BOOLEAN
    BY DEF Accepts
  <2>2. Accepts(fence[n], server[t].fence) => fence'[n] = server[t].fence
    BY <1>8, ApplyGrows, Zenon DEF Project, TInv, Typed, Mutations
  <2> QED
    BY <1>5, <1>8, <2>1, <2>2, Zenon DEF Project
<1>9. ASSUME NEW t \in Servers, NEW n \in Nodes, ProjectTimesOut(t, n)
      PROVE  Advances(s)
  BY <1>5, <1>9, Zenon DEF ProjectTimesOut
<1>10. \/ server' = server
       \/ \E t \in Servers : \/ Mutate(t) \/ Save(t) \/ ProjectionFails(t) \/ Abandon(t)
                             \/ \E n \in Nodes : Project(t, n) \/ ProjectTimesOut(t, n)
  BY Zenon DEF Next, vars, LateApply, Join, StartRead, FinishRead, Restart, Fetch, Reload,
         GatewayStops, Write
<1> QED
  BY <1>1, <1>6, <1>7, <1>8, <1>9, <1>10, Zenon

\* A published epoch is one all the nodes it covers have acknowledged.
LEMMA FloorStep ==
  ASSUME TInv, [Next]_vars
  PROVE  \/ floor' = floor
         \/ \E s \in Servers :
              /\ server[s].pc = "project" /\ ~server[s].failed /\ server[s].todo = {}
              /\ fence' = fence /\ writes' = writes
              /\ floor' = [n \in Nodes |-> IF n \in server[s].listed
                                             THEN Larger(floor[n], server[s].fence.epoch)
                                             ELSE floor[n]]
<1>1. ASSUME NEW s \in Servers, Save(s), server[s].pc # "project" PROVE floor' = floor
  <2>1. server[s].listed = {}
    BY <1>1 DEF TInv, ListsWhileProjecting
  <2>2. floor' = [n \in Nodes |-> IF n \in server[s].listed
                                    THEN Larger(floor[n], server[s].fence.epoch)
                                    ELSE floor[n]]
    BY <1>1, Zenon DEF Save
  <2>3. floor' = [n \in Nodes |-> floor[n]]
    BY <2>1, <2>2
  <2> QED
    BY <2>3, Zenon DEF TInv, Typed
<1>2. ASSUME NEW s \in Servers, Save(s), server[s].pc = "project"
      PROVE  /\ ~server[s].failed /\ server[s].todo = {} /\ fence' = fence /\ writes' = writes
             /\ floor' = [n \in Nodes |-> IF n \in server[s].listed
                                            THEN Larger(floor[n], server[s].fence.epoch)
                                            ELSE floor[n]]
  BY <1>2, Zenon DEF Save, ReadyToSave, AllProjected, receivers
<1>3. floor' = floor \/ \E s \in Servers : Save(s)
  BY Zenon DEF Next, vars, Mutate, DemoteISCSIFailover, ExportISCSILUN, UnexportISCSILUN,
         SetISCSILUNMode, StandbyISCSIFailover, RevokeStaleISCSIFailover, Begin, Promote,
         Project, ProjectionFails, Abandon, ProjectTimesOut, LateApply, Join, StartRead,
         FinishRead, Restart, Fetch, Reload, GatewayStops, Write
<1> QED
  BY <1>1, <1>2, <1>3, Zenon

\* A new write that found memory and disk alike was checked with the node's fence.
Checked(w) ==
  /\ w.stale => w.epoch < floor[w.node]
  /\ w.published => w.epoch = floor[w.node]
  /\ floor[w.node] > 0
  /\ ~w.torn => fence[w.node].epoch = w.epoch /\ fence[w.node].gateway = w.gateway

\* Only a checked write is added, and it changes no fence.
LEMMA WriteStep ==
  ASSUME TInv, PublishedIsFenced, [Next]_vars
  PROVE  \/ writes' = writes
         \/ \E w \in Writes : /\ writes' = writes \cup {w} /\ Checked(w)
                              /\ UNCHANGED <<fence, floor, server>>
<1>1. ASSUME NEW g \in Gateways, Write(g), writes' # writes
      PROVE  \E w \in Writes : /\ writes' = writes \cup {w} /\ Checked(w)
                               /\ UNCHANGED <<fence, floor, server>>
  <2> DEFINE n == Endpoint[g]
             e == runtime[g].epoch
             w == [node |-> n, gateway |-> g, epoch |-> e, stale |-> e < floor[n],
                   published |-> e = floor[n], torn |-> Current(n) # fence[n]]
  <2>1. n \in Nodes /\ e \in Epochs
    BY FailoverAssumption DEF TInv, Typed
  <2>2. /\ writes' = writes \cup {w} /\ ValidToken(n, g, e) /\ floor[n] > 0
        /\ UNCHANGED <<fence, floor, server>>
    BY <1>1, Zenon DEF Write
  <2>3. w \in Writes
    BY <2>1 DEF Writes
  <2>4. /\ w.node = n /\ w.gateway = g /\ w.epoch = e /\ (w.stale => e < floor[n])
        /\ (w.published => e = floor[n]) /\ (~w.torn => Current(n) = fence[n])
    BY Zenon
  <2>5. fence[n] # NoFence
    <3>1. fence[n].epoch >= floor[n] /\ floor[n] \in Epochs /\ fence[n].epoch \in Epochs
      BY <2>1, Zenon DEF PublishedIsFenced, TInv, Typed, Fence
    <3>2. fence[n].epoch # 0
      <4>1. fence[n].epoch \in Nat /\ floor[n] \in Nat
        BY <3>1, Numerals, Zenon
      <4> HIDE DEF n
      <4> QED
        BY <2>2, <3>1, <4>1
    <3> QED
      BY <3>2 DEF NoFence
  <2> HIDE DEF w, n, e
  <2>6. Checked(w)
    BY <2>2, <2>4, <2>5, Zenon DEF Checked, ValidToken
  <2> QED
    BY <2>2, <2>3, <2>6, Zenon
<1>2. writes' = writes \/ \E g \in Gateways : Write(g)
  BY Zenon DEF Next, vars, Mutate, DemoteISCSIFailover, ExportISCSILUN, UnexportISCSILUN,
         SetISCSILUNMode, StandbyISCSIFailover, RevokeStaleISCSIFailover, Begin, Promote,
         Project, ProjectionFails, Abandon, ProjectTimesOut, LateApply, Join, StartRead,
         FinishRead, Restart, Fetch, Reload, GatewayStops, Save
<1> QED
  BY <1>1, <1>2, Zenon

\* The nodes that may anchor stay registered.
LEMMA MembersGrow ==
  ASSUME TInv, [Next]_vars
  PROVE  members \subseteq members'
BY Zenon DEF Next, vars, Mutate, DemoteISCSIFailover, ExportISCSILUN, UnexportISCSILUN,
       SetISCSILUNMode, StandbyISCSIFailover, RevokeStaleISCSIFailover, Begin, Promote,
       Project, ProjectionFails, Abandon, ProjectTimesOut, LateApply, Join, StartRead,
       FinishRead, Restart, Fetch, Reload, GatewayStops, Save, Write

-----------------------------------------------------------------------------
(* The fence.                                                              *)

\* The numbers compared below are numbers.
LEMMA Numbers ==
  ASSUME TInv
  PROVE  /\ \A n \in Nodes : fence[n].epoch \in Nat /\ floor[n] \in Nat
         /\ \A s \in Servers : server[s].fence.epoch \in Nat /\ server[s].listed \subseteq Nodes
         /\ \A w \in writes : w.epoch \in Nat /\ w.node \in Nodes
BY FailoverAssumption DEF TInv, Typed, Fence, Epochs, Mutations, Writes

\* A projection's acknowledgements stay good.
LEMMA KeepsProjectionAcks ==
  ASSUME TInv, TInv', ProjectionAcks, [Next]_vars
  PROVE  ProjectionAcks'
<1> SUFFICES ASSUME NEW s \in Servers, server'[s].pc = "project", ~server'[s].failed,
                    NEW n \in server'[s].listed \ server'[s].todo
             PROVE  fence'[n].epoch > server'[s].fence.epoch \/ fence'[n] = server'[s].fence
  BY Zenon DEF ProjectionAcks
<1>1. Advances(s)
  BY ProjectionStep, Zenon
<1>2. n \in Nodes /\ n \in server[s].listed
  BY <1>1, Numbers, Zenon DEF Advances
<1>3. n \notin server[s].todo \/ fence'[n] = server[s].fence
  BY <1>1, <1>2, Zenon DEF Advances
<1>4. CASE n \notin server[s].todo
  <2>1. fence[n].epoch > server[s].fence.epoch \/ fence[n] = server[s].fence
    BY <1>1, <1>2, <1>4, Zenon DEF ProjectionAcks, Advances
  <2>2. fence'[n] = fence[n] \/ fence'[n].epoch > fence[n].epoch
    BY <1>2, FenceGrows
  <2>3. fence[n].epoch \in Nat /\ fence'[n].epoch \in Nat /\ server[s].fence.epoch \in Nat
    BY <1>2, Numbers, Numerals, Zenon DEF TInv, Typed, Fence
  <2> QED
    BY <1>1, <2>1, <2>2, <2>3 DEF Advances
<1> QED
  BY <1>1, <1>3, <1>4, Zenon DEF Advances

\* What is published stays fenced.
LEMMA KeepsPublished ==
  ASSUME TInv, TInv', ProjectionAcks, PublishedIsFenced, [Next]_vars
  PROVE  PublishedIsFenced'
<1> SUFFICES ASSUME NEW n \in Nodes PROVE fence'[n].epoch >= floor'[n]
  BY Zenon DEF PublishedIsFenced
<1>1. /\ fence[n].epoch \in Nat /\ floor[n] \in Nat /\ fence[n].epoch >= floor[n]
  BY Numbers, Zenon DEF PublishedIsFenced
<1>2. fence'[n].epoch \in Nat
  BY FailoverAssumption DEF TInv, Typed, Fence, Epochs
<1>3. fence'[n] = fence[n] \/ fence'[n].epoch > fence[n].epoch
  BY FenceGrows, Zenon
<1>4. CASE floor' = floor
  BY <1>1, <1>2, <1>3, <1>4
<1>5. ASSUME NEW s \in Servers, server[s].pc = "project", ~server[s].failed,
             server[s].todo = {}, fence' = fence, n \in server[s].listed
      PROVE  fence'[n].epoch >= Larger(floor[n], server[s].fence.epoch)
  <2>1. fence[n].epoch > server[s].fence.epoch \/ fence[n] = server[s].fence
    BY <1>5, Zenon DEF ProjectionAcks
  <2>2. server[s].fence.epoch \in Nat
    BY Numbers, Zenon
  <2> QED
    BY <1>1, <1>5, <2>1, <2>2 DEF Larger
<1> QED
  BY <1>1, <1>4, <1>5, FloorStep

\* Writes stay behind the fence of their node.
LEMMA KeepsWrites ==
  ASSUME TInv, TInv', PublishedIsFenced, StaleWriterFenced, WritesFollowFence,
         OneWriterAtNode, [Next]_vars
  PROVE  StaleWriterFenced' /\ WritesFollowFence' /\ OneWriterAtNode'
<1>1. ASSUME NEW w \in writes, ~w.torn
      PROVE  \/ fence'[w.node].epoch > w.epoch
             \/ fence'[w.node].epoch = w.epoch /\ fence'[w.node].gateway = w.gateway
  <2>1. w.epoch \in Nat /\ w.node \in Nodes /\ fence[w.node].epoch \in Nat
    BY Numbers
  <2>2. fence'[w.node].epoch \in Nat
    BY <2>1, Numerals, Zenon DEF TInv, Typed, Fence
  <2>3. fence'[w.node] = fence[w.node] \/ fence'[w.node].epoch > fence[w.node].epoch
    BY <2>1, FenceGrows, Zenon
  <2> QED
    BY <1>1, <2>1, <2>2, <2>3 DEF WritesFollowFence
<1>2. CASE writes' = writes
  BY <1>1, <1>2 DEF StaleWriterFenced, WritesFollowFence, OneWriterAtNode
<1>3. ASSUME NEW v \in Writes, writes' = writes \cup {v}, Checked(v), fence' = fence
      PROVE  StaleWriterFenced' /\ WritesFollowFence' /\ OneWriterAtNode'
  <2>1. v.node \in Nodes /\ v.epoch \in Nat
    BY FailoverAssumption DEF Writes, Epochs
  <2>2. fence[v.node].epoch \in Nat /\ floor[v.node] \in Nat /\ fence[v.node].epoch >= floor[v.node]
    BY <2>1, Numbers, Zenon DEF PublishedIsFenced
  <2>3. v.stale => v.torn
    BY <1>3, <2>1, <2>2 DEF Checked
  <2>4. StaleWriterFenced'
    BY <1>3, <2>3, Zenon DEF StaleWriterFenced
  <2>5. WritesFollowFence'
    BY <1>1, <1>3, Zenon DEF WritesFollowFence, Checked
  <2>6. ASSUME NEW w \in writes, ~v.torn, ~w.torn, v.epoch = w.epoch, v.node = w.node
        PROVE  v.gateway = w.gateway
    BY <1>3, <2>2, <2>6 DEF Checked, WritesFollowFence
  <2>7. OneWriterAtNode'
    BY <1>3, <2>6 DEF OneWriterAtNode
  <2> QED
    BY <2>4, <2>5, <2>7, Zenon
<1> QED
  BY <1>2, <1>3, WriteStep, Zenon

\* A step makes no claim but the one of a new fence at the anchor.
LEMMA NewClaim ==
  ASSUME TInv, TInv', ProjectionAcks, PublishedIsFenced, [Next]_vars, NEW n \in Nodes,
         Anchor(n), NEW e \in Epochs, NEW g \in MaybeGateway, Claim(n, e, g)'
  PROVE  Claim(n, e, g) \/ Holds(fence'[n], e, g)
<1>1. ASSUME NEW m \in Nodes, floor'[m] > 0, fence'[m].epoch = floor'[m],
             Holds(fence'[m], e, g)
      PROVE  Claim(n, e, g)
  <2>1. fence[m].epoch \in Nat /\ floor[m] \in Nat /\ fence[m].epoch >= floor[m]
    BY Numbers, Zenon DEF PublishedIsFenced
  <2>2. fence'[m] = fence[m] \/ fence'[m].epoch > fence[m].epoch
    BY FenceGrows
  <2>3. floor[m] = floor'[m] => Claim(n, e, g)
    <3> SUFFICES ASSUME floor[m] = floor'[m] PROVE Claim(n, e, g)
      BY Zenon
    <3>1. fence'[m] = fence[m]
      BY <1>1, <2>1, <2>2
    <3> QED
      BY <1>1, <3>1, Zenon DEF Claim
  <2>4. CASE floor' = floor
    BY <2>3, <2>4
  <2>5. ASSUME NEW s \in Servers, server[s].pc = "project", ~server[s].failed,
               server[s].todo = {}, fence' = fence, m \in server[s].listed,
               floor'[m] = server[s].fence.epoch
        PROVE  Claim(n, e, g)
    <3>1. fence[m].epoch > server[s].fence.epoch \/ fence[m] = server[s].fence
      BY <2>5, Zenon DEF ProjectionAcks
    <3>2. fence[m] = server[s].fence
      BY <1>1, <2>1, <2>5, <3>1
    <3> QED
      BY <1>1, <2>5, <3>2, Zenon DEF Claim
  <2> QED
    BY <2>3, <2>4, <2>5, FloorStep, Zenon DEF Larger
<1>2. ASSUME NEW s \in Servers, server'[s].pc = "project", ~server'[s].failed,
             n \notin server'[s].todo, Holds(server'[s].fence, e, g)
      PROVE  Claim(n, e, g) \/ Holds(fence'[n], e, g)
  <2>1. Advances(s)
    BY <1>2, ProjectionStep, Zenon DEF Anchor
  <2>2. n \in server[s].listed
    BY <2>1, Zenon DEF Anchor, Advances
  <2>3. n \notin server[s].todo \/ fence'[n] = server[s].fence
    BY <1>2, <2>1, <2>2, Zenon DEF Advances
  <2>4. Holds(server[s].fence, e, g)
    BY <1>2, <2>1, Zenon DEF Advances
  <2> QED
    BY <2>1, <2>3, <2>4, Zenon DEF Claim, Advances
<1>3. ASSUME NEW w \in writes', ~w.torn, w.published, Holds(w, e, g)
      PROVE  Claim(n, e, g)
  <2>1. CASE w \in writes
    BY <1>3, <2>1, Zenon DEF Claim
  <2>2. CASE w \in Writes /\ Checked(w)
    <3>1. w.node \in Nodes
      BY <2>2, Zenon DEF Writes
    <3>2. /\ floor[w.node] > 0 /\ fence[w.node].epoch = floor[w.node]
          /\ Holds(fence[w.node], e, g)
      BY <1>3, <2>2 DEF Checked, Holds
    <3> QED
      BY <3>1, <3>2, Zenon DEF Claim
  <2> QED
    BY <2>1, <2>2, WriteStep
<1> QED
  BY <1>1, <1>2, <1>3, Zenon DEF Claim

\* An anchor stays one.
LEMMA KeepsAnchor ==
  ASSUME TInv, TInv', ProjectionAcks, PublishedIsFenced, [Next]_vars, NEW n \in Nodes,
         Anchor(n)
  PROVE  Anchor(n)'
<1>1. n \in members'
  BY MembersGrow, Zenon DEF Anchor
<1>2. ASSUME NEW s \in Servers, server'[s].pc = "project", ~server'[s].failed
      PROVE  n \in server'[s].listed
  BY <1>2, ProjectionStep DEF Anchor, Advances
<1>3. /\ fence[n].epoch \in Nat /\ fence'[n].epoch \in Nat
      /\ fence'[n] = fence[n] \/ fence'[n].epoch > fence[n].epoch
  BY FenceGrows, Numerals, Zenon DEF TInv, Typed, Fence
<1>4. \A e \in Epochs : \A g \in MaybeGateway : Claim(n, e, g) => e <= fence[n].epoch
  BY DEF Anchor
<1>5. ASSUME NEW e \in Epochs, NEW g \in MaybeGateway, Claim(n, e, g)'
      PROVE  /\ Claim(n, e, g) \/ Holds(fence'[n], e, g)
             /\ e \in Nat /\ e <= fence'[n].epoch
             /\ e <= fence[n].epoch => Claim(n, e, g)
  <2>1. Claim(n, e, g) \/ Holds(fence'[n], e, g)
    BY <1>5, NewClaim, Zenon
  <2>2. e \in Nat
    BY FailoverAssumption DEF Epochs
  <2>3. CASE Claim(n, e, g)
    BY <1>3, <1>4, <2>2, <2>3
  <2>4. CASE Holds(fence'[n], e, g)
    <3>1. e = fence'[n].epoch
      BY <2>4, Zenon DEF Holds
    <3>2. fence'[n] = fence[n] => Claim(n, e, g)
      BY <2>4, Zenon DEF Claim
    <3> QED
      BY <1>3, <2>1, <2>2, <3>1, <3>2
  <2> QED
    BY <2>1, <2>3, <2>4, Zenon
<1>6. ASSUME NEW e \in Epochs, NEW g \in MaybeGateway, NEW h \in MaybeGateway,
             Claim(n, e, g)', Claim(n, e, h)'
      PROVE  g = h
  <2>1. CASE e <= fence[n].epoch
    BY <1>5, <1>6, <2>1, Zenon DEF Anchor
  <2>2. CASE ~(e <= fence[n].epoch)
    BY <1>4, <1>5, <1>6, <2>2, Zenon DEF Holds
  <2> QED
    BY <2>1, <2>2
<1>7. \A e \in Epochs : \A g, h \in MaybeGateway :
        Claim(n, e, g)' => e <= fence'[n].epoch /\ (Claim(n, e, h)' => g = h)
  BY <1>5, <1>6
<1> QED
  BY <1>1, <1>2, <1>7, Zenon DEF Anchor

\* The initial states have the invariant: the endpoint of the first gateway is an
\* anchor.
LEMMA InitSInv ==
  ASSUME Init
  PROVE  SInv
<1>1. TInv
  BY InitTInv
<1> DEFINE f(g) == [epoch |-> 2, gateway |-> g, rev |-> 2]
<1>2. PICK g \in Gateways, m \in SUBSET Nodes :
        /\ Endpoint[g] \in m
        /\ server = [s \in Servers |-> Idle]
        /\ members = m
        /\ fence = [n \in Nodes |-> IF n \in m THEN f(g) ELSE NoFence]
        /\ floor = [n \in Nodes |-> IF n \in m THEN 2 ELSE 0]
        /\ writes = {}
  BY DEF Init
<1>3. \A s \in Servers : server[s].pc # "project"
  BY <1>2, Zenon DEF Idle
<1>4. \A n \in Nodes : /\ n \in m => fence[n].epoch = 2 /\ fence[n].gateway = g /\ floor[n] = 2
                       /\ n \notin m => fence[n].epoch = 0 /\ floor[n] = 0
  BY <1>2, Zenon DEF NoFence
<1>5. Endpoint[g] \in Nodes /\ Endpoint[g] \in members
  BY <1>2, Zenon
<1>6. ASSUME NEW e \in Epochs, NEW h \in MaybeGateway, Claim(Endpoint[g], e, h)
      PROVE  e = 2 /\ h = g
  <2>1. ~\E t \in Servers : /\ server[t].pc = "project" /\ ~server[t].failed
                            /\ Endpoint[g] \notin server[t].todo
                            /\ Holds(server[t].fence, e, h)
    BY <1>3, Zenon
  <2>2. ~\E w \in writes : ~w.torn /\ w.published /\ Holds(w, e, h)
    BY <1>2, Zenon
  <2>3. CASE Holds(fence[Endpoint[g]], e, h)
    BY <1>2, <1>4, <1>5, <2>3, Zenon DEF Holds
  <2>4. CASE \E k \in Nodes : /\ floor[k] > 0 /\ fence[k].epoch = floor[k]
                              /\ Holds(fence[k], e, h)
    <3>1. PICK k \in Nodes : floor[k] > 0 /\ Holds(fence[k], e, h)
      BY <2>4, Zenon
    <3>2. k \in m
      BY <1>4, <3>1
    <3> QED
      BY <1>4, <3>1, <3>2, Zenon DEF Holds
  <2> QED
    BY <1>6, <2>1, <2>2, <2>3, <2>4, Zenon DEF Claim
<1>7. Anchor(Endpoint[g])
  <2>1. fence[Endpoint[g]].epoch = 2 /\ 2 <= 2
    BY <1>2, <1>4, <1>5
  <2> QED
    BY <1>3, <1>5, <1>6, <2>1, Zenon DEF Anchor
<1>8. ProjectionAcks
  BY <1>3, Zenon DEF ProjectionAcks
<1>9. PublishedIsFenced
  BY <1>4 DEF PublishedIsFenced
<1> QED
  BY <1>2, <1>5, <1>7, <1>8, <1>9, Zenon
     DEF SInv, StaleWriterFenced, WritesFollowFence, OneWriterAtNode

\* The invariant behind the three safety properties of the fence.
LEMMA FailoverSInv == Spec => [](TInv /\ SInv)
<1>1. Init => TInv /\ SInv
  BY InitTInv, InitSInv
<1>2. TInv /\ SInv /\ [Next]_vars => TInv' /\ SInv'
  <2> SUFFICES ASSUME TInv, SInv, [Next]_vars PROVE TInv' /\ SInv'
    OBVIOUS
  <2>1. TInv'
    BY NextTInv, Zenon
  <2>2. ProjectionAcks' /\ PublishedIsFenced'
    BY <2>1, KeepsProjectionAcks, KeepsPublished, Zenon DEF SInv
  <2>3. StaleWriterFenced' /\ WritesFollowFence' /\ OneWriterAtNode'
    BY <2>1, KeepsWrites DEF SInv
  <2>4. PICK n \in Nodes : Anchor(n)
    BY Zenon DEF SInv
  <2>5. Anchor(n)'
    BY <2>1, <2>4, KeepsAnchor DEF SInv
  <2> QED
    BY <2>1, <2>2, <2>3, <2>5, Zenon DEF SInv
<1> QED
  BY <1>1, <1>2, PTL DEF Spec

\* The disks of the nodes a promotion was projected to hold its epoch or a later
\* one from the save on, whatever calls are late, repeated or concurrent
\* (projectISCSIWriterFence, ApplyISCSIWriterFence, saveISCSIRegistryStateDelta).
THEOREM FailoverPublishedIsFenced == Spec => []PublishedIsFenced
<1>1. TInv /\ SInv => PublishedIsFenced
  BY DEF SInv
<1> QED
  BY <1>1, FailoverSInv, PTL

\* A node accepts no write of an epoch before the one published over it, but for
\* a node whose memory an unlocked reader overwrote (validateISCSIWriterFence,
\* currentISCSIWriterFence).
THEOREM FailoverStaleWriterFenced == Spec => []StaleWriterFenced
<1>1. TInv /\ SInv => StaleWriterFenced
  BY Zenon DEF SInv
<1> QED
  BY <1>1, FailoverSInv, PTL

\* One gateway writes under an epoch at a node, and under a published epoch at all
\* of them, however many sbs-service processes promote from one registry revision:
\* every promotion asks the nodes that were registered first
\* (PromoteISCSIFailover, ApplyISCSIWriterFence).
THEOREM FailoverOneWriterPerEpoch == Spec => []OneWriterPerEpoch
<1>1. TInv /\ SInv => OneWriterPerEpoch
  <2> SUFFICES ASSUME TInv, SInv, NEW v \in writes, NEW w \in writes,
                      ~v.torn, ~w.torn, v.epoch = w.epoch,
                      v.node = w.node \/ (v.published /\ w.published)
               PROVE  v.gateway = w.gateway
    BY Zenon DEF OneWriterPerEpoch
  <2>1. CASE v.node = w.node
    BY <2>1, Zenon DEF SInv, OneWriterAtNode
  <2>2. CASE v.published /\ w.published
    <3>1. PICK n \in Nodes : Anchor(n)
      BY DEF SInv
    <3>2. Claim(n, v.epoch, v.gateway) /\ Claim(n, v.epoch, w.gateway)
      BY <2>2, Zenon DEF Claim, Holds
    <3>3. v.epoch \in Epochs /\ v.gateway \in MaybeGateway /\ w.gateway \in MaybeGateway
      BY DEF TInv, Typed, Writes, MaybeGateway
    <3> QED
      BY <3>1, <3>2, <3>3, Zenon DEF Anchor
  <2> QED
    BY <2>1, <2>2, Zenon
<1> QED
  BY <1>1, FailoverSInv, PTL
=============================================================================
