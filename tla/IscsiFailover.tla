--------------------------- MODULE IscsiFailover ---------------------------
(***************************************************************************)
(* Failover of one iSCSI export between gateways, and the writer fence that *)
(* keeps a deposed gateway from writing.                                    *)
(*                                                                         *)
(* sbs-service keeps the export's failover runtime in its registry.  A      *)
(* mutation loads the registry, changes it, and saves what differs in one   *)
(* transaction; the mutex it holds is the process's own, and the save does  *)
(* not look at the revision it overwrites.  A promotion also projects a     *)
(* writer fence to every registered sbs-data node and saves only when all   *)
(* acknowledged.  A node keeps its fence on disk and a copy in memory,      *)
(* which it reads lazily after a restart, under the fence lock for writes   *)
(* and opens and without it for reads.  A gateway polls the registry, opens *)
(* the volume when it is the active one, and writes with the token of the   *)
(* runtime it serves.                                                       *)
(*                                                                         *)
(* The export has one lease id and one volume, and every request has a new  *)
(* idempotency key.  A call whose answer is lost may reach its node later   *)
(* or never.                                                                *)
(*                                                                         *)
(* Sources: cmd/sbs-service/main_iscsi.go, main_iscsi_fencing.go and        *)
(* main_iscsi_registry_store.go, iscsi/control.go, iscsi/live_reload.go,    *)
(* iscsi/sbs_adapter.go, cmd/namrbd-iscsi-gateway/main_large_scale.go,      *)
(* sbs/local/client.go.                                                     *)
(***************************************************************************)
EXTENDS Naturals, FiniteSets

CONSTANTS
  Servers,      \* sbs-service processes
  Gateways,     \* iSCSI gateways
  Nodes,        \* sbs-data nodes
  Endpoint,     \* the node each gateway is configured to talk to
  NoGateway,
  Retention,    \* iscsiRegistryChangeRetention: revisions of changes kept
  MaxOps,       \* bound: registry mutations
  MaxFaults     \* bound: restarts, stops, abandoned mutations and lost answers

ASSUME FailoverAssumption ==
  /\ NoGateway \notin Gateways
  /\ Endpoint \in [Gateways -> Nodes]
  /\ Retention \in Nat /\ MaxOps \in Nat /\ MaxFaults \in Nat

VARIABLES
  registry,   \* TiKV: the manifest's revision and change floor, the LUN and
              \* failover objects, the export object gateways read, and the
              \* change record of each revision
  server,     \* the mutation each sbs-service process runs
  members,    \* the nodes ListNodeMemberships returns
  fence,      \* the ISCSIWriterFence each node has on disk
  cache,      \* its copy in memory: fences and fenceLoaded
  session,    \* the volume's entry in the node's open map
  load,       \* a read of the fence from disk by an unlocked reader
  inflight,   \* fence calls whose caller no longer waits
  runtime,    \* what each gateway serves, and at which revision
  pending,    \* the export record a gateway has fetched and not yet applied
  ops,        \* registry mutations so far
  faults,     \* faults so far
  floor,      \* history: the highest epoch published over each node
  writes      \* history: the writes accepted by nodes with a published epoch

vars == <<registry, server, members, fence, cache, session, load, inflight,
          runtime, pending, ops, faults, floor, writes>>

receivers == <<fence, cache, session, load>>

-----------------------------------------------------------------------------
Epochs == 0 .. (MaxOps + 2)

Revisions == 0 .. (MaxOps + 2)

MaybeGateway == Gateways \cup {NoGateway}

\* The FailoverRuntime fields that decide anything; epoch 0 is no runtime.
Run == [active : MaybeGateway, standby : SUBSET Gateways,
        revoked : MaybeGateway, epoch : Epochs]

NoRun == [active |-> NoGateway, standby |-> {}, revoked |-> NoGateway, epoch |-> 0]

\* The LUN object: its export mode, or 0 when there is no LUN.
Luns == 0 .. 2

\* buildISCSIExportRegistryRecords: the export object, derived from the LUN and
\* the failover runtime; lun 0 is no export.
Export(lun, run) == [lun |-> lun, run |-> IF lun = 0 THEN NoRun ELSE run]

\* A change record: none was written, or the export object it carries.
NoChange == [on |-> FALSE, export |-> Export(0, NoRun)]

Change(x) == [on |-> TRUE, export |-> x]

Fence == [epoch : Epochs, gateway : MaybeGateway, rev : Revisions]

NoFence == [epoch |-> 0, gateway |-> NoGateway, rev |-> 0]

Session == [gateway : MaybeGateway, epoch : Epochs]

NoSession == [gateway |-> NoGateway, epoch |-> 0]

\* A fence in memory, or one being read: fenceLoaded and the value.
Unloaded == [on |-> FALSE, fence |-> NoFence]

Loaded(f) == [on |-> TRUE, fence |-> f]

NoRuntime == [epoch |-> 0, active |-> FALSE, rev |-> 0]

NoRuntimes == [g \in Gateways |-> NoRuntime]

NoPending == [on |-> FALSE, rev |-> 0, change |-> NoChange]

Idle == [pc |-> "idle", rev |-> 0, floor |-> 0, lun |-> <<0, 0>>,
         run |-> <<NoRun, NoRun>>, fence |-> NoFence, listed |-> {},
         todo |-> {}, failed |-> FALSE]

\* One of the faults a behaviour may have.
Fault == faults < MaxFaults /\ faults' = faults + 1

Larger(a, b) == IF a > b THEN a ELSE b

-----------------------------------------------------------------------------
(***************************************************************************)
(* Registry mutations.  mutateISCSIRegistryWithPrecommit loads the registry *)
(* and mutates its copy in Begin, projects the fence of a promotion, and    *)
(* saves what differs in Save.  lun and run hold the pairs <<before, after>>.*)
(***************************************************************************)
Begin(s, lun, run) ==
  /\ server[s].pc = "idle"
  /\ ops < MaxOps
  /\ ops' = ops + 1
  /\ server' = [server EXCEPT ![s] = [Idle EXCEPT
       !.pc = "save", !.rev = registry.rev, !.floor = registry.floor,
       !.lun = <<registry.lun, lun>>, !.run = <<registry.run, run>>]]
  /\ UNCHANGED <<registry, members, receivers, inflight, runtime, pending,
                 faults, floor, writes>>

Promoted(run, g) ==
  [run EXCEPT !.active = g, !.standby = @ \ {g}, !.epoch = @ + 1]

\* PromoteISCSIFailover: the fence carries the revision the save will publish,
\* and goes to the nodes registered now.
Promote(s, g) ==
  /\ server[s].pc = "idle"
  /\ ops < MaxOps
  /\ registry.lun # 0
  /\ registry.run.revoked # g
  /\ ops' = ops + 1
  /\ LET run == Promoted(registry.run, g) IN
     server' = [server EXCEPT ![s] = [Idle EXCEPT
       !.pc = "project", !.rev = registry.rev, !.floor = registry.floor,
       !.lun = <<registry.lun, registry.lun>>, !.run = <<registry.run, run>>,
       !.fence = [epoch |-> run.epoch, gateway |-> g, rev |-> registry.rev + 1],
       !.listed = members, !.todo = members]]
  /\ UNCHANGED <<registry, members, receivers, inflight, runtime, pending,
                 faults, floor, writes>>

\* Mutant: an export without active gateway is demoted too.
DemoteNone(s) ==
  /\ registry.run.epoch # 0
  /\ Begin(s, registry.lun,
           [registry.run EXCEPT !.active = NoGateway,
                                !.standby = @ \cup {registry.run.active},
                                !.epoch = @ + 1])

DemoteISCSIFailover(s) ==
  /\ registry.run.epoch # 0
  /\ registry.run.active # NoGateway
  /\ Begin(s, registry.lun,
           [registry.run EXCEPT !.active = NoGateway,
                                !.standby = @ \cup {registry.run.active},
                                !.epoch = @ + 1])

StandbyISCSIFailover(s, g) ==
  /\ registry.run.epoch # 0
  /\ registry.run.active # g
  /\ registry.run.revoked # g
  /\ Begin(s, registry.lun, [registry.run EXCEPT !.standby = @ \cup {g}])

RevokeStaleISCSIFailover(s, g) ==
  /\ registry.run.epoch # 0
  /\ Begin(s, registry.lun,
           [registry.run EXCEPT !.active = IF @ = g THEN NoGateway ELSE @,
                                !.standby = @ \ {g}, !.revoked = g,
                                !.epoch = @ + 1])

\* ExportISCSILUN creates the runtime only when there is none.
ExportISCSILUN(s) ==
  /\ registry.lun = 0
  /\ Begin(s, 1, IF registry.run.epoch = 0 THEN [NoRun EXCEPT !.epoch = 1]
                                             ELSE registry.run)

UnexportISCSILUN(s) ==
  /\ registry.lun # 0
  /\ Begin(s, 0, NoRun)

\* SetISCSILUNMode; with an unchanged mode it also stands for the mutations of
\* portals, targets and access lists, which bump the revision and leave the
\* export object alone.
SetISCSILUNMode(s) ==
  /\ registry.lun # 0
  /\ \E mode \in Luns \ {0} : Begin(s, mode, registry.run)

-----------------------------------------------------------------------------
(***************************************************************************)
(* The writer fence at a node.                                             *)
(***************************************************************************)
\* Mutant: a fence of the current epoch replaces the one the node has.
LaxAccepts(cur, f) == f.epoch >= cur.epoch

\* ApplyISCSIWriterFence: a lower epoch is stale, and at the current epoch only
\* the very same fence is acknowledged.
Accepts(cur, f) == f.epoch > cur.epoch \/ f = cur

SessionMatches(x, f) == x.gateway = f.gateway /\ x.epoch = f.epoch

\* The effect of ApplyISCSIWriterFence at node n, under the node's fence lock:
\* the fence on disk, the copy in memory, and a session of another writer
\* dropped.  A fence already in place changes nothing.
ApplyISCSIWriterFence(n, f) ==
  IF Accepts(fence[n], f) /\ f # fence[n]
  THEN /\ fence' = [fence EXCEPT ![n] = f]
       /\ cache' = [cache EXCEPT ![n] = Loaded(f)]
       /\ session' = [session EXCEPT ![n] = IF SessionMatches(@, f) THEN @ ELSE NoSession]
       /\ UNCHANGED load
  ELSE UNCHANGED receivers

Projected(s, n, ok) ==
  server' = [server EXCEPT ![s].todo = @ \ {n}, ![s].failed = @ \/ ~ok]

\* projectISCSIWriterFence: node n answers within the timeout, ...
Project(s, n) ==
  /\ server[s].pc = "project"
  /\ n \in server[s].todo
  /\ Projected(s, n, Accepts(fence[n], server[s].fence))
  /\ ApplyISCSIWriterFence(n, server[s].fence)
  /\ UNCHANGED <<registry, members, inflight, runtime, pending, ops, faults,
                 floor, writes>>

\* ... or it does not, and the call may still reach it later.
ProjectTimesOut(s, n) ==
  /\ Fault
  /\ server[s].pc = "project"
  /\ n \in server[s].todo
  /\ Projected(s, n, FALSE)
  /\ inflight' = inflight \cup {<<n, server[s].fence>>}
  /\ UNCHANGED <<registry, members, receivers, runtime, pending, ops,
                 floor, writes>>

LateApply(m) ==
  /\ m \in inflight
  /\ inflight' = inflight \ {m}
  /\ ApplyISCSIWriterFence(m[1], m[2])
  /\ UNCHANGED <<registry, server, members, runtime, pending, ops, faults,
                 floor, writes>>

\* Mutant: some acknowledgement is enough to publish.
AnyProjected(p) == p.todo = {}

\* Every node listed has acknowledged; with none listed the projection fails.
AllProjected(p) == p.todo = {} /\ ~p.failed /\ p.listed # {}

ReadyToSave(p) == p.pc = "save" \/ (p.pc = "project" /\ AllProjected(p))

\* The lowest revision whose changes are no longer kept, once rev is saved.
Floor(old, rev) == Larger(old, IF rev > Retention THEN rev - Retention ELSE 0)

\* saveISCSIRegistryStateDelta: one transaction that writes the objects which
\* differ between the copies before and after, the change record of the new
\* revision, and the manifest, whatever the registry holds by now.
Save(s) ==
  LET p      == server[s]
      rev    == p.rev + 1
      low    == Floor(p.floor, rev)
      before == Export(p.lun[1], p.run[1])
      after  == Export(p.lun[2], p.run[2])
      kept   == [r \in Revisions |-> IF r \in (p.floor + 1) .. low THEN NoChange
                                                                   ELSE registry.changes[r]]
  IN
  /\ ReadyToSave(p)
  /\ registry' = [rev |-> rev, floor |-> low,
                  lun |-> IF p.lun[1] # p.lun[2] THEN p.lun[2] ELSE registry.lun,
                  run |-> IF p.run[1] # p.run[2] THEN p.run[2] ELSE registry.run,
                  export |-> IF before # after THEN after ELSE registry.export,
                  changes |-> IF before # after
                                THEN [kept EXCEPT ![rev] = Change(after)] ELSE kept]
  /\ floor' = [n \in Nodes |-> IF n \in p.listed THEN Larger(floor[n], p.fence.epoch)
                                                 ELSE floor[n]]
  /\ server' = [server EXCEPT ![s] = Idle]
  /\ UNCHANGED <<members, receivers, inflight, runtime, pending, ops, faults, writes>>

\* A projection some node refused or did not answer: nothing is saved.
ProjectionFails(s) ==
  /\ server[s].pc = "project"
  /\ server[s].todo = {}
  /\ ~AllProjected(server[s])
  /\ server' = [server EXCEPT ![s] = Idle]
  /\ UNCHANGED <<registry, members, receivers, inflight, runtime, pending, ops,
                 faults, floor, writes>>

\* The call is cancelled, or its process stops: nothing is saved, and fence
\* calls already sent may still arrive.
Abandon(s) ==
  /\ Fault
  /\ server[s].pc # "idle"
  /\ server' = [server EXCEPT ![s] = Idle]
  /\ inflight' = inflight \cup {<<n, server[s].fence>> : n \in server[s].todo}
  /\ UNCHANGED <<registry, members, receivers, runtime, pending, ops,
                 floor, writes>>

\* A node is registered; it has no fence yet.
Join(n) ==
  /\ n \notin members
  /\ members' = members \cup {n}
  /\ UNCHANGED <<registry, server, receivers, inflight, runtime, pending, ops,
                 faults, floor, writes>>

-----------------------------------------------------------------------------
(***************************************************************************)
(* Checks at a node.                                                       *)
(***************************************************************************)
\* currentISCSIWriterFence: the copy in memory once loaded, else the disk's.
Current(n) == IF cache[n].on THEN cache[n].fence ELSE fence[n]

\* Mutant: the token's epoch is not compared.
GatewayToken(n, g, e) == Current(n) = NoFence \/ Current(n).gateway = g

\* validateISCSIWriterFence for the token <<g, e>>, and the load it may cause.
ValidToken(n, g, e) ==
  Current(n) = NoFence \/ (Current(n).gateway = g /\ Current(n).epoch = e)

LoadFence(n) == [cache EXCEPT ![n] = Loaded(Current(n))]

\* An unlocked reader (Read, ReadPhysicalChunk, ReadECShard, Discard) finds the
\* fence not loaded, reads the disk, ...
StartRead(n) ==
  /\ n \in {Endpoint[g] : g \in Gateways}
  /\ ~cache[n].on
  /\ ~load[n].on
  /\ load' = [load EXCEPT ![n] = Loaded(fence[n])]
  /\ UNCHANGED <<registry, server, members, fence, cache, session, inflight,
                 runtime, pending, ops, faults, floor, writes>>

\* ... and stores what it read, if there was a fence, whatever is there by now.
FinishRead(n) ==
  /\ load[n].on
  /\ load' = [load EXCEPT ![n] = Unloaded]
  /\ cache' = [cache EXCEPT ![n] =
                 Loaded(IF load[n].fence # NoFence THEN load[n].fence ELSE @.fence)]
  /\ UNCHANGED <<registry, server, members, fence, session, inflight, runtime,
                 pending, ops, faults, floor, writes>>

\* A node restarts: memory is gone, the fence was written with a sync.
Restart(n) ==
  /\ Fault
  /\ cache' = [cache EXCEPT ![n] = Unloaded]
  /\ load' = [load EXCEPT ![n] = Unloaded]
  /\ session' = [session EXCEPT ![n] = NoSession]
  /\ UNCHANGED <<registry, server, members, fence, inflight, runtime, pending,
                 ops, floor, writes>>

-----------------------------------------------------------------------------
(***************************************************************************)
(* A gateway.                                                              *)
(***************************************************************************)
\* The latest change after the gateway's checkpoint (collapseRegistryChanges).
Changed(g) ==
  {r \in Revisions : r > runtime[g].rev /\ r <= registry.rev /\ registry.changes[r].on}

LatestChange(g) ==
  IF Changed(g) = {} THEN NoChange
  ELSE registry.changes[CHOOSE r \in Changed(g) : \A q \in Changed(g) : q <= r]

\* fetchChanges: nothing to do at the registry's revision, an error ahead of it;
\* a checkpoint below the retained changes asks for the whole registry.
Fetch(g) ==
  /\ ~pending[g].on
  /\ runtime[g].rev < registry.rev
  /\ pending' = [pending EXCEPT ![g] =
       [on |-> TRUE, rev |-> registry.rev,
        change |-> IF runtime[g].rev < registry.floor THEN Change(registry.export)
                                                      ELSE LatestChange(g)]]
  /\ UNCHANGED <<registry, server, members, receivers, inflight, runtime, ops,
                 faults, floor, writes>>

\* CloseVolume of the runtime a reload replaces: the attachment and generation
\* of its session are the export's lease and epoch, and the fence is not asked.
Closed(x, old) == IF old.active /\ x.epoch = old.epoch THEN NoSession ELSE x

\* OpenVolume: refused by the fence, or by a session of another generation.
Opens(n, g, e) == ValidToken(n, g, e) /\ session[n].epoch \in {0, e}

\* Adopt(g, new, x): the supervisor takes the new generation, and the runtime it
\* replaces is closed; x is the node's session by then.
Adopt(g, new, x) ==
  /\ runtime' = [runtime EXCEPT ![g] = new]
  /\ session' = [session EXCEPT ![Endpoint[g]] = Closed(x, runtime[g])]

\* applyChanges (or applyResync) with the fetched record.  An export without
\* active gateway cannot be prepared, and neither can one whose volume does not
\* open: the reload fails and the gateway goes on with what it serves.
Reload(g) ==
  LET n == Endpoint[g]
      r == pending[g].rev
      x == pending[g].change.export
      assigned == x.lun # 0 /\ (x.run.active = g \/ g \in x.run.standby)
  IN
  /\ pending[g].on
  /\ pending' = [pending EXCEPT ![g] = NoPending]
  /\ \/ /\ ~pending[g].change.on
        /\ runtime' = [runtime EXCEPT ![g].rev = r]
        /\ UNCHANGED <<session, cache>>
     \/ /\ pending[g].change.on /\ ~assigned
        /\ Adopt(g, [NoRuntime EXCEPT !.rev = r], session[n])
        /\ UNCHANGED cache
     \/ /\ assigned /\ x.run.active \notin {g, NoGateway}
        /\ Adopt(g, [epoch |-> x.run.epoch, active |-> FALSE, rev |-> r], session[n])
        /\ UNCHANGED cache
     \/ /\ assigned /\ x.run.active = g
        /\ cache' = LoadFence(n)
        /\ IF Opens(n, g, x.run.epoch)
             THEN Adopt(g, [epoch |-> x.run.epoch, active |-> TRUE, rev |-> r],
                        [gateway |-> g, epoch |-> x.run.epoch])
             ELSE UNCHANGED <<runtime, session>>
     \/ /\ assigned /\ x.run.active = NoGateway
        /\ UNCHANGED <<runtime, session, cache>>
  /\ UNCHANGED <<registry, server, members, fence, load, inflight, ops, faults,
                 floor, writes>>

\* The gateway process stops; its session stays open at the node.
GatewayStops(g) ==
  /\ Fault
  /\ runtime[g] # NoRuntime
  /\ runtime' = [runtime EXCEPT ![g] = NoRuntime]
  /\ pending' = [pending EXCEPT ![g] = NoPending]
  /\ UNCHANGED <<registry, server, members, receivers, inflight, ops,
                 floor, writes>>

\* A write through the active path (Write, WritePhysicalChunk, WriteECShard,
\* Flush and the zeroing calls check alike): under the fence lock the node asks
\* the fence, then the session.  torn: memory held another fence than the disk.
Write(g) ==
  LET n == Endpoint[g]
      e == runtime[g].epoch
  IN
  /\ runtime[g].active
  /\ cache' = LoadFence(n)
  /\ writes' = IF ValidToken(n, g, e) /\ session[n].epoch = e /\ floor[n] > 0
                 THEN writes \cup {[node |-> n, gateway |-> g, epoch |-> e,
                                    stale |-> e < floor[n], published |-> e = floor[n],
                                    torn |-> Current(n) # fence[n]]}
                 ELSE writes
  /\ UNCHANGED <<registry, server, members, fence, session, load, inflight,
                 runtime, pending, ops, faults, floor>>

-----------------------------------------------------------------------------
\* Gateway g was promoted and serves the export; the nodes registered then hold
\* its fence.
Init ==
  \E g \in Gateways, m \in SUBSET Nodes :
    LET new == [NoRun EXCEPT !.epoch = 1]
        run == Promoted(new, g)
        f   == [epoch |-> 2, gateway |-> g, rev |-> 2]
    IN
    /\ Endpoint[g] \in m
    /\ registry = [rev |-> 2, floor |-> Floor(0, 2), lun |-> 1, run |-> run,
                   export |-> Export(1, run),
                   changes |-> [r \in Revisions |->
                                  IF r \notin (Floor(0, 2) + 1) .. 2 THEN NoChange
                                  ELSE Change(Export(1, IF r = 1 THEN new ELSE run))]]
    /\ server = [s \in Servers |-> Idle]
    /\ members = m
    /\ fence = [n \in Nodes |-> IF n \in m THEN f ELSE NoFence]
    /\ cache = [n \in Nodes |-> IF n \in m THEN Loaded(f) ELSE Unloaded]
    /\ session = [n \in Nodes |-> IF n = Endpoint[g] THEN [gateway |-> g, epoch |-> 2]
                                                     ELSE NoSession]
    /\ load = [n \in Nodes |-> Unloaded]
    /\ inflight = {}
    /\ runtime = [NoRuntimes EXCEPT ![g] = [epoch |-> 2, active |-> TRUE, rev |-> 2]]
    /\ pending = [h \in Gateways |-> NoPending]
    /\ ops = 0
    /\ faults = 0
    /\ floor = [n \in Nodes |-> IF n \in m THEN 2 ELSE 0]
    /\ writes = {}

Mutate(s) ==
  \/ DemoteISCSIFailover(s)
  \/ ExportISCSILUN(s)
  \/ UnexportISCSILUN(s)
  \/ SetISCSILUNMode(s)
  \/ \E g \in Gateways : \/ Promote(s, g)
                         \/ StandbyISCSIFailover(s, g)
                         \/ RevokeStaleISCSIFailover(s, g)

Next ==
  \/ \E s \in Servers : \/ Mutate(s)
                        \/ Save(s)
                        \/ ProjectionFails(s)
                        \/ Abandon(s)
                        \/ \E n \in Nodes : Project(s, n) \/ ProjectTimesOut(s, n)
  \/ \E m \in inflight : LateApply(m)
  \/ \E n \in Nodes : Join(n) \/ StartRead(n) \/ FinishRead(n) \/ Restart(n)
  \/ \E g \in Gateways : Fetch(g) \/ Reload(g) \/ GatewayStops(g) \/ Write(g)

Spec == Init /\ [][Next]_vars

-----------------------------------------------------------------------------
\* Every variable has its type: registry, mutation, node and gateway state hold
\* the values mutateISCSIRegistryWithPrecommit, ApplyISCSIWriterFence,
\* OpenVolume and ReloadOnce can give them.
FailoverTypeOK ==
  /\ registry.rev \in Revisions /\ registry.floor \in Revisions
  /\ registry.lun \in Luns /\ registry.run \in Run
  /\ registry.export.lun \in Luns /\ registry.export.run \in Run
  /\ \A s \in Servers : /\ server[s].pc \in {"idle", "project", "save"}
                        /\ server[s].fence \in Fence
                        /\ server[s].todo \subseteq server[s].listed
  /\ members \in SUBSET Nodes
  /\ fence \in [Nodes -> Fence]
  /\ cache \in [Nodes -> [on : BOOLEAN, fence : Fence]]
  /\ session \in [Nodes -> Session]
  /\ load \in [Nodes -> [on : BOOLEAN, fence : Fence]]
  /\ inflight \subseteq Nodes \X Fence
  /\ runtime \in [Gateways -> [epoch : Epochs, active : BOOLEAN, rev : Revisions]]
  /\ floor \in [Nodes -> Epochs]

\* A deposed gateway does not write: once a promotion is published, no node it
\* was projected to accepts a write of an earlier epoch, through restarts, late
\* and lost fence calls, and registry updates two sbs-service processes lose.
\* The one exception is a node whose memory an unlocked reader overwrote with a
\* fence it read before the projection (projectISCSIWriterFence,
\* ApplyISCSIWriterFence, currentISCSIWriterFence).
StaleWriterFenced == \A w \in writes : w.stale => w.torn

\* At most one gateway writes under an epoch at a node, and at all the nodes when
\* the epoch is one a promotion published over them, even when two sbs-service
\* processes promote different gateways from the same registry revision
\* (ApplyISCSIWriterFence refuses a different fence of the current epoch).
OneWriterPerEpoch ==
  \A v, w \in writes :
    /\ ~v.torn /\ ~w.torn /\ v.epoch = w.epoch
    /\ v.node = w.node \/ (v.published /\ w.published)
    => v.gateway = w.gateway

\* What a promotion has published, the disks of its nodes hold: no late,
\* repeated or concurrent projection takes a node back behind a published epoch
\* (projectISCSIWriterFence, saveISCSIRegistryStateDelta).
PublishedIsFenced == \A n \in Nodes : fence[n].epoch >= floor[n]
=============================================================================
