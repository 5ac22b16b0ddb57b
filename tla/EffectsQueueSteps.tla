-------------------------- MODULE EffectsQueueSteps ---------------------------
(***************************************************************************)
(* The inductive invariant of the effects queue, that every step of a      *)
(* caller, an enqueue or a worker without a transaction preserves it, and  *)
(* that a transaction preserves its ids, order and acknowledgements.       *)
(*                                                                         *)
(* The invariant has three parts beside the types.  KInv bounds the ids an *)
(* item, a call or a log entry may mention by the attempts made so far, so *)
(* that a new attempt's id is in no earlier record.  CInv ties an          *)
(* acknowledgement to a committed record and that to the log.  OInv is the *)
(* lane's discipline: among the items of the batch, then of the channel,   *)
(* one that went straight to the channel stands before every item whose    *)
(* call found it without a caller.                                         *)
(***************************************************************************)
EXTENDS EffectsQueue, TLAPS

-------------------------------------------------------------------------------
(* The inductive invariant *)

WorkerState == [pc : {"idle", "drain", "batch", "single", "answer"}, items : Seq(Item),
                try : 0 .. MaxAttempts, res : Seq(Results)]

CallerState == [pc : {"new", "commit", "waiting", "recover", "failing", "error", "acked"},
                k : Nat, run : 0 .. MaxRuns, try : 0 .. MaxCommits, epoch : Nat,
                after : SUBSET (Writes \X Nat)]

Entry == [w : Writes, k : Nat, spilled : BOOLEAN, after : SUBSET (Writes \X Nat),
          last : BOOLEAN]

\* The sets the variables range over.
Typed ==
    /\ epoch \in 1 .. MaxEpoch
    /\ record \in [Writes -> {"none", "pending", "committed", "failed"}]
    /\ page \in [Chunks -> Writes \cup {NoWrite}]
    /\ chan \in [Lanes -> Seq(Item)]
    /\ spill \in [Lanes -> SUBSET Item]
    /\ worker \in [Lanes -> WorkerState]
    /\ caller \in [Writes -> CallerState]
    /\ faults \in 0 .. MaxFaults
    /\ log \in Seq(Entry)

\* How many items and results there are in each state of the worker of lane l.
Sized(l) ==
    /\ Len(chan[l]) <= Depth
    /\ Len(worker[l].items) <= BatchMax
    /\ worker[l].pc = "idle" => worker[l].items = <<>>
    /\ worker[l].pc \in {"idle", "drain", "batch"} => worker[l].res = <<>>
    /\ worker[l].pc = "single" => Len(worker[l].res) < Len(worker[l].items)
    /\ worker[l].pc \in {"drain", "batch"} => worker[l].items # <<>>
    /\ worker[l].pc = "answer" => Len(worker[l].res) = Len(worker[l].items)

TInv == Typed /\ \A l \in Lanes : Sized(l)

\* The ids of T are of the lane of write u, and the calls c gave them out.
Issued(u, T, c) == \A x \in T : Lane[x[1]] = Lane[u] /\ x[2] <= c[x[1]].k

\* An item of lane l is no newer than its write's last attempt and call.
Known(m, l, c) ==
    /\ Lane[m.w] = l
    /\ m.k <= c[m.w].k
    /\ m.run <= c[m.w].run
    /\ Issued(m.w, m.after, c)

KInv ==
    /\ \A l \in Lanes : \A m \in Held(l) : Known(m, l, caller)
    /\ \A w \in Writes : Issued(w, caller[w].after, caller)
    /\ \A i \in DOMAIN log : /\ log[i].k <= caller[log[i].w].k
                             /\ Issued(log[i].w, log[i].after, caller)

Logged(w) == \E i \in DOMAIN log : log[i].w = w

\* What an acknowledgement rests on.
CInv ==
    /\ \A w \in Writes : caller[w].pc = "acked" => record[w] = "committed"
    /\ \A w \in Writes : record[w] = "committed" => Logged(w)
    /\ \A l \in Lanes : \A i \in DOMAIN worker[l].res :
        worker[l].res[i] = "ok" /\ Awaited(worker[l].items[i])
            => record[worker[l].items[i].w] = "committed"

\* Item m, which did not go straight to the channel or is not of set T, may
\* come after the item or entry whose call began with the orphans T.
Free(m, T) == Id(m) \in T => m.spilled

\* Lane l is in order: batch before channel, each first to last.
InOrder(l) ==
    LET q == chan[l]
        s == worker[l].items
    IN /\ \A m \in spill[l] : m.spilled
       /\ \A i, j \in DOMAIN q : j <= i => Free(q[i], q[j].after)
       /\ \A i, j \in DOMAIN s : j <= i => Free(s[i], s[j].after)
       /\ \A i \in DOMAIN q, j \in DOMAIN s : Free(q[i], s[j].after)

InLog(m) == \E j \in DOMAIN log : Id(log[j]) = Id(m)

\* The batch's item i has had its transaction, or one that its write's record
\* still tells of.
Handled(l, i) ==
    \/ worker[l].pc = "answer"
    \/ worker[l].pc = "single" /\ (i <= Len(worker[l].res) \/ InLog(worker[l].items[i]))

Current(m) == m.run = caller[m.w].run

\* No item of lane l that is still to be applied is bound to come before an
\* entry of the log.
LogBehind(l) ==
    LET q == chan[l]
        s == worker[l].items
    IN \A e \in DOMAIN log :
        /\ \A i \in DOMAIN q : Free(q[i], log[e].after)
        /\ \A i \in DOMAIN s :
            Current(s[i]) => Free(s[i], log[e].after) \/ Handled(l, i)

\* A write's record does not return to "pending" within the call that put an
\* applied item on the lane.
AppliedOnce(l) ==
    \A m \in Held(l) : Current(m) /\ InLog(m) => record[m.w] # "pending"

OInv ==
    /\ \A l \in Lanes : InOrder(l) /\ LogBehind(l) /\ AppliedOnce(l)
    /\ LaneOrder

IInv == TInv /\ KInv /\ CInv /\ OInv

-------------------------------------------------------------------------------
(* Sequences *)

\* What Append does to length, domain and elements (a send on a channel).
LEMMA AppendFacts ==
  ASSUME NEW S, NEW s \in Seq(S), NEW e \in S
  PROVE  /\ Append(s, e) \in Seq(S)
         /\ Len(s) \in Nat
         /\ Len(Append(s, e)) = Len(s) + 1
         /\ DOMAIN s = 1 .. Len(s)
         /\ DOMAIN Append(s, e) = 1 .. Len(s) + 1
         /\ \A i \in DOMAIN s : Append(s, e)[i] = s[i]
         /\ Append(s, e)[Len(s) + 1] = e
         /\ Range(Append(s, e)) = Range(s) \cup {e}
         /\ Range(s) \subseteq S
  BY SMT DEF Range

\* What Tail does (a receive from a channel).
LEMMA TailFacts ==
  ASSUME NEW S, NEW s \in Seq(S), s # <<>>
  PROVE  /\ Tail(s) \in Seq(S)
         /\ Head(s) \in S /\ Head(s) = s[1] /\ 1 \in DOMAIN s
         /\ Len(s) \in Nat \ {0}
         /\ Len(Tail(s)) = Len(s) - 1
         /\ DOMAIN Tail(s) = 1 .. Len(s) - 1
         /\ \A i \in DOMAIN Tail(s) : i + 1 \in DOMAIN s /\ Tail(s)[i] = s[i + 1]
         /\ Range(Tail(s)) \subseteq Range(s)
         /\ Head(s) \in Range(s)
         /\ Range(s) \subseteq S
  BY SMT DEF Range

\* The elements of a sequence are those at its places.
LEMMA RangeFacts ==
  ASSUME NEW S, NEW s \in Seq(S)
  PROVE  /\ Range(s) \subseteq S
         /\ DOMAIN s = 1 .. Len(s) /\ Len(s) \in Nat
         /\ \A i \in DOMAIN s : s[i] \in Range(s) /\ s[i] \in S
         /\ \A x \in Range(s) : \E i \in DOMAIN s : x = s[i]
  BY SMT DEF Range

\* A function on 1 .. n is a sequence: the results All(s, r) of a batch and the
\* entries a transaction adds to the log.
LEMMA FunctionIsSeq ==
  ASSUME NEW S, NEW n \in Nat, NEW f \in [1 .. n -> S]
  PROVE  f \in Seq(S) /\ Len(f) = n /\ DOMAIN f = 1 .. n
  BY SMT

\* Concatenation, place by place (a transaction extends the log).
LEMMA ConcatFacts ==
  ASSUME NEW S, NEW s \in Seq(S), NEW t \in Seq(S)
  PROVE  /\ s \o t \in Seq(S)
         /\ Len(s) \in Nat /\ Len(t) \in Nat
         /\ DOMAIN s = 1 .. Len(s) /\ DOMAIN t = 1 .. Len(t)
         /\ Len(s \o t) = Len(s) + Len(t)
         /\ DOMAIN (s \o t) = 1 .. Len(s) + Len(t)
         /\ \A i \in DOMAIN s : i \in DOMAIN (s \o t) /\ (s \o t)[i] = s[i]
         /\ \A j \in DOMAIN t : /\ Len(s) + j \in DOMAIN (s \o t)
                                /\ (s \o t)[Len(s) + j] = t[j]
         /\ \A i \in DOMAIN (s \o t) : i \in DOMAIN s \/ \E j \in DOMAIN t : i = Len(s) + j
<1>1. /\ s \o t \in Seq(S)
      /\ Len(s) \in Nat /\ Len(t) \in Nat
      /\ DOMAIN s = 1 .. Len(s) /\ DOMAIN t = 1 .. Len(t)
      /\ Len(s \o t) = Len(s) + Len(t)
      /\ DOMAIN (s \o t) = 1 .. Len(s) + Len(t)
  BY SMT
<1>2. \A i \in DOMAIN s : i \in DOMAIN (s \o t) /\ (s \o t)[i] = s[i]
  BY <1>1, SMT
<1>3. \A j \in DOMAIN t : /\ Len(s) + j \in DOMAIN (s \o t)
                          /\ (s \o t)[Len(s) + j] = t[j]
  BY <1>1, SMT
<1>4. ASSUME NEW i \in DOMAIN (s \o t), i \notin DOMAIN s
      PROVE  \E j \in DOMAIN t : i = Len(s) + j
  <2>1. i - Len(s) \in DOMAIN t /\ i = Len(s) + (i - Len(s))
    BY <1>1, <1>4, SMT
  <2> QED
    BY <2>1, Zenon
<1> QED
  BY <1>1, <1>2, <1>3, <1>4, Zenon

-------------------------------------------------------------------------------
(* Steps of a caller that put nothing on a lane *)

\* What BeginWrite, CallerTimeout, Disconnect, RecoverAfterCAS and MarkFailed
\* have in common.
CallerOnly(w) ==
    /\ UNCHANGED <<epoch, page, chan, spill, worker, log>>
    /\ caller' \in [Writes -> CallerState]
    /\ record' \in [Writes -> {"none", "pending", "committed", "failed"}]
    /\ faults' \in 0 .. MaxFaults
    /\ \A v \in Writes \ {w} : caller'[v] = caller[v] /\ record'[v] = record[v]
    /\ caller'[w].k = caller[w].k
    /\ caller[w].run <= caller'[w].run
    /\ caller[w].pc # "acked"
    /\ caller'[w].pc # "waiting"
    /\ caller'[w].pc = "acked" => record'[w] = "committed"
    /\ record'[w] = "committed" => record[w] = "committed"
    /\ record'[w] = "pending" => record[w] = "pending" \/ caller[w].run < caller'[w].run
    /\ caller'[w].after = caller[w].after \/ caller'[w].after = Orphans(Lane[w])

\* The items a lane holds are items.
LEMMA HeldTypes ==
  ASSUME Typed, NEW l \in Lanes
  PROVE  /\ chan[l] \in Seq(Item) /\ spill[l] \subseteq Item
         /\ worker[l] \in WorkerState
         /\ worker[l].items \in Seq(Item) /\ worker[l].res \in Seq(Results)
         /\ Held(l) \subseteq Item
<1>1. chan[l] \in Seq(Item) /\ spill[l] \subseteq Item /\ worker[l] \in WorkerState
  BY DEF Typed
<1>2. worker[l].items \in Seq(Item) /\ worker[l].res \in Seq(Results)
  BY <1>1 DEF WorkerState
<1>3. Range(chan[l]) \subseteq Item /\ Range(worker[l].items) \subseteq Item
  BY <1>1, <1>2, RangeFacts
<1> QED
  BY <1>1, <1>2, <1>3 DEF Held

\* The orphans of a lane are ids.
LEMMA OrphansType ==
  ASSUME Typed, NEW l \in Lanes
  PROVE  Orphans(l) \in SUBSET (Writes \X Nat)
<1>1. Held(l) \subseteq Item
  BY HeldTypes
<1>2. ASSUME NEW m \in Item PROVE Id(m) \in Writes \X Nat
  BY <1>2 DEF Item, Id
<1> QED
  BY <1>1, <1>2, Zenon DEF Orphans

\* Nothing is wrong before the first call.
LEMMA InitTypes ==
  ASSUME Init
  PROVE  TInv
<1> USE QueueAssumption
<1>1. 1 \in 1 .. MaxEpoch /\ 0 \in 0 .. MaxFaults /\ 0 \in 0 .. MaxRuns
      /\ 0 \in 0 .. MaxCommits /\ 0 \in 0 .. MaxAttempts /\ 0 <= Depth /\ 0 <= BatchMax
  BY SMT
<1>2. <<>> \in Seq(Item) /\ <<>> \in Seq(Results) /\ <<>> \in Seq(Entry) /\ Len(<<>>) = 0
  BY SMT
<1>3. Idle \in WorkerState
  BY <1>1, <1>2 DEF Idle, WorkerState
<1>4. [pc |-> "new", k |-> 0, run |-> 0, try |-> 0, epoch |-> 0, after |-> {}] \in CallerState
  BY <1>1 DEF CallerState
<1>5. epoch = 1 /\ faults = 0 /\ log = <<>>
      /\ record \in [Writes -> {"none", "pending", "committed", "failed"}]
      /\ page \in [Chunks -> Writes \cup {NoWrite}]
  BY DEF Init
<1>6. chan \in [Lanes -> Seq(Item)] /\ spill \in [Lanes -> SUBSET Item]
  BY <1>2 DEF Init
<1>7. worker \in [Lanes -> WorkerState] /\ caller \in [Writes -> CallerState]
  BY <1>3, <1>4, Zenon DEF Init
<1>8. Typed
  BY <1>1, <1>2, <1>5, <1>6, <1>7 DEF Typed
<1>9. ASSUME NEW l \in Lanes PROVE Sized(l)
  <2>1. chan[l] = <<>> /\ worker[l] = Idle
    BY DEF Init
  <2>2. worker[l].pc = "idle" /\ worker[l].items = <<>> /\ worker[l].res = <<>>
    BY <2>1 DEF Idle
  <2> QED
    BY <1>1, <1>2, <2>1, <2>2 DEF Sized
<1> QED
  BY <1>8, <1>9 DEF TInv

\* The five actions do what CallerOnly says.
LEMMA CallerOnlySteps ==
  ASSUME Typed, NEW w \in Writes,
         \/ BeginWrite(w) \/ CallerTimeout(w) \/ Disconnect(w)
         \/ RecoverAfterCAS(w) \/ MarkFailed(w)
  PROVE  CallerOnly(w)
<1> USE QueueAssumption
<1>1. caller \in [Writes -> CallerState] /\ caller[w] \in CallerState
      /\ record \in [Writes -> {"none", "pending", "committed", "failed"}]
      /\ faults \in 0 .. MaxFaults /\ epoch \in 1 .. MaxEpoch /\ epoch \in Nat
  BY DEF Typed
<1>2. Lane[w] \in Lanes
  OBVIOUS
<1>3. /\ caller[w].k \in Nat /\ caller[w].run \in 0 .. MaxRuns
      /\ caller[w].try \in 0 .. MaxCommits
  BY <1>1 DEF CallerState
<1>4. Orphans(Lane[w]) \in SUBSET (Writes \X Nat)
  BY <1>2, OrphansType
<1>5. faults' = faults \/ Fault => faults' \in 0 .. MaxFaults
  BY <1>1, SMT DEF Fault
<1>6. CASE BeginWrite(w) /\ record[w] = "committed"
  <2>1. caller' = [caller EXCEPT ![w].pc = "acked", ![w].run = @ + 1]
        /\ record' = record /\ UNCHANGED <<epoch, page, chan, spill, worker, faults, log>>
        /\ caller[w].run < MaxRuns /\ caller[w].pc \in {"new", "error"}
    BY <1>6, Zenon DEF BeginWrite
  <2>2. caller' \in [Writes -> CallerState]
    BY <1>1, <1>3, <2>1 DEF CallerState
  <2>3. caller'[w].pc = "acked" /\ caller'[w].run = caller[w].run + 1
        /\ caller'[w].k = caller[w].k /\ caller'[w].after = caller[w].after
        /\ \A v \in Writes \ {w} : caller'[v] = caller[v]
    BY <1>1, <2>1 DEF CallerState
  <2> QED
    BY <1>1, <1>3, <1>6, <2>1, <2>2, <2>3, SMT DEF CallerOnly
<1>7. CASE BeginWrite(w) /\ record[w] # "committed"
  <2> DEFINE c == [pc |-> "commit", k |-> caller[w].k, run |-> caller[w].run + 1, try |-> 1,
                   epoch |-> epoch, after |-> Orphans(Lane[w])]
  <2>1. caller' = [caller EXCEPT ![w] = c]
        /\ record' = [record EXCEPT ![w] = "pending"]
        /\ UNCHANGED <<epoch, page, chan, spill, worker, faults, log>>
        /\ caller[w].run < MaxRuns /\ caller[w].pc \in {"new", "error"}
    BY <1>1, <1>7, Zenon DEF BeginWrite
  <2>2. 1 \in 0 .. MaxCommits /\ caller[w].run + 1 \in 0 .. MaxRuns
    BY <1>3, <2>1, SMT
  <2>3. c \in CallerState
    BY <1>1, <1>3, <1>4, <2>2, Zenon DEF CallerState
  <2>4. c.pc = "commit" /\ c.k = caller[w].k /\ c.run = caller[w].run + 1
        /\ c.after = Orphans(Lane[w])
    BY Zenon
  <2> HIDE DEF c
  <2>5. caller' \in [Writes -> CallerState] /\ caller'[w] = c
        /\ \A v \in Writes \ {w} : caller'[v] = caller[v]
    BY <1>1, <2>1, <2>3, Zenon
  <2>6. record' \in [Writes -> {"none", "pending", "committed", "failed"}]
        /\ record'[w] = "pending" /\ \A v \in Writes \ {w} : record'[v] = record[v]
    BY <1>1, <2>1, Zenon
  <2> QED
    BY <1>1, <1>3, <2>1, <2>4, <2>5, <2>6, SMT DEF CallerOnly
<1>8. CASE CallerTimeout(w) \/ Disconnect(w) \/ MarkFailed(w)
  <2>1. PICK p \in {"error", "failing"} : caller' = [caller EXCEPT ![w].pc = p]
    BY <1>8, Zenon DEF CallerTimeout, Disconnect, MarkFailed
  <2>2. UNCHANGED <<epoch, page, chan, spill, worker, log>> /\ caller[w].pc # "acked"
        /\ (faults' = faults \/ Fault)
        /\ (record' = record \/ record' = [record EXCEPT ![w] = "failed"])
    BY <1>8 DEF CallerTimeout, Disconnect, MarkFailed
  <2>3. caller' \in [Writes -> CallerState]
    BY <1>1, <1>3, <2>1, Zenon DEF CallerState
  <2>4. caller'[w].pc = p /\ caller'[w].run = caller[w].run
        /\ caller'[w].k = caller[w].k /\ caller'[w].after = caller[w].after
        /\ \A v \in Writes \ {w} : caller'[v] = caller[v]
    BY <1>1, <2>1 DEF CallerState
  <2> QED
    BY <1>1, <1>3, <1>5, <2>2, <2>3, <2>4, SMT DEF CallerOnly
<1>9. CASE RecoverAfterCAS(w)
  <2>1. UNCHANGED <<epoch, record, page, chan, spill, worker, faults, log>>
        /\ caller[w].pc = "recover"
    BY <1>9 DEF RecoverAfterCAS
  <2>2. CASE record[w] = "committed"
    <3>1. caller' = [caller EXCEPT ![w].pc = "acked"]
      BY <1>9, <2>2 DEF RecoverAfterCAS
    <3>2. caller' \in [Writes -> CallerState]
      BY <1>1, <1>3, <3>1, Zenon DEF CallerState
    <3>3. caller'[w].pc = "acked" /\ caller'[w].run = caller[w].run
          /\ caller'[w].k = caller[w].k /\ caller'[w].after = caller[w].after
          /\ \A v \in Writes \ {w} : caller'[v] = caller[v]
      BY <1>1, <3>1 DEF CallerState
    <3> QED
      BY <1>1, <1>3, <2>1, <2>2, <3>2, <3>3, SMT DEF CallerOnly
  <2>3. CASE record[w] # "committed" /\ caller[w].try < MaxCommits
    <3>1. caller' = [caller EXCEPT ![w].pc = "commit", ![w].try = @ + 1, ![w].epoch = epoch]
      BY <1>3, <1>9, <2>3, SMT DEF RecoverAfterCAS
    <3>2. caller' \in [Writes -> CallerState]
      BY <1>1, <1>3, <2>3, <3>1 DEF CallerState
    <3>3. caller'[w].pc = "commit" /\ caller'[w].run = caller[w].run
          /\ caller'[w].k = caller[w].k /\ caller'[w].after = caller[w].after
          /\ \A v \in Writes \ {w} : caller'[v] = caller[v]
      BY <1>1, <3>1 DEF CallerState
    <3> QED
      BY <1>1, <1>3, <2>1, <3>2, <3>3, SMT DEF CallerOnly
  <2>4. CASE record[w] # "committed" /\ ~(caller[w].try < MaxCommits)
    <3>1. caller' = [caller EXCEPT ![w].pc = "failing"]
      BY <1>9, <2>4 DEF RecoverAfterCAS
    <3>2. caller' \in [Writes -> CallerState]
      BY <1>1, <1>3, <3>1 DEF CallerState
    <3>3. caller'[w].pc = "failing" /\ caller'[w].run = caller[w].run
          /\ caller'[w].k = caller[w].k /\ caller'[w].after = caller[w].after
          /\ \A v \in Writes \ {w} : caller'[v] = caller[v]
      BY <1>1, <3>1 DEF CallerState
    <3> QED
      BY <1>1, <1>3, <2>1, <3>2, <3>3, SMT DEF CallerOnly
  <2> QED
    BY <2>2, <2>3, <2>4, Zenon
<1> QED
  BY <1>6, <1>7, <1>8, <1>9
-------------------------------------------------------------------------------
(* Ids are given out once *)

\* Ids stay given out while the attempts of the calls grow.
LEMMA IssuedGrows ==
  ASSUME NEW c \in [Writes -> CallerState], NEW d \in [Writes -> CallerState],
         \A v \in Writes : c[v].k <= d[v].k,
         NEW u, NEW T \in SUBSET (Writes \X Nat), Issued(u, T, c)
  PROVE  Issued(u, T, d)
<1> SUFFICES ASSUME NEW x \in T PROVE Lane[x[1]] = Lane[u] /\ x[2] <= d[x[1]].k
  BY DEF Issued
<1>1. x[1] \in Writes /\ x[2] \in Nat
  OBVIOUS
<1>2. Lane[x[1]] = Lane[u] /\ x[2] <= c[x[1]].k
  BY DEF Issued
<1>3. c[x[1]].k \in Nat /\ d[x[1]].k \in Nat
  BY <1>1, Zenon DEF CallerState
<1> QED
  BY <1>1, <1>2, <1>3, SMT

\* The same of an item's ids.
LEMMA KnownGrows ==
  ASSUME NEW c \in [Writes -> CallerState], NEW d \in [Writes -> CallerState],
         \A v \in Writes : c[v].k <= d[v].k /\ c[v].run <= d[v].run,
         NEW m \in Item, NEW l, Known(m, l, c)
  PROVE  Known(m, l, d)
<1>1. m.w \in Writes /\ m.k \in Nat /\ m.run \in Nat /\ m.after \in SUBSET (Writes \X Nat)
  BY DEF Item
<1>2. /\ c[m.w].k \in Nat /\ d[m.w].k \in Nat
      /\ c[m.w].run \in Nat /\ d[m.w].run \in Nat
  BY <1>1 DEF CallerState
<1>3. Lane[m.w] = l /\ m.k <= c[m.w].k /\ m.run <= c[m.w].run /\ Issued(m.w, m.after, c)
  BY DEF Known
<1>4. Issued(m.w, m.after, d)
  BY <1>1, <1>3, IssuedGrows, Zenon
<1>5. m.k <= d[m.w].k /\ m.run <= d[m.w].run
  BY <1>1, <1>2, <1>3, SMT
<1> QED
  BY <1>3, <1>4, <1>5 DEF Known

\* KInv is kept by a step whose calls do not go back, whose new items, orphans
\* and log entries are known.
LEMMA KStep ==
  ASSUME Typed, KInv, caller' \in [Writes -> CallerState],
         \A v \in Writes : caller[v].k <= caller'[v].k /\ caller[v].run <= caller'[v].run,
         \A l \in Lanes : \A m \in Held(l)' : m \in Held(l) \/ Known(m, l, caller'),
         \A v \in Writes : \/ caller'[v].after = caller[v].after
                           \/ Issued(v, caller'[v].after, caller'),
         \A i \in DOMAIN log' :
            \/ i \in DOMAIN log /\ log'[i] = log[i]
            \/ \E l \in Lanes : \E m \in Held(l) :
                log'[i].w = m.w /\ log'[i].k = m.k /\ log'[i].after = m.after
  PROVE  KInv'
<1>1. caller \in [Writes -> CallerState]
  BY DEF Typed
<1>2. ASSUME NEW l \in Lanes, NEW m \in Held(l) PROVE m \in Item /\ Known(m, l, caller')
  <2>1. m \in Item
    BY HeldTypes
  <2>2. Known(m, l, caller)
    BY Zenon DEF KInv
  <2> QED
    BY <1>1, <2>1, <2>2, KnownGrows
<1>3. ASSUME NEW l \in Lanes, NEW m \in Held(l)' PROVE Known(m, l, caller')
  BY <1>2
<1>4. ASSUME NEW v \in Writes PROVE Issued(v, caller'[v].after, caller')
  <2>1. caller[v].after \in SUBSET (Writes \X Nat) /\ Issued(v, caller[v].after, caller)
    BY <1>1, Zenon DEF CallerState, KInv
  <2>2. Issued(v, caller[v].after, caller')
    BY <1>1, <2>1, IssuedGrows, Zenon
  <2> QED
    BY <2>2, Zenon
<1>5. ASSUME NEW i \in DOMAIN log'
      PROVE  log'[i].k <= caller'[log'[i].w].k /\ Issued(log'[i].w, log'[i].after, caller')
  <2>1. CASE i \in DOMAIN log /\ log'[i] = log[i]
    <3>1. log[i] \in Entry
      BY <2>1 DEF Typed
    <3>2. log[i].w \in Writes /\ log[i].k \in Nat /\ log[i].after \in SUBSET (Writes \X Nat)
      BY <3>1, Zenon DEF Entry
    <3>3. log[i].k <= caller[log[i].w].k /\ Issued(log[i].w, log[i].after, caller)
      BY <2>1, Zenon DEF KInv
    <3>4. Issued(log[i].w, log[i].after, caller')
      BY <1>1, <3>2, <3>3, IssuedGrows
    <3>5. caller[log[i].w].k \in Nat /\ caller'[log[i].w].k \in Nat
          /\ caller[log[i].w].k <= caller'[log[i].w].k
      BY <1>1, <3>2, Zenon DEF CallerState
    <3>6. log[i].k <= caller'[log[i].w].k
      BY <3>2, <3>3, <3>5, SMT
    <3> QED
      BY <2>1, <3>4, <3>6
  <2>2. CASE \E l \in Lanes : \E m \in Held(l) :
                log'[i].w = m.w /\ log'[i].k = m.k /\ log'[i].after = m.after
    BY <1>2, <2>2 DEF Known
  <2> QED
    BY <2>1, <2>2, Zenon
<1> QED
  BY <1>3, <1>4, <1>5 DEF KInv

\* A caller's step keeps the types.
LEMMA CallerOnlyTypes ==
  ASSUME TInv, NEW w \in Writes, CallerOnly(w)
  PROVE  TInv'
<1>1. Typed'
  BY Zenon DEF TInv, Typed, CallerOnly
<1>2. ASSUME NEW l \in Lanes PROVE Sized(l)'
  <2>1. Sized(l)
    BY DEF TInv
  <2> QED
    BY <2>1 DEF Sized, CallerOnly
<1> QED
  BY <1>1, <1>2 DEF TInv

\* The orphans a call begins with were given out.
LEMMA OrphansIssued ==
  ASSUME Typed, KInv, NEW w \in Writes
  PROVE  Issued(w, Orphans(Lane[w]), caller)
<1>1. Lane[w] \in Lanes
  BY QueueAssumption
<1> SUFFICES ASSUME NEW x \in Orphans(Lane[w])
             PROVE  Lane[x[1]] = Lane[w] /\ x[2] <= caller[x[1]].k
  BY DEF Issued
<1>2. PICK m \in Held(Lane[w]) : x = <<m.w, m.k>>
  BY Zenon DEF Orphans, Id
<1>3. Known(m, Lane[w], caller)
  BY <1>1 DEF KInv
<1>4. x[1] = m.w /\ x[2] = m.k
  BY <1>2, Zenon
<1> QED
  BY <1>3, <1>4 DEF Known

\* A caller's step keeps the ids in bounds.
LEMMA CallerOnlyKnown ==
  ASSUME Typed, KInv, NEW w \in Writes, CallerOnly(w)
  PROVE  KInv'
<1>1. caller \in [Writes -> CallerState] /\ caller' \in [Writes -> CallerState]
  BY Zenon DEF Typed, CallerOnly
<1>2. ASSUME NEW v \in Writes
      PROVE  caller[v].k <= caller'[v].k /\ caller[v].run <= caller'[v].run
  <2>1. caller[v].k \in Nat /\ caller[v].run \in Nat
    BY <1>1 DEF CallerState
  <2>2. CASE v = w
    BY <2>1, <2>2, SMT DEF CallerOnly
  <2>3. CASE v # w
    BY <2>1, <2>3, SMT DEF CallerOnly
  <2> QED
    BY <2>2, <2>3
<1>3. \A l \in Lanes : Held(l)' = Held(l)
  BY Zenon DEF CallerOnly, Held
<1>4. log' = log
  BY DEF CallerOnly
<1>5. ASSUME NEW v \in Writes
      PROVE  caller'[v].after = caller[v].after \/ Issued(v, caller'[v].after, caller')
  <2>1. Lane[w] \in Lanes
    BY QueueAssumption
  <2>2. Orphans(Lane[w]) \in SUBSET (Writes \X Nat)
    BY <2>1, OrphansType
  <2>3. Issued(w, Orphans(Lane[w]), caller')
    BY <1>1, <1>2, <2>2, OrphansIssued, IssuedGrows
  <2> QED
    BY <2>3 DEF CallerOnly
<1> QED
  BY <1>1, <1>2, <1>3, <1>4, <1>5, KStep, Zenon
\* An item of a write's latest call was one before a step that does not take
\* calls back.
LEMMA CurrentBefore ==
  ASSUME NEW c \in [Writes -> CallerState], NEW d \in [Writes -> CallerState],
         \A v \in Writes : c[v].run <= d[v].run,
         NEW m \in Item, NEW l, Known(m, l, c), m.run = d[m.w].run
  PROVE  m.run = c[m.w].run
<1>1. m.w \in Writes /\ m.run \in Nat
  BY DEF Item
<1>2. c[m.w].run \in Nat /\ d[m.w].run \in Nat /\ c[m.w].run <= d[m.w].run
  BY <1>1 DEF CallerState
<1>3. m.run <= c[m.w].run
  BY Zenon DEF Known
<1> QED
  BY <1>1, <1>2, <1>3, SMT

\* A caller's step keeps acknowledgements backed by committed records.
LEMMA CallerOnlyCommitted ==
  ASSUME TInv, CInv, NEW w \in Writes, CallerOnly(w)
  PROVE  CInv'
<1>0. Typed
  BY Zenon DEF TInv
<1>1. UNCHANGED <<chan, spill, worker, log>>
  BY DEF CallerOnly
<1>2. ASSUME NEW v \in Writes, caller'[v].pc = "acked" PROVE record'[v] = "committed"
  <2>1. CASE v = w
    BY <1>2, <2>1, Zenon DEF CallerOnly
  <2>2. CASE v # w
    BY <1>2, <2>2 DEF CallerOnly, CInv
  <2> QED
    BY <2>1, <2>2, Zenon
<1>3. ASSUME NEW v \in Writes, record'[v] = "committed" PROVE Logged(v)'
  <2>1. record[v] = "committed"
    BY <1>3, Zenon DEF CallerOnly
  <2>2. Logged(v)
    BY <2>1 DEF CInv
  <2> QED
    BY <1>1, <2>2, Zenon DEF Logged
<1>4. ASSUME NEW l \in Lanes, NEW i \in DOMAIN worker[l].res,
             worker[l].res[i] = "ok", Awaited(worker[l].items[i])'
      PROVE  record'[worker[l].items[i].w] = "committed"
  <2> DEFINE m == worker[l].items[i]
  <2>1. i \in DOMAIN worker[l].items
    <3>1. Sized(l)
      BY Zenon DEF TInv
    <3>2. worker[l].items \in Seq(Item) /\ worker[l].res \in Seq(Results)
          /\ worker[l].pc \in {"idle", "drain", "batch", "single", "answer"}
      BY <1>0, HeldTypes DEF WorkerState
    <3>3. DOMAIN worker[l].res = 1 .. Len(worker[l].res) /\ Len(worker[l].res) \in Nat
          /\ DOMAIN worker[l].items = 1 .. Len(worker[l].items)
          /\ Len(worker[l].items) \in Nat
      BY <3>2, RangeFacts
    <3> QED
      BY <3>1, <3>2, <3>3, SMT DEF Sized
  <2>2. m \in Item
    <3>1. worker[l].items \in Seq(Item)
      BY <1>0, HeldTypes, Zenon
    <3> QED
      BY <2>1, <3>1, RangeFacts, Zenon
  <2>3. m.w \in Writes
    BY <2>2, Zenon DEF Item
  <2> HIDE DEF m
  <2>4. caller'[m.w].pc = "waiting" /\ caller'[m.w].k = m.k
    BY <1>1, <1>4, Zenon DEF Awaited, m
  <2>5. m.w # w
    BY <2>4, Zenon DEF CallerOnly
  <2>6. caller[m.w] = caller'[m.w] /\ record'[m.w] = record[m.w]
    BY <2>3, <2>5, Zenon DEF CallerOnly
  <2>7. Awaited(m)
    BY <2>4, <2>6 DEF Awaited
  <2> QED
    BY <1>4, <2>6, <2>7, Zenon DEF CInv, m
<1> QED
  BY <1>1, <1>2, <1>3, <1>4 DEF CInv

\* A caller's step keeps the lanes in order: a record becomes pending only
\* when a call begins, which makes the write's earlier items old.
LEMMA CallerOnlyOrder ==
  ASSUME Typed, KInv, OInv, NEW w \in Writes, CallerOnly(w)
  PROVE  OInv'
<1>1. UNCHANGED <<chan, spill, worker, log>>
  BY Zenon DEF CallerOnly
<1>2. caller \in [Writes -> CallerState] /\ caller' \in [Writes -> CallerState]
  BY Zenon DEF Typed, CallerOnly
<1>3. ASSUME NEW v \in Writes PROVE caller[v].run <= caller'[v].run
  <2>1. caller[v].run \in Nat
    BY <1>2 DEF CallerState
  <2>2. CASE v = w
    BY <2>2, Zenon DEF CallerOnly
  <2>3. CASE v # w
    BY <2>1, <2>3, SMT DEF CallerOnly
  <2> QED
    BY <2>2, <2>3
<1>4. ASSUME NEW l \in Lanes, NEW m \in Held(l), m.run = caller'[m.w].run
      PROVE  m \in Item /\ Current(m)
  <2>1. m \in Item /\ Known(m, l, caller)
    BY HeldTypes, Zenon DEF KInv
  <2> QED
    BY <1>2, <1>3, <1>4, <2>1, CurrentBefore, Zenon DEF Current
<1>5. ASSUME NEW l \in Lanes PROVE InOrder(l)'
  <2>1. InOrder(l)
    BY Zenon DEF OInv
  <2> QED
    BY <1>1, <2>1 DEF InOrder
<1>6. ASSUME NEW l \in Lanes PROVE LogBehind(l)'
  <2>1. LogBehind(l)
    BY Zenon DEF OInv
  <2>2. ASSUME NEW i \in DOMAIN worker[l].items, Current(worker[l].items[i])'
        PROVE  Current(worker[l].items[i])
    <3>1. worker[l].items[i] \in Held(l)
      BY DEF Held, Range
    <3>2. worker[l].items[i].run = caller'[worker[l].items[i].w].run
      BY <1>1, <2>2 DEF Current
    <3> QED
      BY <1>4, <3>1, <3>2
  <2>3. \A i : Handled(l, i) => Handled(l, i)'
    BY <1>1, Zenon DEF Handled, InLog
  <2> QED
    BY <1>1, <2>1, <2>2, <2>3 DEF LogBehind
<1>7. ASSUME NEW l \in Lanes PROVE AppliedOnce(l)'
  <2>1. AppliedOnce(l)
    BY DEF OInv
  <2>2. Held(l)' = Held(l)
    BY <1>1 DEF Held
  <2>3. ASSUME NEW m \in Held(l), m.run = caller'[m.w].run, InLog(m)
        PROVE  record'[m.w] # "pending"
    <3>1. m \in Item /\ Current(m)
      BY <1>4, <2>3, Zenon
    <3>2. record[m.w] # "pending" /\ m.w \in Writes
      BY <2>1, <2>3, <3>1, Zenon DEF AppliedOnce, Item
    <3>3. CASE m.w # w
      BY <3>2, <3>3 DEF CallerOnly
    <3>4. CASE m.w = w
      <4>1. m.run = caller[w].run /\ m.run = caller'[w].run /\ m.run \in Nat
        BY <2>3, <3>1, <3>4, Zenon DEF Current, Item
      <4> QED
        BY <3>2, <3>4, <4>1, SMT DEF CallerOnly
    <3> QED
      BY <3>3, <3>4, Zenon
  <2>4. \A m : InLog(m)' <=> InLog(m)
    BY <1>1, Zenon DEF InLog
  <2> QED
    BY <2>2, <2>3, <2>4 DEF AppliedOnce, Current
<1>8. LaneOrder'
  <2>1. LaneOrder
    BY Zenon DEF OInv
  <2> QED
    BY <1>1, <2>1 DEF LaneOrder, Late
<1> QED
  BY <1>5, <1>6, <1>7, <1>8, Zenon DEF OInv
-------------------------------------------------------------------------------
(* Steps that leave the log alone *)

\* Results stand at places of the batch.
LEMMA ResultPlaces ==
  ASSUME TInv, NEW l \in Lanes, NEW i \in DOMAIN worker[l].res
  PROVE  i \in DOMAIN worker[l].items /\ worker[l].items[i] \in Item
<1>1. Sized(l) /\ Typed
  BY Zenon DEF TInv
<1>2. worker[l].items \in Seq(Item) /\ worker[l].res \in Seq(Results)
      /\ worker[l].pc \in {"idle", "drain", "batch", "single", "answer"}
  BY <1>1, HeldTypes, Zenon DEF WorkerState
<1>3. DOMAIN worker[l].res = 1 .. Len(worker[l].res) /\ Len(worker[l].res) \in Nat
      /\ DOMAIN worker[l].items = 1 .. Len(worker[l].items)
      /\ Len(worker[l].items) \in Nat
  BY <1>2, RangeFacts, Zenon
<1>4. i \in DOMAIN worker[l].items
  BY <1>1, <1>2, <1>3, SMT DEF Sized
<1> QED
  BY <1>2, <1>4, RangeFacts

\* A lane nothing happens on stays in order.
LEMMA InOrderKept ==
  ASSUME NEW l \in Lanes, InOrder(l), chan'[l] = chan[l], spill'[l] = spill[l],
         worker'[l].items = worker[l].items
  PROVE  InOrder(l)'
  BY DEF InOrder

\* A lane that one more item is sent to stays in order when the item may come
\* after all that are there.
LEMMA InOrderSent ==
  ASSUME Typed, NEW l \in Lanes, NEW m \in Item, InOrder(l),
         chan'[l] = Append(chan[l], m), spill'[l] \subseteq spill[l],
         worker'[l] = worker[l], Free(m, m.after),
         \A h \in Held(l) : Free(m, h.after)
  PROVE  InOrder(l)'
<1> DEFINE q == chan[l]
           s == worker[l].items
<1>1. q \in Seq(Item) /\ s \in Seq(Item)
  BY HeldTypes, Zenon
<1>2. Len(q) \in Nat /\ DOMAIN q = 1 .. Len(q) /\ DOMAIN Append(q, m) = 1 .. Len(q) + 1
      /\ (\A i \in DOMAIN q : Append(q, m)[i] = q[i]) /\ Append(q, m)[Len(q) + 1] = m
  BY <1>1, AppendFacts
<1>3. (\A i \in DOMAIN q : Free(m, q[i].after)) /\ (\A i \in DOMAIN s : Free(m, s[i].after))
  BY Zenon DEF Held, Range
<1>4. \A h \in spill[l] : h.spilled
  BY Zenon DEF InOrder
<1>5. \A i, j \in DOMAIN q : j <= i => Free(q[i], q[j].after)
  BY Zenon DEF InOrder
<1>6. \A i, j \in DOMAIN s : j <= i => Free(s[i], s[j].after)
  BY Zenon DEF InOrder
<1>7. \A i \in DOMAIN q, j \in DOMAIN s : Free(q[i], s[j].after)
  BY DEF InOrder
<1>8. chan'[l] = Append(q, m) /\ worker'[l].items = s
  BY Zenon
<1> HIDE DEF q, s
<1>9. ASSUME NEW i \in DOMAIN Append(q, m), NEW j \in DOMAIN Append(q, m), j <= i
      PROVE  Free(Append(q, m)[i], Append(q, m)[j].after)
  <2>1. CASE i = Len(q) + 1
    BY <1>2, <1>3, <2>1, SMT
  <2>2. CASE i # Len(q) + 1
    <3>1. i \in DOMAIN q /\ j \in DOMAIN q
      BY <1>2, <1>9, <2>2, SMT
    <3> QED
      BY <1>2, <1>5, <1>9, <3>1, Zenon
  <2> QED
    BY <2>1, <2>2, Zenon
<1>10. ASSUME NEW i \in DOMAIN Append(q, m), NEW j \in DOMAIN s
       PROVE  Free(Append(q, m)[i], s[j].after)
  <2>1. CASE i = Len(q) + 1
    BY <1>2, <1>3, <2>1, Zenon
  <2>2. CASE i # Len(q) + 1
    <3>1. i \in DOMAIN q
      BY <1>2, <2>2, SMT
    <3> QED
      BY <1>2, <1>7, <3>1
  <2> QED
    BY <2>1, <2>2, Zenon
<1> QED
  BY <1>4, <1>6, <1>8, <1>9, <1>10, Zenon DEF InOrder

\* No entry of the log comes to wait for an item that is still on the channel
\* or in a batch the step leaves alone.
LEMMA LogBehindKept ==
  ASSUME Typed, KInv, caller' \in [Writes -> CallerState], NEW l \in Lanes, LogBehind(l),
         \A v \in Writes : caller[v].run <= caller'[v].run,
         log' = log, worker'[l] = worker[l],
         \A m \in Range(chan'[l]) : m \in Range(chan[l])
                                    \/ \A e \in DOMAIN log : Free(m, log[e].after)
  PROVE  LogBehind(l)'
<1>1. caller \in [Writes -> CallerState]
  BY Zenon DEF Typed
<1>2. ASSUME NEW i \in DOMAIN worker[l].items, Current(worker[l].items[i])'
      PROVE  Current(worker[l].items[i])
  <2>1. worker[l].items[i] \in Held(l)
    BY DEF Held, Range
  <2>2. worker[l].items[i].run = caller'[worker[l].items[i].w].run
    BY <1>2 DEF Current
  <2>3. worker[l].items[i] \in Item /\ Known(worker[l].items[i], l, caller)
    BY <2>1, HeldTypes, Zenon DEF KInv
  <2> QED
    BY <1>1, <2>2, <2>3, CurrentBefore, Zenon DEF Current
<1>3. \A i : Handled(l, i) => Handled(l, i)'
  BY Zenon DEF Handled, InLog
<1>4. ASSUME NEW e \in DOMAIN log, NEW i \in DOMAIN chan'[l]
      PROVE  Free(chan'[l][i], log[e].after)
  <2>1. chan'[l][i] \in Range(chan'[l])
    BY Zenon DEF Range
  <2>2. ASSUME NEW m \in Range(chan[l]) PROVE Free(m, log[e].after)
    <3>1. PICK j \in DOMAIN chan[l] : m = chan[l][j]
      BY Zenon DEF Range
    <3> QED
      BY <3>1, Zenon DEF LogBehind
  <2> QED
    BY <2>1, <2>2, Zenon
<1> QED
  BY <1>2, <1>3, <1>4, Zenon DEF LogBehind

\* Applied items keep a record that is not pending while records, log and the
\* items do.
LEMMA AppliedOnceKept ==
  ASSUME Typed, KInv, caller' \in [Writes -> CallerState], NEW l \in Lanes, AppliedOnce(l),
         \A v \in Writes : caller[v].run <= caller'[v].run,
         log' = log, record' = record,
         \A m \in Held(l)' : m \in Held(l) \/ ~InLog(m)
  PROVE  AppliedOnce(l)'
<1>1. caller \in [Writes -> CallerState]
  BY Zenon DEF Typed
<1>2. ASSUME NEW m \in Held(l)', m.run = caller'[m.w].run, InLog(m)
      PROVE  record[m.w] # "pending"
  <2>1. m \in Held(l)
    BY <1>2, Zenon
  <2>2. m \in Item /\ Known(m, l, caller)
    BY <2>1, HeldTypes DEF KInv
  <2>3. Current(m)
    BY <1>1, <1>2, <2>2, CurrentBefore, Zenon DEF Current
  <2> QED
    BY <1>2, <2>1, <2>3, Zenon DEF AppliedOnce
<1>3. \A m : InLog(m)' <=> InLog(m)
  BY Zenon DEF InLog
<1> QED
  BY <1>2, <1>3, Zenon DEF AppliedOnce, Current
-------------------------------------------------------------------------------
(* A commit request is enqueued *)

\* EnqueueCommit hands out item m of write w.
Enqueues(w, m) ==
    /\ m.w = w /\ m.k = caller[w].k + 1 /\ m.run = caller[w].run
    /\ m.after = caller[w].after /\ caller[w].pc = "commit"
    /\ UNCHANGED <<epoch, record, page, worker, faults, log>>
    /\ caller' \in [Writes -> CallerState]
    /\ \A v \in Writes \ {w} : caller'[v] = caller[v]
    /\ caller'[w].pc = "waiting"
    /\ caller'[w].k = m.k /\ caller'[w].run = m.run /\ caller'[w].after = m.after
    /\ \A l \in Lanes \ {Lane[w]} : chan'[l] = chan[l] /\ spill'[l] = spill[l]
    /\ chan' \in [Lanes -> Seq(Item)] /\ spill' \in [Lanes -> SUBSET Item]
    /\ \/ /\ m.spilled /\ chan' = chan
          /\ spill'[Lane[w]] = spill[Lane[w]] \cup {m}
       \/ /\ Len(chan[Lane[w]]) < Depth /\ spill' = spill
          /\ chan'[Lane[w]] = Append(chan[Lane[w]], m)

\* It does, for some item.
LEMMA EnqueueSteps ==
  ASSUME Typed, NEW w \in Writes, EnqueueCommit(w)
  PROVE  \E m \in Item : Enqueues(w, m)
<1> USE QueueAssumption
<1> DEFINE l == Lane[w]
           full == Len(chan[l]) >= Depth
           m == [w |-> w, k |-> caller[w].k + 1, run |-> caller[w].run,
                 epoch |-> caller[w].epoch, spilled |-> full, after |-> caller[w].after]
<1>1. caller \in [Writes -> CallerState] /\ caller[w] \in CallerState
      /\ chan \in [Lanes -> Seq(Item)] /\ spill \in [Lanes -> SUBSET Item] /\ l \in Lanes
  BY Zenon DEF Typed
<1>2. caller[w].k \in Nat /\ caller[w].k + 1 \in Nat /\ caller[w].run \in Nat
      /\ caller[w].epoch \in Nat /\ caller[w].after \in SUBSET (Writes \X Nat)
  BY <1>1 DEF CallerState
<1>3. full \in BOOLEAN
  OBVIOUS
<1>4. caller' = [caller EXCEPT ![w].pc = "waiting", ![w].k = @ + 1]
      /\ UNCHANGED <<epoch, record, page, worker, faults, log>> /\ caller[w].pc = "commit"
  BY DEF EnqueueCommit
<1>5. full => spill' = [spill EXCEPT ![l] = @ \cup {m}] /\ chan' = chan
  BY Zenon DEF EnqueueCommit
<1>6. ~full => chan' = [chan EXCEPT ![l] = Append(@, m)] /\ spill' = spill
  BY Zenon DEF EnqueueCommit
<1>7. m \in Item
  BY <1>2, <1>3 DEF Item
<1>8. m.w = w /\ m.k = caller[w].k + 1 /\ m.run = caller[w].run
      /\ m.after = caller[w].after /\ m.spilled = full
  BY Zenon
<1> HIDE DEF m
<1>9. caller' \in [Writes -> CallerState]
  BY <1>1, <1>2, <1>4, Zenon DEF CallerState
<1>10. caller'[w].pc = "waiting" /\ caller'[w].k = caller[w].k + 1
       /\ caller'[w].run = caller[w].run /\ caller'[w].after = caller[w].after
       /\ \A v \in Writes \ {w} : caller'[v] = caller[v]
  BY <1>1, <1>4 DEF CallerState
<1>11. CASE full
  <2>1. m.spilled
    BY <1>8, <1>11, Zenon
  <2>2. spill' = [spill EXCEPT ![l] = spill[l] \cup {m}] /\ chan' = chan
    BY <1>5, <1>11, Zenon
  <2>3. spill' \in [Lanes -> SUBSET Item] /\ spill'[l] = spill[l] \cup {m}
        /\ \A k \in Lanes \ {l} : spill'[k] = spill[k]
    BY <1>1, <1>7, <2>2, Zenon
  <2>4. Enqueues(w, m)
    BY <1>1, <1>4, <1>8, <1>9, <1>10, <2>1, <2>2, <2>3, Zenon DEF Enqueues
  <2> QED
    BY <1>7, <2>4
<1>12. CASE ~full
  <2>1. Len(chan[l]) \in Nat /\ Append(chan[l], m) \in Seq(Item)
    BY <1>1, <1>7, AppendFacts
  <2>2. Len(chan[l]) < Depth
    BY <1>12, <2>1, SMT
  <2>3. chan' = [chan EXCEPT ![l] = Append(chan[l], m)] /\ spill' = spill
    BY <1>6, <1>12, Zenon
  <2>4. chan' \in [Lanes -> Seq(Item)] /\ chan'[l] = Append(chan[l], m)
        /\ \A k \in Lanes \ {l} : chan'[k] = chan[k]
    BY <1>1, <2>1, <2>3, Zenon
  <2>5. Enqueues(w, m)
    BY <1>1, <1>4, <1>8, <1>9, <1>10, <2>2, <2>3, <2>4, Zenon DEF Enqueues
  <2> QED
    BY <1>7, <2>5
<1> QED
  BY <1>11, <1>12, Zenon

\* The id of a new item is in no set of ids given out before.
LEMMA NewId ==
  ASSUME NEW w \in Writes, NEW m \in Item, NEW c \in [Writes -> CallerState],
         m.w = w, m.k = c[w].k + 1, NEW u, NEW T, Issued(u, T, c)
  PROVE  Id(m) \notin T /\ Free(m, T)
<1>1. c[w].k \in Nat
  BY Zenon DEF CallerState
<1>2. SUFFICES ASSUME <<w, m.k>> \in T PROVE FALSE
  BY Zenon DEF Id, Free
<1>3. <<w, m.k>>[2] <= c[<<w, m.k>>[1]].k
  BY <1>2, Zenon DEF Issued
<1>4. c[w].k + 1 <= c[w].k
  BY <1>3, Zenon
<1> QED
  BY <1>1, <1>4, SMT

\* The calls do not go back, and no other lane changes.
LEMMA EnqueueFrame ==
  ASSUME Typed, NEW w \in Writes, NEW m \in Item, Enqueues(w, m)
  PROVE  /\ \A v \in Writes : caller[v].k <= caller'[v].k /\ caller[v].run <= caller'[v].run
         /\ \A l \in Lanes \ {Lane[w]} : Held(l)' = Held(l)
         /\ Held(Lane[w])' = Held(Lane[w]) \cup {m}
<1>1. caller \in [Writes -> CallerState] /\ Lane[w] \in Lanes
  BY QueueAssumption, Zenon DEF Typed
<1>2. ASSUME NEW v \in Writes
      PROVE  caller[v].k <= caller'[v].k /\ caller[v].run <= caller'[v].run
  <2>1. caller[v].k \in Nat /\ caller[v].run \in Nat
    BY <1>1 DEF CallerState
  <2>2. CASE v = w
    BY <2>1, <2>2, SMT DEF Enqueues
  <2>3. CASE v # w
    BY <2>1, <2>3, SMT DEF Enqueues
  <2> QED
    BY <2>2, <2>3
<1>3. \A l \in Lanes \ {Lane[w]} : Held(l)' = Held(l)
  BY Zenon DEF Held, Enqueues
<1>4. chan[Lane[w]] \in Seq(Item)
  BY <1>1, HeldTypes, Zenon
<1>5. Range(Append(chan[Lane[w]], m)) = Range(chan[Lane[w]]) \cup {m}
  BY <1>4, AppendFacts
<1>6. worker' = worker
  BY Zenon DEF Enqueues
<1>7. Held(Lane[w])' = Held(Lane[w]) \cup {m}
  <2>1. CASE chan' = chan /\ spill'[Lane[w]] = spill[Lane[w]] \cup {m}
    BY <1>6, <2>1, Zenon DEF Held
  <2>2. CASE spill' = spill /\ chan'[Lane[w]] = Append(chan[Lane[w]], m)
    BY <1>5, <1>6, <2>2 DEF Held
  <2> QED
    BY <2>1, <2>2, Zenon DEF Enqueues
<1> QED
  BY <1>2, <1>3, <1>7, Zenon
\* Enqueueing keeps the types: a full channel is not sent to.
LEMMA EnqueueTypes ==
  ASSUME TInv, NEW w \in Writes, NEW m \in Item, Enqueues(w, m)
  PROVE  TInv'
<1>1. Typed'
  BY Zenon DEF TInv, Typed, Enqueues
<1>2. ASSUME NEW l \in Lanes PROVE Sized(l)'
  <2>1. Sized(l) /\ Typed
    BY Zenon DEF TInv
  <2>2. Len(chan'[l]) <= Depth
    <3>1. CASE chan'[l] = chan[l]
      BY <2>1, <3>1 DEF Sized
    <3>2. CASE l = Lane[w] /\ Len(chan[l]) < Depth /\ chan'[l] = Append(chan[l], m)
      <4>1. chan[l] \in Seq(Item)
        BY <2>1, HeldTypes, Zenon
      <4>2. Len(chan'[l]) = Len(chan[l]) + 1 /\ Len(chan[l]) \in Nat
        BY <3>2, <4>1, AppendFacts
      <4>3. Depth \in Nat
        BY QueueAssumption, Zenon
      <4> QED
        BY <3>2, <4>2, <4>3, SMT
    <3> QED
      BY <3>1, <3>2, Zenon DEF Enqueues
  <2>3. worker' = worker
    BY DEF Enqueues
  <2> QED
    BY <2>1, <2>2, <2>3 DEF Sized
<1> QED
  BY <1>1, <1>2, Zenon DEF TInv

\* Enqueueing keeps the ids in bounds.
LEMMA EnqueueKnown ==
  ASSUME Typed, KInv, NEW w \in Writes, NEW m \in Item, Enqueues(w, m)
  PROVE  KInv'
<1>1. caller \in [Writes -> CallerState] /\ caller' \in [Writes -> CallerState]
      /\ Lane[w] \in Lanes
  BY QueueAssumption, Zenon DEF Typed, Enqueues
<1>2. \A v \in Writes : caller[v].k <= caller'[v].k /\ caller[v].run <= caller'[v].run
  BY EnqueueFrame, Zenon
<1>3. Issued(w, caller[w].after, caller) /\ caller[w].after \in SUBSET (Writes \X Nat)
  BY <1>1, Zenon DEF KInv, CallerState
<1>4. Issued(w, caller[w].after, caller')
  BY <1>1, <1>2, <1>3, IssuedGrows, Zenon
<1>5. Known(m, Lane[w], caller')
  <2>1. m.w = w /\ m.k = caller'[w].k /\ m.run = caller'[w].run /\ m.after = caller[w].after
    BY Zenon DEF Enqueues
  <2>2. m.k \in Nat /\ m.run \in Nat
    BY Zenon DEF Item
  <2>3. m.k <= caller'[w].k /\ m.run <= caller'[w].run
    BY <2>1, <2>2, SMT
  <2> QED
    BY <1>4, <2>1, <2>3, Zenon DEF Known
<1>6. ASSUME NEW l \in Lanes, NEW h \in Held(l)'
      PROVE  h \in Held(l) \/ Known(h, l, caller')
  <2>1. CASE l = Lane[w]
    <3>1. h \in Held(l) \/ h = m
      BY <2>1, EnqueueFrame
    <3> QED
      BY <1>5, <2>1, <3>1, Zenon
  <2>2. CASE l # Lane[w]
    BY <2>2, EnqueueFrame, Zenon
  <2> QED
    BY <2>1, <2>2
<1>7. \A v \in Writes : caller'[v].after = caller[v].after
  BY Zenon DEF Enqueues
<1>8. log' = log
  BY DEF Enqueues
<1> QED
  BY <1>1, <1>2, <1>6, <1>7, <1>8, KStep, Zenon

\* Enqueueing takes no result: the call waits for the new attempt.
LEMMA EnqueueCommitted ==
  ASSUME TInv, KInv, CInv, NEW w \in Writes, NEW m \in Item, Enqueues(w, m)
  PROVE  CInv'
<1>1. UNCHANGED <<record, worker, log>> /\ Typed
  BY Zenon DEF Enqueues, TInv
<1>2. ASSUME NEW v \in Writes, caller'[v].pc = "acked" PROVE record'[v] = "committed"
  <2>1. v # w
    BY <1>2, Zenon DEF Enqueues
  <2> QED
    BY <1>1, <1>2, <2>1 DEF Enqueues, CInv
<1>3. \A v \in Writes : record'[v] = "committed" => Logged(v)'
  BY <1>1 DEF CInv, Logged
<1>4. ASSUME NEW l \in Lanes, NEW i \in DOMAIN worker[l].res,
             worker[l].res[i] = "ok", Awaited(worker[l].items[i])'
      PROVE  record[worker[l].items[i].w] = "committed"
  <2>1. PICK h \in Item : h = worker[l].items[i]
    BY ResultPlaces, Zenon
  <2>2. h \in Held(l) /\ h.w \in Writes /\ h.k \in Nat
    BY <2>1, ResultPlaces, Zenon DEF Held, Range, Item
  <2>3. h.k <= caller[h.w].k
    BY <2>2, Zenon DEF KInv, Known
  <2>4. caller'[h.w].pc = "waiting" /\ caller'[h.w].k = h.k
    BY <1>1, <1>4, <2>1 DEF Awaited
  <2>5. h.w # w
    <3>1. caller[w].k \in Nat
      BY <1>1, Zenon DEF Typed, CallerState
    <3> QED
      BY <2>2, <2>3, <2>4, <3>1, SMT DEF Enqueues
  <2>6. Awaited(h)
    BY <2>2, <2>4, <2>5 DEF Awaited, Enqueues
  <2> QED
    BY <1>4, <2>1, <2>6, Zenon DEF CInv
<1> QED
  BY <1>1, <1>2, <1>3, <1>4, Zenon DEF CInv

\* Enqueueing keeps the lanes in order: nothing mentions the new item yet.
LEMMA EnqueueOrder ==
  ASSUME Typed, KInv, OInv, NEW w \in Writes, NEW m \in Item, Enqueues(w, m)
  PROVE  OInv'
<1>1. caller \in [Writes -> CallerState] /\ caller' \in [Writes -> CallerState]
      /\ Lane[w] \in Lanes
  BY QueueAssumption, Zenon DEF Typed, Enqueues
<1>2. UNCHANGED <<record, worker, log>> /\ m.w = w /\ m.k = caller[w].k + 1
      /\ m.after = caller[w].after
  BY Zenon DEF Enqueues
<1>3. /\ \A v \in Writes : caller[v].run <= caller'[v].run
      /\ \A l \in Lanes \ {Lane[w]} : Held(l)' = Held(l)
      /\ Held(Lane[w])' = Held(Lane[w]) \cup {m}
  BY EnqueueFrame, Zenon
<1>4. ASSUME NEW h \in Held(Lane[w]) PROVE Free(m, h.after)
  <2>1. Issued(h.w, h.after, caller)
    BY <1>1, Zenon DEF KInv, Known
  <2> QED
    BY <1>1, <1>2, <2>1, NewId, Zenon
<1>5. Free(m, m.after)
  <2>1. Issued(w, caller[w].after, caller)
    BY Zenon DEF KInv
  <2> QED
    BY <1>1, <1>2, <2>1, NewId, Zenon
<1>6. ASSUME NEW e \in DOMAIN log PROVE Free(m, log[e].after)
  <2>1. Issued(log[e].w, log[e].after, caller)
    BY DEF KInv
  <2> QED
    BY <1>1, <1>2, <2>1, NewId, Zenon
<1>7. ~InLog(m)
  <2>1. SUFFICES ASSUME NEW j \in DOMAIN log, Id(log[j]) = Id(m) PROVE FALSE
    BY Zenon DEF InLog
  <2>2. log[j].w = w /\ log[j].k = caller[w].k + 1
    BY <1>2, <2>1, Zenon DEF Id
  <2>3. log[j].k <= caller[log[j].w].k /\ caller[w].k \in Nat
    BY <1>1, Zenon DEF KInv, CallerState
  <2> QED
    BY <2>2, <2>3, SMT
<1>8. ASSUME NEW l \in Lanes PROVE InOrder(l)'
  <2>1. InOrder(l)
    BY Zenon DEF OInv
  <2>2. CASE l # Lane[w]
    BY <2>1, <2>2, <1>2, InOrderKept, Zenon DEF Enqueues
  <2>3. CASE l = Lane[w] /\ chan' = chan /\ m.spilled
             /\ spill'[l] = spill[l] \cup {m}
    BY <1>2, <2>1, <2>3 DEF InOrder
  <2>4. CASE l = Lane[w] /\ spill' = spill /\ chan'[l] = Append(chan[l], m)
    BY <1>2, <1>4, <1>5, <2>1, <2>4, InOrderSent, Zenon
  <2> QED
    BY <2>2, <2>3, <2>4 DEF Enqueues
<1>9. ASSUME NEW l \in Lanes PROVE LogBehind(l)'
  <2>1. LogBehind(l)
    BY Zenon DEF OInv
  <2>2. \A h \in Range(chan'[l]) : h \in Range(chan[l]) \/ h = m
    <3>1. CASE chan'[l] = chan[l]
      BY <3>1, Zenon
    <3>2. CASE chan'[l] = Append(chan[l], m)
      <4>1. chan[l] \in Seq(Item)
        BY HeldTypes, Zenon
      <4> QED
        BY <3>2, <4>1, AppendFacts
    <3> QED
      BY <3>1, <3>2, Zenon DEF Enqueues
  <2> QED
    BY <1>1, <1>2, <1>3, <1>6, <2>1, <2>2, LogBehindKept
<1>10. ASSUME NEW l \in Lanes PROVE AppliedOnce(l)'
  <2>1. AppliedOnce(l)
    BY Zenon DEF OInv
  <2>2. \A h \in Held(l)' : h \in Held(l) \/ ~InLog(h)
    BY <1>3, <1>7, Zenon
  <2> QED
    BY <1>1, <1>2, <1>3, <2>1, <2>2, AppliedOnceKept
<1>11. LaneOrder'
  <2>1. LaneOrder
    BY Zenon DEF OInv
  <2> QED
    BY <1>2, <2>1 DEF LaneOrder, Late
<1> QED
  BY <1>8, <1>9, <1>10, <1>11 DEF OInv
-------------------------------------------------------------------------------
(* Items move along a lane *)

\* Steps of a lane that neither commit nor answer.
Quiet == UNCHANGED <<epoch, record, page, caller, faults, log>>

\* Moving items keeps the ids in bounds.
LEMMA QuietKnown ==
  ASSUME Typed, KInv, UNCHANGED <<caller, log>>, \A l \in Lanes : Held(l)' \subseteq Held(l)
  PROVE  KInv'
<1>1. caller \in [Writes -> CallerState]
  BY DEF Typed
<1>2. \A v \in Writes : caller[v].k <= caller[v].k /\ caller[v].run <= caller[v].run
  <2>1. \A v \in Writes : caller[v].k \in Nat /\ caller[v].run \in Nat
    BY <1>1 DEF CallerState
  <2> QED
    BY <2>1, SMT
<1> QED
  BY <1>1, <1>2, KStep

\* Moving items keeps acknowledgements backed when no result is made up.
LEMMA QuietCommitted ==
  ASSUME CInv, UNCHANGED <<record, caller, log>>,
         \A l \in Lanes : \/ worker'[l].res = <<>>
                          \/ /\ worker'[l].res = worker[l].res
                             /\ worker'[l].items = worker[l].items
  PROVE  CInv'
<1>1. ASSUME NEW l \in Lanes, NEW i \in DOMAIN worker'[l].res, worker'[l].res[i] = "ok",
             Awaited(worker'[l].items[i])
      PROVE  record[worker'[l].items[i].w] = "committed"
  <2>1. worker'[l].res # <<>>
    OBVIOUS
  <2> QED
    BY <1>1, <2>1 DEF CInv
<1> QED
  BY <1>1 DEF CInv, Logged, Awaited

\* A goroutine's item that is sent goes to the end of the channel.
LEMMA SendTypes ==
  ASSUME TInv, NEW l \in Lanes, NEW m \in spill[l], SendLater(l, m)
  PROVE  /\ TInv' /\ Quiet /\ m \in Item /\ worker' = worker
         /\ chan'[l] = Append(chan[l], m) /\ spill'[l] \subseteq spill[l]
         /\ \A k \in Lanes \ {l} : chan'[k] = chan[k] /\ spill'[k] = spill[k]
<1>1. Typed /\ m \in Item /\ chan[l] \in Seq(Item) /\ m \in Item
  BY HeldTypes, Zenon DEF TInv
<1>2. Quiet /\ worker' = worker /\ Len(chan[l]) < Depth
      /\ spill' = [spill EXCEPT ![l] = @ \ {m}]
      /\ chan' = [chan EXCEPT ![l] = Append(@, m)]
  BY Zenon DEF SendLater, Quiet
<1>3. Append(chan[l], m) \in Seq(Item) /\ Len(Append(chan[l], m)) = Len(chan[l]) + 1
      /\ Len(chan[l]) \in Nat
  BY <1>1, AppendFacts
<1>4. chan \in [Lanes -> Seq(Item)] /\ spill \in [Lanes -> SUBSET Item]
  BY <1>1, Zenon DEF Typed
<1>5. chan' \in [Lanes -> Seq(Item)] /\ spill' \in [Lanes -> SUBSET Item]
  BY <1>2, <1>3, <1>4, Zenon
<1>6. Typed'
  BY <1>1, <1>2, <1>5, Zenon DEF Typed, Quiet
<1>7. /\ chan'[l] = Append(chan[l], m) /\ spill'[l] \subseteq spill[l]
      /\ \A k \in Lanes \ {l} : chan'[k] = chan[k] /\ spill'[k] = spill[k]
  BY <1>2, <1>4, Zenon
<1>8. ASSUME NEW k \in Lanes PROVE Sized(k)'
  <2>1. Sized(k)
    BY Zenon DEF TInv
  <2>2. Depth \in Nat
    BY QueueAssumption, Zenon
  <2>3. Len(chan'[k]) <= Depth
    <3>1. CASE k = l
      BY <1>2, <1>3, <1>7, <2>2, <3>1, SMT
    <3>2. CASE k # l
      BY <1>7, <2>1, <3>2, Zenon DEF Sized
    <3> QED
      BY <3>1, <3>2
  <2> QED
    BY <1>2, <2>1, <2>3, Zenon DEF Sized
<1> QED
  BY <1>1, <1>2, <1>6, <1>7, <1>8 DEF TInv

\* SendLater keeps the invariant: an overflow item was marked as one.
LEMMA SendKeeps ==
  ASSUME IInv, NEW l \in Lanes, NEW m \in spill[l], SendLater(l, m)
  PROVE  IInv'
<1>1. TInv /\ Typed /\ KInv /\ CInv /\ OInv
  BY DEF IInv, TInv
<1>2. TInv' /\ Quiet /\ m \in Item /\ worker' = worker
      /\ chan'[l] = Append(chan[l], m) /\ spill'[l] \subseteq spill[l]
      /\ \A k \in Lanes \ {l} : chan'[k] = chan[k] /\ spill'[k] = spill[k]
  BY <1>1, SendTypes, Zenon
<1>3. UNCHANGED <<record, caller, log>>
  BY <1>2, Zenon DEF Quiet
<1>4. Range(chan'[l]) = Range(chan[l]) \cup {m}
  BY <1>1, <1>2, HeldTypes, AppendFacts
<1>5. ASSUME NEW k \in Lanes PROVE Held(k)' \subseteq Held(k)
  <2>1. CASE k = l
    BY <1>2, <1>4, <2>1, Zenon DEF Held
  <2>2. CASE k # l
    BY <1>2, <2>2, Zenon DEF Held
  <2> QED
    BY <2>1, <2>2
<1>6. KInv' /\ CInv'
  BY <1>1, <1>2, <1>3, <1>5, QuietKnown, QuietCommitted
<1>7. m.spilled /\ \A T : Free(m, T)
  BY <1>1, Zenon DEF OInv, InOrder, Free
<1>8. caller' \in [Writes -> CallerState] /\ \A v \in Writes : caller[v].run <= caller'[v].run
  <2>1. caller \in [Writes -> CallerState]
    BY <1>1, Zenon DEF Typed
  <2>2. \A v \in Writes : caller[v].run \in Nat
    BY <2>1 DEF CallerState
  <2> QED
    BY <1>3, <2>1, <2>2, SMT
<1>9. ASSUME NEW k \in Lanes PROVE InOrder(k)' /\ LogBehind(k)' /\ AppliedOnce(k)'
  <2>1. InOrder(k) /\ LogBehind(k) /\ AppliedOnce(k)
    BY <1>1, Zenon DEF OInv
  <2>2. InOrder(k)'
    <3>1. CASE k = l
      BY <1>1, <1>2, <1>7, <2>1, <3>1, InOrderSent
    <3>2. CASE k # l
      BY <1>2, <2>1, <3>2, InOrderKept, Zenon
    <3> QED
      BY <3>1, <3>2, Zenon
  <2>3. \A h \in Range(chan'[k]) : h \in Range(chan[k]) \/ h = m
    BY <1>2, <1>4, Zenon
  <2>4. LogBehind(k)'
    BY <1>1, <1>2, <1>3, <1>7, <1>8, <2>1, <2>3, LogBehindKept, Zenon
  <2>5. AppliedOnce(k)'
    BY <1>1, <1>3, <1>5, <1>8, <2>1, AppliedOnceKept, Zenon
  <2> QED
    BY <2>2, <2>4, <2>5, Zenon
<1>10. LaneOrder'
  BY <1>1, <1>3, Zenon DEF OInv, LaneOrder, Late
<1> QED
  BY <1>2, <1>6, <1>9, <1>10, Zenon DEF IInv, OInv
\* The worker takes the head of its channel, within the batch's size.
LEMMA ReceiveTypes ==
  ASSUME TInv, NEW l \in Lanes, Receive(l)
  PROVE  /\ TInv' /\ Quiet /\ spill' = spill /\ chan[l] # <<>>
         /\ chan'[l] = Tail(chan[l])
         /\ worker'[l].items = Append(worker[l].items, Head(chan[l]))
         /\ worker'[l].res = <<>> /\ worker'[l].pc = "drain"
         /\ worker[l].pc \in {"idle", "drain"}
         /\ \A k \in Lanes \ {l} : chan'[k] = chan[k] /\ worker'[k] = worker[k]
<1>1. Typed /\ Sized(l) /\ chan[l] \in Seq(Item) /\ worker[l] \in WorkerState
      /\ worker[l].items \in Seq(Item) /\ worker[l].res \in Seq(Results)
  BY HeldTypes DEF TInv
<1>2. Quiet /\ spill' = spill /\ chan[l] # <<>>
      /\ worker' = [worker EXCEPT ![l].pc = "drain", ![l].items = Append(@, Head(chan[l]))]
      /\ chan' = [chan EXCEPT ![l] = Tail(@)]
      /\ (worker[l].pc = "idle" \/ (worker[l].pc = "drain" /\ HasRoom(l)))
  BY DEF Receive, Quiet
<1>3. Tail(chan[l]) \in Seq(Item) /\ Head(chan[l]) \in Item
      /\ Len(chan[l]) \in Nat /\ Len(Tail(chan[l])) = Len(chan[l]) - 1
  BY <1>1, <1>2, TailFacts
<1>4. PICK s \in Seq(Item) : s = Append(worker[l].items, Head(chan[l]))
  BY <1>1, <1>3, AppendFacts, Zenon
<1>5. Len(worker[l].items) \in Nat /\ Len(s) = Len(worker[l].items) + 1
  BY <1>1, <1>3, <1>4, AppendFacts
<1>6. chan \in [Lanes -> Seq(Item)] /\ worker \in [Lanes -> WorkerState]
  BY <1>1, Zenon DEF Typed
<1>7. worker' = [worker EXCEPT ![l].pc = "drain", ![l].items = s]
  BY <1>2, <1>4, <1>6
<1>8. chan' \in [Lanes -> Seq(Item)] /\ chan'[l] = Tail(chan[l])
      /\ \A k \in Lanes \ {l} : chan'[k] = chan[k]
  BY <1>2, <1>3, <1>6
<1>9. worker' \in [Lanes -> WorkerState] /\ worker'[l].items = s /\ worker'[l].pc = "drain"
      /\ worker'[l].res = worker[l].res
      /\ \A k \in Lanes \ {l} : worker'[k] = worker[k]
  BY <1>1, <1>6, <1>7, Zenon DEF WorkerState
<1>10. worker[l].res = <<>>
  BY <1>1, <1>2, Zenon DEF Sized
<1>11. Typed'
  BY <1>1, <1>2, <1>8, <1>9, Zenon DEF Typed, Quiet
<1>12. ASSUME NEW k \in Lanes PROVE Sized(k)'
  <2>1. CASE k # l
    <3>1. Sized(k)
      BY Zenon DEF TInv
    <3> QED
      BY <1>8, <1>9, <2>1, <3>1 DEF Sized
  <2>2. CASE k = l
    <3>1. BatchMax \in Nat \ {0} /\ Depth \in Nat
      BY QueueAssumption, Zenon
    <3>2. Len(chan'[l]) <= Depth
      BY <1>1, <1>3, <1>8, <3>1, SMT DEF Sized
    <3>3. Len(s) <= BatchMax
      <4>1. CASE worker[l].pc = "idle"
        <5>1. Len(worker[l].items) = 0
          BY <1>1, <4>1 DEF Sized
        <5> QED
          BY <1>5, <3>1, <5>1, SMT
      <4>2. CASE HasRoom(l)
        BY <1>5, <3>1, <4>2, SMT DEF HasRoom
      <4> QED
        BY <1>2, <4>1, <4>2
    <3>4. s # <<>>
      BY <1>5, SMT
    <3> QED
      BY <1>9, <1>10, <2>2, <3>2, <3>3, <3>4, Zenon DEF Sized
  <2> QED
    BY <2>1, <2>2, Zenon
<1> QED
  BY <1>2, <1>4, <1>8, <1>9, <1>10, <1>11, <1>12, Zenon DEF TInv

\* A received item stays behind the batch and before the channel.
LEMMA InOrderReceived ==
  ASSUME Typed, NEW l \in Lanes, InOrder(l), chan[l] # <<>>,
         chan'[l] = Tail(chan[l]), spill'[l] = spill[l],
         worker'[l].items = Append(worker[l].items, Head(chan[l]))
  PROVE  InOrder(l)'
<1> DEFINE q == chan[l]
           s == worker[l].items
           u == Append(s, Head(q))
<1>1. q \in Seq(Item) /\ s \in Seq(Item)
  BY HeldTypes, Zenon
<1>2. Head(q) \in Item /\ Head(q) = q[1] /\ 1 \in DOMAIN q
      /\ Len(q) \in Nat /\ DOMAIN q = 1 .. Len(q)
      /\ DOMAIN Tail(q) = 1 .. Len(q) - 1
      /\ \A i \in DOMAIN Tail(q) : i + 1 \in DOMAIN q /\ Tail(q)[i] = q[i + 1]
  BY <1>1, TailFacts, RangeFacts
<1>3. Len(s) \in Nat /\ DOMAIN s = 1 .. Len(s) /\ DOMAIN u = 1 .. Len(s) + 1
      /\ (\A i \in DOMAIN s : u[i] = s[i]) /\ u[Len(s) + 1] = Head(q)
  BY <1>1, <1>2, AppendFacts
<1>4. \A h \in spill[l] : h.spilled
  BY Zenon DEF InOrder
<1>5. \A i, j \in DOMAIN q : j <= i => Free(q[i], q[j].after)
  BY Zenon DEF InOrder
<1>6. \A i, j \in DOMAIN s : j <= i => Free(s[i], s[j].after)
  BY Zenon DEF InOrder
<1>7. \A i \in DOMAIN q, j \in DOMAIN s : Free(q[i], s[j].after)
  BY Zenon DEF InOrder
<1>8. chan'[l] = Tail(q) /\ worker'[l].items = u
  BY Zenon
<1> HIDE DEF q, s, u
<1>9. ASSUME NEW i \in DOMAIN Tail(q), NEW j \in DOMAIN Tail(q), j <= i
      PROVE  Free(Tail(q)[i], Tail(q)[j].after)
  <2>1. j + 1 <= i + 1
    BY <1>2, <1>9, SMT
  <2> QED
    BY <1>2, <1>5, <2>1
<1>10. ASSUME NEW i \in DOMAIN u, NEW j \in DOMAIN u, j <= i
       PROVE  Free(u[i], u[j].after)
  <2>1. CASE i = Len(s) + 1 /\ j = Len(s) + 1
    <3>1. 1 <= 1
      BY SMT
    <3> QED
      BY <1>2, <1>3, <1>5, <2>1, <3>1
  <2>2. CASE i = Len(s) + 1 /\ j # Len(s) + 1
    <3>1. j \in DOMAIN s
      BY <1>3, <2>2, SMT
    <3> QED
      BY <1>2, <1>3, <1>7, <2>2, <3>1, Zenon
  <2>3. CASE i # Len(s) + 1
    <3>1. i \in DOMAIN s /\ j \in DOMAIN s
      BY <1>3, <1>10, <2>3, SMT
    <3> QED
      BY <1>3, <1>6, <1>10, <3>1, Zenon
  <2> QED
    BY <2>1, <2>2, <2>3, Zenon
<1>11. ASSUME NEW i \in DOMAIN Tail(q), NEW j \in DOMAIN u
       PROVE  Free(Tail(q)[i], u[j].after)
  <2>1. CASE j = Len(s) + 1
    <3>1. 1 <= i + 1
      BY <1>2, SMT
    <3> QED
      BY <1>2, <1>3, <1>5, <2>1, <3>1, Zenon
  <2>2. CASE j # Len(s) + 1
    <3>1. j \in DOMAIN s
      BY <1>3, <2>2, SMT
    <3> QED
      BY <1>2, <1>3, <1>7, <3>1, Zenon
  <2> QED
    BY <2>1, <2>2, Zenon
<1> QED
  BY <1>4, <1>8, <1>9, <1>10, <1>11, Zenon DEF InOrder

\* Receive keeps the invariant.
LEMMA ReceiveKeeps ==
  ASSUME IInv, NEW l \in Lanes, Receive(l)
  PROVE  IInv'
<1>1. TInv /\ Typed /\ KInv /\ CInv /\ OInv
  BY Zenon DEF IInv, TInv
<1>2. /\ TInv' /\ Quiet /\ spill' = spill /\ chan[l] # <<>>
      /\ chan'[l] = Tail(chan[l])
      /\ worker'[l].items = Append(worker[l].items, Head(chan[l]))
      /\ worker'[l].res = <<>> /\ worker'[l].pc = "drain"
      /\ worker[l].pc \in {"idle", "drain"}
      /\ \A k \in Lanes \ {l} : chan'[k] = chan[k] /\ worker'[k] = worker[k]
  BY <1>1, ReceiveTypes, Zenon
<1>3. UNCHANGED <<record, caller, log>>
  BY <1>2, Zenon DEF Quiet
<1>4. chan[l] \in Seq(Item) /\ worker[l].items \in Seq(Item)
  BY <1>1, HeldTypes, Zenon
<1>5. Range(chan'[l]) \subseteq Range(chan[l]) /\ Head(chan[l]) \in Range(chan[l])
      /\ Head(chan[l]) \in Item /\ Head(chan[l]) = chan[l][1] /\ 1 \in DOMAIN chan[l]
  BY <1>2, <1>4, TailFacts
<1>6. Range(worker'[l].items) = Range(worker[l].items) \cup {Head(chan[l])}
  BY <1>2, <1>4, <1>5, AppendFacts
<1>7. ASSUME NEW k \in Lanes PROVE Held(k)' \subseteq Held(k)
  <2>1. CASE k = l
    BY <1>2, <1>5, <1>6, <2>1, Zenon DEF Held
  <2>2. CASE k # l
    BY <1>2, <2>2, Zenon DEF Held
  <2> QED
    BY <2>1, <2>2
<1>8. KInv'
  BY <1>1, <1>3, <1>7, QuietKnown, Zenon
<1>9. CInv'
  <2>1. \A k \in Lanes : \/ worker'[k].res = <<>>
                         \/ /\ worker'[k].res = worker[k].res
                            /\ worker'[k].items = worker[k].items
    BY <1>2
  <2> QED
    BY <1>1, <1>3, <2>1, QuietCommitted, Zenon
<1>10. caller' \in [Writes -> CallerState] /\ \A v \in Writes : caller[v].run <= caller'[v].run
  <2>1. caller \in [Writes -> CallerState]
    BY <1>1 DEF Typed
  <2>2. \A v \in Writes : caller[v].run \in Nat
    BY <2>1 DEF CallerState
  <2> QED
    BY <1>3, <2>1, <2>2, SMT
<1>11. ASSUME NEW k \in Lanes PROVE InOrder(k)' /\ AppliedOnce(k)'
  <2>1. InOrder(k) /\ AppliedOnce(k)
    BY <1>1 DEF OInv
  <2>2. InOrder(k)'
    <3>1. CASE k = l
      BY <1>1, <1>2, <2>1, <3>1, InOrderReceived, Zenon
    <3>2. CASE k # l
      BY <1>2, <2>1, <3>2, InOrderKept, Zenon
    <3> QED
      BY <3>1, <3>2, Zenon
  <2>3. AppliedOnce(k)'
    BY <1>1, <1>3, <1>7, <1>10, <2>1, AppliedOnceKept
  <2> QED
    BY <2>2, <2>3
<1>12. ASSUME NEW k \in Lanes PROVE LogBehind(k)'
  <2>1. LogBehind(k)
    BY <1>1, Zenon DEF OInv
  <2>2. CASE k # l
    BY <1>1, <1>2, <1>3, <1>10, <2>1, <2>2, LogBehindKept, Zenon
  <2>3. CASE k = l
    <3>1. ASSUME NEW e \in DOMAIN log, NEW i \in DOMAIN chan'[l]
          PROVE  Free(chan'[l][i], log[e].after)
      <4>1. i + 1 \in DOMAIN chan[l] /\ chan'[l][i] = chan[l][i + 1]
        BY <1>2, <1>4, TailFacts
      <4> QED
        BY <2>1, <2>3, <4>1, Zenon DEF LogBehind
    <3>2. ASSUME NEW e \in DOMAIN log, NEW i \in DOMAIN worker'[l].items,
                 Current(worker'[l].items[i])
          PROVE  Free(worker'[l].items[i], log[e].after)
      <4>1. Len(worker[l].items) \in Nat
            /\ DOMAIN worker[l].items = 1 .. Len(worker[l].items)
            /\ DOMAIN worker'[l].items = 1 .. Len(worker[l].items) + 1
            /\ (\A j \in DOMAIN worker[l].items : worker'[l].items[j] = worker[l].items[j])
            /\ worker'[l].items[Len(worker[l].items) + 1] = Head(chan[l])
        BY <1>2, <1>4, <1>5, AppendFacts
      <4>2. CASE i = Len(worker[l].items) + 1
        BY <1>5, <2>1, <2>3, <4>1, <4>2, Zenon DEF LogBehind
      <4>3. CASE i # Len(worker[l].items) + 1
        <5>1. i \in DOMAIN worker[l].items
          BY <4>1, <4>3, SMT
        <5>2. ~Handled(l, i)
          BY <1>2, Zenon DEF Handled
        <5> QED
          BY <2>1, <2>3, <3>2, <4>1, <5>1, <5>2, Zenon DEF LogBehind
      <4> QED
        BY <4>2, <4>3, Zenon
    <3>3. \A h : Current(h)' <=> Current(h)
      BY <1>3, Zenon DEF Current
    <3> QED
      BY <1>3, <2>3, <3>1, <3>2, <3>3, Zenon DEF LogBehind
  <2> QED
    BY <2>2, <2>3, Zenon
<1>13. LaneOrder'
  BY <1>1, <1>3, Zenon DEF OInv, LaneOrder, Late
<1> QED
  BY <1>2, <1>8, <1>9, <1>11, <1>12, <1>13 DEF IInv, OInv
\* StartBatch keeps the invariant.
LEMMA StartKeeps ==
  ASSUME IInv, NEW l \in Lanes, StartBatch(l)
  PROVE  IInv'
<1>1. TInv /\ Typed /\ KInv /\ CInv /\ OInv /\ Sized(l)
  BY DEF IInv, TInv
<1>2. UNCHANGED <<epoch, record, page, chan, spill, caller, faults, log>>
      /\ worker[l].pc = "drain"
      /\ worker' = [worker EXCEPT ![l].pc = "batch", ![l].try = 1]
  BY Zenon DEF StartBatch
<1>3. worker \in [Lanes -> WorkerState] /\ 1 \in 0 .. MaxAttempts
  BY <1>1, QueueAssumption, SMT DEF Typed
<1>4. worker' \in [Lanes -> WorkerState] /\ worker'[l].pc = "batch"
      /\ worker'[l].items = worker[l].items /\ worker'[l].res = worker[l].res
      /\ \A k \in Lanes \ {l} : worker'[k] = worker[k]
  BY <1>2, <1>3, Zenon DEF WorkerState
<1>5. \A k \in Lanes : worker'[k].items = worker[k].items /\ worker'[k].res = worker[k].res
  BY <1>4
<1>6. TInv'
  <2>1. Typed'
    BY <1>1, <1>2, <1>4 DEF Typed
  <2>2. ASSUME NEW k \in Lanes PROVE Sized(k)'
    <3>1. CASE k = l
      BY <1>1, <1>2, <1>4, <3>1 DEF Sized
    <3>2. CASE k # l
      <4>1. Sized(k)
        BY <1>1 DEF TInv
      <4> QED
        BY <1>2, <1>4, <3>2, <4>1 DEF Sized
    <3> QED
      BY <3>1, <3>2
  <2> QED
    BY <2>1, <2>2 DEF TInv
<1>7. \A k \in Lanes : Held(k)' = Held(k)
  BY <1>2, <1>5, Zenon DEF Held
<1>8. KInv' /\ CInv'
  BY <1>1, <1>2, <1>5, <1>7, QuietKnown, QuietCommitted, Zenon
<1>9. ASSUME NEW k \in Lanes PROVE InOrder(k)' /\ LogBehind(k)' /\ AppliedOnce(k)'
  <2>1. InOrder(k) /\ LogBehind(k) /\ AppliedOnce(k)
    BY <1>1 DEF OInv
  <2>2. InOrder(k)'
    BY <1>2, <1>5, <2>1, InOrderKept, Zenon
  <2>3. \A i : Handled(k, i) => Handled(k, i)'
    <3>1. CASE k = l
      BY <1>2, <3>1 DEF Handled
    <3>2. CASE k # l
      BY <1>2, <1>4, <3>2 DEF Handled, InLog
    <3> QED
      BY <3>1, <3>2
  <2>4. LogBehind(k)'
    <3>1. chan'[k] = chan[k] /\ log' = log /\ worker'[k].items = worker[k].items
      BY <1>2, <1>5, Zenon
    <3>2. \A h : Current(h)' <=> Current(h)
      BY <1>2 DEF Current
    <3> QED
      BY <2>1, <2>3, <3>1, <3>2, Zenon DEF LogBehind
  <2>5. AppliedOnce(k)'
    BY <1>2, <1>7, <2>1 DEF AppliedOnce, Current, InLog
  <2> QED
    BY <2>2, <2>4, <2>5
<1>10. LaneOrder'
  BY <1>1, <1>2 DEF OInv, LaneOrder, Late
<1> QED
  BY <1>6, <1>8, <1>9, <1>10 DEF IInv, OInv

\* A failover changes nothing the queue holds.
LEMMA FailoverKeeps ==
  ASSUME IInv, CommitPrimaryFailover
  PROVE  IInv'
<1>1. UNCHANGED <<record, page, chan, spill, worker, caller, faults, log>>
      /\ epoch' = epoch + 1 /\ epoch < MaxEpoch
  BY DEF CommitPrimaryFailover
<1>2. TInv'
  <2>1. epoch' \in 1 .. MaxEpoch
    BY <1>1, QueueAssumption, SMT DEF IInv, TInv, Typed
  <2>2. Typed'
    BY <1>1, <2>1, Zenon DEF IInv, TInv, Typed
  <2>3. ASSUME NEW l \in Lanes PROVE Sized(l)'
    BY <1>1, Zenon DEF IInv, TInv, Sized
  <2> QED
    BY <2>2, <2>3, Zenon DEF TInv
<1>3. \A l \in Lanes : Held(l)' = Held(l)
  BY <1>1 DEF Held
<1>4. KInv' /\ CInv'
  BY <1>1, <1>3, Zenon DEF IInv, KInv, CInv, Logged, Awaited
<1>5. ASSUME NEW l \in Lanes PROVE InOrder(l)' /\ LogBehind(l)' /\ AppliedOnce(l)'
  <2>1. InOrder(l) /\ LogBehind(l) /\ AppliedOnce(l)
    BY DEF IInv, OInv
  <2>2. InOrder(l)'
    BY <1>1, <2>1, InOrderKept, Zenon
  <2>3. LogBehind(l)'
    <3>1. \A m : Current(m)' <=> Current(m)
      BY <1>1, Zenon DEF Current
    <3>2. \A i : Handled(l, i)' <=> Handled(l, i)
      BY <1>1, Zenon DEF Handled, InLog
    <3> QED
      BY <1>1, <2>1, <3>1, <3>2, Zenon DEF LogBehind
  <2>4. AppliedOnce(l)'
    BY <1>1, <1>3, <2>1, Zenon DEF AppliedOnce, Current, InLog
  <2> QED
    BY <2>2, <2>3, <2>4
<1>6. LaneOrder'
  BY <1>1, Zenon DEF IInv, OInv, LaneOrder, Late
<1> QED
  BY <1>2, <1>4, <1>5, <1>6, Zenon DEF IInv, OInv

\* A step that changes nothing keeps the invariant.
LEMMA StutterKeeps ==
  ASSUME IInv, UNCHANGED vars
  PROVE  IInv'
<1>1. UNCHANGED <<epoch, record, page, chan, spill, worker, caller, faults, log>>
  BY DEF vars
<1>2. TInv'
  <2>1. Typed'
    BY <1>1, Zenon DEF IInv, TInv, Typed
  <2>2. ASSUME NEW l \in Lanes PROVE Sized(l)'
    BY <1>1, Zenon DEF IInv, TInv, Sized
  <2> QED
    BY <2>1, <2>2, Zenon DEF TInv
<1>3. \A l \in Lanes : Held(l)' = Held(l)
  BY <1>1 DEF Held
<1>4. KInv' /\ CInv'
  BY <1>1, <1>3, Zenon DEF IInv, KInv, CInv, Logged, Awaited
<1>5. ASSUME NEW l \in Lanes PROVE InOrder(l)' /\ LogBehind(l)' /\ AppliedOnce(l)'
  <2>1. InOrder(l) /\ LogBehind(l) /\ AppliedOnce(l)
    BY Zenon DEF IInv, OInv
  <2>2. InOrder(l)'
    BY <1>1, <2>1, InOrderKept
  <2>3. LogBehind(l)'
    <3>1. \A m : Current(m)' <=> Current(m)
      BY <1>1, Zenon DEF Current
    <3>2. \A i : Handled(l, i)' <=> Handled(l, i)
      BY <1>1, Zenon DEF Handled, InLog
    <3> QED
      BY <1>1, <2>1, <3>1, <3>2, Zenon DEF LogBehind
  <2>4. AppliedOnce(l)'
    BY <1>1, <1>3, <2>1, Zenon DEF AppliedOnce, Current, InLog
  <2> QED
    BY <2>2, <2>3, <2>4
<1>6. LaneOrder'
  BY <1>1 DEF IInv, OInv, LaneOrder, Late
<1> QED
  BY <1>2, <1>4, <1>5, <1>6 DEF IInv, OInv
\* A crash of sbs-service empties every lane and leaves the metadata alone.
LEMMA CrashKeeps ==
  ASSUME IInv, ServiceCrash
  PROVE  IInv'
<1>1. TInv /\ Typed /\ KInv /\ CInv /\ OInv
  BY DEF IInv, TInv
<1>2. UNCHANGED <<epoch, record, page, log>> /\ Fault
      /\ chan' = [l \in Lanes |-> <<>>] /\ spill' = [l \in Lanes |-> {}]
      /\ worker' = [l \in Lanes |-> Idle]
  BY DEF ServiceCrash
<1>3. caller' = [w \in Writes |-> IF caller[w].pc = "waiting"
                                  THEN [caller[w] EXCEPT !.pc = "failing"] ELSE caller[w]]
  BY DEF ServiceCrash
<1>4. caller \in [Writes -> CallerState]
  BY <1>1 DEF Typed
<1>5. ASSUME NEW v \in Writes
      PROVE  /\ caller'[v] \in CallerState
             /\ caller'[v].k = caller[v].k /\ caller'[v].run = caller[v].run
             /\ caller'[v].after = caller[v].after
             /\ caller'[v].pc = "acked" => caller[v].pc = "acked"
             /\ caller[v].k \in Nat /\ caller[v].run \in Nat
  <2>1. caller[v] \in CallerState
    BY <1>4
  <2>2. caller'[v] = IF caller[v].pc = "waiting"
                     THEN [caller[v] EXCEPT !.pc = "failing"] ELSE caller[v]
    BY <1>3, Zenon
  <2>3. caller[v].k \in Nat /\ caller[v].run \in Nat
    BY <2>1 DEF CallerState
  <2> QED
    BY <2>1, <2>2, <2>3 DEF CallerState
<1>6. caller' \in [Writes -> CallerState]
  BY <1>3, <1>5, Zenon
<1>7. \A v \in Writes : caller[v].k <= caller'[v].k /\ caller[v].run <= caller'[v].run
  BY <1>5, SMT
<1>8. ASSUME NEW l \in Lanes
      PROVE  chan'[l] = <<>> /\ spill'[l] = {} /\ worker'[l].pc = "idle"
             /\ worker'[l].items = <<>> /\ worker'[l].res = <<>>
  BY <1>2 DEF Idle
<1>9. DOMAIN <<>> = {} /\ Range(<<>>) = {} /\ Len(<<>>) = 0
  BY SMT DEF Range
<1>10. \A l \in Lanes : Held(l)' = {}
  BY <1>8, <1>9, Zenon DEF Held
<1>11. TInv'
  <2>1. <<>> \in Seq(Item) /\ <<>> \in Seq(Results) /\ 0 \in 0 .. MaxAttempts
    BY QueueAssumption, SMT
  <2>2. Idle \in WorkerState
    BY <2>1, Zenon DEF Idle, WorkerState
  <2>3. faults' \in 0 .. MaxFaults
    BY <1>1, <1>2, QueueAssumption, SMT DEF Fault, Typed
  <2>4. chan' \in [Lanes -> Seq(Item)] /\ spill' \in [Lanes -> SUBSET Item]
        /\ worker' \in [Lanes -> WorkerState]
    BY <1>2, <2>1, <2>2, Zenon
  <2>5. Typed'
    BY <1>1, <1>2, <1>6, <2>3, <2>4, Zenon DEF Typed
  <2>6. ASSUME NEW l \in Lanes PROVE Sized(l)'
    <3>1. 0 <= Depth /\ 0 <= BatchMax
      BY QueueAssumption, SMT
    <3> QED
      BY <1>8, <1>9, <3>1 DEF Sized
  <2> QED
    BY <2>5, <2>6 DEF TInv
<1>12. KInv'
  BY <1>1, <1>2, <1>5, <1>6, <1>7, <1>10, KStep, Zenon
<1>13. CInv'
  <2>1. \A v \in Writes : caller'[v].pc = "acked" => record'[v] = "committed"
    BY <1>1, <1>2, <1>5, Zenon DEF CInv
  <2>2. \A v \in Writes : record'[v] = "committed" => Logged(v)'
    BY <1>1, <1>2, Zenon DEF CInv, Logged
  <2> QED
    BY <1>8, <1>9, <2>1, <2>2, Zenon DEF CInv
<1>14. ASSUME NEW l \in Lanes PROVE InOrder(l)' /\ LogBehind(l)' /\ AppliedOnce(l)'
  <2>1. InOrder(l)'
    BY <1>8, <1>9 DEF InOrder
  <2>2. LogBehind(l)'
    BY <1>8, <1>9, Zenon DEF LogBehind
  <2>3. AppliedOnce(l)'
    BY <1>10, Zenon DEF AppliedOnce
  <2> QED
    BY <2>1, <2>2, <2>3
<1>15. LaneOrder'
  BY <1>1, <1>2, Zenon DEF OInv, LaneOrder, Late
<1> QED
  BY <1>11, <1>12, <1>13, <1>14, <1>15, Zenon DEF IInv, OInv

\* Handing out the results changes nothing but calls that wait.
LEMMA AnswerSteps ==
  ASSUME TInv, NEW l \in Lanes, Answer(l)
  PROVE  /\ UNCHANGED <<epoch, record, page, chan, spill, faults, log>>
         /\ worker[l].pc = "answer"
         /\ worker' = [worker EXCEPT ![l] = Idle]
         /\ caller' \in [Writes -> CallerState]
         /\ \A w \in Writes :
                \/ caller'[w] = caller[w]
                \/ /\ caller[w].pc = "waiting"
                   /\ caller'[w].k = caller[w].k /\ caller'[w].run = caller[w].run
                   /\ caller'[w].after = caller[w].after
                   /\ caller'[w].pc \in {"acked", "recover", "failing"}
                   /\ caller'[w].pc = "acked" =>
                        \E i \in DOMAIN worker[l].res :
                            /\ worker[l].items[i].w = w /\ Awaited(worker[l].items[i])
                            /\ worker[l].res[i] = "ok"
<1> DEFINE s == worker[l].items
           mine(w) == {i \in DOMAIN s : s[i].w = w /\ Awaited(s[i])}
           pick(w) == CHOOSE i \in mine(w) : TRUE
<1>1. Typed /\ Sized(l) /\ s \in Seq(Item) /\ worker[l].res \in Seq(Results)
  BY HeldTypes, Zenon DEF TInv
<1>2. UNCHANGED <<epoch, record, page, chan, spill, faults, log>>
      /\ worker[l].pc = "answer" /\ worker' = [worker EXCEPT ![l] = Idle]
  BY DEF Answer
<1>3. caller' = [w \in Writes |->
            IF mine(w) = {} THEN caller[w]
            ELSE [caller[w] EXCEPT !.pc = AfterAnswer(worker[l].res[pick(w)])]]
  BY Zenon DEF Answer
<1>4. DOMAIN s = DOMAIN worker[l].res
  BY <1>1, <1>2, RangeFacts DEF Sized
<1>5. caller \in [Writes -> CallerState]
  BY <1>1, Zenon DEF Typed
<1>6. ASSUME NEW w \in Writes, mine(w) # {}
      PROVE  /\ caller'[w] \in CallerState
             /\ caller[w].pc = "waiting"
             /\ caller'[w].k = caller[w].k /\ caller'[w].run = caller[w].run
             /\ caller'[w].after = caller[w].after
             /\ caller'[w].pc \in {"acked", "recover", "failing"}
             /\ caller'[w].pc = "acked" =>
                    \E i \in DOMAIN worker[l].res :
                        /\ worker[l].items[i].w = w /\ Awaited(worker[l].items[i])
                        /\ worker[l].res[i] = "ok"
  <2>1. PICK i \in mine(w) : i = pick(w)
    BY <1>6, Zenon
  <2>2. i \in DOMAIN s /\ s[i].w = w /\ Awaited(s[i]) /\ i \in DOMAIN worker[l].res
    BY <1>4, <2>1, Zenon
  <2>3. worker[l].res[i] \in Results
    BY <1>1, <2>2, RangeFacts, Zenon
  <2>4. AfterAnswer(worker[l].res[i]) \in {"acked", "recover", "failing"}
        /\ (AfterAnswer(worker[l].res[i]) = "acked" => worker[l].res[i] = "ok")
    BY <2>3 DEF AfterAnswer, Results
  <2>5. caller'[w] = [caller[w] EXCEPT !.pc = AfterAnswer(worker[l].res[pick(w)])]
    BY <1>3, <1>6, Zenon
  <2>6. caller'[w] = [caller[w] EXCEPT !.pc = AfterAnswer(worker[l].res[i])]
    BY <2>1, <2>5, Zenon
  <2>7. caller[w] \in CallerState /\ caller[w].pc = "waiting"
    BY <1>5, <2>2 DEF Awaited
  <2> HIDE DEF s, mine, pick
  <2>8. caller'[w] \in CallerState /\ caller'[w].pc = AfterAnswer(worker[l].res[i])
        /\ caller'[w].k = caller[w].k /\ caller'[w].run = caller[w].run
        /\ caller'[w].after = caller[w].after
    BY <2>4, <2>6, <2>7 DEF CallerState
  <2> QED
    BY <2>2, <2>4, <2>7, <2>8 DEF s
<1>7. ASSUME NEW w \in Writes, mine(w) = {} PROVE caller'[w] = caller[w]
  BY <1>3, <1>7, Zenon
<1>8. caller' \in [Writes -> CallerState]
  <2>1. ASSUME NEW w \in Writes PROVE caller'[w] \in CallerState
    <3>1. CASE mine(w) = {}
      BY <1>5, <1>7, <3>1, Zenon
    <3>2. CASE mine(w) # {}
      BY <1>6, <3>2, Zenon
    <3> QED
      BY <3>1, <3>2, Zenon
  <2>2. caller' = [w \in Writes |-> caller'[w]]
    BY <1>3, Zenon
  <2> QED
    BY <2>1, <2>2, Zenon
<1> HIDE DEF s, mine, pick
<1> QED
  BY <1>2, <1>6, <1>7, <1>8, Zenon
\* Answer keeps the invariant: only results of committed items acknowledge.
LEMMA AnswerKeeps ==
  ASSUME IInv, NEW l \in Lanes, Answer(l)
  PROVE  IInv'
<1>1. TInv /\ Typed /\ KInv /\ CInv /\ OInv
  BY DEF IInv, TInv
<1>2. UNCHANGED <<epoch, record, page, chan, spill, faults, log>>
      /\ worker' = [worker EXCEPT ![l] = Idle] /\ caller' \in [Writes -> CallerState]
  BY <1>1, AnswerSteps, Zenon
<1>3. ASSUME NEW w \in Writes
      PROVE  \/ caller'[w] = caller[w]
             \/ /\ caller[w].pc = "waiting"
                /\ caller'[w].k = caller[w].k /\ caller'[w].run = caller[w].run
                /\ caller'[w].after = caller[w].after
                /\ caller'[w].pc \in {"acked", "recover", "failing"}
                /\ caller'[w].pc = "acked" =>
                    \E i \in DOMAIN worker[l].res :
                        /\ worker[l].items[i].w = w /\ Awaited(worker[l].items[i])
                        /\ worker[l].res[i] = "ok"
  BY <1>1, AnswerSteps
<1>4. caller \in [Writes -> CallerState] /\ worker \in [Lanes -> WorkerState]
  BY <1>1 DEF Typed
<1>5. \A v \in Writes : caller[v].k <= caller'[v].k /\ caller[v].run <= caller'[v].run
                        /\ caller'[v].after = caller[v].after
  <2>1. \A v \in Writes : caller[v].k \in Nat /\ caller[v].run \in Nat
    BY <1>4 DEF CallerState
  <2> QED
    BY <1>3, <2>1, SMT
<1>6. worker'[l] = Idle /\ \A k \in Lanes \ {l} : worker'[k] = worker[k]
  BY <1>2, <1>4, Zenon
<1>7. worker'[l].pc = "idle" /\ worker'[l].items = <<>> /\ worker'[l].res = <<>>
  BY <1>6 DEF Idle
<1>8. DOMAIN <<>> = {} /\ Range(<<>>) = {} /\ Len(<<>>) = 0
  BY SMT DEF Range
<1>9. ASSUME NEW k \in Lanes PROVE Held(k)' \subseteq Held(k)
  <2>1. CASE k = l
    BY <1>2, <1>7, <1>8, <2>1, Zenon DEF Held
  <2>2. CASE k # l
    BY <1>2, <1>6, <2>2, Zenon DEF Held
  <2> QED
    BY <2>1, <2>2
<1>10. TInv'
  <2>1. <<>> \in Seq(Item) /\ <<>> \in Seq(Results) /\ 0 \in 0 .. MaxAttempts
    BY QueueAssumption, SMT
  <2>2. Idle \in WorkerState
    BY <2>1 DEF Idle, WorkerState
  <2>3. worker' \in [Lanes -> WorkerState]
    BY <1>2, <1>4, <2>2, Zenon
  <2>4. Typed'
    BY <1>1, <1>2, <2>3, Zenon DEF Typed
  <2>5. ASSUME NEW k \in Lanes PROVE Sized(k)'
    <3>1. Sized(k) /\ 0 <= BatchMax
      BY <1>1, QueueAssumption, SMT DEF TInv
    <3>2. CASE k = l
      BY <1>2, <1>7, <1>8, <3>1, <3>2, Zenon DEF Sized
    <3>3. CASE k # l
      BY <1>2, <1>6, <3>1, <3>3 DEF Sized
    <3> QED
      BY <3>2, <3>3
  <2> QED
    BY <2>4, <2>5 DEF TInv
<1>11. KInv'
  BY <1>1, <1>2, <1>5, <1>9, KStep, Zenon
<1>12. CInv'
  <2>1. ASSUME NEW w \in Writes, caller'[w].pc = "acked" PROVE record'[w] = "committed"
    <3>1. CASE caller'[w] = caller[w]
      BY <1>1, <1>2, <2>1, <3>1, Zenon DEF CInv
    <3>2. CASE caller'[w] # caller[w]
      <4>1. PICK i \in DOMAIN worker[l].res :
                    /\ worker[l].items[i].w = w /\ Awaited(worker[l].items[i])
                    /\ worker[l].res[i] = "ok"
        BY <1>3, <2>1, <3>2
      <4> QED
        BY <1>1, <1>2, <4>1, Zenon DEF CInv
    <3> QED
      BY <3>1, <3>2
  <2>2. \A w \in Writes : record'[w] = "committed" => Logged(w)'
    BY <1>1, <1>2, Zenon DEF CInv, Logged
  <2>3. ASSUME NEW k \in Lanes, NEW i \in DOMAIN worker'[k].res,
               worker'[k].res[i] = "ok",
               caller'[worker'[k].items[i].w].pc = "waiting",
               caller'[worker'[k].items[i].w].k = worker'[k].items[i].k
        PROVE  record'[worker'[k].items[i].w] = "committed"
    <3>1. k # l
      BY <1>7, <1>8, Zenon
    <3>2. worker'[k] = worker[k]
      BY <1>6, <3>1, Zenon
    <3>3. PICK m \in Item : m = worker[k].items[i]
      BY <1>1, <3>2, ResultPlaces, Zenon
    <3>4. caller'[m.w].pc = "waiting" /\ caller'[m.w].k = m.k /\ m.w \in Writes
      BY <2>3, <3>2, <3>3, Zenon DEF Awaited, Item
    <3>5. caller'[m.w] = caller[m.w]
      BY <1>3, <3>4, Zenon
    <3>6. Awaited(m)
      BY <3>4, <3>5 DEF Awaited
    <3> QED
      BY <1>1, <1>2, <2>3, <3>2, <3>3, <3>6, Zenon DEF CInv
  <2> QED
    BY <2>1, <2>2, <2>3, Zenon DEF CInv, Awaited
<1>13. ASSUME NEW k \in Lanes PROVE InOrder(k)' /\ LogBehind(k)' /\ AppliedOnce(k)'
  <2>1. InOrder(k) /\ LogBehind(k) /\ AppliedOnce(k)
    BY <1>1 DEF OInv
  <2>2. CASE k = l
    <3>1. InOrder(k)'
      BY <1>2, <1>7, <1>8, <2>1, <2>2, Zenon DEF InOrder
    <3>2. LogBehind(k)'
      BY <1>2, <1>7, <1>8, <2>1, <2>2, Zenon DEF LogBehind
    <3>3. AppliedOnce(k)'
      BY <1>1, <1>2, <1>5, <1>9, <2>1, AppliedOnceKept, Zenon
    <3> QED
      BY <3>1, <3>2, <3>3
  <2>3. CASE k # l
    <3>1. worker'[k] = worker[k]
      BY <1>6, <2>3
    <3>2. InOrder(k)'
      BY <1>2, <2>1, <3>1, InOrderKept, Zenon
    <3>3. LogBehind(k)'
      BY <1>1, <1>2, <1>5, <2>1, <3>1, LogBehindKept, Zenon
    <3>4. AppliedOnce(k)'
      BY <1>1, <1>2, <1>5, <1>9, <2>1, AppliedOnceKept, Zenon
    <3> QED
      BY <3>2, <3>3, <3>4
  <2> QED
    BY <2>2, <2>3
<1>14. LaneOrder'
  BY <1>1, <1>2, Zenon DEF OInv, LaneOrder, Late
<1> QED
  BY <1>10, <1>11, <1>12, <1>13, <1>14, Zenon DEF IInv, OInv

-------------------------------------------------------------------------------
(* Transactions *)

EntryOf(m) == [w |-> m.w, k |-> m.k, spilled |-> m.spilled, after |-> m.after,
               last |-> caller[m.w].run = m.run]

\* A transaction of items s appends one entry per item and marks their
\* records committed.
LEMMA TransactionFacts ==
  ASSUME Typed, NEW s \in Seq(Item), CommitTransaction(s)
  PROVE  /\ record' \in [Writes -> {"none", "pending", "committed", "failed"}]
         /\ log' \in Seq(Entry)
         /\ \A i \in DOMAIN log : i \in DOMAIN log' /\ log'[i] = log[i]
         /\ \A j \in DOMAIN s : /\ Len(log) + j \in DOMAIN log'
                                /\ log'[Len(log) + j] = EntryOf(s[j])
         /\ \A i \in DOMAIN log' : i \in DOMAIN log \/ \E j \in DOMAIN s : i = Len(log) + j
         /\ \A j \in DOMAIN s : record'[s[j].w] = "committed"
         /\ \A w \in Writes :
                \/ record'[w] = record[w]
                \/ record'[w] = "committed" /\ \E j \in DOMAIN s : s[j].w = w
<1> DEFINE t == [i \in DOMAIN s |-> EntryOf(s[i])]
<1>1. Len(s) \in Nat /\ DOMAIN s = 1 .. Len(s) /\ \A i \in DOMAIN s : s[i] \in Item
  BY RangeFacts
<1>2. ASSUME NEW m \in Item PROVE EntryOf(m) \in Entry
  BY <1>2, SMT DEF EntryOf, Entry, Item
<1>3. t \in [1 .. Len(s) -> Entry]
  BY <1>1, <1>2, Zenon
<1>4. t \in Seq(Entry) /\ Len(t) = Len(s) /\ DOMAIN t = DOMAIN s
  <2> HIDE DEF t
  <2> QED
    BY <1>1, <1>3, FunctionIsSeq, Zenon
<1>5. \A j \in DOMAIN s : t[j] = EntryOf(s[j])
  BY Zenon
<1>6. log' = log \o t
  BY Zenon DEF CommitTransaction, EntryOf
<1>7. log \in Seq(Entry)
  BY DEF Typed
<1>8. /\ log' \in Seq(Entry)
      /\ \A i \in DOMAIN log : i \in DOMAIN log' /\ log'[i] = log[i]
      /\ \A j \in DOMAIN s : /\ Len(log) + j \in DOMAIN log'
                             /\ log'[Len(log) + j] = EntryOf(s[j])
      /\ \A i \in DOMAIN log' : i \in DOMAIN log \/ \E j \in DOMAIN s : i = Len(log) + j
  <2> HIDE DEF t
  <2>1. /\ log \o t \in Seq(Entry)
        /\ \A i \in DOMAIN log : i \in DOMAIN (log \o t) /\ (log \o t)[i] = log[i]
        /\ \A j \in DOMAIN t : /\ Len(log) + j \in DOMAIN (log \o t)
                               /\ (log \o t)[Len(log) + j] = t[j]
        /\ \A i \in DOMAIN (log \o t) :
                i \in DOMAIN log \/ \E j \in DOMAIN t : i = Len(log) + j
    BY <1>4, <1>7, ConcatFacts
  <2> QED
    BY <1>4, <1>5, <1>6, <2>1, Zenon
<1>10. record' = [w \in Writes |-> IF \E i \in DOMAIN s : s[i].w = w
                                   THEN "committed" ELSE record[w]]
  BY DEF CommitTransaction
<1>11. record \in [Writes -> {"none", "pending", "committed", "failed"}]
  BY DEF Typed
<1>12. /\ record' \in [Writes -> {"none", "pending", "committed", "failed"}]
       /\ \A w \in Writes :
            \/ record'[w] = record[w]
            \/ record'[w] = "committed" /\ \E j \in DOMAIN s : s[j].w = w
  BY <1>10, <1>11, SMT
<1>13. ASSUME NEW j \in DOMAIN s PROVE record'[s[j].w] = "committed"
  <2>1. s[j].w \in Writes
    BY <1>1, SMT DEF Item
  <2> QED
    BY <1>10, <2>1, Zenon
<1> QED
  BY <1>8, <1>12, <1>13, Zenon

\* A try that writes nothing leaves ids and order as they are.
LEMMA UnwrittenOrder ==
  ASSUME IInv, NEW l \in Lanes, Unwritten, UNCHANGED <<chan, spill, caller>>,
         worker'[l].items = worker[l].items,
         \A k \in Lanes \ {l} : worker'[k] = worker[k],
         \A i \in DOMAIN worker[l].items : Handled(l, i) => Handled(l, i)'
  PROVE  KInv' /\ OInv'
<1>1. Typed /\ KInv /\ OInv /\ UNCHANGED <<record, log, chan, spill, caller>>
  BY DEF IInv, TInv, Unwritten
<1>2. \A k \in Lanes : worker'[k].items = worker[k].items
  BY Zenon
<1>3. \A k \in Lanes : Held(k)' = Held(k)
  BY <1>1, <1>2 DEF Held
<1>4. KInv'
  BY <1>1, <1>3, QuietKnown, Zenon
<1>5. ASSUME NEW k \in Lanes PROVE InOrder(k)' /\ LogBehind(k)' /\ AppliedOnce(k)'
  <2>1. InOrder(k) /\ LogBehind(k) /\ AppliedOnce(k)
    BY <1>1, Zenon DEF OInv
  <2>2. InOrder(k)'
    BY <1>1, <1>2, <2>1, InOrderKept
  <2>3. \A i \in DOMAIN worker[k].items : Handled(k, i) => Handled(k, i)'
    <3>1. CASE k = l
      BY <3>1, Zenon
    <3>2. CASE k # l
      BY <1>1, <3>2 DEF Handled, InLog
    <3> QED
      BY <3>1, <3>2, Zenon
  <2>4. LogBehind(k)'
    <3>1. chan'[k] = chan[k] /\ log' = log /\ worker'[k].items = worker[k].items
      BY <1>1, <1>2, Zenon
    <3>2. \A h : Current(h)' <=> Current(h)
      BY <1>1 DEF Current
    <3> QED
      BY <2>1, <2>3, <3>1, <3>2, Zenon DEF LogBehind
  <2>5. AppliedOnce(k)'
    BY <1>1, <1>3, <2>1, Zenon DEF AppliedOnce, Current, InLog
  <2> QED
    BY <2>2, <2>4, <2>5
<1>6. LaneOrder'
  BY <1>1, Zenon DEF OInv, LaneOrder, Late
<1> QED
  BY <1>4, <1>5, <1>6 DEF OInv
\* Items s, the batch's from place off + 1 on, are valid, and have not had
\* their transaction.
Due(l, off, s) ==
    /\ worker[l].pc = "batch" \/ (worker[l].pc = "single" /\ off = Len(worker[l].res))
    /\ \A j \in DOMAIN s : /\ off + j \in DOMAIN worker[l].items
                           /\ s[j] = worker[l].items[off + j]
                           /\ Valid(s[j])

\* A due item of its write's latest call is free to follow the whole log.
LEMMA DueIsFree ==
  ASSUME IInv, NEW l \in Lanes, NEW off \in Nat, NEW s \in Seq(Item), Due(l, off, s),
         NEW j \in DOMAIN s, Current(s[j]), NEW e \in DOMAIN log
  PROVE  Free(s[j], log[e].after)
<1>1. Typed /\ LogBehind(l) /\ AppliedOnce(l)
  BY DEF IInv, TInv, OInv
<1>2. off + j \in DOMAIN worker[l].items /\ s[j] = worker[l].items[off + j] /\ Valid(s[j])
  BY Zenon DEF Due
<1>3. s[j] \in Held(l)
  BY <1>2, Zenon DEF Held, Range
<1>4. ~InLog(s[j])
  BY <1>1, <1>2, <1>3, Zenon DEF AppliedOnce, Valid
<1>5. ~Handled(l, off + j)
  <2>1. j \in Nat \ {0} /\ Len(worker[l].res) \in Nat
    <3>1. worker[l].res \in Seq(Results)
      BY <1>1, HeldTypes
    <3>2. DOMAIN s = 1 .. Len(s) /\ Len(s) \in Nat /\ Len(worker[l].res) \in Nat
      BY <3>1, RangeFacts
    <3> QED
      BY <3>2, SMT
  <2>2. off = Len(worker[l].res) => ~(off + j <= Len(worker[l].res))
    BY <2>1, SMT
  <2> QED
    BY <1>2, <1>4, <2>2 DEF Handled, Due
<1> QED
  BY <1>1, <1>2, <1>5, Zenon DEF LogBehind

\* A due item is free to follow the due items before it, and so are the items
\* of the channel.
LEMMA DueInOrder ==
  ASSUME IInv, NEW l \in Lanes, NEW off \in Nat, NEW s \in Seq(Item), Due(l, off, s),
         NEW j \in DOMAIN s
  PROVE  /\ \A i \in DOMAIN worker[l].items :
                off + j <= i => Free(worker[l].items[i], s[j].after)
         /\ \A i \in DOMAIN chan[l] : Free(chan[l][i], s[j].after)
<1>1. InOrder(l)
  BY DEF IInv, OInv
<1>2. off + j \in DOMAIN worker[l].items /\ s[j] = worker[l].items[off + j]
  BY Zenon DEF Due
<1> QED
  BY <1>1, <1>2, Zenon DEF InOrder

\* An item of another lane is free to follow an item of lane l.
LEMMA OtherLaneFree ==
  ASSUME IInv, NEW l \in Lanes, NEW k \in Lanes, k # l, NEW y \in Held(l), NEW x \in Held(k)
  PROVE  Free(x, y.after)
<1>1. Known(y, l, caller) /\ Known(x, k, caller)
  BY DEF IInv, KInv
<1>2. SUFFICES ASSUME <<x.w, x.k>> \in y.after PROVE FALSE
  BY Zenon DEF Free, Id
<1>3. Lane[<<x.w, x.k>>[1]] = Lane[y.w]
  BY <1>1, <1>2, Zenon DEF Known, Issued
<1>4. Lane[x.w] = Lane[y.w]
  BY <1>3
<1> QED
  BY <1>1, <1>4 DEF Known

\* A transaction of due items keeps ids and order, when the worker then counts
\* as handled what comes before them.
LEMMA TransactionOrder ==
  ASSUME IInv, NEW l \in Lanes, NEW off \in Nat, NEW s \in Seq(Item), Due(l, off, s),
         CommitTransaction(s), UNCHANGED <<chan, spill, caller>>,
         worker'[l].items = worker[l].items,
         \A k \in Lanes \ {l} : worker'[k] = worker[k],
         \A i \in DOMAIN worker[l].items : Handled(l, i) => Handled(l, i)',
         \A i \in DOMAIN worker[l].items, j \in DOMAIN s : i < off + j => Handled(l, i)'
  PROVE  KInv' /\ OInv'
<1>1. Typed /\ KInv /\ OInv /\ TInv
  BY Zenon DEF IInv, TInv
<1>2. /\ \A i \in DOMAIN log : i \in DOMAIN log' /\ log'[i] = log[i]
      /\ \A j \in DOMAIN s : /\ Len(log) + j \in DOMAIN log'
                             /\ log'[Len(log) + j] = EntryOf(s[j])
      /\ \A i \in DOMAIN log' : i \in DOMAIN log \/ \E j \in DOMAIN s : i = Len(log) + j
      /\ \A j \in DOMAIN s : record'[s[j].w] = "committed"
      /\ \A w \in Writes :
            \/ record'[w] = record[w]
            \/ record'[w] = "committed" /\ \E j \in DOMAIN s : s[j].w = w
  BY <1>1, TransactionFacts, Zenon
<1>3. \A k \in Lanes : worker'[k].items = worker[k].items
  OBVIOUS
<1>4. \A k \in Lanes : Held(k)' = Held(k)
  BY <1>3, Zenon DEF Held
<1>5. ASSUME NEW j \in DOMAIN s
      PROVE  /\ s[j] \in Held(l)
             /\ log'[Len(log) + j].w = s[j].w /\ log'[Len(log) + j].k = s[j].k
             /\ log'[Len(log) + j].after = s[j].after
             /\ log'[Len(log) + j].spilled = s[j].spilled
             /\ log'[Len(log) + j].last => Current(s[j])
  <2>1. s[j] \in Held(l)
    BY DEF Due, Held, Range
  <2>2. log'[Len(log) + j] = EntryOf(s[j])
    BY <1>2, Zenon
  <2>3. EntryOf(s[j]).w = s[j].w /\ EntryOf(s[j]).k = s[j].k
        /\ EntryOf(s[j]).after = s[j].after
    BY Zenon DEF EntryOf
  <2>4. EntryOf(s[j]).spilled = s[j].spilled
        /\ EntryOf(s[j]).last = (caller[s[j].w].run = s[j].run)
    BY Zenon DEF EntryOf
  <2>5. EntryOf(s[j]).last => Current(s[j])
    BY <2>4, Zenon DEF Current
  <2> QED
    BY <2>1, <2>2, <2>3, <2>4, <2>5, Zenon
<1>6. KInv'
  <2>1. caller \in [Writes -> CallerState]
    BY <1>1, Zenon DEF Typed
  <2>2. \A v \in Writes : caller[v].k <= caller[v].k /\ caller[v].run <= caller[v].run
    <3>1. \A v \in Writes : caller[v].k \in Nat /\ caller[v].run \in Nat
      BY <2>1 DEF CallerState
    <3> QED
      BY <3>1, SMT
  <2>3. ASSUME NEW i \in DOMAIN log'
        PROVE  \/ i \in DOMAIN log /\ log'[i] = log[i]
               \/ \E k \in Lanes : \E m \in Held(k) :
                    log'[i].w = m.w /\ log'[i].k = m.k /\ log'[i].after = m.after
    <3>1. CASE i \in DOMAIN log
      BY <1>2, <3>1, Zenon
    <3>2. CASE \E j \in DOMAIN s : i = Len(log) + j
      <4>1. PICK j \in DOMAIN s : i = Len(log) + j
        BY <3>2, Zenon
      <4>2. /\ s[j] \in Held(l)
            /\ log'[i].w = s[j].w /\ log'[i].k = s[j].k /\ log'[i].after = s[j].after
        BY <1>5, <4>1, Zenon
      <4> QED
        BY <4>2, Zenon
    <3> QED
      BY <1>2, <3>1, <3>2, Zenon
  <2> QED
    BY <1>1, <1>4, <2>1, <2>2, <2>3, KStep, Zenon
<1>7. ASSUME NEW k \in Lanes PROVE InOrder(k)'
  <2>1. InOrder(k)
    BY <1>1, Zenon DEF OInv
  <2> QED
    BY <1>3, <2>1, InOrderKept, Zenon
<1>8. \A m : InLog(m) => InLog(m)'
  BY <1>2, Zenon DEF InLog
<1>9. ASSUME NEW k \in Lanes PROVE LogBehind(k)'
  <2>1. LogBehind(k)
    BY <1>1, Zenon DEF OInv
  <2>2. \A i \in DOMAIN worker[k].items : Handled(k, i) => Handled(k, i)'
    <3>1. CASE k = l
      BY <3>1, Zenon
    <3>2. CASE k # l
      BY <1>8, <3>2, Zenon DEF Handled
    <3> QED
      BY <3>1, <3>2, Zenon
  <2>3. ASSUME NEW e \in DOMAIN log', NEW i \in DOMAIN chan[k]
        PROVE  Free(chan[k][i], log'[e].after)
    <3>1. CASE e \in DOMAIN log
      BY <1>2, <2>1, <3>1, Zenon DEF LogBehind
    <3>2. CASE e \notin DOMAIN log
      <4>1. PICK j \in DOMAIN s : e = Len(log) + j
        BY <1>2, <3>2, Zenon
      <4>2. log'[e].after = s[j].after /\ s[j] \in Held(l)
        BY <1>5, <4>1, Zenon
      <4>3. CASE k = l
        BY <4>2, <4>3, DueInOrder, Zenon
      <4>4. CASE k # l
        <5>1. chan[k][i] \in Held(k)
          BY Zenon DEF Held, Range
        <5> QED
          BY <4>2, <4>4, <5>1, OtherLaneFree, Zenon
      <4> QED
        BY <4>3, <4>4, Zenon
    <3> QED
      BY <3>1, <3>2, Zenon
  <2>4. ASSUME NEW e \in DOMAIN log', NEW i \in DOMAIN worker[k].items,
               Current(worker[k].items[i])
        PROVE  Free(worker[k].items[i], log'[e].after) \/ Handled(k, i)'
    <3>1. CASE e \in DOMAIN log
      BY <1>2, <2>1, <2>2, <2>4, <3>1, Zenon DEF LogBehind
    <3>2. CASE e \notin DOMAIN log
      <4>1. PICK j \in DOMAIN s : e = Len(log) + j
        BY <1>2, <3>2, Zenon
      <4>2. log'[e].after = s[j].after /\ s[j] \in Held(l)
        BY <1>5, <4>1, Zenon
      <4>3. CASE k = l
        <5>1. i \in Nat /\ off + j \in Nat
          <6>1. worker[l].items \in Seq(Item)
            BY <1>1, HeldTypes, Zenon
          <6>2. DOMAIN worker[l].items = 1 .. Len(worker[l].items)
                /\ Len(worker[l].items) \in Nat /\ off + j \in DOMAIN worker[l].items
            BY <6>1, RangeFacts, Zenon DEF Due
          <6> QED
            BY <4>3, <6>2, SMT
        <5>2. i < off + j \/ off + j <= i
          BY <5>1, SMT
        <5>3. CASE i < off + j
          BY <4>3, <5>3, Zenon
        <5>4. CASE off + j <= i
          BY <4>2, <4>3, <5>4, DueInOrder, Zenon
        <5> QED
          BY <5>2, <5>3, <5>4, Zenon
      <4>4. CASE k # l
        <5>1. worker[k].items[i] \in Held(k)
          BY Zenon DEF Held, Range
        <5> QED
          BY <4>2, <4>4, <5>1, OtherLaneFree, Zenon
      <4> QED
        BY <4>3, <4>4, Zenon
    <3> QED
      BY <3>1, <3>2, Zenon
  <2>5. chan'[k] = chan[k] /\ worker'[k].items = worker[k].items
    BY <1>3, Zenon
  <2>6. \A h : Current(h)' <=> Current(h)
    BY DEF Current
  <2> QED
    BY <2>3, <2>4, <2>5, <2>6, Zenon DEF LogBehind
<1>10. ASSUME NEW k \in Lanes PROVE AppliedOnce(k)'
  <2>1. AppliedOnce(k)
    BY <1>1, Zenon DEF OInv
  <2>2. ASSUME NEW m \in Held(k), Current(m), InLog(m)' PROVE record'[m.w] # "pending"
    <3>1. m \in Item
      BY <1>1, HeldTypes, Zenon
    <3>2. m.w \in Writes
      BY <3>1, Zenon DEF Item
    <3>3. PICK e \in DOMAIN log' : log'[e].w = m.w /\ log'[e].k = m.k
      BY <2>2, Zenon DEF InLog, Id
    <3>4. CASE e \in DOMAIN log
      <4>1. InLog(m)
        BY <1>2, <3>3, <3>4, Zenon DEF InLog, Id
      <4>2. record[m.w] # "pending"
        BY <2>1, <2>2, <4>1, Zenon DEF AppliedOnce
      <4> QED
        BY <1>2, <3>2, <4>2, Zenon
    <3>5. CASE e \notin DOMAIN log
      <4>1. PICK j \in DOMAIN s : e = Len(log) + j
        BY <1>2, <3>5, Zenon
      <4>2. m.w = s[j].w
        BY <1>5, <3>3, <4>1, Zenon
      <4> QED
        BY <1>2, <4>2, Zenon
    <3> QED
      BY <3>4, <3>5, Zenon
  <2>3. \A h : Current(h)' <=> Current(h)
    BY DEF Current
  <2> QED
    BY <1>4, <2>2, <2>3, Zenon DEF AppliedOnce
<1>11. LaneOrder'
  <2>1. LaneOrder
    BY <1>1, Zenon DEF OInv
  <2>2. log \in Seq(Entry) /\ Len(log) \in Nat /\ DOMAIN log = 1 .. Len(log)
        /\ DOMAIN s = 1 .. Len(s) /\ Len(s) \in Nat
    <3>1. log \in Seq(Entry)
      BY <1>1, Zenon DEF Typed
    <3> QED
      BY <3>1, RangeFacts, Zenon
  <2>3. ASSUME NEW a \in DOMAIN log', NEW b \in DOMAIN log', a < b, log'[b].last,
               <<log'[b].w, log'[b].k>> \in log'[a].after
        PROVE  log'[b].spilled
    <3>1. CASE b \in DOMAIN log
      <4>1. a \in DOMAIN log
        <5>1. CASE \E j \in DOMAIN s : a = Len(log) + j
          BY <2>2, <2>3, <3>1, <5>1, SMT
        <5> QED
          BY <1>2, <5>1, Zenon
      <4> QED
        BY <1>2, <2>1, <2>3, <3>1, <4>1, Zenon DEF LaneOrder, Late, Id
    <3>2. CASE b \notin DOMAIN log
      <4>1. PICK j \in DOMAIN s : b = Len(log) + j
        BY <1>2, <3>2, Zenon
      <4>2. /\ log'[b].w = s[j].w /\ log'[b].k = s[j].k
            /\ log'[b].spilled = s[j].spilled /\ Current(s[j])
        BY <1>5, <2>3, <4>1, Zenon
      <4>3. Free(s[j], log'[a].after)
        <5>1. CASE a \in DOMAIN log
          BY <1>2, <4>2, <5>1, DueIsFree, Zenon
        <5>2. CASE a \notin DOMAIN log
          <6>1. PICK i \in DOMAIN s : a = Len(log) + i
            BY <1>2, <5>2, Zenon
          <6>2. off + i <= off + j
            BY <2>2, <2>3, <4>1, <6>1, SMT
          <6>3. off + j \in DOMAIN worker[l].items /\ s[j] = worker[l].items[off + j]
            BY DEF Due
          <6>4. Free(s[j], s[i].after)
            BY <6>2, <6>3, DueInOrder, Zenon
          <6> QED
            BY <1>5, <6>1, <6>4, Zenon
        <5> QED
          BY <5>1, <5>2, Zenon
      <4> QED
        BY <2>3, <4>2, <4>3, Zenon DEF Free, Id
    <3> QED
      BY <3>1, <3>2, Zenon
  <2> QED
    BY <2>3, Zenon DEF LaneOrder, Late, Id
<1> QED
  BY <1>6, <1>7, <1>9, <1>10, <1>11, Zenon DEF OInv
\* A try keeps acknowledgements backed, when it reports as committed only what
\* has a committed record.
LEMMA TryCommitted ==
  ASSUME IInv, NEW l \in Lanes, UNCHANGED caller,
         NEW s \in Seq(Item), Unwritten \/ CommitTransaction(s),
         \A k \in Lanes \ {l} : worker'[k] = worker[k],
         \A i \in DOMAIN worker'[l].res :
            worker'[l].res[i] = "ok" /\ Awaited(worker'[l].items[i])
                => record'[worker'[l].items[i].w] = "committed"
  PROVE  CInv'
<1>1. TInv /\ Typed /\ CInv
  BY DEF IInv, TInv
<1>2. /\ \A i \in DOMAIN log : i \in DOMAIN log' /\ log'[i] = log[i]
      /\ \A w \in Writes : \/ record'[w] = record[w]
                           \/ record'[w] = "committed" /\ Logged(w)'
  <2>1. CASE Unwritten
    BY <2>1, Zenon DEF Unwritten
  <2>2. CASE CommitTransaction(s)
    <3>1. /\ \A i \in DOMAIN log : i \in DOMAIN log' /\ log'[i] = log[i]
          /\ \A j \in DOMAIN s : /\ Len(log) + j \in DOMAIN log'
                                 /\ log'[Len(log) + j] = EntryOf(s[j])
          /\ \A w \in Writes :
                \/ record'[w] = record[w]
                \/ record'[w] = "committed" /\ \E j \in DOMAIN s : s[j].w = w
      BY <1>1, <2>2, TransactionFacts, Zenon
    <3>2. \A j \in DOMAIN s : EntryOf(s[j]).w = s[j].w
      BY Zenon DEF EntryOf
    <3>3. ASSUME NEW w \in Writes, NEW j \in DOMAIN s, s[j].w = w PROVE Logged(w)'
      BY <3>1, <3>2, <3>3 DEF Logged
    <3> QED
      BY <3>1, <3>3
  <2> QED
    BY <2>1, <2>2, Zenon
<1>3. ASSUME NEW w \in Writes, Logged(w) PROVE Logged(w)'
  BY <1>2, <1>3, Zenon DEF Logged
<1>4. \A w \in Writes : caller'[w].pc = "acked" => record'[w] = "committed"
  BY <1>1, <1>2, Zenon DEF CInv
<1>5. \A w \in Writes : record'[w] = "committed" => Logged(w)'
  BY <1>1, <1>2, <1>3, Zenon DEF CInv
<1>6. ASSUME NEW k \in Lanes, NEW i \in DOMAIN worker'[k].res,
             worker'[k].res[i] = "ok", Awaited(worker'[k].items[i])
      PROVE  record'[worker'[k].items[i].w] = "committed"
  <2>1. CASE k = l
    BY <1>6, <2>1, Zenon
  <2>2. CASE k # l
    <3>1. worker'[k] = worker[k]
      BY <2>2, Zenon
    <3>2. worker[k].items[i] \in Item
      BY <1>1, <3>1, ResultPlaces, Zenon
    <3>3. worker[k].items[i].w \in Writes
      BY <3>2, Zenon DEF Item
    <3>4. record[worker[k].items[i].w] = "committed"
      <4>1. worker[k].res[i] = "ok" /\ Awaited(worker[k].items[i]) /\ i \in DOMAIN worker[k].res
        BY <1>6, <3>1, Zenon
      <4> QED
        BY <1>1, <4>1, Zenon DEF CInv
    <3> QED
      BY <1>2, <3>1, <3>3, <3>4
  <2> QED
    BY <2>1, <2>2, Zenon
<1> QED
  BY <1>4, <1>5, <1>6, Zenon DEF CInv, Awaited
===============================================================================
