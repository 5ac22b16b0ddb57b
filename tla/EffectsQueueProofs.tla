-------------------------- MODULE EffectsQueueProofs --------------------------
(***************************************************************************)
(* What holds of the effects queue for every set of writes, lanes and      *)
(* slots and every bound: the types, the order of a lane, and that the     *)
(* queue implements the commit log.                                        *)
(*                                                                         *)
(* EffectsQueueSteps has the inductive invariant IInv and what each kind   *)
(* of step does to it; the worker's steps that run transactions, the       *)
(* theorems and the refinement follow here.                                *)
(***************************************************************************)
EXTENDS EffectsQueueSteps, EffectsQueueLog, WellFoundedInduction

-------------------------------------------------------------------------------
(* Merged pages *)

\* A set of places of a sequence has a greatest one: Max is what it says.
LEMMA MaxOfPlaces ==
  ASSUME NEW K \in Nat, NEW T \in SUBSET (1 .. K), T # {}
  PROVE  Max(T) \in T /\ \A y \in T : y <= Max(T)
<1> DEFINE D == {d \in Nat : \E t \in T : d = K - t}
<1>1. D \subseteq Nat
  BY Zenon
<1>2. D # {}
  <2>1. PICK t \in T : TRUE
    BY Zenon
  <2>2. K - t \in Nat
    BY SMT
  <2> QED
    BY <2>1, <2>2, Zenon
<1>3. PICK d \in D : \A e \in D : ~(<<e, d>> \in OpToRel(<, Nat))
  <2> HIDE DEF D
  <2> QED
    BY <1>1, <1>2, NatLessThanWellFounded, WFMin, Zenon
<1>4. \A e \in Nat : e < d => <<e, d>> \in OpToRel(<, Nat)
  BY <1>1 DEF OpToRel
<1>5. \A e \in D : ~(e < d)
  BY <1>1, <1>3, <1>4, Zenon
<1>6. PICK x \in T : d = K - x
  BY <1>1, Zenon
<1>7. ASSUME NEW y \in T PROVE x >= y
  <2>1. K - y \in Nat
    BY SMT
  <2>2. K - y \in D
    BY <2>1, Zenon
  <2> HIDE DEF D
  <2>3. ~(K - y < K - x)
    BY <1>5, <1>6, <2>2
  <2> QED
    BY <2>3, SMT
<1>8. Max(T) \in T /\ \A y \in T : Max(T) >= y
  BY <1>7, Zenon DEF Max
<1>9. ASSUME NEW y \in T PROVE y <= Max(T)
  BY <1>8, SMT
<1> QED
  BY <1>8, <1>9, Zenon

\* The slots of a merged page name writes (mergeCommittedAllocationPageBatch).
LEMMA MergedType ==
  ASSUME NEW s \in Seq(Item), NEW pg \in [Chunks -> Writes \cup {NoWrite}]
  PROVE  Merged(pg, s) \in [Chunks -> Writes \cup {NoWrite}]
<1>1. ASSUME NEW c \in Chunks, Installs(s, c) # {}
      PROVE  s[Max(Installs(s, c))].w \in Writes
  <2>1. Len(s) \in Nat /\ DOMAIN s = 1 .. Len(s)
    BY RangeFacts
  <2>2. Installs(s, c) \in SUBSET (1 .. Len(s))
    BY <2>1, Zenon DEF Installs
  <2>3. Max(Installs(s, c)) \in 1 .. Len(s)
    BY <1>1, <2>1, <2>2, MaxOfPlaces, Zenon
  <2>4. s[Max(Installs(s, c))] \in Item
    BY <2>1, <2>3, RangeFacts
  <2> QED
    BY <2>4, SMT DEF Item
<1> QED
  BY <1>1, Zenon DEF Merged

\* A transaction leaves a page of writes.
LEMMA TransactionPage ==
  ASSUME Typed, NEW s \in Seq(Item), CommitTransaction(s)
  PROVE  page' \in [Chunks -> Writes \cup {NoWrite}]
  BY MergedType, Zenon DEF Typed, CommitTransaction

-------------------------------------------------------------------------------
(* Transactions *)

\* A try keeps the types, whether it writes or not.
LEMMA TryTypes ==
  ASSUME TInv, NEW l \in Lanes, UNCHANGED <<epoch, chan, spill, caller>>,
         faults' = faults \/ Fault, NEW s \in Seq(Item), Unwritten \/ CommitTransaction(s),
         worker' \in [Lanes -> WorkerState], \A k \in Lanes \ {l} : worker'[k] = worker[k],
         Sized(l)'
  PROVE  TInv'
<1>1. Typed
  BY DEF TInv
<1>2. faults' \in 0 .. MaxFaults
  BY <1>1, QueueAssumption, SMT DEF Typed, Fault
<1>3. /\ record' \in [Writes -> {"none", "pending", "committed", "failed"}]
      /\ page' \in [Chunks -> Writes \cup {NoWrite}]
      /\ log' \in Seq(Entry)
  <2>1. CASE Unwritten
    BY <1>1, <2>1 DEF Unwritten, Typed
  <2>2. CASE CommitTransaction(s)
    BY <1>1, <2>2, TransactionFacts, TransactionPage, Zenon
  <2> QED
    BY <2>1, <2>2, Zenon
<1>4. Typed'
  BY <1>1, <1>2, <1>3 DEF Typed
<1>5. ASSUME NEW k \in Lanes PROVE Sized(k)'
  <2>1. CASE k = l
    BY <2>1
  <2>2. CASE k # l
    <3>1. Sized(k)
      BY DEF TInv
    <3> QED
      BY <2>2, <3>1, Zenon DEF Sized
  <2> QED
    BY <2>1, <2>2
<1> QED
  BY <1>4, <1>5 DEF TInv

\* CommitBatch keeps the invariant: success, conflict and failure.
LEMMA BatchKeeps ==
  ASSUME IInv, NEW l \in Lanes, CommitBatch(l)
  PROVE  IInv'
<1>1. TInv /\ Typed /\ Sized(l) /\ worker[l].items \in Seq(Item)
  BY HeldTypes DEF IInv, TInv
<1>2. PICK s \in Seq(Item) : s = worker[l].items
  BY <1>1, Zenon
<1>3. worker[l].pc = "batch" /\ UNCHANGED <<epoch, chan, spill, caller>>
  BY DEF CommitBatch
<1>4. worker \in [Lanes -> WorkerState] /\ worker[l] \in WorkerState
  BY <1>1, Zenon DEF Typed
<1>5. DOMAIN s = 1 .. Len(s) /\ Len(s) \in Nat /\ (\A i \in DOMAIN s : s[i] \in Item)
      /\ Len(s) <= BatchMax /\ Len(s) # 0 /\ Len(chan[l]) <= Depth
  BY <1>1, <1>2, <1>3, RangeFacts DEF Sized
<1>6. \A i : ~Handled(l, i)
  BY <1>3, Zenon DEF Handled
<1>7. ValidBatch(s) => Due(l, 0, s)
  <2>1. \A j \in DOMAIN s : 0 + j = j
    BY <1>5, SMT
  <2> QED
    BY <1>2, <1>3, <2>1 DEF Due, ValidBatch
<1>8. DOMAIN <<>> = {} /\ Len(<<>>) = 0 /\ <<>> \in Seq(Results)
  BY SMT
<1>9. CASE ValidBatch(s) /\ CommitTransaction(s) /\ faults' = faults
           /\ worker' = [worker EXCEPT ![l].pc = "answer", ![l].res = All(s, "ok")]
  <2>1. PICK r \in Seq(Results) : r = All(s, "ok")
    <3>1. All(s, "ok") \in [1 .. Len(s) -> Results]
      BY <1>5 DEF All, Results
    <3> QED
      BY <1>5, <3>1, FunctionIsSeq
  <2>2. Len(r) = Len(s) /\ DOMAIN r = DOMAIN s
    <3>1. DOMAIN r = DOMAIN s
      BY <2>1 DEF All
    <3> QED
      BY <1>5, <2>1, <3>1, RangeFacts, SMT
  <2>3. worker' = [worker EXCEPT ![l].pc = "answer", ![l].res = r]
    BY <1>9, <2>1
  <2>4. worker' \in [Lanes -> WorkerState] /\ worker'[l].pc = "answer"
        /\ worker'[l].res = r /\ worker'[l].items = s
        /\ \A k \in Lanes \ {l} : worker'[k] = worker[k]
    BY <1>2, <1>4, <2>3, Zenon DEF WorkerState
  <2>5. Sized(l)'
    BY <1>3, <1>5, <2>2, <2>4 DEF Sized
  <2>6. TInv'
    BY <1>1, <1>3, <1>9, <2>4, <2>5, TryTypes, Zenon
  <2>7. CInv'
    <3>1. \A j \in DOMAIN s : record'[s[j].w] = "committed"
      BY <1>1, <1>9, TransactionFacts
    <3>2. \A i \in DOMAIN worker'[l].res : record'[worker'[l].items[i].w] = "committed"
      BY <2>2, <2>4, <3>1, Zenon
    <3>3. UNCHANGED caller /\ (\A k \in Lanes \ {l} : worker'[k] = worker[k])
      BY <1>3, <2>4
    <3> QED
      BY <1>9, <3>2, <3>3, TryCommitted
  <2>8. KInv' /\ OInv'
    <3>1. \A i : Handled(l, i)'
      BY <2>4 DEF Handled
    <3>2. Due(l, 0, s) /\ 0 \in Nat /\ worker'[l].items = worker[l].items
      BY <1>2, <1>7, <1>9, <2>4
    <3> QED
      BY <1>3, <1>9, <2>4, <3>1, <3>2, TransactionOrder, Zenon
  <2> QED
    BY <2>6, <2>7, <2>8 DEF IInv
<1>10. CASE Unwritten /\ faults' = faults /\ worker[l].try < MaxAttempts
            /\ worker' = [worker EXCEPT ![l].try = @ + 1]
  <2>1. worker[l].try \in 0 .. MaxAttempts /\ MaxAttempts \in Nat
    BY <1>4, QueueAssumption DEF WorkerState
  <2>2. worker[l].try + 1 \in 0 .. MaxAttempts
    BY <1>10, <2>1, SMT
  <2>3. worker' \in [Lanes -> WorkerState] /\ worker'[l].pc = worker[l].pc
        /\ worker'[l].res = worker[l].res /\ worker'[l].items = worker[l].items
        /\ \A k \in Lanes \ {l} : worker'[k] = worker[k]
    BY <1>4, <1>10, <2>2, Zenon DEF WorkerState
  <2>4. Sized(l)'
    BY <1>1, <1>3, <2>3 DEF Sized
  <2>5. TInv'
    BY <1>1, <1>3, <1>10, <2>3, <2>4, TryTypes, Zenon
  <2>6. worker'[l].res = <<>>
    BY <1>1, <1>3, <2>3 DEF Sized
  <2>7. CInv'
    BY <1>2, <1>3, <1>8, <1>10, <2>3, <2>6, TryCommitted
  <2>8. KInv' /\ OInv'
    BY <1>3, <1>6, <1>10, <2>3, UnwrittenOrder
  <2> QED
    BY <2>5, <2>7, <2>8 DEF IInv
<1>11. CASE (Unwritten \/ (ValidBatch(s) /\ CommitTransaction(s)))
            /\ (faults' = faults \/ Fault)
            /\ worker' = [worker EXCEPT ![l].pc = "single", ![l].res = <<>>]
  <2>1. worker' \in [Lanes -> WorkerState] /\ worker'[l].pc = "single"
        /\ worker'[l].res = <<>> /\ worker'[l].items = s
        /\ \A k \in Lanes \ {l} : worker'[k] = worker[k]
    BY <1>2, <1>4, <1>8, <1>11, Zenon DEF WorkerState
  <2>2. Sized(l)'
    <3>1. 0 < Len(s)
      BY <1>5, SMT
    <3> QED
      BY <1>3, <1>5, <1>8, <2>1, <3>1 DEF Sized
  <2>3. TInv'
    BY <1>1, <1>3, <1>11, <2>1, <2>2, TryTypes
  <2>4. CInv'
    BY <1>3, <1>8, <1>11, <2>1, TryCommitted
  <2>5. CASE Unwritten
    <3>1. KInv' /\ OInv'
      BY <1>2, <1>3, <1>6, <2>1, <2>5, UnwrittenOrder
    <3> QED
      BY <2>3, <2>4, <3>1 DEF IInv
  <2>6. CASE ValidBatch(s) /\ CommitTransaction(s)
    <3>1. /\ \A j \in DOMAIN s : /\ Len(log) + j \in DOMAIN log'
                                 /\ log'[Len(log) + j] = EntryOf(s[j])
      BY <1>1, <2>6, TransactionFacts, Zenon
    <3>2. ASSUME NEW i \in DOMAIN s PROVE Handled(l, i)'
      <4>1. EntryOf(s[i]).w = s[i].w /\ EntryOf(s[i]).k = s[i].k
        BY Zenon DEF EntryOf
      <4>2. Len(log) + i \in DOMAIN log' /\ log'[Len(log) + i].w = s[i].w
            /\ log'[Len(log) + i].k = s[i].k
        BY <3>1, <4>1, Zenon
      <4>3. InLog(worker[l].items[i])'
        BY <2>1, <4>2, Zenon DEF InLog, Id
      <4> QED
        BY <2>1, <4>3, Zenon DEF Handled
    <3>3. Due(l, 0, s) /\ 0 \in Nat /\ worker'[l].items = worker[l].items
      BY <1>2, <1>7, <2>1, <2>6, Zenon
    <3>4. KInv' /\ OInv'
      BY <1>2, <1>3, <1>6, <2>1, <2>6, <3>2, <3>3, TransactionOrder
    <3> QED
      BY <2>3, <2>4, <3>4 DEF IInv
  <2> QED
    BY <1>11, <2>5, <2>6
<1> QED
  BY <1>2, <1>9, <1>10, <1>11 DEF CommitBatch
\* CommitSingle keeps the invariant, whatever the item's transaction does.
LEMMA SingleKeeps ==
  ASSUME IInv, NEW l \in Lanes, CommitSingle(l)
  PROVE  IInv'
<1>1. TInv /\ Typed /\ CInv /\ Sized(l) /\ worker[l].items \in Seq(Item)
      /\ worker[l].res \in Seq(Results)
  BY HeldTypes, Zenon DEF IInv, TInv
<1>2. worker[l].pc = "single" /\ UNCHANGED <<epoch, chan, spill, caller>>
  BY DEF CommitSingle
<1>3. worker \in [Lanes -> WorkerState] /\ worker[l] \in WorkerState
  BY <1>1 DEF Typed
<1>4. PICK s \in Seq(Item) : s = worker[l].items
  BY <1>1, Zenon
<1>5. PICK o \in Nat : o = Len(worker[l].res)
  BY <1>1
<1>6. DOMAIN s = 1 .. Len(s) /\ Len(s) \in Nat /\ o < Len(s) /\ Len(s) <= BatchMax
      /\ DOMAIN worker[l].res = 1 .. o /\ Len(chan[l]) <= Depth
  BY <1>1, <1>2, <1>4, <1>5, RangeFacts DEF Sized
<1>7. o + 1 \in DOMAIN s
  BY <1>6, SMT
<1>8. s[o + 1] \in Item
  BY <1>7, RangeFacts
<1>9. PICK t \in Seq(Item) : t = <<s[o + 1]>>
  <2>1. \A m \in Item : <<m>> \in Seq(Item)
    BY SMT
  <2> QED
    BY <1>8, <2>1, Zenon
<1>10. DOMAIN t = {1} /\ t[1] = s[o + 1]
  BY <1>9
<1>11. PICK r \in Results :
         /\ worker' = [worker EXCEPT ![l].res = Append(@, r),
                                     ![l].pc = IF o + 1 = Len(s) THEN "answer" ELSE @]
         /\ faults' = faults \/ Fault
         /\ Unwritten \/ (Valid(s[o + 1]) /\ CommitTransaction(t))
         /\ r = "ok" => CommitTransaction(t)
  BY <1>4, <1>5, <1>9, Zenon DEF CommitSingle, Results
<1>12. PICK u \in Seq(Results) : u = Append(worker[l].res, r)
  BY <1>1, AppendFacts, Zenon
<1>13. Len(u) = o + 1 /\ DOMAIN u = 1 .. o + 1 /\ u[o + 1] = r
       /\ \A i \in 1 .. o : u[i] = worker[l].res[i]
  BY <1>1, <1>5, <1>6, <1>12, AppendFacts
<1>14. PICK p \in {"single", "answer"} : p = IF o + 1 = Len(s) THEN "answer" ELSE worker[l].pc
  BY <1>2, Zenon
<1>15. worker' = [worker EXCEPT ![l].res = u, ![l].pc = p]
  BY <1>3, <1>11, <1>12, <1>14
<1>16. worker' \in [Lanes -> WorkerState] /\ worker'[l].pc = p
       /\ worker'[l].res = u /\ worker'[l].items = s
       /\ \A k \in Lanes \ {l} : worker'[k] = worker[k]
  BY <1>3, <1>4, <1>15 DEF WorkerState
<1>17. Sized(l)'
  <2>1. p = "single" => o + 1 < Len(s)
    <3>1. p = "single" => o + 1 # Len(s)
      BY <1>14, Zenon
    <3>2. Len(s) \in Nat /\ o < Len(s)
      BY <1>6, Zenon
    <3>3. o + 1 < Len(s) \/ o + 1 = Len(s)
      BY <3>2, SMT
    <3> QED
      BY <3>1, <3>3, Zenon
  <2>2. p = "answer" => o + 1 = Len(s)
    BY <1>2, <1>14, Zenon
  <2> QED
    BY <1>2, <1>6, <1>13, <1>16, <2>1, <2>2, Zenon DEF Sized
<1>18. TInv'
  <2>1. UNCHANGED <<epoch, chan, spill, caller>> /\ (faults' = faults \/ Fault)
        /\ (Unwritten \/ CommitTransaction(t))
    BY <1>2, <1>11, Zenon
  <2> QED
    BY <1>1, <1>16, <1>17, <2>1, TryTypes
<1>19. CommitTransaction(t) => record'[s[o + 1].w] = "committed"
  <2>1. CommitTransaction(t) => \A j \in DOMAIN t : record'[t[j].w] = "committed"
    BY <1>1, TransactionFacts, Zenon
  <2> QED
    BY <1>10, <2>1, Zenon
<1>20. CInv'
  <2>1. ASSUME NEW i \in DOMAIN u, u[i] = "ok", Awaited(s[i])
        PROVE  record'[s[i].w] = "committed"
    <3>1. CASE i = o + 1
      BY <1>11, <1>13, <1>19, <2>1, <3>1
    <3>2. CASE i # o + 1
      <4>1. i \in 1 .. o
        BY <1>13, <3>2, SMT
      <4>2. worker[l].res[i] = "ok" /\ i \in DOMAIN worker[l].res
        BY <1>6, <1>13, <2>1, <4>1, Zenon
      <4>3. s[i] \in Item /\ record[s[i].w] = "committed"
        BY <1>1, <1>4, <2>1, <4>2, ResultPlaces DEF CInv
      <4>4. s[i].w \in Writes
        BY <4>3, Zenon DEF Item
      <4>5. record'[s[i].w] = record[s[i].w] \/ record'[s[i].w] = "committed"
        <5>1. CASE Unwritten
          BY <5>1, Zenon DEF Unwritten
        <5>2. CASE CommitTransaction(t)
          BY <1>1, <4>4, <5>2, TransactionFacts, Zenon
        <5> QED
          BY <1>11, <5>1, <5>2, Zenon
      <4> QED
        BY <4>3, <4>5
    <3> QED
      BY <3>1, <3>2
  <2>2. Unwritten \/ CommitTransaction(t)
    BY <1>11, Zenon
  <2> QED
    BY <1>2, <1>16, <2>1, <2>2, TryCommitted
<1>21. ASSUME NEW i \in DOMAIN worker[l].items, Handled(l, i), \A m : InLog(m) => InLog(m)' PROVE Handled(l, i)'
  <2>1. CASE p = "answer"
    BY <1>16, <2>1, Zenon DEF Handled
  <2>2. CASE p = "single" /\ i <= Len(worker[l].res)
    <3>1. i <= o + 1
      BY <1>4, <1>5, <1>6, <2>2, SMT
    <3> QED
      BY <1>13, <1>16, <2>2, <3>1, Zenon DEF Handled
  <2>3. CASE p = "single" /\ InLog(worker[l].items[i])
    <3>1. InLog(worker[l].items[i])'
      BY <1>4, <1>16, <1>21, <2>3 DEF InLog
    <3> QED
      BY <1>16, <2>3, <3>1, Zenon DEF Handled
  <2> QED
    BY <1>2, <1>21, <2>1, <2>2, <2>3 DEF Handled
<1>22. CASE Unwritten
  <2>1. \A m : InLog(m) => InLog(m)'
    BY <1>22, Zenon DEF InLog, Unwritten
  <2>2. KInv' /\ OInv'
    BY <1>2, <1>4, <1>16, <1>21, <1>22, <2>1, UnwrittenOrder
  <2> QED
    BY <1>18, <1>20, <2>2, Zenon DEF IInv
<1>23. CASE Valid(s[o + 1]) /\ CommitTransaction(t)
  <2>1. \A m : InLog(m) => InLog(m)'
    <3>1. \A i \in DOMAIN log : i \in DOMAIN log' /\ log'[i] = log[i]
      BY <1>1, <1>23, TransactionFacts, Zenon
    <3> QED
      BY <3>1, Zenon DEF InLog
  <2>2. Due(l, o, t)
    BY <1>2, <1>4, <1>5, <1>7, <1>10, <1>23 DEF Due
  <2>3. ASSUME NEW i \in DOMAIN worker[l].items, NEW j \in DOMAIN t, i < o + j
        PROVE  Handled(l, i)'
    <3>1. i \in Nat /\ j = 1
      BY <1>4, <1>6, <1>10, SMT
    <3>2. i <= o + 1
      BY <2>3, <3>1, SMT
    <3> QED
      BY <1>13, <1>16, <3>2, Zenon DEF Handled
  <2>4. worker'[l].items = worker[l].items /\ UNCHANGED <<chan, spill, caller>>
        /\ (\A k \in Lanes \ {l} : worker'[k] = worker[k])
        /\ (\A i \in DOMAIN worker[l].items : Handled(l, i) => Handled(l, i)')
    BY <1>2, <1>4, <1>16, <1>21, <2>1
  <2>5. KInv' /\ OInv'
    BY <1>23, <2>2, <2>3, <2>4, TransactionOrder, Zenon
  <2> QED
    BY <1>18, <1>20, <2>5 DEF IInv
<1> QED
  BY <1>11, <1>22, <1>23

-------------------------------------------------------------------------------
(* The invariant is inductive *)

\* Init establishes it.
LEMMA InitInvariant ==
  ASSUME Init
  PROVE  IInv
<1>1. TInv
  BY InitTypes, Zenon
<1>2. /\ record = [w \in Writes |-> "none"] /\ log = <<>>
      /\ chan = [l \in Lanes |-> <<>>] /\ spill = [l \in Lanes |-> {}]
      /\ worker = [l \in Lanes |-> Idle]
      /\ caller = [w \in Writes |->
            [pc |-> "new", k |-> 0, run |-> 0, try |-> 0, epoch |-> 0, after |-> {}]]
  BY DEF Init
<1>3. DOMAIN <<>> = {} /\ Range(<<>>) = {}
  BY SMT DEF Range
<1>4. ASSUME NEW l \in Lanes
      PROVE  chan[l] = <<>> /\ spill[l] = {} /\ worker[l].items = <<>> /\ worker[l].res = <<>>
  BY <1>2 DEF Idle
<1>5. \A l \in Lanes : Held(l) = {}
  BY <1>3, <1>4, Zenon DEF Held
<1>6. \A w \in Writes : caller[w].after = {} /\ caller[w].pc = "new"
  BY <1>2, Zenon
<1>7. KInv
  BY <1>2, <1>3, <1>5, <1>6, Zenon DEF KInv, Issued
<1>8. CInv
  BY <1>2, <1>3, <1>4, <1>6, Zenon DEF CInv
<1>9. ASSUME NEW l \in Lanes PROVE InOrder(l) /\ LogBehind(l) /\ AppliedOnce(l)
  <2>1. InOrder(l)
    BY <1>3, <1>4, Zenon DEF InOrder
  <2>2. LogBehind(l)
    BY <1>2, <1>3, Zenon DEF LogBehind
  <2>3. AppliedOnce(l)
    BY <1>5, Zenon DEF AppliedOnce
  <2> QED
    BY <2>1, <2>2, <2>3, Zenon
<1>10. LaneOrder
  BY <1>2, <1>3 DEF LaneOrder
<1> QED
  BY <1>1, <1>7, <1>8, <1>9, <1>10 DEF IInv, OInv

\* Every step keeps it.
LEMMA NextInvariant ==
  ASSUME IInv, [Next]_vars
  PROVE  IInv'
<1>1. TInv /\ Typed /\ KInv /\ CInv /\ OInv
  BY Zenon DEF IInv, TInv
<1>2. ASSUME NEW w \in Writes,
             \/ BeginWrite(w) \/ CallerTimeout(w) \/ Disconnect(w)
             \/ RecoverAfterCAS(w) \/ MarkFailed(w)
      PROVE  IInv'
  <2>1. CallerOnly(w)
    BY <1>1, <1>2, CallerOnlySteps, Zenon
  <2> QED
    BY <1>1, <2>1, CallerOnlyTypes, CallerOnlyKnown, CallerOnlyCommitted, CallerOnlyOrder
       DEF IInv
<1>3. ASSUME NEW w \in Writes, EnqueueCommit(w) PROVE IInv'
  <2>1. PICK m \in Item : Enqueues(w, m)
    BY <1>1, <1>3, EnqueueSteps, Zenon
  <2> QED
    BY <1>1, <2>1, EnqueueTypes, EnqueueKnown, EnqueueCommitted, EnqueueOrder, Zenon DEF IInv
<1>4. ASSUME NEW l \in Lanes, LaneStep(l) PROVE IInv'
  BY <1>4, SendKeeps, ReceiveKeeps, StartKeeps, BatchKeeps, SingleKeeps, AnswerKeeps
     DEF LaneStep
<1>5. CASE CommitPrimaryFailover
  BY <1>5, FailoverKeeps, Zenon
<1>6. CASE ServiceCrash
  BY <1>6, CrashKeeps, Zenon
<1>7. CASE UNCHANGED vars
  BY <1>7, StutterKeeps, Zenon
<1> QED
  BY <1>2, <1>3, <1>4, <1>5, <1>6, <1>7 DEF Next, CallStep
-------------------------------------------------------------------------------
(* Invariants *)

\* The invariant holds in every reachable state.
LEMMA Invariant ==
  Spec => []IInv
<1>1. Init => IInv
  BY InitInvariant
<1>2. IInv /\ [Next]_vars => IInv'
  BY NextInvariant
<1> QED
  BY <1>1, <1>2, PTL DEF Spec

\* Every variable keeps its type: channels stay within their capacity and
\* batches within BatchMax (drainBatch), results within the batch.
THEOREM EffectsQueueTypes ==
  Spec => []EffectsTypeOK
<1>1. ASSUME IInv PROVE EffectsTypeOK
  <2>1. TInv /\ Typed
    BY <1>1, Zenon DEF IInv, TInv
  <2>2. ASSUME NEW l \in Lanes
        PROVE  /\ Len(chan[l]) <= Depth
               /\ \A m \in Held(l) : m \in Item
               /\ worker[l].pc \in {"idle", "drain", "batch", "single", "answer"}
               /\ Len(worker[l].items) <= BatchMax
               /\ worker[l].try <= MaxAttempts
               /\ Range(worker[l].res) \subseteq Results
               /\ Len(worker[l].res) <= Len(worker[l].items)
    <3>1. Sized(l) /\ Held(l) \subseteq Item /\ worker[l] \in WorkerState
          /\ worker[l].items \in Seq(Item) /\ worker[l].res \in Seq(Results)
      BY <2>1, HeldTypes, Zenon DEF TInv
    <3>2. worker[l].pc \in {"idle", "drain", "batch", "single", "answer"}
          /\ worker[l].try \in 0 .. MaxAttempts
      BY <3>1, Zenon DEF WorkerState
    <3>3. worker[l].try <= MaxAttempts
      BY <3>2, QueueAssumption, SMT
    <3>4. Range(worker[l].res) \subseteq Results
          /\ Len(worker[l].res) \in Nat /\ Len(worker[l].items) \in Nat
      BY <3>1, RangeFacts, Zenon
    <3>5. Len(worker[l].res) <= Len(worker[l].items)
      <4>1. worker[l].res = <<>> => Len(worker[l].res) = 0
        BY SMT
      <4> QED
        BY <3>1, <3>2, <3>4, <4>1, SMT DEF Sized
    <3> QED
      BY <3>1, <3>2, <3>3, <3>4, <3>5 DEF Sized
  <2>3. ASSUME NEW w \in Writes
        PROVE  /\ caller[w].pc \in {"new", "commit", "waiting", "recover", "failing",
                                    "error", "acked"}
               /\ caller[w].run <= MaxRuns /\ caller[w].try <= MaxCommits
    <3>1. caller[w] \in CallerState
      BY <2>1, Zenon DEF Typed
    <3>2. caller[w].run \in 0 .. MaxRuns /\ caller[w].try \in 0 .. MaxCommits
          /\ caller[w].pc \in {"new", "commit", "waiting", "recover", "failing",
                               "error", "acked"}
      BY <3>1, Zenon DEF CallerState
    <3> QED
      BY <3>2, QueueAssumption, SMT
  <2> QED
    BY <2>1, <2>2, <2>3 DEF EffectsTypeOK, Typed
<1> QED
  BY <1>1, Invariant, PTL

\* An item that went straight to its lane's channel and whose caller gave up
\* is never applied after a write of the lane whose call began later: the
\* order runWorker and drainBatch keep, with every crash, timeout, retry and
\* fallback to single transactions.
THEOREM EffectsQueueLaneOrder ==
  Spec => []LaneOrder
<1>1. IInv => LaneOrder
  BY Zenon DEF IInv, OInv
<1> QED
  BY <1>1, Invariant, PTL
-------------------------------------------------------------------------------
(* The queue implements the commit log *)

\* The initial states are the commit log's.
LEMMA InitRefines ==
  ASSUME Init
  PROVE  CL!LogInit
<1>1. log = <<>> /\ page = [c \in Chunks |-> NoWrite]
      /\ \A w \in Writes : caller[w].pc = "new"
  BY Zenon DEF Init
<1>2. [i \in DOMAIN log |-> log[i].w] = <<>>
  BY <1>1, SMT
<1>3. {w \in Writes : caller[w].pc = "acked"} = {}
  BY <1>1, Zenon
<1> QED
  BY <1>1, <1>2, <1>3, Zenon DEF CL!LogInit

\* A step that writes nothing and takes no acknowledgement back is an Ack:
\* whoever is acknowledged has a committed record, which the log explains.
LEMMA AckRefines ==
  ASSUME IInv', log' = log, page' = page,
         \A w \in Writes : caller[w].pc = "acked" => caller'[w].pc = "acked"
  PROVE  CL!LogNext
<1> DEFINE A == {w \in Writes : caller'[w].pc = "acked"}
<1>1. ASSUME NEW w \in A PROVE \E i \in DOMAIN log : log[i].w = w
  <2>1. record'[w] = "committed" /\ w \in Writes
    BY Zenon DEF IInv, CInv
  <2>2. Logged(w)'
    BY <2>1, Zenon DEF IInv, CInv
  <2> QED
    BY <2>2, Zenon DEF Logged
<1>2. A \subseteq CL!Range([i \in DOMAIN log |-> log[i].w])
  BY <1>1, Zenon DEF CL!Range
<1>3. A = {w \in Writes : caller[w].pc = "acked"} \cup A
  BY Zenon
<1>4. A \in SUBSET Writes
  BY Zenon
<1>5. CL!Ack(A)
  BY <1>2, <1>3, Zenon DEF CL!Ack
<1>6. PICK B \in SUBSET Writes : B = A
  BY <1>4, Zenon
<1> HIDE DEF A
<1>7. CL!Ack(B)
  BY <1>5, <1>6, Zenon DEF CL!Ack
<1> QED
  BY <1>7, Zenon DEF CL!LogNext

\* The merged page is the page with the items' writes replayed.
LEMMA MergedIsReplay ==
  ASSUME NEW s \in Seq(Item), NEW pg
  PROVE  Merged(pg, s) = CL!Replay(pg, [i \in DOMAIN s |-> s[i].w])
<1> DEFINE t == [i \in DOMAIN s |-> s[i].w]
<1>1. DOMAIN t = DOMAIN s /\ \A i \in DOMAIN s : t[i] = s[i].w
  BY Zenon
<1>2. Len(s) \in Nat /\ DOMAIN s = 1 .. Len(s)
  BY RangeFacts
<1> HIDE DEF t
<1>3. ASSUME NEW c \in Chunks PROVE CL!Touching(t, c) = Installs(s, c)
  BY <1>1, Zenon DEF CL!Touching, Installs
<1>4. ASSUME NEW c \in Chunks, Installs(s, c) # {}
      PROVE  s[Max(Installs(s, c))].w = t[CL!Max(CL!Touching(t, c))]
  <2>1. Installs(s, c) \in SUBSET (1 .. Len(s))
    BY <1>2 DEF Installs
  <2>2. Max(Installs(s, c)) \in DOMAIN s
    BY <1>2, <1>4, <2>1, MaxOfPlaces
  <2>3. CL!Max(CL!Touching(t, c)) = Max(Installs(s, c))
    BY <1>3, Zenon DEF Max, CL!Max
  <2> QED
    BY <1>1, <2>2, <2>3, Zenon
<1>5. CL!Replay(pg, t) = Merged(pg, s)
  BY <1>3, <1>4, Zenon DEF CL!Replay, Merged
<1> QED
  BY <1>5, Zenon DEF t

\* A transaction of valid items of different writes is a Commit of the log.
LEMMA TransactionRefines ==
  ASSUME IInv, NEW s \in Seq(Item), Len(s) <= BatchMax, CommitTransaction(s),
         UNCHANGED caller, \A j \in DOMAIN s : Valid(s[j]),
         \A i, j \in DOMAIN s : s[i].w = s[j].w => i = j
  PROVE  CL!LogNext
<1> DEFINE t == [i \in DOMAIN s |-> s[i].w]
           L == [i \in DOMAIN log |-> log[i].w]
           LP == [i \in DOMAIN log' |-> log'[i].w]
<1>1. Typed /\ CInv
  BY Zenon DEF IInv, TInv
<1>2. Len(s) \in Nat /\ DOMAIN s = 1 .. Len(s) /\ (\A i \in DOMAIN s : s[i] \in Item)
  BY RangeFacts, Zenon
<1>3. \A i \in DOMAIN s : s[i].w \in Writes
  BY <1>2, Zenon DEF Item
<1>4. t \in [1 .. Len(s) -> Writes] /\ (\A i \in DOMAIN s : t[i] = s[i].w)
  BY <1>2, <1>3, Zenon
<1>5. Len(s) \in 0 .. BatchMax
  BY <1>2, QueueAssumption, SMT
<1>6. log \in Seq(Entry)
  BY <1>1, Zenon DEF Typed
<1>7. Len(log) \in Nat /\ DOMAIN log = 1 .. Len(log)
  BY <1>6, RangeFacts, Zenon
<1>8. /\ log' \in Seq(Entry)
      /\ \A i \in DOMAIN log : i \in DOMAIN log' /\ log'[i] = log[i]
      /\ \A j \in DOMAIN s : /\ Len(log) + j \in DOMAIN log'
                             /\ log'[Len(log) + j] = EntryOf(s[j])
      /\ \A i \in DOMAIN log' : i \in DOMAIN log \/ \E j \in DOMAIN s : i = Len(log) + j
  BY <1>1, TransactionFacts, Zenon
<1>9. L \in [1 .. Len(log) -> Writes]
  <2>1. \A i \in DOMAIN log : log[i] \in Entry
    BY <1>6, RangeFacts, Zenon
  <2>2. \A i \in DOMAIN log : log[i].w \in Writes
    BY <2>1, Zenon DEF Entry
  <2> QED
    BY <1>7, <2>2, Zenon
<1>10. LP = L \o t
  <2>1. \A i \in DOMAIN log : L[i] = log[i].w
    OBVIOUS
  <2>2. LP \in [DOMAIN log' -> Writes] /\ (\A i \in DOMAIN log' : LP[i] = log'[i].w)
    <3>1. \A i \in DOMAIN log' : log'[i] \in Entry
      BY <1>8, RangeFacts, Zenon
    <3>2. \A i \in DOMAIN log' : log'[i].w \in Writes
      BY <3>1, Zenon DEF Entry
    <3> QED
      BY <3>2, Zenon
  <2>3. \A j \in DOMAIN s : EntryOf(s[j]).w = s[j].w
    BY Zenon DEF EntryOf
  <2>4. L \in Seq(Writes) /\ Len(L) = Len(log) /\ DOMAIN L = DOMAIN log
        /\ t \in Seq(Writes) /\ Len(t) = Len(s) /\ DOMAIN t = DOMAIN s
    <3> HIDE DEF L, t
    <3> QED
      BY <1>2, <1>4, <1>7, <1>9, FunctionIsSeq, Zenon
  <2> HIDE DEF L, t, LP
  <2>5. PICK u \in Seq(Writes) : u = L \o t
    BY <2>4, ConcatFacts, Zenon
  <2>9. /\ DOMAIN u = 1 .. Len(log) + Len(s)
        /\ \A i \in DOMAIN log : u[i] = L[i]
        /\ \A j \in DOMAIN s : u[Len(log) + j] = t[j]
    <3>1. PICK m \in Seq(Writes), n \in Seq(Writes) : m = L /\ n = t
      BY <2>4, Zenon
    <3>2. /\ DOMAIN (m \o n) = 1 .. Len(m) + Len(n)
          /\ \A i \in DOMAIN m : i \in DOMAIN (m \o n) /\ (m \o n)[i] = m[i]
          /\ \A j \in DOMAIN n : /\ Len(m) + j \in DOMAIN (m \o n)
                                 /\ (m \o n)[Len(m) + j] = n[j]
      BY ConcatFacts
    <3> QED
      BY <2>4, <2>5, <3>1, <3>2, Zenon
  <2>6. DOMAIN log' = 1 .. Len(log) + Len(s)
    <3>1. DOMAIN log' = 1 .. Len(log') /\ Len(log') \in Nat
      BY <1>8, RangeFacts
    <3>2. ASSUME NEW i \in DOMAIN log' PROVE i \in 1 .. Len(log) + Len(s)
      <4>1. CASE i \in DOMAIN log
        BY <1>2, <1>7, <4>1, SMT
      <4>2. CASE \E j \in DOMAIN s : i = Len(log) + j
        BY <1>2, <1>7, <4>2, SMT
      <4> QED
        BY <1>8, <4>1, <4>2, Zenon
    <3>3. ASSUME NEW i \in 1 .. Len(log) + Len(s) PROVE i \in DOMAIN log'
      <4>1. CASE i <= Len(log)
        <5>1. i \in DOMAIN log
          BY <1>2, <1>7, <4>1, SMT
        <5> QED
          BY <1>8, <5>1, Zenon
      <4>2. CASE ~(i <= Len(log))
        <5>1. i - Len(log) \in DOMAIN s /\ Len(log) + (i - Len(log)) = i
          BY <1>2, <1>7, <4>2, SMT
        <5> QED
          BY <1>8, <5>1
      <4> QED
        BY <4>1, <4>2, Zenon
    <3> QED
      BY <3>2, <3>3, Zenon
  <2>7. ASSUME NEW i \in DOMAIN log' PROVE LP[i] = u[i]
    <3>1. CASE i \in DOMAIN log
      <4>1. LP[i] = log[i].w
        BY <1>8, <2>2, <3>1, Zenon
      <4> QED
        BY <2>1, <2>9, <3>1, <4>1, Zenon
    <3>2. CASE i \notin DOMAIN log
      <4>1. PICK j \in DOMAIN s : i = Len(log) + j
        BY <1>8, <3>2, Zenon
      <4>2. LP[i] = s[j].w
        BY <1>8, <2>2, <2>3, <4>1, Zenon
      <4>3. u[i] = t[j] /\ t[j] = s[j].w
        BY <1>4, <2>9, <4>1
      <4> QED
        BY <4>2, <4>3, Zenon
    <3> QED
      BY <3>1, <3>2, Zenon
  <2>8. u \in [DOMAIN log' -> Writes]
    BY <2>6, <2>9
  <2>10. PICK f \in [DOMAIN log' -> Writes] : f = LP
    BY <2>2, Zenon
  <2>11. f = u
    BY <2>7, <2>8, <2>10
  <2> QED
    BY <2>5, <2>10, <2>11, Zenon
<1>11. CL!IsInjective(t)
  BY <1>2, <1>4, Zenon DEF CL!IsInjective
<1>12. CL!Range(t) \cap {w \in Writes : caller[w].pc = "acked"} = {}
  <2>1. \A w \in Writes : caller[w].pc = "acked" => record[w] # "pending"
    BY <1>1, Zenon DEF CInv
  <2>2. \A w \in CL!Range(t) : record[w] = "pending"
    BY Zenon DEF CL!Range, Valid
  <2> QED
    BY <2>1, <2>2, Zenon
<1>13. page' = CL!Replay(page, t)
  BY MergedIsReplay, Zenon DEF CommitTransaction
<1>14. CL!Commit(t)
  <2>1. LP = L \o t /\ UNCHANGED {w \in Writes : caller[w].pc = "acked"}
    BY <1>10, Zenon
  <2> HIDE DEF t
  <2> QED
    BY <1>11, <1>12, <1>13, <2>1, Zenon DEF CL!Commit
<1> HIDE DEF t
<1> QED
  BY <1>4, <1>5, <1>14 DEF CL!LogNext

\* A batch's transaction is a Commit, an attempt that writes nothing an Ack.
LEMMA BatchRefines ==
  ASSUME IInv, IInv', NEW l \in Lanes, CommitBatch(l)
  PROVE  CL!LogNext
<1>1. TInv /\ Typed /\ Sized(l) /\ worker[l].items \in Seq(Item)
  BY HeldTypes DEF IInv, TInv
<1>2. PICK s \in Seq(Item) : s = worker[l].items
  BY <1>1
<1>3. Len(s) <= BatchMax /\ UNCHANGED caller
  BY <1>1, <1>2, Zenon DEF Sized, CommitBatch
<1>4. CASE ValidBatch(s) /\ CommitTransaction(s)
  <2>1. \A j \in DOMAIN s : Valid(s[j])
    BY <1>4, Zenon DEF ValidBatch
  <2>2. \A i, j \in DOMAIN s : s[i].w = s[j].w => i = j
    BY <1>4, Zenon DEF ValidBatch, IsInjective
  <2> QED
    BY <1>3, <1>4, <2>1, <2>2, TransactionRefines
<1>5. CASE Unwritten
  BY <1>3, <1>5, AckRefines DEF Unwritten
<1> QED
  BY <1>2, <1>4, <1>5, Zenon DEF CommitBatch

\* So is the transaction of one item of a batch that failed.
LEMMA SingleRefines ==
  ASSUME IInv, IInv', NEW l \in Lanes, CommitSingle(l)
  PROVE  CL!LogNext
<1>1. TInv /\ Typed /\ Sized(l) /\ worker[l].items \in Seq(Item)
      /\ worker[l].res \in Seq(Results)
  BY HeldTypes, Zenon DEF IInv, TInv
<1>2. worker[l].pc = "single" /\ UNCHANGED caller
  BY DEF CommitSingle
<1>3. PICK s \in Seq(Item) : s = worker[l].items
  BY <1>1
<1>4. PICK o \in Nat : o = Len(worker[l].res)
  BY <1>1
<1>5. DOMAIN s = 1 .. Len(s) /\ Len(s) \in Nat /\ o < Len(s)
  BY <1>1, <1>2, <1>3, <1>4, RangeFacts, Zenon DEF Sized
<1>6. o + 1 \in DOMAIN s
  BY <1>5, SMT
<1>7. s[o + 1] \in Item
  BY <1>6, RangeFacts
<1>8. PICK t \in Seq(Item) : t = <<s[o + 1]>>
  <2>1. \A m \in Item : <<m>> \in Seq(Item)
    BY SMT
  <2> QED
    BY <1>7, <2>1, Zenon
<1>9. DOMAIN t = {1} /\ t[1] = s[o + 1] /\ Len(t) = 1
  BY <1>8
<1>10. Len(t) <= BatchMax
  BY <1>9, QueueAssumption, SMT
<1>11. Unwritten \/ (Valid(s[o + 1]) /\ CommitTransaction(t))
  BY <1>3, <1>4, <1>8, Zenon DEF CommitSingle
<1>12. CASE Valid(s[o + 1]) /\ CommitTransaction(t)
  <2>1. \A j \in DOMAIN t : Valid(t[j])
    BY <1>9, <1>12
  <2>2. \A i, j \in DOMAIN t : t[i].w = t[j].w => i = j
    BY <1>9, Zenon
  <2> QED
    BY <1>2, <1>10, <1>12, <2>1, <2>2, TransactionRefines
<1>13. CASE Unwritten
  BY <1>2, <1>13, AckRefines, Zenon DEF Unwritten
<1> QED
  BY <1>11, <1>12, <1>13, Zenon

\* Every step is a step of the commit log, or leaves it alone.
LEMMA NextRefines ==
  ASSUME IInv, [Next]_vars
  PROVE  CL!LogNext
<1>1. TInv /\ Typed /\ KInv /\ CInv /\ OInv /\ IInv'
  BY NextInvariant, Zenon DEF IInv, TInv
<1>2. ASSUME NEW w \in Writes,
             \/ BeginWrite(w) \/ CallerTimeout(w) \/ Disconnect(w)
             \/ RecoverAfterCAS(w) \/ MarkFailed(w)
      PROVE  CL!LogNext
  <2>1. CallerOnly(w)
    BY <1>1, <1>2, CallerOnlySteps, Zenon
  <2>2. log' = log /\ page' = page
        /\ \A v \in Writes : caller[v].pc = "acked" => caller'[v].pc = "acked"
    BY <2>1, Zenon DEF CallerOnly
  <2> QED
    BY <1>1, <2>2, AckRefines
<1>3. ASSUME NEW w \in Writes, EnqueueCommit(w) PROVE CL!LogNext
  <2>1. PICK m \in Item : Enqueues(w, m)
    BY <1>1, <1>3, EnqueueSteps, Zenon
  <2>2. log' = log /\ page' = page
        /\ \A v \in Writes : caller[v].pc = "acked" => caller'[v].pc = "acked"
    BY <2>1 DEF Enqueues
  <2> QED
    BY <1>1, <2>2, AckRefines, Zenon
<1>4. ASSUME log' = log, page' = page, caller' = caller PROVE CL!LogNext
  BY <1>1, <1>4, AckRefines, Zenon
<1>5. ASSUME NEW l \in Lanes, LaneStep(l) PROVE CL!LogNext
  <2>1. CASE \E m \in spill[l] : SendLater(l, m)
    BY <1>4, <2>1, Zenon DEF SendLater
  <2>2. CASE Receive(l)
    BY <1>4, <2>2 DEF Receive
  <2>3. CASE StartBatch(l)
    BY <1>4, <2>3 DEF StartBatch
  <2>4. CASE CommitBatch(l)
    BY <1>1, <2>4, BatchRefines, Zenon
  <2>5. CASE CommitSingle(l)
    BY <1>1, <2>5, SingleRefines, Zenon
  <2>6. CASE Answer(l)
    <3>1. log' = log /\ page' = page
          /\ \A v \in Writes : caller'[v] = caller[v] \/ caller[v].pc = "waiting"
      BY <1>1, <2>6, AnswerSteps, Zenon
    <3>2. \A v \in Writes : caller[v].pc = "acked" => caller'[v].pc = "acked"
      BY <3>1
    <3> QED
      BY <1>1, <3>1, <3>2, AckRefines
  <2> QED
    BY <1>5, <2>1, <2>2, <2>3, <2>4, <2>5, <2>6 DEF LaneStep
<1>6. CASE CommitPrimaryFailover
  BY <1>4, <1>6, Zenon DEF CommitPrimaryFailover
<1>7. CASE ServiceCrash
  <2>1. log' = log /\ page' = page
        /\ \A v \in Writes : caller[v].pc = "acked" => caller'[v].pc = "acked"
    BY <1>7, Zenon DEF ServiceCrash
  <2> QED
    BY <1>1, <2>1, AckRefines
<1>8. CASE UNCHANGED vars
  BY <1>4, <1>8 DEF vars
<1> QED
  BY <1>2, <1>3, <1>5, <1>6, <1>7, <1>8 DEF Next, CallStep

\* The service's queue, with its batches, single fallbacks, lost answers,
\* crashes and retried calls, implements the commit log: every transaction of
\* commitAppendOnlyWriteMetadataBatchWithStore adds each write once to the log
\* and replays it on the pages, none of an acknowledged write follows, and a
\* caller is told of success only when its write is in the log.
THEOREM EffectsQueueImplements ==
  Spec => Implements
<1>1. Init => CL!LogInit
  BY InitRefines
<1>2. IInv /\ [Next]_vars => [CL!LogNext]_(CL!logVars)
  BY NextRefines
<1> QED
  BY <1>1, <1>2, Invariant, PTL DEF Spec, Implements, CL!LogSpec
=============================================================================
