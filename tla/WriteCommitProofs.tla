-------------------------- MODULE WriteCommitProofs --------------------------
(***************************************************************************)
(* Proofs about WriteCommit for any number of requests, gateways and       *)
(* chunks, every commit mode and every bound: types, physical chunks that  *)
(* are not shared, data next to a write that stays, and volume revisions   *)
(* that no two commits share.                                              *)
(*                                                                         *)
(* What is stored rests on the shapes of a request's steps: outside its    *)
(* payload phase a request carries ids from map to map, the allocation     *)
(* gives it new ones, and a store changes the one chunk it planned.        *)
(***************************************************************************)
EXTENDS WriteCommit, FiniteSetTheorems, TLAPS

\* The page, the initial page or some request's plan maps c to id i.
Mapped(i, c) ==
  \/ InitPage[c] = i
  \/ page[c] = i
  \/ \E w \in Writers : exec[w].plan[c] = i

\* A physical chunk id belongs to one logical chunk, in every map.
OneChunkPerId ==
  \A i \in Ids : \A c, d \in Chunks : Mapped(i, c) /\ Mapped(i, d) => c = d

\* Ids in use were handed out by AllocateChunkIDs.
IdsAllocated == \A i \in Ids : \A c \in Chunks : Mapped(i, c) => i < nextId

\* A request that stores its payload has a physical chunk for it.
PlanReady ==
  \A w \in Writers :
    /\ exec[w].pc \in {"intent", "payload"} =>
         \A c \in DataChunks(w) : exec[w].plan[c] # 0
    /\ exec[w].pc = "payload" => exec[w].todo \subseteq DataChunks(w)

IInv == TypeOK /\ OneChunkPerId /\ IdsAllocated /\ PlanReady

-----------------------------------------------------------------------------
(* Ranks and ids *)

\* The position of an element of a finite set is a natural number.
LEMMA SmallerFinite ==
  ASSUME NEW S, IsFiniteSet(S), NEW c
  PROVE  /\ IsFiniteSet({d \in S : d < c})
         /\ Rank(c, S) \in Nat
BY FS_Subset, FS_CardinalityType DEF Rank

\* The i-th pending chunk of n gets one of n ids.
LEMMA RankBound ==
  ASSUME NEW S, S \subseteq Nat, IsFiniteSet(S), NEW c \in S
  PROVE  /\ Rank(c, S) \in Nat /\ Cardinality(S) \in Nat
         /\ Rank(c, S) < Cardinality(S)
<1> DEFINE T == {d \in S : d < c}
<1>1. T \subseteq S \ {c}
  OBVIOUS
<1>2. IsFiniteSet(S \ {c}) /\ Cardinality(S \ {c}) = Cardinality(S) - 1
  BY FS_RemoveElement
<1>3. Cardinality(T) <= Cardinality(S \ {c})
  BY <1>1, <1>2, FS_Subset
<1>4. Cardinality(S) \in Nat /\ Rank(c, S) \in Nat
  BY FS_CardinalityType, SmallerFinite, Zenon
<1> QED
  BY <1>2, <1>3, <1>4 DEF Rank

\* Two pending chunks get different ids.
LEMMA RankIncreases ==
  ASSUME NEW S, S \subseteq Nat, IsFiniteSet(S), NEW c \in S, NEW d \in S, c < d
  PROVE  Rank(c, S) < Rank(d, S)
<1> DEFINE C == {x \in S : x < c}
           D == {x \in S : x < d}
<1>1. IsFiniteSet(D) /\ c \in D
  BY SmallerFinite
<1>2. C \subseteq D \ {c}
  <2> SUFFICES ASSUME NEW x \in C PROVE x \in D \ {c}
    BY Zenon
  <2>1. x \in Nat /\ c \in Nat /\ d \in Nat /\ x < c /\ x \in S
    OBVIOUS
  <2> QED
    BY <2>1
<1>3. IsFiniteSet(D \ {c}) /\ Cardinality(D \ {c}) = Cardinality(D) - 1
  BY <1>1, FS_RemoveElement, Zenon
<1>4. Cardinality(C) <= Cardinality(D \ {c})
  BY <1>2, <1>3, FS_Subset
<1>5. Rank(c, S) \in Nat /\ Rank(d, S) \in Nat
  BY SmallerFinite, Zenon
<1> QED
  BY <1>3, <1>4, <1>5 DEF Rank

\* Chunks with the same position are the same chunk.
LEMMA RankInjective ==
  ASSUME NEW S, S \subseteq Nat, IsFiniteSet(S), NEW c \in S, NEW d \in S,
         Rank(c, S) = Rank(d, S)
  PROVE  c = d
<1>1. c \in Nat /\ d \in Nat
  OBVIOUS
<1>2. Rank(c, S) \in Nat
  BY SmallerFinite, Zenon
<1>3. ASSUME c < d PROVE FALSE
  <2>1. Rank(c, S) < Rank(d, S)
    BY <1>3, RankIncreases, Zenon
  <2> QED
    BY <2>1, <1>2
<1>4. ASSUME d < c PROVE FALSE
  <2>1. Rank(d, S) < Rank(c, S)
    BY <1>4, RankIncreases, Zenon
  <2> QED
    BY <2>1, <1>2
<1> QED
  BY <1>1, <1>3, <1>4

\* The initially mapped chunks are finitely many, and within the id bound.
LEMMA InitMappedFinite ==
  /\ IsFiniteSet(InitMapped) /\ InitMapped \subseteq Nat
  /\ Cardinality(InitMapped) \in Nat /\ Cardinality(InitMapped) <= MaxChunkId
BY WriteCommitAssumption, FS_Subset, FS_CardinalityType, Zenon

\* The initial page maps to ids that are already allocated.
LEMMA InitPageIds ==
  /\ InitPage \in [Chunks -> Ids \cup {0}]
  /\ \A c \in Chunks : InitPage[c] <= Cardinality(InitMapped)
  /\ \A c, d \in Chunks : InitPage[c] # 0 /\ InitPage[c] = InitPage[d] => c = d
<1>1. ASSUME NEW c \in InitMapped
      PROVE  1 + Rank(c, InitMapped) \in Ids
             /\ 1 + Rank(c, InitMapped) <= Cardinality(InitMapped)
  <2>1. Rank(c, InitMapped) \in Nat /\ Rank(c, InitMapped) < Cardinality(InitMapped)
    BY InitMappedFinite, RankBound, Zenon
  <2> QED
    BY <2>1, InitMappedFinite, WriteCommitAssumption DEF Ids
<1>2. ASSUME NEW c \in Chunks, NEW d \in Chunks, InitPage[c] # 0, InitPage[c] = InitPage[d]
      PROVE  c = d
  <2>1. c \in InitMapped /\ d \in InitMapped
    <3>1. c \in InitMapped
      BY <1>2 DEF InitPage
    <3>2. CASE d \notin InitMapped
      BY <1>2, <3>2 DEF InitPage
    <3> QED
      BY <3>1, <3>2
  <2>2. Rank(c, InitMapped) = Rank(d, InitMapped)
    <3>1. Rank(c, InitMapped) \in Nat /\ Rank(d, InitMapped) \in Nat
      BY <2>1, InitMappedFinite, RankBound, Zenon
    <3> QED
      BY <1>2, <2>1, <3>1 DEF InitPage
  <2> QED
    BY <2>1, <2>2, InitMappedFinite, RankInjective, Zenon
<1>3. InitPage \in [Chunks -> Ids \cup {0}]
  BY <1>1 DEF InitPage
<1>4. ASSUME NEW c \in Chunks PROVE InitPage[c] <= Cardinality(InitMapped)
  <2>1. CASE c \in InitMapped
    BY <1>1, <2>1 DEF InitPage
  <2>2. CASE c \notin InitMapped
    BY <2>2, InitMappedFinite DEF InitPage
  <2> QED
    BY <2>1, <2>2
<1> QED
  BY <1>2, <1>3, <1>4

-----------------------------------------------------------------------------
(* Execution records *)

\* A dropped execution is well typed and its plan is the initial page.
LEMMA NoExecType ==
  ASSUME NEW step \in Steps, NEW runs \in Nat, NEW lost \in BOOLEAN
  PROVE  /\ NoExec(step, runs, lost) \in ExecType
         /\ NoExec(step, runs, lost).pc = step
         /\ NoExec(step, runs, lost).plan = InitPage
<1>1. Zeroes \in [Sectors -> Contents]
  BY DEF Zeroes, Contents
<1>2. NoGc \in GcType
  BY DEF NoGc, GcType
<1> QED
  BY <1>1, <1>2, InitPageIds DEF NoExec, ExecType

\* Goto changes the step of one request; a finished one drops its execution.
LEMMA GotoExec ==
  ASSUME TypeOK, NEW w \in Writers, NEW step \in Steps, Goto(w, step)
  PROVE  /\ exec' \in [Writers -> ExecType]
         /\ exec'[w].pc = step
         /\ \A x \in Writers \ {w} : exec'[x] = exec[x]
         /\ exec'[w].plan \in {exec[w].plan, InitPage}
<1>1. exec[w] \in ExecType
  BY Zenon DEF TypeOK
<1>2. CASE step \in {"acked", "error"}
  <2> DEFINE e == NoExec(step, exec[w].runs, exec[w].sessionLost)
  <2>1. e \in ExecType /\ e.pc = step /\ e.plan = InitPage
    BY <1>1, NoExecType DEF ExecType
  <2>2. exec' = [exec EXCEPT ![w] = e]
    BY <1>2 DEF Goto
  <2> QED
    BY <2>1, <2>2, Zenon DEF TypeOK
<1>3. CASE step \notin {"acked", "error"}
  <2> DEFINE e == [exec[w] EXCEPT !.pc = step]
  <2>1. e \in ExecType /\ e.pc = step /\ e.plan = exec[w].plan
    BY <1>1 DEF ExecType
  <2>2. exec' = [exec EXCEPT ![w] = e]
    BY <1>3 DEF Goto
  <2> QED
    BY <2>1, <2>2 DEF TypeOK
<1> QED
  BY <1>2, <1>3

\* Leave moves the request and keeps the lock table typed.
LEMMA LeaveExec ==
  ASSUME TypeOK, NEW w \in Writers, NEW step \in Steps, Leave(w, step)
  PROVE  /\ Goto(w, step)
         /\ lock' \in [Gateways -> Writers \cup {NoWriter}]
BY Zenon DEF Leave, TypeOK

-----------------------------------------------------------------------------
(* Maps *)

\* Maps that gain no mapping keep their ids apart and allocated.
LEMMA KeepMaps ==
  ASSUME OneChunkPerId, IdsAllocated, nextId \in Nat, nextId' \in Nat, nextId <= nextId',
         \A i \in Ids, c \in Chunks : Mapped(i, c)' => Mapped(i, c)
  PROVE  OneChunkPerId' /\ IdsAllocated'
<1>1. OneChunkPerId'
  BY DEF OneChunkPerId
<1>2. ASSUME NEW i \in Ids, NEW c \in Chunks, Mapped(i, c)' PROVE i < nextId'
  <2>1. i < nextId
    BY <1>2 DEF IdsAllocated
  <2>2. i \in Nat
    BY DEF Ids
  <2> QED
    BY <2>1, <2>2
<1> QED
  BY <1>1, <1>2 DEF IdsAllocated

\* Every step of a request but the allocation takes its mappings from maps
\* that exist: its own plan, the page, or no mapping at all.
LEMMA StepKeeps ==
  ASSUME IInv, NEW w \in Writers,
         \A x \in Writers \ {w} : exec'[x] = exec[x],
         exec' \in [Writers -> ExecType], nextId' = nextId,
         \A c \in Chunks : page'[c] \in {0, page[c], exec[w].plan[c]},
         \A c \in Chunks :
           exec'[w].plan[c] \in {0, InitPage[c], page[c], exec[w].plan[c]},
         exec'[w].pc \in {"intent", "payload"} =>
           /\ exec[w].pc \in {"intent", "payload"} /\ exec'[w].plan = exec[w].plan
           /\ exec'[w].pc = "payload" => exec'[w].todo \subseteq DataChunks(w)
  PROVE  OneChunkPerId' /\ IdsAllocated' /\ PlanReady'
<1>1. ASSUME NEW i \in Ids, NEW c \in Chunks, Mapped(i, c)' PROVE Mapped(i, c)
  <2>1. i # 0
    BY DEF Ids
  <2>2. CASE InitPage[c] = i
    BY <2>2, Zenon DEF Mapped
  <2>3. CASE page'[c] = i
    BY <2>1, <2>3, Zenon DEF Mapped
  <2>4. ASSUME NEW x \in Writers, exec'[x].plan[c] = i PROVE Mapped(i, c)
    <3>1. CASE x = w
      BY <2>1, <2>4, <3>1, Zenon DEF Mapped
    <3>2. CASE x # w
      BY <2>4, <3>2, Zenon DEF Mapped
    <3> QED
      BY <3>1, <3>2, Zenon
  <2>5. InitPage' = InitPage
    BY Zenon DEF InitPage, Rank
  <2> QED
    BY <1>1, <2>2, <2>3, <2>4, <2>5, Zenon DEF Mapped
<1>2. nextId \in Nat
  BY DEF IInv, TypeOK
<1>3. OneChunkPerId' /\ IdsAllocated'
  BY <1>1, <1>2, KeepMaps DEF IInv
<1>4. ASSUME NEW x \in Writers
      PROVE  /\ exec'[x].pc \in {"intent", "payload"} =>
                  \A c \in DataChunks(x) : exec'[x].plan[c] # 0
             /\ exec'[x].pc = "payload" => exec'[x].todo \subseteq DataChunks(x)
  <2>1. CASE x = w
    BY <2>1 DEF IInv, PlanReady
  <2>2. CASE x # w
    BY <2>2, Zenon DEF IInv, PlanReady
  <2> QED
    BY <2>1, <2>2, Zenon
<1>5. PlanReady'
  BY <1>4, Zenon DEF PlanReady, DataChunks, Touched, ZeroChunks, FullChunk
<1> QED
  BY <1>3, <1>5

\* StepKeeps for a step that moves the request and may change the page.
LEMMA MoveKeeps ==
  ASSUME IInv, NEW w \in Writers, NEW step \in Steps \ {"intent", "payload"},
         Goto(w, step), nextId' = nextId,
         \A c \in Chunks : page'[c] \in {0, page[c], exec[w].plan[c]}
  PROVE  /\ OneChunkPerId' /\ IdsAllocated' /\ PlanReady'
         /\ exec' \in [Writers -> ExecType]
<1>1. /\ exec' \in [Writers -> ExecType]
      /\ exec'[w].pc = step
      /\ \A x \in Writers \ {w} : exec'[x] = exec[x]
      /\ exec'[w].plan \in {exec[w].plan, InitPage}
  BY GotoExec, Zenon DEF IInv
<1>2. \A c \in Chunks :
        exec'[w].plan[c] \in {0, InitPage[c], page[c], exec[w].plan[c]}
  BY <1>1
<1>3. exec'[w].pc \notin {"intent", "payload"}
  BY <1>1, Zenon
<1> QED
  BY <1>1, <1>2, <1>3, StepKeeps

\* What a commit installs comes from the page and the plan.
LEMMA CommittedPages ==
  ASSUME TypeOK, NEW w \in Writers
  PROVE  /\ CommitPage(w) \in [Chunks -> Ids \cup {0}]
         /\ MergePage(w) \in [Chunks -> Ids \cup {0}]
         /\ \A c \in Chunks :
              /\ CommitPage(w)[c] \in {0, page[c], exec[w].plan[c]}
              /\ MergePage(w)[c] \in {0, page[c], exec[w].plan[c]}
         /\ Retired(w) \subseteq Ids
<1>1. /\ exec[w].plan \in [Chunks -> Ids \cup {0}]
      /\ page \in [Chunks -> Ids \cup {0}]
  BY DEF TypeOK, ExecType
<1>2. /\ CommitPage(w) \in [Chunks -> Ids \cup {0}]
      /\ \A c \in Chunks : CommitPage(w)[c] \in {0, page[c], exec[w].plan[c]}
  BY <1>1, Zenon DEF CommitPage
<1>3. /\ MergePage(w) \in [Chunks -> Ids \cup {0}]
      /\ \A c \in Chunks : MergePage(w)[c] \in {0, page[c], exec[w].plan[c]}
  BY <1>1, <1>2 DEF MergePage
<1>4. ZeroChunks(w) \subseteq Chunks
  BY DEF ZeroChunks, Touched
<1> QED
  BY <1>1, <1>2, <1>3, <1>4 DEF Retired

\* Every commit mode computes a natural revision.
LEMMA CommitRevisionType ==
  ASSUME TypeOK, NEW w \in Writers
  PROVE  CommitRevision(w) \in Nat
<1>1. /\ exec[w].revision \in Nat /\ exec[w].planRev \in Nat
      /\ pageRev \in Nat /\ orderRev \in Nat
  BY DEF TypeOK, ExecType
<1> QED
  BY <1>1 DEF CommitRevision, MaxOf

\* After a commit a request neither plans nor stores payload.
LEMMA AfterCommitStep ==
  ASSUME NEW w PROVE AfterCommit(w) \in Steps \ {"intent", "payload"}
BY DEF AfterCommit, Steps

-----------------------------------------------------------------------------
(* BeginWrite *)

\* BeginWrite preserves the inductive invariant.
LEMMA BeginWriteIInv ==
  ASSUME IInv, NEW w \in Writers, BeginWrite(w) PROVE IInv'
<1>0. PICK r \in ExecType : r = exec[w]
  BY DEF IInv, TypeOK
<1>1. PICK n \in Nat : r = exec[w] /\ n = r.runs + 1
  BY <1>0 DEF ExecType
<1>2. vol.epoch \in Nat /\ vol.revision \in Nat
  BY DEF IInv, TypeOK
<1> DEFINE e == [r EXCEPT !.pc = "lookup", !.epoch = vol.epoch,
                   !.revision = vol.revision, !.attempt = 1,
                   !.sessionLost = FALSE, !.runs = n]
<1>3. e \in ExecType /\ e.pc = "lookup" /\ e.plan = exec[w].plan
  BY <1>1, <1>2, Zenon DEF ExecType, Steps
<1>4. /\ exec' \in [Writers -> ExecType] /\ exec'[w] = e
      /\ \A x \in Writers \ {w} : exec'[x] = exec[x]
  BY <1>1, <1>3 DEF BeginWrite, IInv, TypeOK
<1>5. began' \in [Writers -> [epoch : Nat, after : SUBSET Writers]]
  <2>1. began[w].after \subseteq Writers
    BY DEF IInv, TypeOK
  <2> QED
    BY <1>2, <2>1 DEF BeginWrite, IInv, TypeOK
<1>6. TypeOK'
  BY <1>4, <1>5, Zenon DEF BeginWrite, IInv, TypeOK, meta, env
<1>7. OneChunkPerId' /\ IdsAllocated' /\ PlanReady'
  <2> HIDE DEF e
  <2>1. nextId' = nextId /\ page' = page
    BY Zenon DEF BeginWrite, meta
  <2>2. exec'[w].plan = exec[w].plan /\ exec'[w].pc = "lookup"
    BY <1>3, <1>4, Zenon
  <2>3. exec'[w].pc \notin {"intent", "payload"}
    BY <2>2
  <2>4. \A c \in Chunks : /\ page'[c] \in {0, page[c], exec[w].plan[c]}
                          /\ exec'[w].plan[c] \in {0, InitPage[c], page[c], exec[w].plan[c]}
    BY <2>1, <2>2, Zenon
  <2> QED
    BY <1>4, <2>1, <2>3, <2>4, StepKeeps, Zenon
<1> QED
  BY <1>6, <1>7 DEF IInv

\* LookupIdempotency preserves the inductive invariant.
LEMMA LookupIdempotencyIInv ==
  ASSUME IInv, NEW w \in Writers, LookupIdempotency(w) PROVE IInv'
<1>1. UNCHANGED <<vol, idem, mut, page, pageRev, orderRev, nextId, payload, gcOp,
                  snapState, mode, lock, began>>
  BY DEF LookupIdempotency, meta, env
<1>2. ASSUME NEW step \in {"acked", "error"}, Goto(w, step) PROVE IInv'
  <2>1. step \in Steps \ {"intent", "payload"}
    BY DEF Steps
  <2>2. /\ OneChunkPerId' /\ IdsAllocated' /\ PlanReady'
        /\ exec' \in [Writers -> ExecType]
    BY <1>1, <1>2, <2>1, MoveKeeps
  <2> QED
    BY <1>1, <2>2, Zenon DEF IInv, TypeOK
<1>3. ASSUME NEW f \in BOOLEAN,
             exec' = [exec EXCEPT ![w].pc = "plan", ![w].recovering = f]
      PROVE  IInv'
  <2>0. PICK r \in ExecType : r = exec[w]
    BY DEF IInv, TypeOK
  <2> DEFINE e == [r EXCEPT !.pc = "plan", !.recovering = f]
  <2>1. e \in ExecType /\ e.pc = "plan" /\ e.plan = exec[w].plan
    BY <2>0, Zenon DEF ExecType, Steps
  <2>2. /\ exec' \in [Writers -> ExecType] /\ exec'[w] = e
        /\ \A x \in Writers \ {w} : exec'[x] = exec[x]
    BY <1>3, <2>0, <2>1 DEF IInv, TypeOK
  <2>3. OneChunkPerId' /\ IdsAllocated' /\ PlanReady'
    BY <1>1, <2>1, <2>2, StepKeeps, Zenon
  <2> QED
    BY <1>1, <2>2, <2>3 DEF IInv, TypeOK
<1> QED
  BY <1>2, <1>3, Zenon DEF LookupIdempotency

\* PlanPages preserves the inductive invariant.
LEMMA PlanPagesIInv ==
  ASSUME IInv, NEW w \in Writers, PlanPages(w) PROVE IInv'
<1>0. PICK r \in ExecType : r = exec[w]
  BY DEF IInv, TypeOK
<1> DEFINE e == [r EXCEPT !.pc = "cow", !.plan = page, !.planRev = pageRev]
<1>1. e \in ExecType /\ e.pc = "cow" /\ e.plan = page
  BY Zenon DEF IInv, TypeOK, ExecType, Steps
<1>2. /\ exec' \in [Writers -> ExecType] /\ exec'[w] = e
      /\ \A x \in Writers \ {w} : exec'[x] = exec[x]
  BY <1>0, <1>1 DEF PlanPages, IInv, TypeOK
<1>3. TypeOK'
  BY <1>2, Zenon DEF PlanPages, IInv, TypeOK, meta, env
<1>4. OneChunkPerId' /\ IdsAllocated' /\ PlanReady'
  BY <1>1, <1>2, StepKeeps DEF PlanPages, meta
<1> QED
  BY <1>3, <1>4 DEF IInv

\* The ids prepareWritePlanAllocations assigns are new and distinct.
LEMMA FreshIds ==
  ASSUME TypeOK, NEW w \in Writers, NEW F, F = FreshChunks(w, CopyOnWriteNeeded),
         AllocateChunkIDs(Cardinality(F))
  PROVE  /\ nextId' \in 1..(MaxChunkId + 1) /\ nextId <= nextId'
         /\ \A c \in F : /\ nextId + Rank(c, F) \in Ids
                         /\ nextId <= nextId + Rank(c, F)
                         /\ nextId + Rank(c, F) < nextId'
         /\ \A c, d \in F : Rank(c, F) = Rank(d, F) => c = d
<1>1. F \subseteq Chunks
  BY DEF FreshChunks, DataChunks, Touched
<1>2. F \subseteq Nat /\ IsFiniteSet(F)
  BY <1>1, WriteCommitAssumption, FS_Subset, Zenon
<1>3. nextId \in Nat /\ nextId >= 1 /\ MaxChunkId \in Nat
  BY WriteCommitAssumption DEF TypeOK
<1>4. Cardinality(F) \in Nat
  BY <1>2, FS_CardinalityType
<1>5. nextId' = nextId + Cardinality(F) /\ nextId' <= MaxChunkId + 1
  BY DEF AllocateChunkIDs
<1>6. ASSUME NEW c \in F
      PROVE  /\ nextId + Rank(c, F) \in Ids
             /\ nextId <= nextId + Rank(c, F)
             /\ nextId + Rank(c, F) < nextId'
  <2>1. Rank(c, F) \in Nat /\ Rank(c, F) < Cardinality(F)
    BY <1>2, RankBound
  <2> QED
    BY <1>3, <1>4, <1>5, <2>1 DEF Ids
<1>7. \A c, d \in F : Rank(c, F) = Rank(d, F) => c = d
  BY <1>2, RankInjective, Zenon
<1> QED
  BY <1>3, <1>4, <1>5, <1>6, <1>7

\* PlanCopyOnWrite preserves the inductive invariant.
LEMMA PlanCopyOnWriteIInv ==
  ASSUME IInv, NEW w \in Writers, PlanCopyOnWrite(w) PROVE IInv'
<1>1. ASSUME ZeroNoop(w), Goto(w, "acked"),
             idem' = [idem EXCEPT ![w] = [state |-> "committed", revision |-> exec[w].revision]],
             UNCHANGED <<vol, mut, page, pageRev, orderRev, nextId>>
      PROVE  IInv'
  <2>1. "acked" \in Steps \ {"intent", "payload"}
    BY Zenon DEF Steps
  <2>2. /\ OneChunkPerId' /\ IdsAllocated' /\ PlanReady'
        /\ exec' \in [Writers -> ExecType]
    BY <1>1, <2>1, MoveKeeps, Zenon
  <2>3. exec[w].revision \in Nat
    BY DEF IInv, TypeOK, ExecType
  <2>4. TypeOK'
    BY <1>1, <2>2, <2>3, Zenon DEF PlanCopyOnWrite, IInv, TypeOK, RecordType, env
  <2> QED
    BY <2>2, <2>4 DEF IInv
<1>2. ASSUME ~ZeroNoop(w), UNCHANGED meta,
             NEW F, F = FreshChunks(w, CopyOnWriteNeeded),
             AllocateChunkIDs(Cardinality(F)),
             exec' = [exec EXCEPT
               ![w].pc = "intent", ![w].cow = CopyOnWriteNeeded,
               ![w].base = exec[w].plan,
               ![w].plan = [c \in Chunks |->
                  IF c \in F THEN nextId + Rank(c, F) ELSE exec[w].plan[c]]]
      PROVE  IInv'
  <2> DEFINE p == [c \in Chunks |->
                     IF c \in F THEN nextId + Rank(c, F) ELSE exec[w].plan[c]]
  <2>0. PICK r \in ExecType : r = exec[w]
    BY DEF IInv, TypeOK
  <2>1. /\ nextId' \in 1..(MaxChunkId + 1) /\ nextId <= nextId'
        /\ \A c \in F : /\ nextId + Rank(c, F) \in Ids
                        /\ nextId <= nextId + Rank(c, F)
                        /\ nextId + Rank(c, F) < nextId'
        /\ \A c, d \in F : Rank(c, F) = Rank(d, F) => c = d
    BY <1>2, FreshIds, Zenon DEF IInv
  <2>2. r.plan \in [Chunks -> Ids \cup {0}]
    BY Zenon DEF ExecType
  <2>3. p \in [Chunks -> Ids \cup {0}]
    BY <2>0, <2>1, <2>2
  <2>4. PICK b \in BOOLEAN : b = CopyOnWriteNeeded
    <3>1. CopyOnWriteNeeded \in BOOLEAN
      BY DEF CopyOnWriteNeeded
    <3> QED
      BY <3>1
  <2> DEFINE e == [r EXCEPT !.pc = "intent", !.cow = b, !.base = r.plan, !.plan = p]
  <2>5. e \in ExecType /\ e.pc = "intent" /\ e.plan = p
    <3> HIDE DEF p
    <3> QED
      BY <2>2, <2>3, Zenon DEF ExecType, Steps
  <2>6. /\ exec' \in [Writers -> ExecType] /\ exec'[w] = e
        /\ \A x \in Writers \ {w} : exec'[x] = exec[x]
    <3>1. exec' = [exec EXCEPT ![w] = e]
      BY <1>2, <2>0, <2>4, Zenon DEF IInv, TypeOK
    <3> HIDE DEF e
    <3> QED
      BY <2>5, <3>1, Zenon DEF IInv, TypeOK
  <2>7. TypeOK'
    BY <1>2, <2>1, <2>6, Zenon DEF PlanCopyOnWrite, IInv, TypeOK, meta, env
  <2> HIDE DEF e
  <2>8. ASSUME NEW i \in Ids, NEW c \in Chunks, Mapped(i, c)'
        PROVE  Mapped(i, c) \/ (c \in F /\ i = nextId + Rank(c, F))
    <3>1. InitPage' = InitPage /\ page' = page
      BY <1>2, Zenon DEF InitPage, Rank, meta
    <3>2. CASE InitPage[c] = i \/ page[c] = i
      BY <3>2 DEF Mapped
    <3>3. ASSUME NEW x \in Writers, exec'[x].plan[c] = i
          PROVE  Mapped(i, c) \/ (c \in F /\ i = nextId + Rank(c, F))
      <4>1. CASE x = w
        BY <2>0, <2>5, <2>6, <3>3, <4>1, Zenon DEF Mapped
      <4>2. CASE x # w
        BY <2>6, <3>3, <4>2, Zenon DEF Mapped
      <4> QED
        BY <4>1, <4>2
    <3> QED
      BY <2>8, <3>1, <3>2, <3>3 DEF Mapped
  <2>9. nextId \in Nat /\ nextId' \in Nat /\ Ids \subseteq Nat
    BY <2>1, WriteCommitAssumption DEF IInv, TypeOK, Ids
  <2>10. ASSUME NEW i \in Ids, NEW c \in Chunks, Mapped(i, c) PROVE i < nextId
    BY <2>10 DEF IInv, IdsAllocated
  <2>11. ASSUME NEW i \in Ids, NEW c \in Chunks, NEW d \in Chunks,
                Mapped(i, c)', Mapped(i, d)'
         PROVE  c = d
    <3>1. \A x \in F : Rank(x, F) \in Nat
      <4>1. F \subseteq Chunks
        BY <1>2 DEF FreshChunks, DataChunks, Touched
      <4> QED
        BY <4>1, WriteCommitAssumption, FS_Subset, SmallerFinite, Zenon
    <3>2. CASE Mapped(i, c) /\ Mapped(i, d)
      BY <3>2 DEF IInv, OneChunkPerId
    <3>3. CASE ~Mapped(i, c) /\ ~Mapped(i, d)
      <4>1. c \in F /\ d \in F /\ nextId + Rank(c, F) = nextId + Rank(d, F)
        BY <2>8, <2>11, <3>3
      <4>2. Rank(c, F) = Rank(d, F)
        BY <2>9, <3>1, <4>1
      <4> QED
        BY <2>1, <4>1, <4>2
    <3>4. CASE Mapped(i, c) /\ ~Mapped(i, d)
      BY <2>1, <2>8, <2>9, <2>10, <2>11, <3>1, <3>4
    <3>5. CASE ~Mapped(i, c) /\ Mapped(i, d)
      BY <2>1, <2>8, <2>9, <2>10, <2>11, <3>1, <3>5
    <3> QED
      BY <3>2, <3>3, <3>4, <3>5
  <2>12. ASSUME NEW i \in Ids, NEW c \in Chunks, Mapped(i, c)' PROVE i < nextId'
    <3>1. CASE Mapped(i, c)
      BY <2>1, <2>9, <2>10, <3>1
    <3>2. CASE ~Mapped(i, c)
      BY <2>1, <2>8, <2>12, <3>2
    <3> QED
      BY <3>1, <3>2, Zenon
  <2>13. ASSUME NEW x \in Writers
         PROVE  /\ exec'[x].pc \in {"intent", "payload"} =>
                     \A c \in DataChunks(x) : exec'[x].plan[c] # 0
                /\ exec'[x].pc = "payload" => exec'[x].todo \subseteq DataChunks(x)
    <3>1. CASE x # w
      BY <2>6, <3>1, Zenon DEF IInv, PlanReady
    <3>2. CASE x = w
      <4>1. ASSUME NEW c \in DataChunks(w) PROVE p[c] # 0
        <5>1. c \in Chunks
          BY Zenon DEF DataChunks, Touched
        <5>2. CASE c \in F
          BY <2>1, <5>1, <5>2 DEF Ids
        <5>3. CASE c \notin F
          BY <1>2, <2>0, <5>1, <5>3, Zenon DEF FreshChunks
        <5> QED
          BY <5>2, <5>3, Zenon
      <4> QED
        BY <2>5, <2>6, <3>2, <4>1, Zenon
    <3> QED
      BY <3>1, <3>2, Zenon
  <2>14. PlanReady'
    BY <2>13, Zenon DEF PlanReady, DataChunks, Touched, ZeroChunks, FullChunk
  <2> QED
    BY <2>7, <2>11, <2>12, <2>14 DEF IInv, OneChunkPerId, IdsAllocated
<1> QED
  BY <1>1, <1>2 DEF PlanCopyOnWrite

\* putWriteIntent stores well-typed records.
LEMMA IntentRecordsType ==
  ASSUME TypeOK, NEW w \in Writers, IntentRecords(w)
  PROVE  idem' \in [Writers -> RecordType] /\ mut' \in [Writers -> RecordType]
<1>1. exec[w].revision \in Nat
  BY Zenon DEF TypeOK, ExecType
<1> QED
  BY <1>1 DEF IntentRecords, TypeOK, RecordType

\* PutWriteIntent preserves the inductive invariant.
LEMMA PutWriteIntentIInv ==
  ASSUME IInv, NEW w \in Writers, PutWriteIntent(w) PROVE IInv'
<1>0. PICK r \in ExecType : r = exec[w]
  BY DEF IInv, TypeOK
<1> DEFINE D == DataChunks(w)
           e == [r EXCEPT !.pc = "payload", !.todo = D, !.cur = NoChunk]
<1>1. D \subseteq Chunks
  BY DEF DataChunks, Touched
<1>2. e \in ExecType /\ e.pc = "payload" /\ e.plan = exec[w].plan /\ e.todo = D
  <2> HIDE DEF D
  <2> QED
    BY <1>0, <1>1, Zenon DEF ExecType, Steps
<1>3. /\ exec' \in [Writers -> ExecType] /\ exec'[w] = e
      /\ \A x \in Writers \ {w} : exec'[x] = exec[x]
  BY <1>0, <1>2 DEF PutWriteIntent, IInv, TypeOK
<1>4. TypeOK'
  BY <1>3, IntentRecordsType, Zenon DEF PutWriteIntent, IInv, TypeOK, env
<1>5. OneChunkPerId' /\ IdsAllocated' /\ PlanReady'
  BY <1>2, <1>3, StepKeeps DEF PutWriteIntent, At
<1> QED
  BY <1>4, <1>5 DEF IInv

-----------------------------------------------------------------------------
(* The payload *)

\* LoadChunk preserves the inductive invariant.
LEMMA LoadChunkIInv ==
  ASSUME IInv, NEW w \in Writers, LoadChunk(w) PROVE IInv'
<1>0. PICK r \in ExecType : r = exec[w]
  BY DEF IInv, TypeOK
<1>1. PICK c \in r.todo :
        exec' = [exec EXCEPT ![w].cur = c, ![w].buf = payload[MergeBase(w, c)]]
  BY <1>0, Zenon DEF LoadChunk
<1>2. r.pc = "payload" /\ c \in DataChunks(w) /\ c \in Chunks
  BY <1>0, <1>1, Zenon DEF LoadChunk, At, IInv, PlanReady, ExecType
<1>3. MergeBase(w, c) \in Ids
  <2>1. r.plan[c] \in Ids
    BY <1>0, <1>2 DEF IInv, PlanReady, ExecType
  <2>2. r.base[c] \in Ids \cup {0}
    BY <1>2, Zenon DEF ExecType
  <2> QED
    BY <1>0, <2>1, <2>2, Zenon DEF MergeBase
<1>4. PICK b \in [Sectors -> Contents] : b = payload[MergeBase(w, c)]
  BY <1>3 DEF IInv, TypeOK
<1> DEFINE e == [r EXCEPT !.cur = c, !.buf = b]
<1>5. e \in ExecType /\ e.pc = r.pc /\ e.plan = r.plan /\ e.todo = r.todo
  BY <1>2, Zenon DEF ExecType
<1>6. /\ exec' \in [Writers -> ExecType] /\ exec'[w] = e
      /\ \A x \in Writers \ {w} : exec'[x] = exec[x]
  BY <1>0, <1>1, <1>4, <1>5, Zenon DEF IInv, TypeOK
<1>7. TypeOK'
  BY <1>6 DEF LoadChunk, IInv, TypeOK, meta, env
<1>8. exec'[w].todo \subseteq DataChunks(w)
  BY <1>0, <1>2, <1>5, <1>6, Zenon DEF IInv, PlanReady
<1>9. OneChunkPerId' /\ IdsAllocated' /\ PlanReady'
  BY <1>0, <1>2, <1>5, <1>6, <1>8, StepKeeps DEF LoadChunk, meta
<1> QED
  BY <1>7, <1>9 DEF IInv

\* StoreChunk preserves the inductive invariant.
LEMMA StoreChunkIInv ==
  ASSUME IInv, NEW w \in Writers, StoreChunk(w) PROVE IInv'
<1>0. PICK r \in ExecType : r = exec[w]
  BY DEF IInv, TypeOK
<1>1. PICK c \in r.todo :
        /\ payload' = [payload EXCEPT ![exec[w].plan[c]] =
             [s \in Sectors |-> IF <<c, s>> \in Span[w] THEN DataOf(w) ELSE exec[w].buf[s]]]
        /\ exec' = [exec EXCEPT ![w].todo = @ \ {c}, ![w].cur = NoChunk,
                                ![w].buf = Zeroes]
  BY <1>0, Zenon DEF StoreChunk
<1>2. r.pc = "payload" /\ r.todo \subseteq DataChunks(w)
  BY <1>0 DEF StoreChunk, At, IInv, PlanReady
<1>3. payload' \in [Ids -> [Sectors -> Contents]]
  <2>1. r.buf \in [Sectors -> Contents] /\ DataOf(w) \in Contents
    BY Zenon DEF ExecType, DataOf, Contents
  <2>2. [s \in Sectors |-> IF <<c, s>> \in Span[w] THEN DataOf(w) ELSE exec[w].buf[s]]
          \in [Sectors -> Contents]
    BY <1>0, <2>1
  <2> QED
    BY <1>1, <2>2, Zenon DEF IInv, TypeOK
<1> DEFINE t == r.todo \ {c}
           e == [r EXCEPT !.todo = t, !.cur = NoChunk, !.buf = Zeroes]
<1>4. t \subseteq Chunks /\ Zeroes \in [Sectors -> Contents]
  BY DEF ExecType, Zeroes, Contents
<1>5. e \in ExecType /\ e.pc = r.pc /\ e.plan = r.plan /\ e.todo = t
  <2> HIDE DEF t
  <2> QED
    BY <1>4, Zenon DEF ExecType
<1>6. /\ exec' \in [Writers -> ExecType] /\ exec'[w] = e
      /\ \A x \in Writers \ {w} : exec'[x] = exec[x]
  BY <1>0, <1>1, <1>5, Zenon DEF IInv, TypeOK
<1>7. TypeOK'
  BY <1>3, <1>6 DEF StoreChunk, IInv, TypeOK, meta, env
<1>8. exec'[w].todo \subseteq DataChunks(w)
  BY <1>2, <1>5, <1>6, Zenon
<1>9. OneChunkPerId' /\ IdsAllocated' /\ PlanReady'
  BY <1>0, <1>2, <1>5, <1>6, <1>8, StepKeeps DEF StoreChunk, meta
<1> QED
  BY <1>7, <1>9 DEF IInv

\* PayloadFail preserves the inductive invariant.
LEMMA PayloadFailIInv ==
  ASSUME IInv, NEW w \in Writers, PayloadFail(w) PROVE IInv'
<1>0. PICK r \in ExecType : r = exec[w]
  BY DEF IInv, TypeOK
<1>1. PICK f \in BOOLEAN :
        exec' = [exec EXCEPT ![w].pc = "failidem", ![w].sessionLost = f]
  BY Zenon DEF PayloadFail
<1> DEFINE e == [r EXCEPT !.pc = "failidem", !.sessionLost = f]
<1>2. e \in ExecType /\ e.pc = "failidem" /\ e.plan = exec[w].plan
  BY <1>0, Zenon DEF ExecType, Steps
<1>3. /\ exec' \in [Writers -> ExecType] /\ exec'[w] = e
      /\ \A x \in Writers \ {w} : exec'[x] = exec[x]
  BY <1>0, <1>1, <1>2, Zenon DEF IInv, TypeOK
<1>4. TypeOK'
  BY <1>3, Zenon DEF PayloadFail, IInv, TypeOK, meta, env
<1>5. OneChunkPerId' /\ IdsAllocated' /\ PlanReady'
  BY <1>2, <1>3, StepKeeps, Zenon DEF PayloadFail, meta
<1> QED
  BY <1>4, <1>5 DEF IInv

-----------------------------------------------------------------------------
(* The commit loop *)

\* A step that moves a request and changes neither maps nor allocation: what
\* is left to show is the type of the records it writes.
LEMMA MoveIInv ==
  ASSUME IInv, NEW w \in Writers, NEW step \in Steps \ {"intent", "payload"},
         Goto(w, step), nextId' = nextId, page' \in [Chunks -> Ids \cup {0}],
         \A c \in Chunks : page'[c] \in {0, page[c], exec[w].plan[c]},
         vol' \in [epoch : Nat, revision : Nat],
         idem' \in [Writers -> RecordType], mut' \in [Writers -> RecordType],
         pageRev' \in Nat, orderRev' \in Nat, gcOp' \in GcType,
         lock' \in [Gateways -> Writers \cup {NoWriter}],
         UNCHANGED <<payload, env, began>>
  PROVE  IInv'
<1>1. /\ OneChunkPerId' /\ IdsAllocated' /\ PlanReady'
      /\ exec' \in [Writers -> ExecType]
  BY MoveKeeps, Zenon
<1> QED
  BY <1>1, Zenon DEF IInv, TypeOK, env

\* The same for a step that leaves the metadata and the lock alone.
LEMMA PlainMoveIInv ==
  ASSUME IInv, NEW w \in Writers, NEW step \in Steps \ {"intent", "payload"},
         Goto(w, step), UNCHANGED <<meta, nextId, payload, gcOp, env, began>>,
         lock' \in [Gateways -> Writers \cup {NoWriter}]
  PROVE  IInv'
<1>1. UNCHANGED <<vol, idem, mut, page, pageRev, orderRev>>
  BY Zenon DEF meta
<1>2. page' \in [Chunks -> Ids \cup {0}]
  BY <1>1, Zenon DEF IInv, TypeOK
<1>3. /\ vol' \in [epoch : Nat, revision : Nat]
      /\ idem' \in [Writers -> RecordType] /\ mut' \in [Writers -> RecordType]
      /\ pageRev' \in Nat /\ orderRev' \in Nat /\ gcOp' \in GcType
  BY <1>1, Zenon DEF IInv, TypeOK
<1> QED
  BY <1>1, <1>2, <1>3, MoveIInv

\* PayloadDone preserves the inductive invariant.
LEMMA PayloadDoneIInv ==
  ASSUME IInv, NEW w \in Writers, PayloadDone(w) PROVE IInv'
<1>1. PICK step \in {"lock", "commit"} : Goto(w, step)
  BY DEF PayloadDone
<1>2. step \in Steps \ {"intent", "payload"}
  BY Zenon DEF Steps
<1>3. lock' \in [Gateways -> Writers \cup {NoWriter}]
  BY Zenon DEF PayloadDone, IInv, TypeOK
<1> QED
  BY <1>1, <1>2, <1>3, PlainMoveIInv, Zenon DEF PayloadDone

\* AcquireCommitLock preserves the inductive invariant.
LEMMA AcquireCommitLockIInv ==
  ASSUME IInv, NEW w \in Writers, AcquireCommitLock(w) PROVE IInv'
<1>1. "commit" \in Steps \ {"intent", "payload"}
  BY Zenon DEF Steps
<1>2. lock' \in [Gateways -> Writers \cup {NoWriter}]
  BY Zenon DEF AcquireCommitLock, IInv, TypeOK
<1> QED
  BY <1>1, <1>2, PlainMoveIInv DEF AcquireCommitLock

\* Leave with the metadata untouched.
LEMMA PlainLeaveIInv ==
  ASSUME IInv, NEW w \in Writers, NEW step \in Steps \ {"intent", "payload"},
         Leave(w, step), UNCHANGED <<meta, nextId, payload, gcOp, env, began>>
  PROVE  IInv'
<1>1. Goto(w, step) /\ lock' \in [Gateways -> Writers \cup {NoWriter}]
  BY LeaveExec, Zenon DEF IInv
<1> QED
  BY <1>1, PlainMoveIInv

\* CommitConflict preserves the inductive invariant.
LEMMA CommitConflictIInv ==
  ASSUME IInv, NEW w \in Writers, CommitConflict(w) PROVE IInv'
<1>1. "recover" \in Steps \ {"intent", "payload"}
  BY DEF Steps
<1> QED
  BY <1>1, PlainLeaveIInv DEF CommitConflict

\* AbandonCommit preserves the inductive invariant.
LEMMA AbandonCommitIInv ==
  ASSUME IInv, NEW w \in Writers, AbandonCommit(w) PROVE IInv'
<1>1. "failidem" \in Steps \ {"intent", "payload"}
  BY Zenon DEF Steps
<1> QED
  BY <1>1, PlainLeaveIInv, Zenon DEF AbandonCommit

\* CommitMetadata preserves the inductive invariant.
LEMMA CommitMetadataIInv ==
  ASSUME IInv, NEW w \in Writers, CommitMetadata(w) PROVE IInv'
<1> DEFINE rev == CommitRevision(w)
<1>1. PICK step \in Steps \ {"intent", "payload"} : Leave(w, step)
  <2>1. AfterCommit(w) \in Steps \ {"intent", "payload"}
    BY AfterCommitStep
  <2>2. {"effects", "recover", "failidem"} \subseteq Steps \ {"intent", "payload"}
    BY DEF Steps
  <2> QED
    BY <2>1, <2>2 DEF CommitMetadata
<1>2. Goto(w, step) /\ lock' \in [Gateways -> Writers \cup {NoWriter}]
  BY <1>1, LeaveExec DEF IInv
<1>3. rev \in Nat
  BY CommitRevisionType DEF IInv
<1>4. CommitTransaction(w)
  BY DEF CommitMetadata
<1>5. /\ idem' \in [Writers -> RecordType] /\ vol' \in [epoch : Nat, revision : Nat]
      /\ orderRev' \in Nat
  <2> HIDE DEF rev
  <2>1. [state |-> "committed", revision |-> rev] \in RecordType
    BY <1>3 DEF RecordType
  <2>2. idem' = [idem EXCEPT ![w] = [state |-> "committed", revision |-> rev]]
    BY <1>4 DEF CommitTransaction, rev
  <2>3. vol' \in {vol, [vol EXCEPT !.revision = rev]} /\ orderRev' \in {rev, orderRev}
    BY <1>4, Zenon DEF CommitTransaction, rev
  <2> QED
    BY <1>3, <2>1, <2>2, <2>3, Zenon DEF IInv, TypeOK
<1>6. mut' \in [Writers -> RecordType] /\ pageRev' \in Nat
  <2> HIDE DEF rev
  <2>1. [state |-> "committed", revision |-> rev] \in RecordType
    BY <1>3 DEF RecordType
  <2>2. /\ mut' \in {mut, [mut EXCEPT ![w] = [state |-> "committed", revision |-> rev]]}
        /\ pageRev' \in {pageRev, rev}
    BY <1>4 DEF CommitTransaction, rev
  <2> QED
    BY <1>3, <2>1, <2>2 DEF IInv, TypeOK
<1>7. page' \in {page, CommitPage(w), MergePage(w)}
  BY <1>4, Zenon DEF CommitTransaction
<1>8. /\ page' \in [Chunks -> Ids \cup {0}]
      /\ \A c \in Chunks : page'[c] \in {0, page[c], exec[w].plan[c]}
  BY <1>7, CommittedPages DEF IInv, TypeOK
<1>9. UNCHANGED <<nextId, payload, gcOp, env, began>>
  BY DEF CommitMetadata
<1>10. gcOp' \in GcType
  BY <1>9, Zenon DEF IInv, TypeOK
<1> QED
  BY <1>2, <1>5, <1>6, <1>8, <1>9, <1>10, MoveIInv

\* Installing a merged page for a committed record.
LEMMA EffectsIInv ==
  ASSUME IInv, NEW w \in Writers, NEW step \in Steps \ {"intent", "payload"},
         Leave(w, step), page' = MergePage(w), pageRev' = idem[w].revision,
         mut' = [mut EXCEPT ![w] = [state |-> "committed", revision |-> idem[w].revision]],
         UNCHANGED <<vol, idem, orderRev, nextId, payload, gcOp, env, began>>
  PROVE  IInv'
<1>1. Goto(w, step) /\ lock' \in [Gateways -> Writers \cup {NoWriter}]
  BY LeaveExec, Zenon DEF IInv
<1>2. /\ page' \in [Chunks -> Ids \cup {0}]
      /\ \A c \in Chunks : page'[c] \in {0, page[c], exec[w].plan[c]}
  BY CommittedPages, Zenon DEF IInv
<1>3. idem[w].revision \in Nat
  BY Zenon DEF IInv, TypeOK, RecordType
<1>4. mut' \in [Writers -> RecordType] /\ pageRev' \in Nat
  BY <1>3, Zenon DEF IInv, TypeOK, RecordType
<1>5. /\ vol' \in [epoch : Nat, revision : Nat] /\ idem' \in [Writers -> RecordType]
      /\ orderRev' \in Nat /\ gcOp' \in GcType
  BY Zenon DEF IInv, TypeOK
<1> QED
  BY <1>1, <1>2, <1>4, <1>5, MoveIInv, Zenon

\* ApplyEffects preserves the inductive invariant.
LEMMA ApplyEffectsIInv ==
  ASSUME IInv, NEW w \in Writers, ApplyEffects(w) PROVE IInv'
BY AfterCommitStep, EffectsIInv, Zenon DEF ApplyEffects

\* Recover preserves the inductive invariant.
LEMMA RecoverIInv ==
  ASSUME IInv, NEW w \in Writers, Recover(w) PROVE IInv'
<1>1. UNCHANGED <<vol, idem, orderRev, nextId, payload, gcOp, env, began>>
  BY DEF Recover
<1>2. CASE \E step \in Steps \ {"intent", "payload"} :
             Leave(w, step) /\ UNCHANGED <<page, pageRev, mut>>
  BY <1>1, <1>2, PlainLeaveIInv, Zenon DEF meta
<1>3. CASE /\ page' = MergePage(w) /\ pageRev' = idem[w].revision
           /\ mut' = [mut EXCEPT ![w] = [state |-> "committed",
                                        revision |-> idem[w].revision]]
           /\ Leave(w, AfterCommit(w))
  BY <1>1, <1>3, AfterCommitStep, EffectsIInv, Zenon
<1>4. {"rebase", "failidem"} \subseteq Steps \ {"intent", "payload"}
  BY Zenon DEF Steps
<1> QED
  BY <1>2, <1>3, <1>4, AfterCommitStep, Zenon DEF Recover

\* RebaseState preserves the inductive invariant.
LEMMA RebaseStateIInv ==
  ASSUME IInv, NEW w \in Writers, RebaseState(w) PROVE IInv'
<1>0. PICK r \in ExecType : r = exec[w]
  BY DEF IInv, TypeOK
<1>1. vol.epoch \in Nat /\ vol.revision \in Nat
  BY DEF IInv, TypeOK
<1> DEFINE e == [r EXCEPT !.pc = "replan", !.epoch = vol.epoch,
                          !.revision = vol.revision]
<1>2. e \in ExecType /\ e.pc = "replan" /\ e.plan = exec[w].plan
  BY <1>0, <1>1, Zenon DEF ExecType, Steps
<1>3. /\ exec' \in [Writers -> ExecType] /\ exec'[w] = e
      /\ \A x \in Writers \ {w} : exec'[x] = exec[x]
  BY <1>0, <1>2 DEF RebaseState, IInv, TypeOK
<1>4. TypeOK'
  BY <1>3 DEF RebaseState, IInv, TypeOK, meta, env
<1>5. OneChunkPerId' /\ IdsAllocated' /\ PlanReady'
  BY <1>2, <1>3, StepKeeps DEF RebaseState, meta
<1> QED
  BY <1>4, <1>5 DEF IInv

\* RebasePages preserves the inductive invariant.
LEMMA RebasePagesIInv ==
  ASSUME IInv, NEW w \in Writers, RebasePages(w) PROVE IInv'
<1>0. PICK r \in ExecType : r = exec[w]
  BY DEF IInv, TypeOK
<1>1. PICK n \in Nat : r = exec[w] /\ n = r.attempt + 1
  BY <1>0 DEF ExecType
<1>2. PICK q \in [Chunks -> Ids \cup {0}] :
        /\ q = RebasedPlan(w)
        /\ \A c \in Chunks : q[c] \in {0, page[c], exec[w].plan[c]}
  <2>1. /\ CommitPage(w) \in [Chunks -> Ids \cup {0}]
        /\ \A c \in Chunks : CommitPage(w)[c] \in {0, page[c], exec[w].plan[c]}
    BY CommittedPages, Zenon DEF IInv
  <2>2. page \in [Chunks -> Ids \cup {0}]
    BY Zenon DEF IInv, TypeOK
  <2>3. /\ RebasedPlan(w) \in [Chunks -> Ids \cup {0}]
        /\ \A c \in Chunks : RebasedPlan(w)[c] \in {0, page[c], exec[w].plan[c]}
    BY <2>1, <2>2, Zenon DEF RebasedPlan
  <2> QED
    BY <2>3, Zenon
<1>3. pageRev \in Nat
  BY DEF IInv, TypeOK
<1> DEFINE e == [r EXCEPT !.pc = "commit", !.plan = q, !.planRev = pageRev,
                          !.attempt = n]
<1>4. e \in ExecType /\ e.pc = "commit" /\ e.plan = q
  BY <1>3, Zenon DEF ExecType, Steps
<1>5. /\ exec' \in [Writers -> ExecType] /\ exec'[w] = e
      /\ \A x \in Writers \ {w} : exec'[x] = exec[x]
  BY <1>1, <1>2, <1>4, Zenon DEF RebasePages, IInv, TypeOK
<1>6. TypeOK'
  BY <1>5, Zenon DEF RebasePages, IInv, TypeOK, meta, env
<1>7. OneChunkPerId' /\ IdsAllocated' /\ PlanReady'
  BY <1>2, <1>4, <1>5, StepKeeps DEF RebasePages, meta
<1> QED
  BY <1>6, <1>7, Zenon DEF IInv

-----------------------------------------------------------------------------
(* The retired-payload hint and the failures *)

\* HintRead preserves the inductive invariant.
LEMMA HintReadIInv ==
  ASSUME IInv, NEW w \in Writers, HintRead(w) PROVE IInv'
<1>0. PICK r \in ExecType : r = exec[w]
  BY DEF IInv, TypeOK
<1>1. PICK g \in GcType : g = gcOp
  BY DEF IInv, TypeOK
<1> DEFINE e == [r EXCEPT !.pc = "hintput", !.gcSeen = g]
<1>2. e \in ExecType /\ e.pc = "hintput" /\ e.plan = exec[w].plan
  BY <1>0, Zenon DEF ExecType, Steps
<1>3. /\ exec' \in [Writers -> ExecType] /\ exec'[w] = e
      /\ \A x \in Writers \ {w} : exec'[x] = exec[x]
  BY <1>0, <1>1, <1>2 DEF HintRead, IInv, TypeOK
<1>4. TypeOK'
  BY <1>3, Zenon DEF HintRead, IInv, TypeOK, meta, env
<1>5. OneChunkPerId' /\ IdsAllocated' /\ PlanReady'
  BY <1>2, <1>3, StepKeeps, Zenon DEF HintRead, meta
<1> QED
  BY <1>4, <1>5, Zenon DEF IInv

\* HintPut preserves the inductive invariant.
LEMMA HintPutIInv ==
  ASSUME IInv, NEW w \in Writers, HintPut(w) PROVE IInv'
<1>1. PICK g \in GcType : g = exec[w].gcSeen
  BY Zenon DEF IInv, TypeOK, ExecType
<1>2. PICK R \in SUBSET Ids : R = Retired(w)
  BY CommittedPages DEF IInv
<1>3. gcOp' \in GcType
  <2>1. PICK u \in SUBSET Ids : u = g.retired \cup R
    BY Zenon DEF GcType
  <2>2. [g EXCEPT !.retired = u] \in GcType /\ [state |-> "pending", retired |-> R] \in GcType
    BY DEF GcType
  <2>3. gcOp' \in {[g EXCEPT !.retired = u], [state |-> "pending", retired |-> R]}
    BY <1>1, <1>2, <2>1 DEF HintPut
  <2> QED
    BY <2>2, <2>3
<1>4. "acked" \in Steps \ {"intent", "payload"}
  BY Zenon DEF Steps
<1>5. Goto(w, "acked") /\ lock' \in [Gateways -> Writers \cup {NoWriter}]
  BY <1>4, LeaveExec DEF HintPut, IInv
<1>6. UNCHANGED <<vol, idem, mut, page, pageRev, orderRev, nextId, payload, env, began>>
  BY Zenon DEF HintPut, meta
<1>7. /\ vol' \in [epoch : Nat, revision : Nat]
      /\ idem' \in [Writers -> RecordType] /\ mut' \in [Writers -> RecordType]
      /\ pageRev' \in Nat /\ orderRev' \in Nat /\ page' \in [Chunks -> Ids \cup {0}]
  BY <1>6, Zenon DEF IInv, TypeOK
<1> QED
  BY <1>3, <1>4, <1>5, <1>6, <1>7, MoveIInv

\* HintFail preserves the inductive invariant.
LEMMA HintFailIInv ==
  ASSUME IInv, NEW w \in Writers, HintFail(w) PROVE IInv'
<1>1. "acked" \in Steps \ {"intent", "payload"}
  BY DEF Steps
<1> QED
  BY <1>1, PlainLeaveIInv DEF HintFail

\* A step that moves a request and writes its records only.
LEMMA RecordMoveIInv ==
  ASSUME IInv, NEW w \in Writers, NEW step \in Steps \ {"intent", "payload"},
         Goto(w, step), idem' \in [Writers -> RecordType],
         mut' \in [Writers -> RecordType],
         UNCHANGED <<vol, page, pageRev, orderRev, nextId, payload, gcOp, env, lock,
                     began>>
  PROVE  IInv'
<1>1. /\ vol' \in [epoch : Nat, revision : Nat]
      /\ pageRev' \in Nat /\ orderRev' \in Nat /\ gcOp' \in GcType
      /\ page' \in [Chunks -> Ids \cup {0}]
      /\ lock' \in [Gateways -> Writers \cup {NoWriter}]
  BY Zenon DEF IInv, TypeOK
<1> QED
  BY <1>1, MoveIInv, Zenon

\* BeginFail preserves the inductive invariant.
LEMMA BeginFailIInv ==
  ASSUME IInv, NEW w \in Writers, BeginFail(w) PROVE IInv'
<1>1. "error" \in Steps \ {"intent", "payload"}
  BY DEF Steps
<1>2. idem' \in [Writers -> RecordType] /\ mut' \in [Writers -> RecordType]
  <2>1. CASE UNCHANGED <<idem, mut>>
    BY <2>1, Zenon DEF IInv, TypeOK
  <2>2. CASE IntentRecords(w)
    BY <2>2, IntentRecordsType DEF IInv
  <2> QED
    BY <2>1, <2>2, Zenon DEF BeginFail
<1> QED
  BY <1>1, <1>2, RecordMoveIInv DEF BeginFail

\* MarkFailed preserves the inductive invariant.
LEMMA MarkFailedIInv ==
  ASSUME IInv, NEW w \in Writers,
         MarkFailedRecord(w) \/ MarkFailedMutation(w) \/ MarkFailedLost(w)
  PROVE  IInv'
<1>1. {"error", "failmut"} \subseteq Steps \ {"intent", "payload"}
  BY Zenon DEF Steps
<1>2. [state |-> "failed", revision |-> vol.revision] \in RecordType
  BY Zenon DEF IInv, TypeOK, RecordType
<1>3. CASE MarkFailedRecord(w)
  <2>1. idem' \in [Writers -> RecordType] /\ mut' \in [Writers -> RecordType]
    BY <1>2, <1>3, Zenon DEF MarkFailedRecord, IInv, TypeOK
  <2> QED
    BY <1>1, <1>3, <2>1, RecordMoveIInv, Zenon DEF MarkFailedRecord
<1>4. CASE MarkFailedMutation(w)
  <2>1. idem' \in [Writers -> RecordType] /\ mut' \in [Writers -> RecordType]
    BY <1>2, <1>4 DEF MarkFailedMutation, IInv, TypeOK
  <2> QED
    BY <1>1, <1>4, <2>1, RecordMoveIInv, Zenon DEF MarkFailedMutation
<1>5. CASE MarkFailedLost(w)
  <2>1. lock' \in [Gateways -> Writers \cup {NoWriter}]
    BY <1>5, Zenon DEF MarkFailedLost, IInv, TypeOK
  <2> QED
    BY <1>1, <1>5, <2>1, PlainMoveIInv, Zenon DEF MarkFailedLost
<1> QED
  BY <1>3, <1>4, <1>5

\* Retry preserves the inductive invariant.
LEMMA RetryIInv ==
  ASSUME IInv, NEW w \in Writers, Retry(w) PROVE IInv'
<1>1. "idle" \in Steps \ {"intent", "payload"}
  BY Zenon DEF Steps
<1>2. lock' \in [Gateways -> Writers \cup {NoWriter}]
  BY DEF Retry, IInv, TypeOK
<1> QED
  BY <1>1, <1>2, PlainMoveIInv DEF Retry

\* Crash preserves the inductive invariant.
LEMMA CrashIInv ==
  ASSUME IInv, NEW g \in Gateways, Crash(g) PROVE IInv'
<1>1. ASSUME NEW x \in Writers
      PROVE  /\ exec'[x] \in ExecType
             /\ \/ exec'[x] = exec[x]
                \/ exec'[x].pc = "dead" /\ exec'[x].plan = InitPage
  <2>1. exec[x] \in ExecType /\ exec[x].runs \in Nat /\ "dead" \in Steps
    BY DEF IInv, TypeOK, ExecType, Steps
  <2> DEFINE d == NoExec("dead", exec[x].runs, FALSE)
  <2>2. d \in ExecType /\ d.pc = "dead" /\ d.plan = InitPage
    BY <2>1, NoExecType, Zenon
  <2>3. exec'[x] \in {exec[x], d}
    <3> HIDE DEF d
    <3> QED
      BY Zenon DEF Crash, d
  <2> QED
    BY <2>1, <2>2, <2>3, Zenon
<1>2. exec' \in [Writers -> ExecType]
  <2>1. exec' = [x \in Writers |-> exec'[x]]
    BY Zenon DEF Crash
  <2> QED
    BY <1>1, <2>1, Zenon
<1>3. UNCHANGED <<vol, idem, mut, page, pageRev, orderRev, nextId, payload, gcOp,
                  snapState, mode, began>>
  BY Zenon DEF Crash, meta, env
<1>4. TypeOK'
  <2>1. lock' \in [Gateways -> Writers \cup {NoWriter}]
    BY Zenon DEF Crash, IInv, TypeOK
  <2> QED
    BY <1>2, <1>3, <2>1, Zenon DEF IInv, TypeOK
<1>5. ASSUME NEW i \in Ids, NEW c \in Chunks, Mapped(i, c)' PROVE Mapped(i, c)
  <2>1. InitPage' = InitPage
    BY Zenon DEF InitPage, Rank
  <2>2. ASSUME NEW x \in Writers, exec'[x].plan[c] = i PROVE Mapped(i, c)
    BY <1>1, <2>2, Zenon DEF Mapped
  <2> QED
    BY <1>3, <1>5, <2>1, <2>2 DEF Mapped
<1>6. OneChunkPerId' /\ IdsAllocated'
  <2>1. nextId \in Nat
    BY DEF IInv, TypeOK
  <2> QED
    BY <1>3, <1>5, <2>1, KeepMaps DEF IInv
<1>7. ASSUME NEW x \in Writers
      PROVE  /\ exec'[x].pc \in {"intent", "payload"} =>
                  \A c \in DataChunks(x) : exec'[x].plan[c] # 0
             /\ exec'[x].pc = "payload" => exec'[x].todo \subseteq DataChunks(x)
  BY <1>1, Zenon DEF IInv, PlanReady
<1>8. PlanReady'
  BY <1>7 DEF PlanReady, DataChunks, Touched, ZeroChunks, FullChunk
<1> QED
  BY <1>4, <1>6, <1>8, Zenon DEF IInv

\* A step that leaves maps, allocation and executions alone.
LEMMA QuietIInv ==
  ASSUME IInv, TypeOK', UNCHANGED <<page, nextId, exec>> PROVE IInv'
<1>1. InitPage' = InitPage
  BY Zenon DEF InitPage, Rank
<1>2. OneChunkPerId' /\ IdsAllocated'
  BY <1>1, Zenon DEF IInv, OneChunkPerId, IdsAllocated, Mapped
<1>3. PlanReady'
  BY DEF IInv, PlanReady, DataChunks, Touched, ZeroChunks, FullChunk
<1> QED
  BY <1>2, <1>3 DEF IInv

\* PrimaryFailover preserves the inductive invariant.
LEMMA PrimaryFailoverIInv ==
  ASSUME IInv, PrimaryFailover PROVE IInv'
<1>1. vol' \in [epoch : Nat, revision : Nat]
  BY DEF PrimaryFailover, IInv, TypeOK
<1>2. TypeOK'
  BY <1>1 DEF PrimaryFailover, IInv, TypeOK, env
<1> QED
  BY <1>2, QuietIInv DEF PrimaryFailover

-----------------------------------------------------------------------------
(* The inductive invariant *)

\* The initial states satisfy the inductive invariant.
LEMMA InitIInv ==
  ASSUME Init PROVE IInv
<1>1. "idle" \in Steps
  BY Zenon DEF Steps
<1>2. ASSUME NEW w \in Writers
      PROVE  exec[w] \in ExecType /\ exec[w].pc = "idle" /\ exec[w].plan = InitPage
  BY <1>1, NoExecType, Zenon DEF Init
<1>3. exec \in [Writers -> ExecType]
  <2>1. exec = [w \in Writers |-> exec[w]]
    BY Zenon DEF Init
  <2> QED
    BY <1>2, <2>1, Zenon
<1>4. nextId = 1 + Cardinality(InitMapped) /\ nextId \in 1..(MaxChunkId + 1)
  BY InitMappedFinite, WriteCommitAssumption DEF Init
<1>5. payload \in [Ids -> [Sectors -> Contents]]
  BY Zenon DEF Init, Contents
<1>6. gcOp \in GcType
  BY Zenon DEF Init, NoGc, GcType
<1>7. /\ vol \in [epoch : Nat, revision : Nat]
      /\ idem \in [Writers -> RecordType] /\ mut \in [Writers -> RecordType]
      /\ pageRev \in Nat /\ orderRev \in Nat
      /\ lock \in [Gateways -> Writers \cup {NoWriter}]
      /\ began \in [Writers -> [epoch : Nat, after : SUBSET Writers]]
  BY Zenon DEF Init, RecordType
<1>8. page = InitPage /\ page \in [Chunks -> Ids \cup {0}]
  BY InitPageIds, Zenon DEF Init
<1>9. TypeOK
  BY <1>3, <1>4, <1>5, <1>6, <1>7, <1>8, Zenon DEF Init, TypeOK
<1>10. ASSUME NEW i \in Ids, NEW c \in Chunks, Mapped(i, c) PROVE InitPage[c] = i
  BY <1>2, <1>8, <1>10, Zenon DEF Mapped
<1>11. OneChunkPerId
  <2> SUFFICES ASSUME NEW i \in Ids, NEW c \in Chunks, NEW d \in Chunks,
                      Mapped(i, c), Mapped(i, d)
               PROVE  c = d
    BY DEF OneChunkPerId
  <2>1. InitPage[c] = i /\ InitPage[d] = i /\ i # 0
    BY <1>10 DEF Ids
  <2> QED
    BY <2>1, InitPageIds
<1>12. IdsAllocated
  <2> SUFFICES ASSUME NEW i \in Ids, NEW c \in Chunks, Mapped(i, c)
               PROVE  i < nextId
    BY DEF IdsAllocated
  <2>1. InitPage[c] = i
    BY <1>10, Zenon
  <2>2. i <= Cardinality(InitMapped) /\ i \in Nat
    BY <2>1, InitPageIds DEF Ids
  <2> QED
    BY <1>4, <2>2, InitMappedFinite
<1>13. PlanReady
  BY <1>2 DEF PlanReady
<1> QED
  BY <1>9, <1>11, <1>12, <1>13 DEF IInv

\* Every step preserves the inductive invariant.
LEMMA NextIInv ==
  ASSUME IInv, [Next]_vars PROVE IInv'
<1>1. ASSUME NEW w \in Writers, Progress(w) PROVE IInv'
  <2>1. CASE BeginWrite(w) \/ LookupIdempotency(w) \/ PlanPages(w) \/ PlanCopyOnWrite(w)
    BY <2>1, BeginWriteIInv, LookupIdempotencyIInv, PlanPagesIInv, PlanCopyOnWriteIInv
  <2>2. CASE PutWriteIntent(w) \/ LoadChunk(w) \/ StoreChunk(w) \/ PayloadDone(w)
    BY <2>2, PutWriteIntentIInv, LoadChunkIInv, StoreChunkIInv, PayloadDoneIInv, Zenon
  <2>3. CASE AcquireCommitLock(w) \/ CommitMetadata(w) \/ CommitConflict(w)
             \/ ApplyEffects(w)
    BY <2>3, AcquireCommitLockIInv, CommitMetadataIInv, CommitConflictIInv,
       ApplyEffectsIInv
  <2>4. CASE Recover(w) \/ RebaseState(w) \/ RebasePages(w)
    BY <2>4, RecoverIInv, RebaseStateIInv, RebasePagesIInv
  <2>5. CASE HintRead(w) \/ HintPut(w) \/ MarkFailedRecord(w) \/ MarkFailedMutation(w)
             \/ Retry(w)
    BY <2>5, HintReadIInv, HintPutIInv, MarkFailedIInv, RetryIInv, Zenon
  <2> QED
    BY <1>1, <2>1, <2>2, <2>3, <2>4, <2>5, Zenon DEF Progress
<1>2. ASSUME NEW w \in Writers, Failure(w) PROVE IInv'
  BY <1>2, BeginFailIInv, PayloadFailIInv, AbandonCommitIInv, HintFailIInv,
     MarkFailedIInv DEF Failure
<1>3. CASE UNCHANGED vars
  <2>1. TypeOK' /\ UNCHANGED <<page, nextId, exec>>
    BY <1>3 DEF IInv, TypeOK, vars, meta, env
  <2> QED
    BY <2>1, QuietIInv, Zenon
<1> QED
  BY <1>1, <1>2, <1>3, CrashIInv, PrimaryFailoverIInv, Zenon DEF Next, WriterNext, AllFinished

\* Every reachable state of the write path is well typed, and every map in
\* it gives each physical chunk to one logical chunk.
THEOREM Invariance == Spec => []IInv
<1>1. Init => IInv
  BY InitIInv
<1>2. IInv /\ [Next]_vars => IInv'
  BY NextIInv
<1> QED
  BY <1>1, <1>2, PTL DEF Spec

\* The records, maps and executions of executor.go and repository.go keep
\* their types whatever requests, crashes and failovers interleave.
THEOREM TypeCorrect == Spec => []TypeOK
<1>1. IInv => TypeOK
  BY Zenon DEF IInv
<1> QED
  BY <1>1, Invariance, PTL

\* No two logical chunks ever share a physical chunk, in any commit mode: an
\* id comes from AllocateChunkIDs once and plans, rebases, merges and retries
\* only move it within its own logical chunk.
THEOREM NoSharing == Spec => []NoSharedChunk
<1>1. IInv => NoSharedChunk
  <2> SUFFICES ASSUME IInv, NEW c \in Chunks, NEW d \in Chunks, c # d,
                      page[c] # 0, page[c] = page[d]
               PROVE  FALSE
    BY Zenon DEF NoSharedChunk
  <2>1. page[c] \in Ids
    BY Zenon DEF IInv, TypeOK
  <2>2. Mapped(page[c], c) /\ Mapped(page[c], d)
    BY DEF Mapped
  <2> QED
    BY <2>1, <2>2 DEF IInv, OneChunkPerId
<1> QED
  BY <1>1, Invariance, PTL
-----------------------------------------------------------------------------
(* The shapes of a request's steps *)

StoreSteps == {"intent", "payload"}
FailSteps == {"failidem", "failmut"}

\* Another map than the page, the plans and the initial page: the pages plans
\* were made from.
Based(i, c) == \E w \in Writers : exec[w].base[c] = i

\* Their ids belong to the same logical chunks, and were handed out.
BasesMapped ==
  \A i \in Ids : \A c \in Chunks : Based(i, c) =>
    /\ i < nextId
    /\ \A d \in Chunks : Mapped(i, d) => c = d

\* Id i comes from one of the maps a step of w reads, or is 0 where w zeroes
\* the whole chunk.
Carried(w, c, i) ==
  \/ i \in {InitPage[c], page[c], exec[w].plan[c]}
  \/ i = 0 /\ c \in ZeroChunks(w)

\* A step of w outside its payload phase, or one that ends it.
Moves(w) ==
  /\ \A x \in Writers \ {w} : exec'[x] = exec[x]
  /\ UNCHANGED <<payload, nextId, snapState>>
  /\ exec'[w].pc \notin StoreSteps
  /\ \A c \in Chunks : Carried(w, c, exec'[w].plan[c])
  /\ \/ page' = page
     \/ /\ exec[w].pc \notin StoreSteps \cup FailSteps
        /\ \A c \in Chunks : Carried(w, c, page'[c])
  /\ exec'[w].base \in {exec[w].base, InitPage}
  /\ \/ exec'[w].pc \in FailSteps
     \/ exec'[w].plan = InitPage
     \/ exec[w].pc \notin StoreSteps \cup FailSteps
     \/ exec[w].pc = "payload" /\ exec[w].todo = {} /\ exec'[w].plan = exec[w].plan

\* The allocation: a chunk keeps its id or gets a new one.
Allocates(w) ==
  /\ \A x \in Writers \ {w} : exec'[x] = exec[x]
  /\ UNCHANGED <<page, payload, snapState>>
  /\ nextId <= nextId'
  /\ exec[w].pc = "cow" /\ exec'[w].pc = "intent"
  /\ exec'[w].cow = CopyOnWriteNeeded /\ exec'[w].base = exec[w].plan
  /\ \A c \in Chunks :
       IF c \in FreshChunks(w, CopyOnWriteNeeded)
       THEN /\ exec'[w].plan[c] \in Ids
            /\ nextId <= exec'[w].plan[c] /\ exec'[w].plan[c] < nextId'
       ELSE exec'[w].plan[c] = exec[w].plan[c]

\* A step of the payload phase: intent, load or store.
Stays(w) ==
  /\ \A x \in Writers \ {w} : exec'[x] = exec[x]
  /\ UNCHANGED <<page, nextId, snapState>>
  /\ exec[w].pc \in StoreSteps /\ exec'[w].pc = "payload"
  /\ exec'[w].plan = exec[w].plan /\ exec'[w].base = exec[w].base
  /\ exec'[w].cow = exec[w].cow

Intends(w) ==
  /\ Stays(w) /\ UNCHANGED payload
  /\ exec'[w].todo = DataChunks(w) /\ exec'[w].cur = NoChunk

Loads(w, c) ==
  /\ Stays(w) /\ UNCHANGED payload /\ exec[w].pc = "payload"
  /\ exec'[w].todo = exec[w].todo
  /\ exec'[w].cur = c /\ exec'[w].buf = payload[MergeBase(w, c)]

Stores(w, c) ==
  /\ Stays(w) /\ exec[w].pc = "payload"
  /\ FullChunk(w, c) \/ exec[w].cur = c
  /\ payload' = [payload EXCEPT ![exec[w].plan[c]] =
       [s \in Sectors |-> IF <<c, s>> \in Span[w] THEN DataOf(w) ELSE exec[w].buf[s]]]
  /\ exec'[w].todo = exec[w].todo \ {c} /\ exec'[w].cur = NoChunk

-----------------------------------------------------------------------------
(* Which steps have which shape *)

\* Ids are numbered, and the next one is a number.
LEMMA Numbered ==
  /\ IInv => nextId \in Nat
  /\ IInv' => nextId' \in Nat
  /\ \A i \in Ids : i \in Nat /\ i # 0
<1>1. MaxChunkId \in Nat
  BY WriteCommitAssumption, Zenon
<1>2. (IInv => nextId \in 1..(MaxChunkId + 1)) /\ (IInv' => nextId' \in 1..(MaxChunkId + 1))
  BY Zenon DEF IInv, TypeOK
<1>3. 1..(MaxChunkId + 1) \subseteq Nat
  BY <1>1
<1>4. \A i \in Ids : i \in Nat /\ i # 0
  BY <1>1 DEF Ids
<1> QED
  BY <1>2, <1>3, <1>4, Zenon

\* Goto as a step outside the payload phase, or out of it.
LEMMA GotoMoves ==
  ASSUME IInv, NEW w \in Writers, NEW step \in Steps \ StoreSteps, Goto(w, step),
         UNCHANGED <<payload, nextId, snapState>>,
         \/ page' = page
         \/ /\ exec[w].pc \notin StoreSteps \cup FailSteps
            /\ \A c \in Chunks : Carried(w, c, page'[c]),
         \/ step \in FailSteps \cup {"acked", "error"}
         \/ exec[w].pc \notin StoreSteps \cup FailSteps
         \/ exec[w].pc = "payload" /\ exec[w].todo = {}
  PROVE  Moves(w)
<1>1. exec \in [Writers -> ExecType] /\ exec[w] \in ExecType
  BY Zenon DEF IInv, TypeOK
<1>2. CASE step \in {"acked", "error"}
  <2> DEFINE e == NoExec(step, exec[w].runs, exec[w].sessionLost)
  <2>1. e.pc = step /\ e.plan = InitPage /\ e.base = InitPage
    BY Zenon DEF NoExec
  <2>2. exec' = [exec EXCEPT ![w] = e]
    BY <1>2 DEF Goto
  <2>3. exec'[w] = e /\ \A x \in Writers \ {w} : exec'[x] = exec[x]
    BY <1>1, <2>2, Zenon
  <2> HIDE DEF e
  <2> QED
    BY <2>1, <2>3 DEF Moves, Carried
<1>3. CASE step \notin {"acked", "error"}
  <2> DEFINE e == [exec[w] EXCEPT !.pc = step]
  <2>1. e.pc = step /\ e.plan = exec[w].plan /\ e.base = exec[w].base
    BY <1>1 DEF ExecType
  <2>2. exec' = [exec EXCEPT ![w] = e]
    BY <1>3 DEF Goto
  <2>3. exec'[w] = e /\ \A x \in Writers \ {w} : exec'[x] = exec[x]
    BY <1>1, <2>2
  <2> HIDE DEF e
  <2> QED
    BY <1>3, <2>1, <2>3, Zenon DEF Moves, Carried
<1> QED
  BY <1>2, <1>3

\* The same of a step that edits the execution.
LEMMA EditMoves ==
  ASSUME IInv, NEW w \in Writers, NEW e, exec' = [exec EXCEPT ![w] = e],
         UNCHANGED <<page, payload, nextId, snapState>>,
         e.pc \notin StoreSteps, e.base = exec[w].base,
         \A c \in Chunks : Carried(w, c, e.plan[c]),
         e.pc \in FailSteps \/ exec[w].pc \notin StoreSteps \cup FailSteps
  PROVE  Moves(w)
<1>1. exec'[w] = e /\ \A x \in Writers \ {w} : exec'[x] = exec[x]
  BY Zenon DEF IInv, TypeOK
<1> QED
  BY <1>1, Zenon DEF Moves

\* What a commit or a rebase installs is carried over.
LEMMA PagesCarried ==
  ASSUME IInv, NEW w \in Writers, NEW c \in Chunks
  PROVE  /\ Carried(w, c, CommitPage(w)[c])
         /\ Carried(w, c, MergePage(w)[c])
         /\ Carried(w, c, RebasedPlan(w)[c])
<1>1. Carried(w, c, CommitPage(w)[c])
  BY Zenon DEF Carried, CommitPage
<1>2. Carried(w, c, RebasedPlan(w)[c])
  BY <1>1, Zenon DEF Carried, RebasedPlan
<1>3. Carried(w, c, MergePage(w)[c])
  <2>1. CASE c \notin Touched(w) \/ CommitPage(w)[c] # 0 \/ page[c] \notin Retired(w)
    BY <1>1, <2>1, Zenon DEF Carried, MergePage
  <2>2. CASE c \in Touched(w) /\ CommitPage(w)[c] = 0 /\ page[c] \in Retired(w)
    <3>1. PICK d \in ZeroChunks(w) : page[c] = exec[w].plan[d] /\ page[c] # 0
      BY <2>2, Zenon DEF Retired
    <3>2. d \in Chunks
      BY Zenon DEF ZeroChunks, Touched
    <3>3. page[c] \in Ids
      BY <3>1, Zenon DEF IInv, TypeOK
    <3>4. Mapped(page[c], c) /\ Mapped(page[c], d)
      BY <3>1, Zenon DEF Mapped
    <3>5. c = d
      BY <3>2, <3>3, <3>4, Zenon DEF IInv, OneChunkPerId
    <3> QED
      BY <2>2, <3>5, Zenon DEF Carried, MergePage
  <2> QED
    BY <2>1, <2>2, Zenon
<1> QED
  BY <1>1, <1>2, <1>3, Zenon

\* The steps that edit the execution.
LEMMA EditSteps ==
  ASSUME IInv, NEW w \in Writers,
         \/ BeginWrite(w) \/ PlanPages(w) \/ PayloadFail(w) \/ RebaseState(w)
         \/ RebasePages(w) \/ HintRead(w)
  PROVE  Moves(w)
<1>0. PICK r \in ExecType : r = exec[w]
  BY Zenon DEF IInv, TypeOK
<1>1. \A c \in Chunks : Carried(w, c, r.plan[c]) /\ Carried(w, c, page[c])
  BY <1>0 DEF Carried
<1>2. CASE BeginWrite(w)
  <2> DEFINE e == [r EXCEPT !.pc = "lookup", !.epoch = vol.epoch, !.revision = vol.revision,
                            !.attempt = 1, !.sessionLost = FALSE, !.runs = @ + 1]
  <2>1. e.pc = "lookup" /\ e.base = exec[w].base /\ e.plan = r.plan
    BY <1>0 DEF ExecType
  <2>2. exec' = [exec EXCEPT ![w] = e] /\ exec[w].pc = "idle"
        /\ UNCHANGED <<page, payload, nextId, snapState>>
    BY <1>0, <1>2, Zenon DEF BeginWrite, At, meta, env
  <2> HIDE DEF e
  <2> QED
    BY <1>1, <2>1, <2>2, EditMoves, Zenon DEF StoreSteps, FailSteps
<1>3. CASE PlanPages(w)
  <2> DEFINE e == [r EXCEPT !.pc = "cow", !.plan = page, !.planRev = pageRev]
  <2>1. e.pc = "cow" /\ e.base = exec[w].base /\ e.plan = page
    BY <1>0 DEF ExecType
  <2>2. exec' = [exec EXCEPT ![w] = e] /\ exec[w].pc = "plan"
        /\ UNCHANGED <<page, payload, nextId, snapState>>
    BY <1>0, <1>3, Zenon DEF PlanPages, At, meta, env
  <2> HIDE DEF e
  <2> QED
    BY <1>1, <2>1, <2>2, EditMoves, Zenon DEF StoreSteps, FailSteps
<1>4. CASE PayloadFail(w)
  <2>0. PICK f \in BOOLEAN :
          exec' = [exec EXCEPT ![w].pc = "failidem", ![w].sessionLost = f]
    BY <1>4, Zenon DEF PayloadFail
  <2> DEFINE e == [r EXCEPT !.pc = "failidem", !.sessionLost = f]
  <2>1. e.pc = "failidem" /\ e.base = exec[w].base /\ e.plan = r.plan
    BY <1>0 DEF ExecType
  <2>2. exec' = [exec EXCEPT ![w] = e] /\ UNCHANGED <<page, payload, nextId, snapState>>
    BY <1>0, <1>4, <2>0, Zenon DEF PayloadFail, meta, env
  <2> HIDE DEF e
  <2> QED
    BY <1>1, <2>1, <2>2, EditMoves, Zenon DEF StoreSteps, FailSteps
<1>5. CASE RebaseState(w)
  <2> DEFINE e == [r EXCEPT !.pc = "replan", !.epoch = vol.epoch, !.revision = vol.revision]
  <2>1. e.pc = "replan" /\ e.base = exec[w].base /\ e.plan = r.plan
    BY <1>0 DEF ExecType
  <2>2. exec' = [exec EXCEPT ![w] = e] /\ exec[w].pc = "rebase"
        /\ UNCHANGED <<page, payload, nextId, snapState>>
    BY <1>0, <1>5, Zenon DEF RebaseState, At, meta, env
  <2> HIDE DEF e
  <2> QED
    BY <1>1, <2>1, <2>2, EditMoves, Zenon DEF StoreSteps, FailSteps
<1>6. CASE RebasePages(w)
  <2>0. PICK p : p = RebasedPlan(w)
    OBVIOUS
  <2> DEFINE e == [r EXCEPT !.pc = "commit", !.plan = p, !.planRev = pageRev,
                            !.attempt = @ + 1]
  <2>1. e.pc = "commit" /\ e.base = exec[w].base /\ e.plan = p
    BY <1>0 DEF ExecType
  <2>2. exec' = [exec EXCEPT ![w] = e] /\ exec[w].pc = "replan"
        /\ UNCHANGED <<page, payload, nextId, snapState>>
    BY <1>0, <1>6, <2>0, Zenon DEF RebasePages, At, meta, env
  <2>3. \A c \in Chunks : Carried(w, c, p[c])
    BY <2>0, PagesCarried
  <2> HIDE DEF e
  <2> QED
    BY <2>1, <2>2, <2>3, EditMoves, Zenon DEF StoreSteps, FailSteps
<1>7. CASE HintRead(w)
  <2> DEFINE e == [r EXCEPT !.pc = "hintput", !.gcSeen = gcOp]
  <2>1. e.pc = "hintput" /\ e.base = exec[w].base /\ e.plan = r.plan
    BY <1>0 DEF ExecType
  <2>2. exec' = [exec EXCEPT ![w] = e] /\ exec[w].pc = "hint"
        /\ UNCHANGED <<page, payload, nextId, snapState>>
    BY <1>0, <1>7, Zenon DEF HintRead, At, meta, env
  <2> HIDE DEF e
  <2> QED
    BY <1>1, <2>1, <2>2, EditMoves, Zenon DEF StoreSteps, FailSteps
<1> QED
  BY <1>2, <1>3, <1>4, <1>5, <1>6, <1>7, Zenon

\* The steps that only move the request, or end it.
LEMMA MoveSteps ==
  ASSUME IInv, NEW w \in Writers,
         \/ PayloadDone(w) \/ AcquireCommitLock(w) \/ CommitConflict(w)
         \/ AbandonCommit(w) \/ HintPut(w) \/ HintFail(w) \/ BeginFail(w)
         \/ MarkFailedRecord(w) \/ MarkFailedMutation(w) \/ MarkFailedLost(w) \/ Retry(w)
  PROVE  Moves(w)
<1>1. UNCHANGED <<page, payload, nextId, snapState>>
  BY DEF PayloadDone, AcquireCommitLock, CommitConflict, AbandonCommit, HintPut, HintFail,
         BeginFail, MarkFailedRecord, MarkFailedMutation, MarkFailedLost, Retry, meta, env
<1>2. CASE PayloadDone(w)
  <2>1. PICK step \in {"lock", "commit"} : Goto(w, step)
    BY <1>2, Zenon DEF PayloadDone
  <2>2. step \in Steps \ StoreSteps /\ exec[w].pc = "payload" /\ exec[w].todo = {}
    BY <1>2, Zenon DEF PayloadDone, At, Steps, StoreSteps
  <2> QED
    BY <1>1, <2>1, <2>2, GotoMoves, Zenon
<1>3. CASE AcquireCommitLock(w) \/ CommitConflict(w) \/ Retry(w)
  <2>1. PICK step \in {"commit", "recover", "idle"} : Goto(w, step)
    BY <1>3, Zenon DEF AcquireCommitLock, CommitConflict, Retry, Leave
  <2>2. step \in Steps \ StoreSteps /\ exec[w].pc \notin StoreSteps \cup FailSteps
    BY <1>3, Zenon DEF AcquireCommitLock, CommitConflict, Retry, At, Steps, StoreSteps, FailSteps
  <2> QED
    BY <1>1, <2>1, <2>2, GotoMoves, Zenon
<1>4. CASE \/ AbandonCommit(w) \/ HintPut(w) \/ HintFail(w) \/ BeginFail(w)
           \/ MarkFailedRecord(w) \/ MarkFailedMutation(w) \/ MarkFailedLost(w)
  <2>1. PICK step \in {"failidem", "failmut", "acked", "error"} : Goto(w, step)
    BY <1>4, Zenon DEF AbandonCommit, HintPut, HintFail, BeginFail, MarkFailedRecord,
                MarkFailedMutation, MarkFailedLost, Leave
  <2>2. step \in Steps \ StoreSteps /\ step \in FailSteps \cup {"acked", "error"}
    BY DEF Steps, StoreSteps, FailSteps
  <2> QED
    BY <1>1, <2>1, <2>2, GotoMoves, Zenon
<1> QED
  BY <1>2, <1>3, <1>4, Zenon

\* The steps that commit or recognise a commit, and the lookup.
LEMMA CommitSteps ==
  ASSUME IInv, NEW w \in Writers,
         \/ LookupIdempotency(w) \/ CommitMetadata(w) \/ ApplyEffects(w) \/ Recover(w)
  PROVE  Moves(w)
<1>1. UNCHANGED <<payload, nextId, snapState>>
  BY Zenon DEF LookupIdempotency, CommitMetadata, ApplyEffects, Recover, env
<1>2. exec[w].pc \in {"lookup", "commit", "effects", "recover"}
  BY Zenon DEF LookupIdempotency, CommitMetadata, ApplyEffects, Recover, At
<1>3. exec[w].pc \notin StoreSteps \cup FailSteps
  BY <1>2 DEF StoreSteps, FailSteps
<1>4. page' = page \/ \A c \in Chunks : Carried(w, c, page'[c])
  <2>1. page' = page \/ page' = CommitPage(w) \/ page' = MergePage(w)
    BY Zenon DEF LookupIdempotency, CommitMetadata, CommitTransaction, ApplyEffects, Recover, meta
  <2> QED
    BY <2>1, PagesCarried, Zenon
<1>5. ASSUME NEW step \in Steps \ StoreSteps, Goto(w, step) PROVE Moves(w)
  BY <1>1, <1>3, <1>4, <1>5, GotoMoves, Zenon
<1>6. CASE CommitMetadata(w) \/ ApplyEffects(w) \/ Recover(w)
  <2>1. AfterCommit(w) \in {"acked", "hint"}
    BY DEF AfterCommit
  <2>2. PICK step \in {"acked", "hint", "effects", "recover", "failidem", "rebase"} :
          Goto(w, step)
    BY <1>6, <2>1, Zenon DEF CommitMetadata, ApplyEffects, Recover, Leave
  <2>3. step \in Steps \ StoreSteps
    BY Zenon DEF Steps, StoreSteps
  <2> QED
    BY <1>5, <2>2, <2>3
<1>7. CASE LookupIdempotency(w)
  <2>1. CASE \E step \in {"acked", "error"} : Goto(w, step)
    <3>1. {"acked", "error"} \subseteq Steps \ StoreSteps
      BY DEF Steps, StoreSteps
    <3> QED
      BY <1>5, <2>1, <3>1, Zenon
  <2>2. ASSUME NEW f \in BOOLEAN,
               exec' = [exec EXCEPT ![w].pc = "plan", ![w].recovering = f]
        PROVE  Moves(w)
    <3>0. PICK r \in ExecType : r = exec[w]
      BY Zenon DEF IInv, TypeOK
    <3> DEFINE e == [r EXCEPT !.pc = "plan", !.recovering = f]
    <3>1. e.pc = "plan" /\ e.base = exec[w].base /\ e.plan = exec[w].plan
      BY <3>0 DEF ExecType
    <3>2. exec' = [exec EXCEPT ![w] = e] /\ UNCHANGED <<page, payload, nextId, snapState>>
      BY <1>1, <1>7, <2>2, <3>0, Zenon DEF LookupIdempotency, meta
    <3>3. \A c \in Chunks : Carried(w, c, exec[w].plan[c])
      BY DEF Carried
    <3>4. e.pc \notin StoreSteps
      BY <3>1, Zenon DEF StoreSteps
    <3> HIDE DEF e
    <3> QED
      BY <1>3, <3>1, <3>2, <3>3, <3>4, EditMoves, Zenon
  <2> QED
    BY <1>7, <2>1, <2>2, Zenon DEF LookupIdempotency
<1> QED
  BY <1>6, <1>7, Zenon

\* PlanCopyOnWrite allocates, or acknowledges a zero request at once.
LEMMA PlanCopyOnWriteSteps ==
  ASSUME IInv, NEW w \in Writers, PlanCopyOnWrite(w)
  PROVE  Moves(w) \/ Allocates(w)
<1>1. UNCHANGED <<payload, snapState>> /\ exec[w].pc = "cow"
  BY Zenon DEF PlanCopyOnWrite, At, env
<1>2. CASE Goto(w, "acked") /\ UNCHANGED <<page, nextId>>
  <2>1. "acked" \in Steps \ StoreSteps
    BY Zenon DEF Steps, StoreSteps
  <2> QED
    BY <1>1, <1>2, <2>1, GotoMoves
<1>3. CASE ~(Goto(w, "acked") /\ UNCHANGED <<page, nextId>>)
  <2>0. PICK r \in ExecType : r = exec[w]
    BY DEF IInv, TypeOK
  <2>1. PICK F : F = FreshChunks(w, CopyOnWriteNeeded)
    OBVIOUS
  <2>2. PICK b : b = CopyOnWriteNeeded
    OBVIOUS
  <2>3. PICK p : p = [c \in Chunks |-> IF c \in F THEN nextId + Rank(c, F) ELSE r.plan[c]]
    BY Zenon
  <2> DEFINE e == [r EXCEPT !.pc = "intent", !.cow = b, !.base = r.plan, !.plan = p]
  <2>4. AllocateChunkIDs(Cardinality(F)) /\ page' = page /\ exec' = [exec EXCEPT ![w] = e]
    BY <1>3, <2>0, <2>1, <2>2, <2>3, Zenon DEF PlanCopyOnWrite, meta
  <2>5. e.pc = "intent" /\ e.cow = b /\ e.base = r.plan /\ e.plan = p
    BY DEF ExecType
  <2> HIDE DEF e
  <2>6. exec'[w] = e /\ \A x \in Writers \ {w} : exec'[x] = exec[x]
    BY <2>4, Zenon DEF IInv, TypeOK
  <2>7. /\ nextId <= nextId'
        /\ \A c \in F : /\ nextId + Rank(c, F) \in Ids
                        /\ nextId <= nextId + Rank(c, F)
                        /\ nextId + Rank(c, F) < nextId'
    BY <2>1, <2>4, FreshIds, Zenon DEF IInv
  <2>8. \A c \in Chunks : p[c] = IF c \in F THEN nextId + Rank(c, F) ELSE r.plan[c]
    BY <2>3, Zenon
  <2> QED
    BY <1>1, <2>0, <2>1, <2>2, <2>4, <2>5, <2>6, <2>7, <2>8 DEF Allocates
<1> QED
  BY <1>2, <1>3, Zenon

\* PutWriteIntent, LoadChunk and StoreChunk.
LEMMA PayloadSteps ==
  ASSUME IInv, NEW w \in Writers
  PROVE  /\ PutWriteIntent(w) => Intends(w)
         /\ LoadChunk(w) => \E c \in exec[w].todo : Loads(w, c)
         /\ StoreChunk(w) => \E c \in exec[w].todo : Stores(w, c)
<1>0. PICK r \in ExecType : r = exec[w]
  BY Zenon DEF IInv, TypeOK
<1>1. ASSUME PutWriteIntent(w) PROVE Intends(w)
  <2>0. PICK D : D = DataChunks(w)
    OBVIOUS
  <2> DEFINE e == [r EXCEPT !.pc = "payload", !.todo = D, !.cur = NoChunk]
  <2>1. e.pc = "payload" /\ e.todo = D /\ e.cur = NoChunk /\ e.plan = r.plan
        /\ e.base = r.base /\ e.cow = r.cow
    BY DEF ExecType
  <2>2. exec' = [exec EXCEPT ![w] = e] /\ exec[w].pc = "intent"
        /\ UNCHANGED <<page, payload, nextId, snapState>>
    BY <1>0, <1>1, <2>0, Zenon DEF PutWriteIntent, At, env
  <2> HIDE DEF e
  <2>3. exec'[w] = e /\ \A x \in Writers \ {w} : exec'[x] = exec[x]
    BY <2>2, Zenon DEF IInv, TypeOK
  <2> QED
    BY <1>0, <2>0, <2>1, <2>2, <2>3 DEF Intends, Stays, StoreSteps
<1>2. ASSUME LoadChunk(w) PROVE \E c \in exec[w].todo : Loads(w, c)
  <2>0. PICK c \in exec[w].todo :
          exec' = [exec EXCEPT ![w].cur = c, ![w].buf = payload[MergeBase(w, c)]]
    BY <1>2, Zenon DEF LoadChunk
  <2>4. PICK b : b = payload[MergeBase(w, c)]
    BY Zenon
  <2> DEFINE e == [r EXCEPT !.cur = c, !.buf = b]
  <2>1. e.pc = r.pc /\ e.todo = r.todo /\ e.cur = c /\ e.buf = b /\ e.plan = r.plan
        /\ e.base = r.base /\ e.cow = r.cow
    BY DEF ExecType
  <2>2. exec' = [exec EXCEPT ![w] = e] /\ exec[w].pc = "payload"
        /\ UNCHANGED <<page, payload, nextId, snapState>>
    BY <1>0, <1>2, <2>0, <2>4, Zenon DEF LoadChunk, At, meta, env
  <2> HIDE DEF e
  <2>3. exec'[w] = e /\ \A x \in Writers \ {w} : exec'[x] = exec[x]
    BY <2>2, Zenon DEF IInv, TypeOK
  <2>5. Loads(w, c)
    BY <1>0, <2>1, <2>2, <2>3, <2>4 DEF Loads, Stays, StoreSteps
  <2> QED
    BY <2>5
<1>3. ASSUME StoreChunk(w) PROVE \E c \in exec[w].todo : Stores(w, c)
  <2>0. PICK c \in exec[w].todo :
          /\ IF FullChunk(w, c) THEN exec[w].cur = NoChunk ELSE exec[w].cur = c
          /\ payload' = [payload EXCEPT ![exec[w].plan[c]] =
               [s \in Sectors |-> IF <<c, s>> \in Span[w] THEN DataOf(w) ELSE exec[w].buf[s]]]
          /\ exec' = [exec EXCEPT ![w].todo = @ \ {c}, ![w].cur = NoChunk, ![w].buf = Zeroes]
    BY <1>3, Zenon DEF StoreChunk
  <2>4. PICK t : t = exec[w].todo \ {c}
    BY Zenon
  <2> DEFINE e == [r EXCEPT !.todo = t, !.cur = NoChunk, !.buf = Zeroes]
  <2>1. e.pc = r.pc /\ e.todo = t /\ e.cur = NoChunk /\ e.plan = r.plan
        /\ e.base = r.base /\ e.cow = r.cow
    BY DEF ExecType
  <2>2. exec' = [exec EXCEPT ![w] = e] /\ exec[w].pc = "payload"
        /\ UNCHANGED <<page, nextId, snapState>>
    BY <1>0, <1>3, <2>0, <2>4, Zenon DEF StoreChunk, At, meta, env
  <2> HIDE DEF e
  <2>3. exec'[w] = e /\ \A x \in Writers \ {w} : exec'[x] = exec[x]
    BY <2>2, Zenon DEF IInv, TypeOK
  <2>5. FullChunk(w, c) \/ exec[w].cur = c
    BY <2>0
  <2>6. Stores(w, c)
    BY <1>0, <2>0, <2>1, <2>2, <2>3, <2>4, <2>5, Zenon DEF Stores, Stays, StoreSteps
  <2> QED
    BY <2>6
<1> QED
  BY <1>1, <1>2, <1>3, Zenon

\* Every step of a request has one of the shapes.
LEMMA StepShapes ==
  ASSUME IInv, NEW w \in Writers, Progress(w) \/ Failure(w)
  PROVE  \/ Moves(w) \/ Allocates(w) \/ Intends(w)
         \/ \E c \in exec[w].todo : Loads(w, c) \/ Stores(w, c)
BY EditSteps, MoveSteps, CommitSteps, PlanCopyOnWriteSteps, PayloadSteps, Zenon
   DEF Progress, Failure

-----------------------------------------------------------------------------
(* Data next to what is written *)

Uncovered(c, s) == \A w \in Writers : <<c, s>> \notin Span[w]

FirstContent(c) == IF c \in InitMapped THEN OldData ELSE ZeroData

\* Sector s of chunk c, mapped to id i, reads as it did at the start.
ReadsFirst(i, c, s) ==
  IF i = 0 THEN c \notin InitMapped ELSE payload[i][s] = FirstContent(c)

\* What a request knows of a sector no request covers: a plan that will be
\* committed, the chunk a partial write is merged into, the merged buffer.
NeighbourSafe(w, c, s) ==
  /\ ReadsFirst(exec[w].base[c], c, s)
  /\ exec[w].pc \notin StoreSteps \cup FailSteps => ReadsFirst(exec[w].plan[c], c, s)
  /\ exec[w].pc \in StoreSteps =>
       /\ c \in DataChunks(w) => ReadsFirst(MergeBase(w, c), c, s)
       /\ c \notin DataChunks(w) => ReadsFirst(exec[w].plan[c], c, s)
  /\ exec[w].pc = "payload" =>
       /\ c \notin exec[w].todo => ReadsFirst(exec[w].plan[c], c, s)
       /\ exec[w].cur = c => exec[w].buf[s] = FirstContent(c)

NInv ==
  /\ BasesMapped
  /\ \A i \in Ids : nextId <= i => payload[i] = Zeroes
  /\ \A c \in Chunks, s \in Sectors : Uncovered(c, s) =>
       /\ ReadsFirst(InitPage[c], c, s) /\ ReadsFirst(page[c], c, s)
       /\ \A w \in Writers : NeighbourSafe(w, c, s)

\* Maps after a step: nothing new but fresh ids.
LEMMA ShapeMaps ==
  ASSUME IInv, NEW w \in Writers, Moves(w) \/ Allocates(w) \/ Stays(w),
         NEW i \in Ids, NEW c \in Chunks
  PROVE  /\ Mapped(i, c)' => Mapped(i, c) \/ nextId <= i
         /\ Based(i, c)' => Based(i, c) \/ Mapped(i, c)
<1>1. i # 0 /\ InitPage' = InitPage
  BY DEF Ids, InitPage, Rank
<1>2. page'[c] = i => Mapped(i, c)
  BY <1>1, Zenon DEF Moves, Allocates, Stays, Carried, Mapped
<1>3. exec'[w].plan[c] = i => Mapped(i, c) \/ nextId <= i
  <2>1. CASE Moves(w)
    BY <1>1, <2>1, Zenon DEF Moves, Carried, Mapped
  <2>2. CASE Stays(w)
    BY <2>2, Zenon DEF Stays, Mapped
  <2>3. CASE Allocates(w)
    BY <2>3, Zenon DEF Allocates, Mapped
  <2> QED
    BY <2>1, <2>2, <2>3
<1>4. exec'[w].base[c] = i => Based(i, c) \/ Mapped(i, c)
  BY Zenon DEF Moves, Allocates, Stays, Based, Mapped
<1>5. \A x \in Writers \ {w} : exec'[x] = exec[x]
  BY Zenon DEF Moves, Allocates, Stays
<1>6. ASSUME Mapped(i, c)' PROVE Mapped(i, c) \/ nextId <= i
  <2>1. InitPage[c] = i \/ page'[c] = i \/ \E x \in Writers : exec'[x].plan[c] = i
    BY <1>1, <1>6, Zenon DEF Mapped
  <2> QED
    BY <1>2, <1>3, <1>5, <2>1, Zenon DEF Mapped
<1>7. ASSUME Based(i, c)' PROVE Based(i, c) \/ Mapped(i, c)
  <2>1. \E x \in Writers : exec'[x].base[c] = i
    BY <1>7 DEF Based
  <2> QED
    BY <1>4, <1>5, <2>1, Zenon DEF Based
<1> QED
  BY <1>6, <1>7, Zenon

\* A number is not below itself.
LEMMA Reflexive == \A n \in Nat : n <= n
OBVIOUS

\* The bases stay apart from other chunks' ids.
LEMMA BasesKept ==
  ASSUME IInv, BasesMapped, nextId' \in Nat, nextId <= nextId',
         \A i \in Ids : \A c \in Chunks :
           /\ Mapped(i, c)' => Mapped(i, c) \/ nextId <= i
           /\ Based(i, c)' => Based(i, c) \/ Mapped(i, c)
  PROVE  BasesMapped'
<1> SUFFICES ASSUME NEW i \in Ids, NEW c \in Chunks, Based(i, c)'
             PROVE  i < nextId' /\ \A d \in Chunks : Mapped(i, d)' => c = d
  BY Zenon DEF BasesMapped
<1>1. i \in Nat /\ nextId \in Nat
  BY Numbered, Zenon
<1>2. Based(i, c) \/ Mapped(i, c)
  BY Zenon
<1>3. i < nextId
  BY <1>2, Zenon DEF BasesMapped, IInv, IdsAllocated
<1>4. i < nextId' /\ ~(nextId <= i)
  BY <1>1, <1>3
<1>5. ASSUME NEW d \in Chunks, Mapped(i, d)' PROVE c = d
  <2>1. Mapped(i, d)
    BY <1>4, <1>5, Zenon
  <2> QED
    BY <1>2, <2>1 DEF BasesMapped, IInv, OneChunkPerId
<1> QED
  BY <1>4, <1>5, Zenon

\* A chunk with a sector nobody covers is zeroed by nobody.
LEMMA UncoveredPartial ==
  ASSUME NEW c \in Chunks, NEW s \in Sectors, Uncovered(c, s), NEW w \in Writers
  PROVE  ~FullChunk(w, c) /\ c \notin ZeroChunks(w) /\ <<c, s>> \notin Span[w]
BY DEF Uncovered, FullChunk, ZeroChunks

\* Requests that did not move still know what they knew.
LEMMA SafeSame ==
  ASSUME NEW x \in Writers, NEW c \in Chunks, NEW s \in Sectors, NeighbourSafe(x, c, s),
         exec'[x] = exec[x], payload' = payload
  PROVE  NeighbourSafe(x, c, s)'
BY Zenon DEF NeighbourSafe, ReadsFirst, MergeBase, FirstContent, DataChunks, Touched, ZeroChunks,
       FullChunk

\* A step outside the payload phase keeps the neighbours.
LEMMA MovesNInv ==
  ASSUME IInv, NInv, NEW w \in Writers, Moves(w) PROVE NInv'
<1>1. UNCHANGED <<payload, nextId>> /\ InitPage' = InitPage /\ nextId \in Nat
      /\ \A x \in Writers \ {w} : exec'[x] = exec[x]
  BY Numbered, Zenon DEF Moves, InitPage, Rank
<1>2. BasesMapped'
  <2>1. BasesMapped /\ nextId' \in Nat /\ nextId <= nextId'
    BY <1>1, Reflexive, Zenon DEF NInv
  <2>2. \A i \in Ids : \A c \in Chunks :
          /\ Mapped(i, c)' => Mapped(i, c) \/ nextId <= i
          /\ Based(i, c)' => Based(i, c) \/ Mapped(i, c)
    BY ShapeMaps, Zenon
  <2> QED
    BY <2>1, <2>2, BasesKept, Zenon
<1>3. \A i \in Ids : nextId' <= i => payload'[i] = Zeroes
  BY <1>1, Zenon DEF NInv
<1>4. ASSUME NEW c \in Chunks, NEW s \in Sectors, Uncovered(c, s)
      PROVE  /\ ReadsFirst(InitPage[c], c, s)' /\ ReadsFirst(page[c], c, s)'
             /\ \A x \in Writers : NeighbourSafe(x, c, s)'
  <2>1. /\ ReadsFirst(InitPage[c], c, s) /\ ReadsFirst(page[c], c, s)
        /\ \A x \in Writers : NeighbourSafe(x, c, s)
    BY <1>4, Zenon DEF NInv
  <2>2. c \notin ZeroChunks(w)
    BY <1>4, UncoveredPartial, Zenon
  <2>3. ASSUME NEW i PROVE ReadsFirst(i, c, s)' <=> ReadsFirst(i, c, s)
    BY <1>1, Zenon DEF ReadsFirst, FirstContent
  <2>4. exec[w].pc \notin StoreSteps \cup FailSteps =>
          \A i : Carried(w, c, i) => ReadsFirst(i, c, s)
    BY <2>1, <2>2, Zenon DEF Carried, NeighbourSafe
  <2>5. ReadsFirst(page'[c], c, s)
    BY <2>1, <2>4, Zenon DEF Moves
  <2>6. ReadsFirst(exec'[w].base[c], c, s)
    BY <2>1, Zenon DEF Moves, NeighbourSafe
  <2>7. exec'[w].pc \notin StoreSteps \cup FailSteps => ReadsFirst(exec'[w].plan[c], c, s)
    <3>1. CASE exec'[w].plan = InitPage
      BY <2>1, <3>1, Zenon
    <3>2. CASE exec[w].pc \notin StoreSteps \cup FailSteps
      BY <2>4, <3>2, Zenon DEF Moves
    <3>3. CASE exec[w].pc = "payload" /\ exec[w].todo = {} /\ exec'[w].plan = exec[w].plan
      BY <2>1, <3>3, Zenon DEF NeighbourSafe
    <3> QED
      BY <3>1, <3>2, <3>3, Zenon DEF Moves
  <2>8. exec'[w].pc \notin StoreSteps /\ exec'[w].pc # "payload"
    BY Zenon DEF Moves, StoreSteps
  <2>9. NeighbourSafe(w, c, s)'
    <3>1. ReadsFirst(exec[w].base[c], c, s)'
      BY <1>1, <2>6, Zenon DEF ReadsFirst, FirstContent
    <3>2. (exec[w].pc \notin StoreSteps \cup FailSteps => ReadsFirst(exec[w].plan[c], c, s))'
      BY <1>1, <2>7, Zenon DEF ReadsFirst, FirstContent
    <3> QED
      BY <2>8, <3>1, <3>2, Zenon DEF NeighbourSafe
  <2>10. \A x \in Writers \ {w} : NeighbourSafe(x, c, s)'
    BY <1>1, <2>1, SafeSame, Zenon
  <2>11. ReadsFirst(InitPage[c], c, s)' /\ ReadsFirst(page[c], c, s)'
    BY <1>1, <2>1, <2>5, Zenon DEF ReadsFirst, FirstContent
  <2> QED
    BY <2>9, <2>10, <2>11, Zenon
<1>5. \A c \in Chunks, s \in Sectors : Uncovered(c, s)' <=> Uncovered(c, s)
  BY Zenon DEF Uncovered
<1> QED
  BY <1>2, <1>3, <1>4, <1>5, Zenon DEF NInv

\* The allocation keeps the neighbours: a fresh id reads as zeroes, and one
\* that replaces data has the original as its merge base.
LEMMA AllocatesNInv ==
  ASSUME IInv, NInv, NEW w \in Writers, Allocates(w), nextId' \in Nat PROVE NInv'
<1>1. UNCHANGED <<payload, page>> /\ InitPage' = InitPage /\ nextId <= nextId'
      /\ \A x \in Writers \ {w} : exec'[x] = exec[x]
  BY DEF Allocates, InitPage, Rank
<1>2. BasesMapped'
  BY <1>1, ShapeMaps, BasesKept, Zenon DEF NInv
<1>3. \A i \in Ids : nextId' <= i => payload'[i] = Zeroes
  <2>1. nextId \in Nat /\ Ids \subseteq Nat
    BY Numbered, Zenon
  <2>2. \A i \in Ids : nextId' <= i => nextId <= i
    BY <1>1, <2>1
  <2> QED
    BY <1>1, <2>2, Zenon DEF NInv
<1>4. ASSUME NEW c \in Chunks, NEW s \in Sectors, Uncovered(c, s)
      PROVE  /\ ReadsFirst(InitPage[c], c, s)' /\ ReadsFirst(page[c], c, s)'
             /\ \A x \in Writers : NeighbourSafe(x, c, s)'
  <2>1. /\ ReadsFirst(InitPage[c], c, s) /\ ReadsFirst(page[c], c, s)
        /\ \A x \in Writers : NeighbourSafe(x, c, s)
    BY <1>4, Zenon DEF NInv
  <2>2. exec[w].pc = "cow" /\ exec'[w].pc = "intent" /\ exec'[w].base = exec[w].plan
        /\ exec'[w].cow = CopyOnWriteNeeded
    BY Zenon DEF Allocates
  <2>3. ReadsFirst(exec[w].plan[c], c, s)
    BY <2>1, <2>2, Zenon DEF NeighbourSafe, StoreSteps, FailSteps
  <2>4. ASSUME c \notin FreshChunks(w, CopyOnWriteNeeded)
        PROVE  exec'[w].plan[c] = exec[w].plan[c]
    BY <2>4, Zenon DEF Allocates
  <2>5. ASSUME c \in FreshChunks(w, CopyOnWriteNeeded), exec[w].plan[c] = 0
        PROVE  ReadsFirst(exec'[w].plan[c], c, s)
    <3>1. PICK i \in Ids : i = exec'[w].plan[c] /\ nextId <= i
      BY <2>5, Zenon DEF Allocates
    <3>2. payload[i] = Zeroes /\ i # 0
      BY <3>1 DEF NInv, Ids
    <3>3. c \notin InitMapped
      BY <2>3, <2>5, Zenon DEF ReadsFirst
    <3> QED
      BY <3>1, <3>2, <3>3, Zenon DEF ReadsFirst, Zeroes, FirstContent
  <2>6. c \in DataChunks(w) => ReadsFirst(MergeBase(w, c), c, s)'
    <3>1. c \in DataChunks(w) =>
            (c \in FreshChunks(w, CopyOnWriteNeeded)
               <=> CopyOnWriteNeeded \/ exec[w].plan[c] = 0)
      BY Zenon DEF FreshChunks
    <3>2. CASE CopyOnWriteNeeded /\ exec[w].plan[c] # 0
      BY <1>1, <2>2, <2>3, <3>2, Zenon DEF MergeBase, ReadsFirst, FirstContent
    <3>3. CASE exec[w].plan[c] = 0 /\ c \in DataChunks(w)
      <4>1. ReadsFirst(exec'[w].plan[c], c, s)
        BY <2>5, <3>1, <3>3, Zenon
      <4>2. MergeBase(w, c)' = exec'[w].plan[c]
        BY <2>2, <3>3, Zenon DEF MergeBase
      <4> QED
        BY <1>1, <4>1, <4>2, Zenon DEF ReadsFirst, FirstContent
    <3>4. CASE ~CopyOnWriteNeeded /\ exec[w].plan[c] # 0 /\ c \in DataChunks(w)
      <4>1. exec'[w].plan[c] = exec[w].plan[c]
        BY <2>4, <3>1, <3>4, Zenon
      <4>2. MergeBase(w, c)' = exec'[w].plan[c]
        BY <2>2, <3>4, Zenon DEF MergeBase
      <4> QED
        BY <1>1, <2>3, <4>1, <4>2, Zenon DEF ReadsFirst, FirstContent
    <3> QED
      BY <3>2, <3>3, <3>4, Zenon
  <2>7. c \notin DataChunks(w) => ReadsFirst(exec'[w].plan[c], c, s)
    <3>1. c \notin DataChunks(w) => c \notin FreshChunks(w, CopyOnWriteNeeded)
      BY Zenon DEF FreshChunks
    <3> QED
      BY <2>3, <2>4, <3>1, Zenon
  <2>8. NeighbourSafe(w, c, s)'
    <3>1. ReadsFirst(exec[w].base[c], c, s)'
      BY <1>1, <2>2, <2>3, Zenon DEF ReadsFirst, FirstContent
    <3>2. (c \notin DataChunks(w) => ReadsFirst(exec[w].plan[c], c, s))'
      BY <1>1, <2>7, Zenon DEF ReadsFirst, FirstContent, DataChunks, Touched, ZeroChunks, FullChunk
    <3>3. (c \in DataChunks(w) => ReadsFirst(MergeBase(w, c), c, s))'
      BY <2>6, Zenon DEF DataChunks, Touched, ZeroChunks, FullChunk
    <3> QED
      BY <2>2, <3>1, <3>2, <3>3, Zenon DEF NeighbourSafe, StoreSteps
  <2>9. \A x \in Writers \ {w} : NeighbourSafe(x, c, s)'
    BY <1>1, <2>1, SafeSame, Zenon
  <2>10. ReadsFirst(InitPage[c], c, s)' /\ ReadsFirst(page[c], c, s)'
    BY <1>1, <2>1, Zenon DEF ReadsFirst, FirstContent
  <2> QED
    BY <2>8, <2>9, <2>10
<1>5. \A c \in Chunks, s \in Sectors : Uncovered(c, s)' <=> Uncovered(c, s)
  BY DEF Uncovered
<1> QED
  BY <1>2, <1>3, <1>4, <1>5, Zenon DEF NInv

\* So do the intent and the read of a chunk for the merge.
LEMMA LoadsNInv ==
  ASSUME IInv, NInv, NEW w \in Writers,
         Intends(w) \/ \E c \in exec[w].todo : Loads(w, c)
  PROVE  NInv'
<1>1. UNCHANGED <<payload, page, nextId>> /\ InitPage' = InitPage /\ nextId \in Nat
      /\ \A x \in Writers \ {w} : exec'[x] = exec[x]
  BY Numbered, Zenon DEF Intends, Loads, Stays, InitPage, Rank
<1>2. Stays(w)
  BY Zenon DEF Intends, Loads
<1>3. BasesMapped'
  <2>1. nextId' \in Nat /\ nextId <= nextId' /\ BasesMapped
    BY <1>1, Reflexive, Zenon DEF NInv
  <2>2. \A i \in Ids : \A c \in Chunks :
          /\ Mapped(i, c)' => Mapped(i, c) \/ nextId <= i
          /\ Based(i, c)' => Based(i, c) \/ Mapped(i, c)
    BY <1>2, ShapeMaps
  <2> QED
    BY <2>1, <2>2, BasesKept
<1>4. \A i \in Ids : nextId' <= i => payload'[i] = Zeroes
  BY <1>1, Zenon DEF NInv
<1>5. ASSUME NEW c \in Chunks, NEW s \in Sectors, Uncovered(c, s)
      PROVE  /\ ReadsFirst(InitPage[c], c, s)' /\ ReadsFirst(page[c], c, s)'
             /\ \A x \in Writers : NeighbourSafe(x, c, s)'
  <2>1. /\ ReadsFirst(InitPage[c], c, s) /\ ReadsFirst(page[c], c, s)
        /\ \A x \in Writers : NeighbourSafe(x, c, s)
    BY <1>5, Zenon DEF NInv
  <2>2. MergeBase(w, c)' = MergeBase(w, c) /\ DataChunks(w)' = DataChunks(w)
    BY <1>2 DEF Stays, MergeBase, DataChunks, Touched, ZeroChunks, FullChunk
  <2>3. /\ ReadsFirst(exec[w].base[c], c, s)
        /\ c \in DataChunks(w) => ReadsFirst(MergeBase(w, c), c, s)
        /\ c \notin DataChunks(w) => ReadsFirst(exec[w].plan[c], c, s)
    BY <1>2, <2>1, Zenon DEF Stays, NeighbourSafe
  <2>4. c \notin exec'[w].todo => ReadsFirst(exec[w].plan[c], c, s)
    <3>1. CASE Intends(w)
      BY <2>3, <3>1 DEF Intends
    <3>2. CASE \E d \in exec[w].todo : Loads(w, d)
      BY <2>1, <3>2, Zenon DEF Loads, NeighbourSafe
    <3> QED
      BY <3>1, <3>2, Zenon
  <2>5. exec'[w].cur = c => exec'[w].buf[s] = FirstContent(c)
    <3>1. CASE Intends(w)
      <4>1. c # NoChunk
        BY WriteCommitAssumption DEF NoChunk
      <4> QED
        BY <3>1, <4>1, Zenon DEF Intends
    <3>2. ASSUME NEW d \in exec[w].todo, Loads(w, d), d = c
          PROVE  exec'[w].buf[s] = FirstContent(c)
      <4>1. c \in DataChunks(w) /\ exec[w].plan[c] # 0
        BY <3>2, Zenon DEF Loads, IInv, PlanReady
      <4>2. MergeBase(w, c) # 0
        BY <4>1 DEF MergeBase
      <4> QED
        BY <2>3, <3>2, <4>1, <4>2, Zenon DEF Loads, ReadsFirst
    <3> QED
      BY <3>1, <3>2, Zenon DEF Loads
  <2>6. NeighbourSafe(w, c, s)'
    <3>1. exec'[w].pc = "payload" /\ exec'[w].base = exec[w].base
          /\ exec'[w].plan = exec[w].plan
      BY <1>2, Zenon DEF Stays
    <3>2. \A i : ReadsFirst(i, c, s) => (IF i = 0 THEN c \notin InitMapped
                                         ELSE payload'[i][s] = FirstContent(c))
      BY <1>1, Zenon DEF ReadsFirst
    <3> QED
      BY <2>2, <2>3, <2>4, <2>5, <3>1, <3>2, Zenon
         DEF NeighbourSafe, ReadsFirst, FirstContent, StoreSteps
  <2>7. \A x \in Writers \ {w} : NeighbourSafe(x, c, s)'
    BY <1>1, <2>1, SafeSame
  <2>8. ReadsFirst(InitPage[c], c, s)' /\ ReadsFirst(page[c], c, s)'
    BY <1>1, <2>1, Zenon DEF ReadsFirst, FirstContent
  <2> QED
    BY <2>6, <2>7, <2>8, Zenon
<1>6. \A c \in Chunks, s \in Sectors : Uncovered(c, s)' <=> Uncovered(c, s)
  BY Zenon DEF Uncovered
<1> QED
  BY <1>3, <1>4, <1>5, <1>6, Zenon DEF NInv

\* A store writes back what the merge read, so that a sector nobody covers
\* keeps its content; other ids are not touched.
LEMMA StoredReads ==
  ASSUME IInv, NInv, NEW w \in Writers, NEW c \in exec[w].todo, Stores(w, c),
         NEW d \in Chunks, NEW s \in Sectors, Uncovered(d, s), NEW j \in Ids \cup {0},
         j = 0 \/ Mapped(j, d) \/ Based(j, d),
         ReadsFirst(j, d, s) \/ (d = c /\ j = exec[w].plan[c])
  PROVE  ReadsFirst(j, d, s)'
<1>1. exec[w].pc = "payload" /\ c \in DataChunks(w) /\ c \in Chunks
      /\ exec[w].plan[c] \in Ids
  <2>1. exec[w].pc = "payload"
    BY Zenon DEF Stores
  <2>2. c \in DataChunks(w) /\ exec[w].plan[c] # 0
    BY <2>1, Zenon DEF IInv, PlanReady
  <2>3. c \in Chunks
    BY <2>2, Zenon DEF DataChunks, Touched
  <2>4. exec[w].plan \in [Chunks -> Ids \cup {0}]
    BY DEF IInv, TypeOK, ExecType
  <2> QED
    BY <2>1, <2>2, <2>3, <2>4, Zenon
<1>2. payload \in [Ids -> [Sectors -> Contents]]
  BY Zenon DEF IInv, TypeOK
<1>3. CASE j = exec[w].plan[c]
  <2>1. Mapped(j, c) /\ j \in Ids /\ j # 0
    <3>1. Mapped(j, c) /\ j \in Ids
      BY <1>1, <1>3, Zenon DEF Mapped
    <3>2. 0 \notin Ids
      BY DEF Ids
    <3> QED
      BY <3>1, <3>2, Zenon
  <2>2. d = c
    BY <1>1, <2>1, Zenon DEF IInv, OneChunkPerId, NInv, BasesMapped
  <2>3. ~FullChunk(w, c) /\ <<c, s>> \notin Span[w]
    BY <2>2, UncoveredPartial, Zenon
  <2>4. exec[w].cur = c
    BY <2>3, Zenon DEF Stores
  <2>5. exec[w].buf[s] = FirstContent(c)
    BY <1>1, <2>2, <2>4, Zenon DEF NInv, NeighbourSafe
  <2>6. payload'[j] =
          [t \in Sectors |-> IF <<c, t>> \in Span[w] THEN DataOf(w) ELSE exec[w].buf[t]]
    BY <1>1, <1>2, <1>3, Zenon DEF Stores
  <2>7. payload'[j][s] = FirstContent(c)
    BY <2>3, <2>5, <2>6, Zenon
  <2> QED
    BY <2>1, <2>2, <2>7, Zenon DEF ReadsFirst, FirstContent
<1>4. CASE j # exec[w].plan[c]
  <2>1. ReadsFirst(j, d, s)
    BY <1>4, Zenon
  <2>2. j = 0 \/ payload'[j] = payload[j]
    BY <1>2, <1>4, Zenon DEF Stores
  <2> QED
    BY <2>1, <2>2, Zenon DEF ReadsFirst, FirstContent
<1> QED
  BY <1>3, <1>4, Zenon

\* A store keeps the neighbours.
LEMMA StoresNInv ==
  ASSUME IInv, NInv, NEW w \in Writers, NEW c \in exec[w].todo, Stores(w, c)
  PROVE  NInv'
<1>1. UNCHANGED <<page, nextId>> /\ InitPage' = InitPage /\ nextId \in Nat /\ Stays(w)
      /\ (\A x \in Writers \ {w} : exec'[x] = exec[x])
      /\ exec[w].pc = "payload"
  <2>1. UNCHANGED <<page, nextId>> /\ InitPage' = InitPage
        /\ (\A x \in Writers \ {w} : exec'[x] = exec[x])
    BY Zenon DEF Stores, Stays, InitPage, Rank
  <2>2. Stays(w) /\ exec[w].pc = "payload"
    BY Zenon DEF Stores
  <2> QED
    BY <2>1, <2>2, Numbered, Zenon
<1>2. BasesMapped'
  <2>1. BasesMapped /\ nextId' \in Nat /\ nextId <= nextId'
    <3>1. BasesMapped /\ nextId' = nextId
      BY <1>1, Zenon DEF NInv
    <3>2. nextId <= nextId
      BY <1>1, Reflexive, Zenon
    <3> QED
      BY <1>1, <3>1, <3>2, Zenon
  <2>2. \A i \in Ids : \A d \in Chunks :
          /\ Mapped(i, d)' => Mapped(i, d) \/ nextId <= i
          /\ Based(i, d)' => Based(i, d) \/ Mapped(i, d)
    BY <1>1, ShapeMaps, Zenon
  <2> QED
    BY <2>1, <2>2, BasesKept, Zenon
<1>3. c \in Chunks /\ exec[w].plan[c] \in Ids /\ c \in DataChunks(w)
  <2>1. c \in DataChunks(w) /\ exec[w].plan[c] # 0
    BY <1>1, Zenon DEF IInv, PlanReady
  <2>2. c \in Chunks
    BY <2>1, Zenon DEF DataChunks, Touched
  <2>3. exec[w].plan \in [Chunks -> Ids \cup {0}]
    BY DEF IInv, TypeOK, ExecType
  <2> QED
    BY <2>1, <2>2, <2>3, Zenon
<1>4. ASSUME NEW i \in Ids, nextId' <= i PROVE payload'[i] = Zeroes
  <2>1. Mapped(exec[w].plan[c], c)
    BY Zenon DEF Mapped
  <2>2. exec[w].plan[c] < nextId
    BY <1>3, <2>1, Zenon DEF IInv, IdsAllocated
  <2>3. exec[w].plan[c] \in Nat /\ i \in Nat
    BY <1>3 DEF Ids
  <2>4. i # exec[w].plan[c]
    BY <1>1, <1>4, <2>2, <2>3
  <2>5. payload'[i] = payload[i]
    BY <2>4, Zenon DEF Stores, IInv, TypeOK
  <2> QED
    BY <1>1, <1>4, <2>5, Zenon DEF NInv
<1>5. ASSUME NEW d \in Chunks, NEW s \in Sectors, Uncovered(d, s)
      PROVE  /\ ReadsFirst(InitPage[d], d, s)' /\ ReadsFirst(page[d], d, s)'
             /\ \A x \in Writers : NeighbourSafe(x, d, s)'
  <2>1. /\ ReadsFirst(InitPage[d], d, s) /\ ReadsFirst(page[d], d, s)
        /\ \A x \in Writers : NeighbourSafe(x, d, s)
    BY <1>5, Zenon DEF NInv
  <2>2. ASSUME NEW j \in Ids \cup {0}, j = 0 \/ Mapped(j, d) \/ Based(j, d),
               ReadsFirst(j, d, s) \/ (d = c /\ j = exec[w].plan[c])
        PROVE  IF j = 0 THEN d \notin InitMapped ELSE payload'[j][s] = FirstContent(d)
    <3>1. ReadsFirst(j, d, s)'
      BY <1>5, <2>2, StoredReads, Zenon
    <3> QED
      BY <3>1, Zenon DEF ReadsFirst, FirstContent
  <2>3. /\ page[d] \in Ids \cup {0} /\ InitPage[d] \in Ids \cup {0}
        /\ \A x \in Writers : /\ exec[x].base[d] \in Ids \cup {0}
                              /\ exec[x].plan[d] \in Ids \cup {0}
    <3>1. \A x \in Writers : exec[x] \in ExecType
      BY Zenon DEF IInv, TypeOK
    <3> QED
      BY <3>1, InitPageIds DEF IInv, TypeOK, ExecType
  <2>4. /\ Mapped(page[d], d) /\ Mapped(InitPage[d], d)
        /\ \A x \in Writers : Mapped(exec[x].plan[d], d) /\ Based(exec[x].base[d], d)
    BY Zenon DEF Mapped, Based
  <2>5. ReadsFirst(InitPage[d], d, s)' /\ ReadsFirst(page[d], d, s)'
    BY <1>1, <2>1, <2>2, <2>3, <2>4, Zenon DEF ReadsFirst, FirstContent
  <2>6. ASSUME NEW x \in Writers PROVE NeighbourSafe(x, d, s)'
    <3>1. exec'[x].base = exec[x].base /\ exec'[x].plan = exec[x].plan
          /\ exec'[x].pc = exec[x].pc /\ exec'[x].cow = exec[x].cow
      BY <1>1, Zenon DEF Stays
    <3>2. MergeBase(x, d)' = MergeBase(x, d) /\ DataChunks(x)' = DataChunks(x)
      BY <3>1, Zenon DEF MergeBase, DataChunks, Touched, ZeroChunks, FullChunk
    <3>3. MergeBase(x, d) \in {exec[x].base[d], exec[x].plan[d]}
      BY Zenon DEF MergeBase
    <3>4. NeighbourSafe(x, d, s)
      BY <2>1
    <3>5. ReadsFirst(exec[x].base[d], d, s)'
      BY <2>2, <2>3, <2>4, <3>1, <3>4, Zenon DEF NeighbourSafe, ReadsFirst, FirstContent
    <3>6. ReadsFirst(exec[x].plan[d], d, s) \/ (x = w /\ d = c)
            => ReadsFirst(exec[x].plan[d], d, s)'
      BY <2>2, <2>3, <2>4, <3>1, Zenon DEF ReadsFirst, FirstContent
    <3>7. ReadsFirst(MergeBase(x, d), d, s) => ReadsFirst(MergeBase(x, d), d, s)'
      BY <2>2, <2>3, <2>4, <3>2, <3>3, Zenon DEF ReadsFirst, FirstContent
    <3>8. exec'[x].pc = "payload" /\ d \notin exec'[x].todo =>
            ReadsFirst(exec[x].plan[d], d, s) \/ (x = w /\ d = c)
      BY <1>1, <3>1, <3>4, Zenon DEF NeighbourSafe, Stores
    <3>9. exec'[x].pc = "payload" /\ exec'[x].cur = d => exec'[x].buf[s] = FirstContent(d)
      <4>1. d # NoChunk
        BY WriteCommitAssumption DEF NoChunk
      <4>2. CASE x = w
        BY <4>1, <4>2 DEF Stores
      <4>3. CASE x # w
        BY <1>1, <3>4, <4>3, Zenon DEF NeighbourSafe
      <4> QED
        BY <4>2, <4>3, Zenon
    <3>10. FirstContent(d)' = FirstContent(d)
      BY Zenon DEF FirstContent
    <3> QED
      BY <3>1, <3>2, <3>4, <3>5, <3>6, <3>7, <3>8, <3>9, <3>10, Zenon DEF NeighbourSafe
  <2> QED
    BY <2>5, <2>6, Zenon
<1>6. \A d \in Chunks, s \in Sectors : Uncovered(d, s)' <=> Uncovered(d, s)
  BY DEF Uncovered
<1> QED
  BY <1>2, <1>4, <1>5, <1>6, Zenon DEF NInv

\* A crash drops executions and leaves page, ids and payload alone.
LEMMA CrashDrops ==
  ASSUME IInv, NEW g \in Gateways, Crash(g)
  PROVE  /\ UNCHANGED <<page, payload, nextId, snapState>>
         /\ \A x \in Writers :
              \/ exec'[x] = exec[x]
              \/ /\ exec'[x].pc = "dead"
                 /\ exec'[x].plan = InitPage /\ exec'[x].base = InitPage
BY Zenon DEF Crash, NoExec, meta, env

\* A crash keeps the neighbours, and so does a step that leaves page, ids,
\* payload and executions alone.
LEMMA DropsNInv ==
  ASSUME IInv, NInv, UNCHANGED <<page, payload, nextId>>,
         \A x \in Writers :
           \/ exec'[x] = exec[x]
           \/ /\ exec'[x].pc = "dead"
              /\ exec'[x].plan = InitPage /\ exec'[x].base = InitPage
  PROVE  NInv'
<1>1. InitPage' = InitPage /\ nextId \in Nat
  BY Numbered, Zenon DEF InitPage, Rank
<1>2. ASSUME NEW i \in Ids, NEW c \in Chunks
      PROVE  /\ Mapped(i, c)' => Mapped(i, c)
             /\ Based(i, c)' => Based(i, c) \/ Mapped(i, c)
  BY <1>1, Zenon DEF Mapped, Based
<1>3. BasesMapped'
  <2>1. nextId' \in Nat /\ nextId <= nextId'
    BY <1>1
  <2> QED
    BY <1>2, <2>1, BasesKept, Zenon DEF NInv
<1>4. ASSUME NEW c \in Chunks, NEW s \in Sectors, Uncovered(c, s)
      PROVE  /\ ReadsFirst(InitPage[c], c, s)' /\ ReadsFirst(page[c], c, s)'
             /\ \A x \in Writers : NeighbourSafe(x, c, s)'
  <2>1. /\ ReadsFirst(InitPage[c], c, s) /\ ReadsFirst(page[c], c, s)
        /\ \A x \in Writers : NeighbourSafe(x, c, s)
    BY <1>4, Zenon DEF NInv
  <2>2. ReadsFirst(InitPage[c], c, s)' /\ ReadsFirst(page[c], c, s)'
    BY <1>1, <2>1, Zenon DEF ReadsFirst, FirstContent
  <2>3. ASSUME NEW x \in Writers PROVE NeighbourSafe(x, c, s)'
    <3>1. CASE exec'[x] = exec[x]
      BY <2>1, <3>1, SafeSame, Zenon
    <3>2. CASE exec'[x].pc = "dead" /\ exec'[x].plan = InitPage /\ exec'[x].base = InitPage
      <4>1. ReadsFirst(exec[x].plan[c], c, s)' /\ ReadsFirst(exec[x].base[c], c, s)'
        BY <1>1, <2>2, <3>2, Zenon DEF ReadsFirst
      <4> QED
        BY <3>2, <4>1, Zenon DEF NeighbourSafe, StoreSteps
    <3> QED
      BY <3>1, <3>2, Zenon
  <2> QED
    BY <2>2, <2>3, Zenon
<1>5. \A c \in Chunks, s \in Sectors : Uncovered(c, s)' <=> Uncovered(c, s)
  BY DEF Uncovered
<1> QED
  BY <1>3, <1>4, <1>5, Zenon DEF NInv

\* Initially every map is the initial page, whose chunks hold the old data.
LEMMA InitNInv ==
  ASSUME Init PROVE NInv
<1>1. IInv
  BY InitIInv
<1>2. \A w \in Writers : exec[w].pc = "idle" /\ exec[w].plan = InitPage
                         /\ exec[w].base = InitPage
  BY Zenon DEF Init, NoExec
<1>3. page = InitPage /\ nextId = 1 + Cardinality(InitMapped)
      /\ payload = [i \in Ids |-> [s \in Sectors |->
                      IF i <= Cardinality(InitMapped) THEN OldData ELSE ZeroData]]
  BY Zenon DEF Init
<1>4. BasesMapped
  <2>1. ASSUME NEW i \in Ids, NEW c \in Chunks, Based(i, c) PROVE Mapped(i, c)
    BY <1>2, <2>1, Zenon DEF Based, Mapped
  <2> QED
    BY <1>1, <2>1, Zenon DEF BasesMapped, IInv, IdsAllocated, OneChunkPerId
<1>5. ASSUME NEW i \in Ids, nextId <= i PROVE payload[i] = Zeroes
  <2>1. i \in Nat /\ Cardinality(InitMapped) \in Nat
    BY InitMappedFinite DEF Ids
  <2>2. ~(i <= Cardinality(InitMapped))
    BY <1>3, <1>5, <2>1
  <2> QED
    BY <1>3, <2>2 DEF Zeroes
<1>6. ASSUME NEW c \in Chunks, NEW s \in Sectors PROVE ReadsFirst(InitPage[c], c, s)
  <2>1. CASE c \in InitMapped
    <3>1. InitPage[c] = 1 + Rank(c, InitMapped) /\ Rank(c, InitMapped) \in Nat
      BY <2>1, InitMappedFinite, SmallerFinite, Zenon DEF InitPage
    <3>2. InitPage[c] # 0
      BY <3>1
    <3>3. InitPage[c] \in Ids /\ InitPage[c] <= Cardinality(InitMapped)
      BY <3>2, InitPageIds, Zenon
    <3> QED
      BY <1>3, <2>1, <3>2, <3>3, Zenon DEF ReadsFirst, FirstContent
  <2>2. CASE c \notin InitMapped
    BY <2>2, Zenon DEF InitPage, ReadsFirst
  <2> QED
    BY <2>1, <2>2, Zenon
<1> QED
  BY <1>2, <1>3, <1>4, <1>5, <1>6, Zenon DEF NInv, NeighbourSafe, StoreSteps

\* Every step of the write path keeps the neighbours.
LEMMA NextNInv ==
  ASSUME IInv, IInv', NInv, [Next]_vars PROVE NInv'
<1>1. ASSUME NEW w \in Writers, Progress(w) \/ Failure(w) PROVE NInv'
  <2>1. nextId' \in Nat
    BY Numbered, Zenon
  <2> QED
    BY <1>1, <2>1, StepShapes, MovesNInv, AllocatesNInv, LoadsNInv, StoresNInv
<1>2. ASSUME NEW g \in Gateways, Crash(g) PROVE NInv'
  BY <1>2, CrashDrops, DropsNInv, Zenon
<1>3. CASE PrimaryFailover \/ UNCHANGED vars
  <2>1. UNCHANGED <<page, payload, nextId, exec>>
    BY <1>3, Zenon DEF PrimaryFailover, vars, meta
  <2> QED
    BY <2>1, DropsNInv
<1> QED
  BY <1>1, <1>2, <1>3, Zenon DEF Next, WriterNext, AllFinished

\* What the invariant says of the page a read resolves.
LEMMA ReadNeighbours ==
  ASSUME NInv PROVE NeighboursKept
<1> SUFFICES ASSUME NEW c \in Chunks, NEW s \in Sectors,
                    \A w \in Writers : <<c, s>> \notin Span[w]
             PROVE  Visible(c, s) = IF c \in InitMapped THEN OldData ELSE ZeroData
  BY DEF NeighboursKept
<1>1. ReadsFirst(page[c], c, s)
  BY Zenon DEF NInv, Uncovered
<1> QED
  BY <1>1, Zenon DEF ReadsFirst, FirstContent, Visible

\* Data next to what is written stays, for any requests in any commit mode: a
\* sector no request covers reads as it did at the start, because a partial
\* write stores the chunk it read (loadRemoteChunkForMerge) under an id no
\* other chunk uses, and commits only after it stored it.
THEOREM Neighbours == Spec => []NeighboursKept
<1>1. Init => NInv
  BY InitNInv
<1>2. IInv /\ IInv' /\ NInv /\ [Next]_vars => NInv'
  BY NextNInv
<1>3. NInv => NeighboursKept
  BY ReadNeighbours
<1> QED
  BY <1>1, <1>2, <1>3, Invariance, PTL DEF Spec

-----------------------------------------------------------------------------
(* The records a request leaves behind *)


\* Steps before the intent is stored, and from there to the acknowledgement.
PlanSteps == {"plan", "cow", "intent"}
LoopSteps == {"payload", "lock", "commit", "recover", "rebase", "replan"}

\* What volume-scoped commits keep true of the records of one request.
Recorded(w) ==
  /\ mut[w].state = "committed" => mut[w].revision <= vol.revision
  /\ exec[w].pc # "effects"
  /\ exec[w].pc \in PlanSteps => idem[w].state # "committed"
  /\ exec[w].pc \in LoopSteps /\ idem[w].state = "committed"
       => mut[w].state = "committed"

RInv == /\ OneWritePerRevision
        /\ mode = "volume_scoped" => \A w \in Writers : Recorded(w)

\* A step of w that commits nothing, or commits under a new revision.
LEMMA RecordStep ==
  ASSUME IInv, IInv', RInv, NEW w \in Writers, mode' = mode,
         \A x \in Writers \ {w} :
           exec'[x] = exec[x] /\ idem'[x] = idem[x] /\ mut'[x] = mut[x],
         vol.revision <= vol'.revision,
         mode = "volume_scoped" =>
           /\ Recorded(w)'
           /\ mut'[w].state = "committed" =>
                mut'[w] = mut[w] \/ vol.revision < mut'[w].revision
  PROVE  RInv'
<1>1. /\ vol.revision \in Nat /\ vol'.revision \in Nat
      /\ \A x \in Writers : mut[x].revision \in Nat /\ mut'[x].revision \in Nat
  BY DEF IInv, TypeOK, RecordType
<1> SUFFICES ASSUME mode = "volume_scoped" PROVE RInv'
  BY Zenon DEF RInv, OneWritePerRevision
<1>2. ASSUME NEW x \in Writers \ {w} PROVE Recorded(x)'
  <2>1. Recorded(x)
    BY Zenon DEF RInv
  <2>2. mut'[x].state = "committed" => mut'[x].revision <= vol'.revision
    <3>1. mut[x].state = "committed" => mut[x].revision <= vol.revision
      BY <2>1, Zenon DEF Recorded
    <3>2. mut[x].revision <= vol.revision => mut[x].revision <= vol'.revision
      BY <1>1
    <3> QED
      BY <3>1, <3>2, Zenon
  <2> QED
    BY <2>1, <2>2, Zenon DEF Recorded
<1>3. ASSUME NEW u \in Writers, NEW x \in Writers, u # x, mut'[u].state = "committed",
             mut'[x].state = "committed", mut'[u].revision = mut'[x].revision
      PROVE  FALSE
  <2>1. ASSUME NEW y \in Writers \ {w}, mut[y].state = "committed"
        PROVE  mut[y].revision <= vol.revision
    BY <2>1, Zenon DEF RInv, Recorded
  <2>2. CASE u # w /\ x # w
    BY <1>3, <2>2, Zenon DEF RInv, OneWritePerRevision
  <2>3. CASE mut'[w] = mut[w]
    BY <1>3, <2>3 DEF RInv, OneWritePerRevision
  <2>4. CASE u = w /\ vol.revision < mut'[w].revision
    <3>1. mut[x].revision <= vol.revision /\ mut'[x] = mut[x]
      BY <1>3, <2>1, <2>4, Zenon
    <3> QED
      BY <1>1, <1>3, <2>4, <3>1
  <2>5. CASE x = w /\ vol.revision < mut'[w].revision
    <3>1. mut[u].revision <= vol.revision /\ mut'[u] = mut[u]
      BY <1>3, <2>1, <2>5, Zenon
    <3> QED
      BY <1>1, <1>3, <2>5, <3>1
  <2> QED
    BY <1>3, <2>2, <2>3, <2>4, <2>5, Zenon
<1> QED
  BY <1>2, <1>3, Zenon DEF RInv, OneWritePerRevision

\* A step of w that touches no record.
LEMMA QuietStep ==
  ASSUME IInv, IInv', RInv, NEW w \in Writers,
         UNCHANGED <<vol, idem, mut, mode>>,
         \A x \in Writers \ {w} : exec'[x] = exec[x],
         mode = "volume_scoped" => exec'[w].pc # "effects",
         exec'[w].pc \in PlanSteps => exec[w].pc \in PlanSteps \/ idem[w].state # "committed",
         exec'[w].pc \in LoopSteps => exec[w].pc \in LoopSteps \/ idem[w].state # "committed"
  PROVE  RInv'
<1>1. vol.revision \in Nat
  BY DEF IInv, TypeOK
<1>2. mode = "volume_scoped" => Recorded(w)'
  BY Zenon DEF RInv, Recorded
<1>3. vol.revision <= vol'.revision
  BY <1>1, Reflexive, Zenon
<1> QED
  BY <1>2, <1>3, RecordStep, Zenon

\* The step w reaches with an update of its execution.
LEMMA UpdatedPc ==
  ASSUME IInv, NEW w \in Writers, NEW e, exec' = [exec EXCEPT ![w] = e]
  PROVE  exec'[w] = e /\ \A x \in Writers \ {w} : exec'[x] = exec[x]
BY Zenon DEF IInv, TypeOK

\* The step w reaches with Goto.
LEMMA MovedPc ==
  ASSUME IInv, NEW w \in Writers, NEW step \in Steps, Goto(w, step)
  PROVE  exec'[w].pc = step /\ \A x \in Writers \ {w} : exec'[x] = exec[x]
BY GotoExec DEF IInv

-----------------------------------------------------------------------------
\* Reading state, record and page changes no record.
LEMMA PlanningRInv ==
  ASSUME IInv, IInv', RInv, NEW w \in Writers,
         BeginWrite(w) \/ LookupIdempotency(w) \/ PlanPages(w)
  PROVE  RInv'
<1>0. exec \in [Writers -> ExecType]
  BY DEF IInv, TypeOK
<1>1. CASE BeginWrite(w)
  <2>1. exec'[w].pc = "lookup" /\ \A x \in Writers \ {w} : exec'[x] = exec[x]
    BY <1>0, <1>1 DEF BeginWrite, ExecType
  <2> QED
    BY <1>1, <2>1, QuietStep, Zenon DEF BeginWrite, meta, env, PlanSteps, LoopSteps
<1>2. CASE LookupIdempotency(w)
  <2>1. ASSUME idem[w].state = "committed"
        PROVE  /\ exec'[w].pc \in {"acked", "error"}
               /\ \A x \in Writers \ {w} : exec'[x] = exec[x]
    <3>1. PICK step \in {"acked", "error"} : Goto(w, step)
      BY <1>2, <2>1, Zenon DEF LookupIdempotency
    <3>2. step \in Steps
      BY Zenon DEF Steps
    <3> QED
      BY <3>1, <3>2, MovedPc, Zenon
  <2>2. ASSUME idem[w].state # "committed"
        PROVE  exec'[w].pc = "plan" /\ \A x \in Writers \ {w} : exec'[x] = exec[x]
    BY <1>0, <1>2, <2>2 DEF LookupIdempotency, ExecType
  <2> QED
    BY <1>2, <2>1, <2>2, QuietStep DEF LookupIdempotency, meta, env, PlanSteps, LoopSteps
<1>3. CASE PlanPages(w)
  <2>1. exec'[w].pc = "cow" /\ \A x \in Writers \ {w} : exec'[x] = exec[x]
    BY <1>0, <1>3 DEF PlanPages, ExecType
  <2> QED
    BY <1>3, <2>1, QuietStep, Zenon DEF PlanPages, At, meta, env, PlanSteps, LoopSteps
<1> QED
  BY <1>1, <1>2, <1>3, Zenon

\* The plan preserves RInv: a zero no-op commits no mutation operation.
LEMMA PlanCopyOnWriteRInv ==
  ASSUME IInv, IInv', RInv, NEW w \in Writers, PlanCopyOnWrite(w) PROVE RInv'
<1>0. exec \in [Writers -> ExecType] /\ vol.revision \in Nat
  BY Zenon DEF IInv, TypeOK
<1>1. UNCHANGED <<vol, mut, mode>>
  BY DEF PlanCopyOnWrite, meta, env
<1>2. CASE ZeroNoop(w)
  <2>1. exec'[w].pc = "acked" /\ \A x \in Writers \ {w} : exec'[x] = exec[x]
    <3>1. Goto(w, "acked") /\ "acked" \in Steps
      BY <1>2, Zenon DEF PlanCopyOnWrite, Steps
    <3> QED
      BY <3>1, MovedPc
  <2>2. \A x \in Writers \ {w} : idem'[x] = idem[x]
    BY <1>2, Zenon DEF PlanCopyOnWrite, IInv, TypeOK
  <2>3. mode = "volume_scoped" => Recorded(w)'
    BY <1>1, <2>1, Zenon DEF RInv, Recorded, PlanSteps, LoopSteps
  <2> QED
    <3>1. vol.revision <= vol'.revision /\ mut'[w] = mut[w]
      BY <1>0, <1>1, Reflexive, Zenon
    <3>2. \A x \in Writers \ {w} : exec'[x] = exec[x] /\ idem'[x] = idem[x] /\ mut'[x] = mut[x]
      BY <1>1, <2>1, <2>2, Zenon
    <3> QED
      BY <1>1, <2>3, <3>1, <3>2, RecordStep, Zenon
<1>3. CASE ~ZeroNoop(w)
  <2>1. exec'[w].pc = "intent" /\ \A x \in Writers \ {w} : exec'[x] = exec[x]
    BY <1>0, <1>3 DEF PlanCopyOnWrite, ExecType
  <2>2. UNCHANGED idem /\ exec[w].pc = "cow"
    BY <1>3, Zenon DEF PlanCopyOnWrite, meta, At
  <2> QED
    BY <1>1, <2>1, <2>2, QuietStep DEF PlanSteps, LoopSteps
<1> QED
  BY <1>2, <1>3, Zenon

\* The intent is stored over a record that is not committed.
LEMMA PutWriteIntentRInv ==
  ASSUME IInv, IInv', RInv, NEW w \in Writers, PutWriteIntent(w) PROVE RInv'
<1>0. /\ exec \in [Writers -> ExecType] /\ vol.revision \in Nat
      /\ idem \in [Writers -> RecordType] /\ mut \in [Writers -> RecordType]
  BY Zenon DEF IInv, TypeOK
<1>1. exec'[w].pc = "payload" /\ \A x \in Writers \ {w} : exec'[x] = exec[x]
  BY <1>0 DEF PutWriteIntent, ExecType
<1>2. UNCHANGED <<vol, mode>> /\ exec[w].pc = "intent"
  BY Zenon DEF PutWriteIntent, env, At
<1>3. /\ mut'[w].state = "running" /\ idem'[w].state \in {"pending", idem[w].state}
      /\ \A x \in Writers \ {w} : idem'[x] = idem[x] /\ mut'[x] = mut[x]
  BY <1>0 DEF PutWriteIntent, IntentRecords
<1>4. mode = "volume_scoped" => Recorded(w)'
  <2>1. mode = "volume_scoped" => idem[w].state # "committed"
    BY <1>2, Zenon DEF RInv, Recorded, PlanSteps
  <2> QED
    BY <1>1, <1>3, <2>1, Zenon DEF Recorded, PlanSteps
<1> QED
  BY <1>0, <1>1, <1>2, <1>3, <1>4, RecordStep

\* Steps that leave the records alone and stay within the loop.
LEMMA LoopRInv ==
  ASSUME IInv, IInv', RInv, NEW w \in Writers,
         \/ LoadChunk(w) \/ StoreChunk(w) \/ PayloadDone(w) \/ AcquireCommitLock(w)
         \/ RebaseState(w) \/ RebasePages(w)
  PROVE  RInv'
<1>0. exec \in [Writers -> ExecType] /\ {"lock", "commit"} \subseteq Steps
  BY DEF IInv, TypeOK, Steps
<1>1. UNCHANGED <<vol, idem, mut, mode>> /\ exec[w].pc \in LoopSteps
  BY Zenon DEF LoadChunk, StoreChunk, PayloadDone, AcquireCommitLock, RebaseState,
         RebasePages, meta, env, At, LoopSteps
<1>2. exec'[w].pc \in LoopSteps /\ \A x \in Writers \ {w} : exec'[x] = exec[x]
  <2>1. CASE LoadChunk(w)
    <3>1. PICK c \in exec[w].todo :
            exec' = [exec EXCEPT ![w].cur = c, ![w].buf = payload[MergeBase(w, c)]]
      BY <2>1, Zenon DEF LoadChunk
    <3>2. exec'[w].pc = exec[w].pc /\ \A x \in Writers \ {w} : exec'[x] = exec[x]
      BY <1>0, <3>1 DEF ExecType
    <3> QED
      BY <1>1, <3>2, Zenon
  <2>2. CASE StoreChunk(w)
    <3>1. PICK c \in exec[w].todo :
            exec' = [exec EXCEPT ![w].todo = @ \ {c}, ![w].cur = NoChunk,
                                 ![w].buf = Zeroes]
      BY <2>2, Zenon DEF StoreChunk
    <3>2. exec'[w].pc = exec[w].pc /\ \A x \in Writers \ {w} : exec'[x] = exec[x]
      BY <1>0, <3>1, Zenon DEF ExecType
    <3> QED
      BY <1>1, <3>2, Zenon
  <2>3. CASE PayloadDone(w)
    <3>1. PICK step \in {"lock", "commit"} : Goto(w, step)
      BY <2>3, Zenon DEF PayloadDone
    <3> QED
      BY <1>0, <3>1, MovedPc, Zenon DEF LoopSteps
  <2>4. CASE AcquireCommitLock(w)
    BY <1>0, <2>4, MovedPc, Zenon DEF AcquireCommitLock, LoopSteps
  <2>5. CASE RebaseState(w)
    BY <1>0, <2>5, Zenon DEF RebaseState, ExecType, LoopSteps
  <2>6. CASE RebasePages(w)
    BY <1>0, <2>6 DEF RebasePages, ExecType, LoopSteps
  <2> QED
    BY <2>1, <2>2, <2>3, <2>4, <2>5, <2>6, Zenon
<1> QED
  BY <1>1, <1>2, QuietStep, Zenon DEF PlanSteps, LoopSteps

\* The transaction takes the next volume revision.
LEMMA CommitMetadataRInv ==
  ASSUME IInv, IInv', RInv, NEW w \in Writers, CommitMetadata(w) PROVE RInv'
<1>0. /\ vol \in [epoch : Nat, revision : Nat]
      /\ idem \in [Writers -> RecordType] /\ mut \in [Writers -> RecordType]
  BY Zenon DEF IInv, TypeOK
<1>1. UNCHANGED mode /\ exec[w].pc = "commit" /\ CommitTransaction(w) /\ CommitAllowed(w)
  BY Zenon DEF CommitMetadata, env, At
<1>2. /\ exec'[w].pc \in {"acked", "hint", "effects", "recover", "failidem"}
      /\ mode = "volume_scoped" => exec'[w].pc # "effects"
      /\ \A x \in Writers \ {w} : exec'[x] = exec[x]
  <2>1. PICK step \in {"acked", "hint", "effects", "recover", "failidem"} :
          Leave(w, step) /\ (mode = "volume_scoped" => step # "effects")
    BY Zenon DEF CommitMetadata, AfterCommit
  <2>2. Goto(w, step) /\ step \in Steps
    BY <2>1 DEF Leave, Steps
  <2> QED
    BY <2>1, <2>2, MovedPc
<1>3. \A x \in Writers \ {w} : idem'[x] = idem[x] /\ mut'[x] = mut[x]
  BY <1>0, <1>1 DEF CommitTransaction
<1>4. ASSUME mode = "volume_scoped"
      PROVE  /\ vol'.revision = vol.revision + 1
             /\ mut'[w] = [state |-> "committed", revision |-> vol.revision + 1]
  <2>1. CommitRevision(w) = vol.revision + 1
    BY <1>1, <1>4 DEF CommitAllowed, CommitRevision
  <2> QED
    BY <1>0, <1>1, <1>4, <2>1 DEF CommitTransaction
<1>5. vol.revision <= vol'.revision
  <2>1. CASE mode = "volume_scoped"
    BY <1>0, <1>4, <2>1
  <2>2. CASE mode # "volume_scoped"
    BY <1>0, <1>1, <2>2 DEF CommitTransaction
  <2> QED
    BY <2>1, <2>2, Zenon
<1>6. ASSUME mode = "volume_scoped"
      PROVE  Recorded(w)' /\ vol.revision < mut'[w].revision
  <2>1. mut'[w].state = "committed" /\ mut'[w].revision = vol.revision + 1
    BY <1>4, <1>6
  <2> QED
    BY <1>0, <1>2, <1>4, <1>6, <2>1 DEF Recorded, PlanSteps
<1> QED
  BY <1>1, <1>2, <1>3, <1>5, <1>6, RecordStep, Zenon

\* Recovery in volume-scoped mode finds a committed record with its effects.
LEMMA RecoverRInv ==
  ASSUME IInv, IInv', RInv, NEW w \in Writers, ApplyEffects(w) \/ Recover(w)
  PROVE  RInv'
<1>0. /\ vol \in [epoch : Nat, revision : Nat] /\ mut \in [Writers -> RecordType]
  BY DEF IInv, TypeOK
<1>1. UNCHANGED <<vol, idem, mode>> /\ exec[w].pc \in {"effects", "recover"}
  BY Zenon DEF ApplyEffects, Recover, env, At
<1>2. /\ exec'[w].pc \in {"acked", "hint", "rebase", "failidem"}
      /\ \A x \in Writers \ {w} : exec'[x] = exec[x]
  <2>1. PICK step \in {"acked", "hint", "rebase", "failidem"} : Leave(w, step)
    BY Zenon DEF ApplyEffects, Recover, AfterCommit
  <2>2. Goto(w, step) /\ step \in Steps
    BY <2>1 DEF Leave, Steps
  <2> QED
    BY <2>2, MovedPc, Zenon
<1>3. \A x \in Writers \ {w} : mut'[x] = mut[x]
  BY <1>0, Zenon DEF ApplyEffects, Recover
<1>4. ASSUME mode = "volume_scoped" PROVE mut' = mut
  <2>1. /\ exec[w].pc = "recover"
        /\ idem[w].state = "committed" => mut[w].state = "committed"
    BY <1>1, <1>4, Zenon DEF RInv, Recorded, LoopSteps
  <2> QED
    BY <2>1, Zenon DEF ApplyEffects, Recover, At
<1>5. mode = "volume_scoped" => Recorded(w)'
  BY <1>1, <1>2, <1>4, Zenon DEF RInv, Recorded, PlanSteps, LoopSteps
<1>6. vol.revision <= vol'.revision
  BY <1>0, <1>1
<1> QED
  BY <1>1, <1>2, <1>3, <1>4, <1>5, <1>6, RecordStep, Zenon

\* Steps out of the loop, and back to its start.
LEMMA LeavingRInv ==
  ASSUME IInv, IInv', RInv, NEW w \in Writers,
         \/ CommitConflict(w) \/ AbandonCommit(w) \/ PayloadFail(w) \/ HintRead(w)
         \/ HintPut(w) \/ HintFail(w) \/ MarkFailedLost(w) \/ Retry(w)
  PROVE  RInv'
<1>0. exec \in [Writers -> ExecType]
  BY Zenon DEF IInv, TypeOK
<1>1. UNCHANGED <<vol, idem, mut, mode>>
  BY Zenon DEF CommitConflict, AbandonCommit, PayloadFail, HintRead, HintPut, HintFail,
         MarkFailedLost, Retry, meta, env
<1>2. CASE CommitConflict(w)
  <2>1. Goto(w, "recover") /\ "recover" \in Steps /\ exec[w].pc = "commit"
    BY <1>2, Zenon DEF CommitConflict, Leave, Steps, At
  <2>2. exec'[w].pc = "recover" /\ \A x \in Writers \ {w} : exec'[x] = exec[x]
    BY <2>1, MovedPc, Zenon
  <2> QED
    BY <1>1, <2>1, <2>2, QuietStep, Zenon DEF PlanSteps, LoopSteps
<1>3. ASSUME NEW step \in {"failidem", "acked", "error", "idle"}, Goto(w, step)
      PROVE  RInv'
  <2>1. step \in Steps
    BY DEF Steps
  <2>2. exec'[w].pc = step /\ \A x \in Writers \ {w} : exec'[x] = exec[x]
    BY <1>3, <2>1, MovedPc, Zenon
  <2> QED
    BY <1>1, <2>2, QuietStep, Zenon DEF PlanSteps, LoopSteps
<1>4. CASE PayloadFail(w)
  <2>1. exec'[w].pc = "failidem" /\ \A x \in Writers \ {w} : exec'[x] = exec[x]
    BY <1>0, <1>4, Zenon DEF PayloadFail, ExecType
  <2> QED
    BY <1>1, <2>1, QuietStep, Zenon DEF PlanSteps, LoopSteps
<1>5. CASE HintRead(w)
  <2>1. exec'[w].pc = "hintput" /\ \A x \in Writers \ {w} : exec'[x] = exec[x]
    BY <1>0, <1>5, Zenon DEF HintRead, ExecType
  <2> QED
    BY <1>1, <2>1, QuietStep, Zenon DEF PlanSteps, LoopSteps
<1> QED
  BY <1>2, <1>3, <1>4, <1>5, Zenon
     DEF AbandonCommit, HintPut, HintFail, MarkFailedLost, Retry, Leave

\* Steps that end a failed request; none of them commits.
LEMMA FailingRInv ==
  ASSUME IInv, IInv', RInv, NEW w \in Writers,
         BeginFail(w) \/ MarkFailedRecord(w) \/ MarkFailedMutation(w)
  PROVE  RInv'
<1>0. /\ vol.revision \in Nat
      /\ idem \in [Writers -> RecordType] /\ mut \in [Writers -> RecordType]
  BY DEF IInv, TypeOK
<1>1. UNCHANGED <<vol, mode>>
  BY Zenon DEF BeginFail, MarkFailedRecord, MarkFailedMutation, env
<1>2. /\ exec'[w].pc \in {"error", "failmut"}
      /\ \A x \in Writers \ {w} : exec'[x] = exec[x]
  <2>1. PICK step \in {"error", "failmut"} : Goto(w, step)
    BY Zenon DEF BeginFail, MarkFailedRecord, MarkFailedMutation
  <2>2. step \in Steps
    BY DEF Steps
  <2> QED
    BY <2>1, <2>2, MovedPc, Zenon
<1>3. /\ \A x \in Writers \ {w} : idem'[x] = idem[x] /\ mut'[x] = mut[x]
      /\ mut'[w].state = "committed" => mut'[w] = mut[w]
  <2>1. CASE BeginFail(w)
    <3>1. CASE UNCHANGED <<idem, mut>>
      BY <3>1, Zenon
    <3>2. CASE IntentRecords(w)
      BY <1>0, <3>2, Zenon DEF IntentRecords
    <3> QED
      BY <2>1, <3>1, <3>2, Zenon DEF BeginFail
  <2>2. CASE MarkFailedRecord(w)
    BY <1>0, <2>2 DEF MarkFailedRecord
  <2>3. CASE MarkFailedMutation(w)
    BY <1>0, <2>3, Zenon DEF MarkFailedMutation
  <2> QED
    BY <2>1, <2>2, <2>3, Zenon
<1>4. mode = "volume_scoped" => Recorded(w)'
  BY <1>1, <1>2, <1>3, Zenon DEF RInv, Recorded, PlanSteps, LoopSteps
<1> QED
  <2>1. vol.revision <= vol'.revision /\ mode' = mode
    BY <1>0, <1>1, Reflexive, Zenon
  <2>2. \A x \in Writers \ {w} : exec'[x] = exec[x] /\ idem'[x] = idem[x] /\ mut'[x] = mut[x]
    BY <1>2, <1>3, Zenon
  <2> QED
    BY <1>3, <1>4, <2>1, <2>2, RecordStep, Zenon

\* A crash changes no record.
LEMMA CrashRInv ==
  ASSUME IInv, IInv', RInv, NEW g \in Gateways, Crash(g) PROVE RInv'
<1>1. UNCHANGED <<vol, idem, mut, mode>>
  BY Zenon DEF Crash, meta, env
<1>2. ASSUME NEW x \in Writers PROVE exec'[x] = exec[x] \/ exec'[x].pc = "dead"
  BY Zenon DEF Crash, NoExec
<1>3. ASSUME mode = "volume_scoped", NEW x \in Writers PROVE Recorded(x)'
  <2>1. Recorded(x)
    BY <1>3, Zenon DEF RInv
  <2> QED
    BY <1>1, <1>2, <2>1, Zenon DEF Recorded, PlanSteps, LoopSteps
<1> QED
  BY <1>1, <1>3, Zenon DEF RInv, OneWritePerRevision

\* A failover keeps the volume revision.
LEMMA FailoverRInv ==
  ASSUME IInv, RInv, PrimaryFailover \/ UNCHANGED vars PROVE RInv'
<1>1. UNCHANGED <<idem, mut, exec, mode>> /\ vol'.revision = vol.revision
  BY Zenon DEF PrimaryFailover, vars, meta, env, IInv, TypeOK
<1> QED
  BY <1>1, Zenon DEF RInv, OneWritePerRevision, Recorded

\* Every step preserves RInv.
LEMMA NextRInv ==
  ASSUME IInv, IInv', RInv, [Next]_vars PROVE RInv'
<1>1. ASSUME NEW w \in Writers, Progress(w) PROVE RInv'
  <2>1. CASE BeginWrite(w) \/ LookupIdempotency(w) \/ PlanPages(w) \/ PlanCopyOnWrite(w)
             \/ PutWriteIntent(w)
    BY <2>1, PlanningRInv, PlanCopyOnWriteRInv, PutWriteIntentRInv, Zenon
  <2>2. CASE LoadChunk(w) \/ StoreChunk(w) \/ PayloadDone(w) \/ AcquireCommitLock(w)
             \/ RebaseState(w) \/ RebasePages(w)
    BY <2>2, LoopRInv, Zenon
  <2>3. CASE CommitMetadata(w) \/ ApplyEffects(w) \/ Recover(w)
    BY <2>3, CommitMetadataRInv, RecoverRInv
  <2>4. CASE CommitConflict(w) \/ HintRead(w) \/ HintPut(w) \/ Retry(w)
    BY <2>4, LeavingRInv, Zenon
  <2>5. CASE MarkFailedRecord(w) \/ MarkFailedMutation(w)
    BY <2>5, FailingRInv, Zenon
  <2> QED
    BY <1>1, <2>1, <2>2, <2>3, <2>4, <2>5, Zenon DEF Progress
<1>2. ASSUME NEW w \in Writers, Failure(w) PROVE RInv'
  BY <1>2, LeavingRInv, FailingRInv DEF Failure
<1> QED
  BY <1>1, <1>2, CrashRInv, FailoverRInv, Zenon DEF Next, WriterNext, AllFinished

\* Volume-scoped commits never share a volume revision, for any number of
\* requests and gateways, through conflicts, lost answers, retries with the
\* same key and failovers (readAndValidateWriteCommitState in repository.go,
\* recoverCommittedWriteAfterCAS in executor.go).
THEOREM RevisionsUnshared == Spec => []OneWritePerRevision
<1>1. Init => RInv
  <2> SUFFICES ASSUME Init, NEW w \in Writers
               PROVE  exec[w].pc = "idle" /\ mut[w].state = "none"
    BY Zenon DEF RInv, OneWritePerRevision, Recorded, PlanSteps, LoopSteps
  <2> QED
    BY Zenon DEF Init, NoExec
<1>2. IInv /\ IInv' /\ RInv /\ [Next]_vars => RInv'
  BY NextRInv
<1>3. RInv => OneWritePerRevision
  BY DEF RInv
<1> QED
  BY <1>1, <1>2, <1>3, Invariance, PTL DEF Spec

=============================================================================
