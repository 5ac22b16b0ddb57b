------------------------------ MODULE CommitLog ------------------------------
(***************************************************************************)
(* What the append-only commit path promises its callers: one log of       *)
(* committed writes, grown by whole transactions; allocation pages that     *)
(* are at every moment the replay of that log; an acknowledgement only for  *)
(* a write in the log; and no second application of an acknowledged write.  *)
(* EffectsQueue implements it (EffectsQueue!Implements).                    *)
(***************************************************************************)
EXTENDS Naturals, Sequences, FiniteSetsExt, Functions

CONSTANTS
    Writes,     \* idempotency keys of the writes of one volume
    Chunks,     \* chunk slots of the volume's allocation pages
    Touches,    \* Touches[w] = the slots whose chunk ids write w installs
    NoWrite,    \* what a slot no committed write has touched holds
    BatchMax    \* the most writes one transaction commits

VARIABLES
    log,        \* the committed writes, oldest first
    page,       \* page[c] = the write whose chunk slot c names
    acked       \* the writes the caller was told are committed

logVars == <<log, page, acked>>

\* The places of sequence s whose write touches slot c.
Touching(s, c) == {i \in DOMAIN s : c \in Touches[s[i]]}

\* Page pg after the writes of sequence s were applied in order: a slot names
\* the last write that touches it.
Replay(pg, s) ==
    [c \in Chunks |-> IF Touching(s, c) = {} THEN pg[c] ELSE s[Max(Touching(s, c))]]

LogInit ==
    /\ log = <<>>
    /\ page = [c \in Chunks |-> NoWrite]
    /\ acked = {}

\* One transaction commits the writes of s, all or none of them.
Commit(s) ==
    /\ IsInjective(s)
    /\ Range(s) \cap acked = {}
    /\ log' = log \o s
    /\ page' = Replay(page, s)
    /\ UNCHANGED acked

\* Several callers may learn of one transaction at once.
Ack(S) ==
    /\ S \subseteq Range(log)
    /\ acked' = acked \cup S
    /\ UNCHANGED <<log, page>>

LogNext ==
    \/ \E n \in 0 .. BatchMax : \E s \in [1 .. n -> Writes] : Commit(s)
    \/ \E S \in SUBSET Writes : Ack(S)

LogSpec == LogInit /\ [][LogNext]_logVars
==============================================================================
