--------------------------- MODULE EffectsQueueLog ----------------------------
(***************************************************************************)
(* The effects queue as an implementation of the commit log: the log's     *)
(* writes are those of the committed transactions, and a write is          *)
(* acknowledged once its caller is.                                        *)
(***************************************************************************)
EXTENDS EffectsQueue

CL == INSTANCE CommitLog WITH
        log <- [i \in DOMAIN log |-> log[i].w],
        acked <- {w \in Writes : caller[w].pc = "acked"}

\* The queue, with its batches, fallbacks, lost answers, crashes and retried
\* calls, implements the commit log: transactions are whole, pages are the
\* replay of the log in its order, only committed writes are acknowledged, and
\* an item left behind by an earlier call of an acknowledged write never
\* applies it again.
Implements == CL!LogSpec
===============================================================================
