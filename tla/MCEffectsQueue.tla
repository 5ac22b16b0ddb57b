---------------------------- MODULE MCEffectsQueue ----------------------------
(***************************************************************************)
(* EffectsQueue with two writes of one lane: one slot is theirs both, the  *)
(* other one write's alone.  A channel of one item makes the second of two *)
(* waiting commits an overflow goroutine's.                                *)
(***************************************************************************)
EXTENDS EffectsQueueLog, TLC

CONSTANTS w1, w2, c1, c2, extent, all

Touching == (w1 :> {c1}) @@ (w2 :> {c1, c2})
LaneOf == (w1 :> extent) @@ (w2 :> extent)

\* A write of one extent beside one of several, whose lane is the volume's.
AcrossLanes == (w1 :> extent) @@ (w2 :> all)
===============================================================================
