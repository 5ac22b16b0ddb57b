-------------------------- MODULE MCCloneLifecycle --------------------------
(* Instances of CloneLifecycle for TLC. *)
EXTENDS CloneLifecycle, TLC

CONSTANTS c1, c2, t1, h1, h2

OneChunk == {1}

Symmetric ==
  Permutations(Clones) \cup Permutations(Targets) \cup Permutations(Workers)
=============================================================================
