-------------------------- MODULE MCIscsiFailover --------------------------
(***************************************************************************)
(* Instances of IscsiFailover for TLC.                                      *)
(***************************************************************************)
EXTENDS IscsiFailover, TLC

CONSTANTS s1, s2, g1, g2, n1, n2

\* Both gateways talk to one node; the other is only projected to.
SharedEndpoint == [g \in Gateways |-> n1]

Symmetric == Permutations(Servers) \cup Permutations(Gateways)
=============================================================================
