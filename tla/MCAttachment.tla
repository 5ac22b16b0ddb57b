---------------------------- MODULE MCAttachment ----------------------------
(***************************************************************************)
(* Attachment with interchangeable gateways, hosts, calls and requests.    *)
(***************************************************************************)
EXTENDS Attachment, TLC

Symmetry == Permutations(Gateways) \cup Permutations(Hosts)
            \cup Permutations(Calls) \cup Permutations(Requests)
=============================================================================
