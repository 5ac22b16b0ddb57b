---------------------------- MODULE MCSnapshotCut ----------------------------
(* Instances of SnapshotCut for TLC. *)
EXTENDS SnapshotCut

CONSTANTS w1, w2, g1

OneChunk  == {1}
OneSector == {"s"}

MCGatewayOf == [w \in Writers |-> g1]

\* Both requests cover the whole chunk.
SameChunk == [w \in Writers |-> {1} \X Sectors]
=============================================================================
