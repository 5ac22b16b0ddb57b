----------------------------- MODULE MCPayloadGC -----------------------------
(* Instances of PayloadGC for TLC. *)
EXTENDS PayloadGC

CONSTANTS w1, w2, g1

OneChunk   == {1}
TwoChunks  == {1, 2}
OneSector  == {"s"}
TwoSectors == {"a", "b"}

MCGatewayOf == [w \in Writers |-> g1]

\* A request for chunk 1 and the first half of chunk 2.
ChunkAndHalf == [w \in Writers |-> {<<1, "a">>, <<1, "b">>, <<2, "a">>}]

\* Requests for the whole chunk.
SameChunk == [w \in Writers |-> {1} \X Sectors]
=============================================================================
