---------------------------- MODULE MCWriteCommit ----------------------------
(* Instances of WriteCommit for TLC. *)
EXTENDS WriteCommit

CONSTANTS w1, w2, w3, g1, g2

MCChunks   == {0, 1}
OneChunk   == {1}
OneSector  == {"s"}
TwoSectors == {"a", "b"}

\* w1 and w3 share a gateway (and its commit lock), w2 runs on another.
MCGatewayOf == [w \in Writers |-> IF w = w2 THEN g2 ELSE g1]

\* Whole-chunk requests: w1 covers both chunks, the others chunk 1.
WholeChunks == [w \in Writers |-> (IF w = w1 THEN {0, 1} ELSE {1}) \X Sectors]

\* Whole-chunk requests on the same chunk.
SameChunk == [w \in Writers |-> {1} \X Sectors]

\* Whole-chunk requests on different chunks.
OwnChunk == [w \in Writers |-> (IF w = w1 THEN {0} ELSE {1}) \X Sectors]

\* Requests for the two halves of one chunk.
HalfChunks == [w \in Writers |-> {<<1, IF w = w1 THEN "a" ELSE "b">>}]

\* Requests for chunk 0, of which w1 also covers the first half of chunk 1.
ChunkAndHalf == [w \in Writers |-> ({0} \X Sectors) \cup (IF w = w1 THEN {<<1, "a">>} ELSE {})]
=============================================================================
