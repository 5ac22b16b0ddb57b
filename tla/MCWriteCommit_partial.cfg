SPECIFICATION FairSpec
CONSTANTS
  w1 = w1  w2 = w2  w3 = w3
  g1 = g1  g2 = g2
  Writers = {w1, w3}
  Gateways = {g1, g2}
  GatewayOf <- MCGatewayOf
  Chunks <- MCChunks
  Sectors <- TwoSectors
  Span <- ChunkAndHalf
  ZeroWriters = {w1, w3}
  InitMapped = {0, 1}
  WiredModes = {"volume_scoped"}
  MaxChunkId = 6
  MaxAttempts = 2
  MaxRuns = 2
  MaxEpoch = 1
INVARIANTS NeighboursKept
PROPERTY RequestsEnd
