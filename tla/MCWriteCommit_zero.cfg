SPECIFICATION Spec
CONSTANTS
  w1 = w1  w2 = w2  w3 = w3
  g1 = g1  g2 = g2
  Writers = {w1, w2}
  Gateways = {g1, g2}
  GatewayOf <- MCGatewayOf
  Chunks <- MCChunks
  Sectors <- OneSector
  Span <- OwnChunk
  ZeroWriters = {w1}
  InitMapped = {0}
  WiredModes = {"volume_scoped"}
  MaxChunkId = 4
  MaxAttempts = 2
  MaxRuns = 1
  MaxEpoch = 1
INVARIANTS ZeroesReadAsZero
