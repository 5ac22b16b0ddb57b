SPECIFICATION Spec
CONSTANTS
  w1 = w1  w2 = w2  w3 = w3
  g1 = g1  g2 = g2
  Writers = {w1, w2}
  Gateways = {g1, g2}
  GatewayOf <- MCGatewayOf
  Chunks <- MCChunks
  Sectors <- OneSector
  Span <- WholeChunks
  ZeroWriters = {}
  InitMapped = {}
  WiredModes = {"volume_scoped", "page_scoped", "range_local", "append_only"}
  MaxChunkId = 4
  MaxAttempts = 2
  MaxRuns = 1
  MaxEpoch = 2
INVARIANTS TypeOK AckedIsReplayable AckedWritesStay NoSharedChunk OneWritePerRevision
