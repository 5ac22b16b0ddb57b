SPECIFICATION GcSpec
CONSTANTS
  w1 = w1  w2 = w2
  g1 = g1
  Writers = {w1}
  Gateways = {g1}
  GatewayOf <- MCGatewayOf
  Chunks <- TwoChunks
  Sectors <- TwoSectors
  Span <- ChunkAndHalf
  ZeroWriters = {w1}
  InitMapped = {1, 2}
  WiredModes = {"append_only"}
  MaxChunkId = 3
  MaxAttempts = 1
  MaxRuns = 1
  MaxEpoch = 1
  MaxSnapshots = 1
  MaxSweeps = 2
INVARIANTS GcTypeOK QuietSweepKeepsReachable
