SPECIFICATION CutSpec
CONSTANTS
  w1 = w1  w2 = w2
  g1 = g1
  Writers = {w1, w2}
  Gateways = {g1}
  GatewayOf <- MCGatewayOf
  Chunks <- OneChunk
  Sectors <- OneSector
  Span <- SameChunk
  ZeroWriters = {}
  InitMapped = {1}
  WiredModes = {"append_only"}
  MaxChunkId = 3
  MaxAttempts = 2
  MaxRuns = 1
  MaxEpoch = 1
  MaxSnapshots = 1
INVARIANTS SnapshotTypeOK OnlyPlannedWritesLeak SnapshotHasAckedWrites
