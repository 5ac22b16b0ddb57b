SPECIFICATION Spec
CONSTANTS
  c1 = c1  c2 = c2
  t1 = t1
  h1 = h1  h2 = h2
  NoClone = NoClone
  NoTarget = NoTarget
  Clones = {c1, c2}
  Targets = {t1}
  Workers = {h1, h2}
  Chunks <- OneChunk
  MaxWrites = 1
SYMMETRY Symmetric
CHECK_DEADLOCK FALSE
INVARIANTS CloneTypeOK NoReferenceLeak RefsMatchClones BaseKept RestoreComplete
