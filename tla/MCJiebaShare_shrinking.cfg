SPECIFICATION Spec
CONSTANTS
  b1 = b1
  b2 = b2
  b3 = b3
  Backends = {b1, b2}
  Clusters <- Apart
  LockIds = {l1, l2, l3}
  SegIds = {s1, s2, s3}
  None = None
  Dead = Dead
  SlowBuild = TRUE
  LongQueue = FALSE
  Shrinks = TRUE
  ShmFull = TRUE
  Asserts = {TRUE}
  FilesVanish = FALSE
  Reconnect = FALSE
  MaxVersion = 1
  MaxResets = 1
  MaxKills = 0
SYMMETRY Alike
INVARIANTS NoDangling LockDiscipline
CHECK_DEADLOCK FALSE
