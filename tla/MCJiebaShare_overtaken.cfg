SPECIFICATION Spec
CONSTANTS
  b1 = b1
  b2 = b2
  b3 = b3
  Backends = {b1, b2, b3}
  Clusters <- OneCluster
  LockIds = {l1, l2, l3, l4}
  SegIds = {s1, s2, s3, s4}
  None = None
  Dead = Dead
  SlowBuild = FALSE
  LongQueue = TRUE
  Shrinks = TRUE
  ShmFull = FALSE
  Asserts = {TRUE}
  FilesVanish = FALSE
  Reconnect = FALSE
  MaxVersion = 2
  MaxResets = 0
  MaxKills = 0
SYMMETRY Alike
INVARIANT ReadyComplete
CHECK_DEADLOCK FALSE
