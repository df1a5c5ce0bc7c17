SPECIFICATION FairSpec
CONSTANTS
  b1 = b1
  b2 = b2
  b3 = b3
  Backends = {b1, b2}
  Clusters <- PairCluster
  LockIds = {l1, l2, l3}
  SegIds = {s1, s2, s3}
  None = None
  Dead = Dead
  SlowBuild = FALSE
  LongQueue = TRUE
  Shrinks = FALSE
  ShmFull = FALSE
  Asserts = {TRUE, FALSE}
  FilesVanish = TRUE
  Reconnect = FALSE
  MaxVersion = 1
  MaxResets = 1
  MaxKills = 0
INVARIANT FlagMatchesParser
PROPERTY InitTerminates
CHECK_DEADLOCK FALSE
