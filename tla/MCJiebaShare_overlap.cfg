SPECIFICATION Spec
CONSTANTS
  b1 = b1
  b2 = b2
  b3 = b3
  Backends = {b1, b2}
  Clusters <- PairCluster
  LockIds = {l1, l2, l3}
  SegIds = {s1, s2, s3}
  None = None
  Dead = Dead
  SlowBuild = TRUE
  LongQueue = FALSE
  Shrinks = FALSE
  ShmFull = FALSE
  Asserts = {TRUE}
  FilesVanish = FALSE
  Reconnect = TRUE
  MaxVersion = 2
  MaxResets = 1
  MaxKills = 1
SYMMETRY Alike
INVARIANTS ReadyComplete TaggedComplete ParserFresh NoSelfDeath
PROPERTY PublishedImmutable
