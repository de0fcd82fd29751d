SPECIFICATION SeededSpec
CONSTANTS
  Instances = {i1, i2}
  Writers = {w1}
  Readers = {}
  Slots = {1, 2, 3}
  NoCid = NoCid
  Cids = {}
  Bodies = {b1}
  ServerBodies = {b1}
  ConfigBodies = {}
  MaxSeq = 3
  MaxEpoch = 1
  PageSize = 2
  Compactors = {k1, k2}
  MinUpdates = 1
  TailPage = 1
  RetentionOn = TRUE
  None = None
  Home = i1
  SeedSeq = 2
SYMMETRY Symmetry
INVARIANTS
  CheckpointsComplete
  RecoveryTailRetained
  PairedHistory
  FencedResidentComplete
