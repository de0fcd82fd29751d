SPECIFICATION Spec
CONSTANTS
  Instances = {i1, i2}
  Writers = {w1}
  Readers = {}
  Slots = {1, 2, 3}
  NoCid = NoCid
  Cids = {}
  Bodies = {b1}
  ServerBodies = {}
  ConfigBodies = {}
  MaxSeq = 2
  MaxEpoch = 1
  PageSize = 1
  Compactors = {}
  MinUpdates = 1
  TailPage = 1
  RetentionOn = FALSE
  None = None
SYMMETRY Symmetry
INVARIANTS
  HonestClientNotRejected
