SPECIFICATION FairSpec
CONSTANTS
  Instances = {i1}
  Writers = {w1, w2}
  Readers = {}
  Slots = {1, 2, 3}
  NoCid = NoCid
  Cids = {}
  Bodies = {b1}
  ServerBodies = {b1}
  ConfigBodies = {}
  MaxSeq = 2
  MaxEpoch = 2
  PageSize = 1
  Compactors = {}
  MinUpdates = 1
  TailPage = 1
  RetentionOn = FALSE
  None = None
PROPERTIES
  RequestsEnd
