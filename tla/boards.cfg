SPECIFICATION Spec
CONSTANTS
  Handlers = {h1, h2}
  MaxBoards = 1
  MaxFiles = 3
  BoardLimit = 1
  StorageLimit = 2
  Poisoned = {}
  MaxStorageFaults = 1
  Media = {m1, m2}
  Documents = {d1}
  MaxGcFaults = 1
  Replicas = {r1, r2}
  PreviewInterval = 1
  MaxVersion = 3
  MaxTime = 4
  MaxPreviewFaults = 1
  Elements = {e1, e2}
  MaxPages = 2
INVARIANTS
  StorageSafe CollectionSafe  ArchiveSafe
SYMMETRY Symmetry
CHECK_DEADLOCK FALSE
