SPECIFICATION Spec
CONSTANTS
  Sockets = {c1, c2}
  Sessions = {s1, s2}
  Processes = {p1, p2}
  MaxSweeps = 1
  MaxPresenceFaults = 0
  Workers = {w1, w2}
  Jobs = {j1, j2, j3}
  Good = {j1, j3}
  QueueSize = 1
  MaxSpawnFaults = 1
  Handlers = {h1}
  MaxBoards = 2
  MaxFiles = 0
  BoardLimit = 1
  StorageLimit = 0
  Poisoned = {1}
  MaxStorageFaults = 0
INVARIANTS
  VerdictIsOwn
PROPERTIES
  DeadLeave CallsReturn JobsComplete
CHECK_DEADLOCK FALSE
