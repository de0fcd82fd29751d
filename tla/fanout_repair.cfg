SPECIFICATION RepairSpec
CONSTANTS
  Sessions = {s1}
  Publishers = {}
  Replayers = {sub, repair}
  Subscriber = sub
  Repair = repair
  Channels = {c1, c2, c3, c4}
  NoChannel = none
  Capacity = 2
  MaxSeq = 2
  Page = 1
  Orphans = {}
  DbErrors = TRUE
  OtherBoards = TRUE
INVARIANT NothingDropped
INVARIANT HubConsistent
PROPERTY CursorCatchesUp
