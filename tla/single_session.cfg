SPECIFICATION Spec
CONSTANTS
  Sessions = {s1}
  Publishers = {p1, p2}
  Replayers = {p1, p2, sub, repair}
  Subscriber = sub
  Repair = repair
  Channels = {c1, c2, c3, c4, c5}
  NoChannel = none
  Capacity = 1
  MaxSeq = 2
  Page = 1
  Orphans = {2}
  DbErrors = FALSE
  OtherBoards = FALSE
INVARIANT CurrentUnlessCoalesced
SYMMETRY Symmetry
