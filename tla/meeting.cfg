SPECIFICATION MeetingSpec
CONSTANTS
  Users = {u1, u2}
  NoUser = nobody
  Organizers = {u1}
  Handlers = {h1, h2}
  Budget = 1
  MaxFaults = 1
  MaxSessions = 2
  MaxRev = 5
  MaxVotes = 3
  Sockets = {c1, c2}
  Sessions = {s1, s2}
  Processes = {p1, p2}
  MaxSweeps = 1
  MaxPresenceFaults = 1
SYMMETRY Symmetry
INVARIANTS
  OneActiveSession
  OverrunBounded
  ShownTallyExact
  ShownEndStays
  PresenceSafe
\* Once MaxSessions have ended nothing is left to do.
CHECK_DEADLOCK FALSE
