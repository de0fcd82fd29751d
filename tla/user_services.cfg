SPECIFICATION Spec
CONSTANTS
  Handlers = {h1, h2}
  MaxFaults = 1
  KeyLimit = 1
  MaxKeys = 4
  MaxResetCodes = 3
  MaxPasswords = 4
  People = {p1, p2}
  Nobody = nobody
  Admins = {p1, p2}
  MaxSeconds = 3
  TierLimit = 2
  QueueLimit = 2
  MaxRequests = 6
  Creator = creator
  Admin = admin
  Others = {u1}
  Links = {"none", "editor"}
  InviteRoles = {"editor"}
  MaxTokens = 3
  MaxReadFaults = 1
  Defaults = 2
  MaxStatuses = 5
  MaxStatusFaults = 1
  a1 = a1
  a2 = a2
  g = g
  y = y
  v = v
  Addresses = {a1, a2}
  NoEmail = none
  Identities = {g, y, v}
  NoIdentity = noone
  MaxUsers = 2
  MaxCodes = 2
  MaxStarts = 1
SYMMETRY Symmetry
INVARIANTS
  AccountsSafe
  KeysSafe
  ResetsSafe
  PicturesSafe
  AuthorizeSafe
  ReadPathsAgree
  InsertedOnce
PROPERTIES
  OwnersProtected
\* Each service stops when its bounds are used up.
CHECK_DEADLOCK FALSE
