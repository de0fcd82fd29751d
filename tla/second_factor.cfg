SPECIFICATION Spec
CONSTANTS
  Users = {u1}
  NoUser = nobody
  Handlers = {h1, h2}
  MaxAttempts = 2
  MaxSecrets = 2
  MaxChallenges = 2
  MaxFaults = 1
SYMMETRY Symmetry
INVARIANT
  GuessesLimited
PROPERTY
  SecretsUsedOnce
