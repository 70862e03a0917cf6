SPECIFICATION Spec
CONSTANTS
  u1 = u1
  u2 = u2
  h1 = h1
  h2 = h2
  h3 = h3
  c1 = c1
  c2 = c2
  c3 = c3
  f1 = f1
  f2 = f2
  k1 = k1
  k2 = k2
  None = None
  LockKeys = {"a", "b", "c", "passkey"}
  Overflow = "overflow"
  MaxAttempts = 2
  Window = 1
  BaseLockout = 2
  MaxLockout = 3
  PruneThreshold = 1
  LimitKeys = {"p", "options"}
  Limit = 2
  LimitWindow = 3
  MaxTime = 4
  Users = {u1, u2}
  Handles = {h1, h2, h3}
  Credentials = {c1, c2, c3}
  Requests = {1, 2}
  MaxPerUser = 1
  ChallengeTtl = 1
  PasskeyKey = "passkey"
  OptionsKey = "options"
  Browsers = {"b", "c"}
  Flows = {f1, f2}
  Codes = {k1, k2}
  StateTtl = 1
  Workloads <- MCWorkloads
SYMMETRY Symmetric
INVARIANTS TypeOK BurstBounded ChallengeSpentOnce SessionOfOwnFlow QuotaNearlyKept LateGuessesBounded
PROPERTIES LockHolds
CHECK_DEADLOCK FALSE
