SPECIFICATION SerialSpec
CONSTANTS
  Requests = {w1, w2}
  Codes = {c1, c2}
  Nothing = nothing
  MaxAttempts = 2
  MaxFailed = 2
  MaxPasswords = 2
  MaxVersions = 1
SYMMETRY Symmetric
INVARIANTS
  SessionsEndWithReset
  CodesAreSpent
  LockoutIsExact
PROPERTIES
  DeliveredStands
