\* An activity that was resolved before the idle expiry and is written after it.
SPECIFICATION SessionsSpec
CONSTANTS
  Account = {a1}
  SessionId = {s1}
  Request = {r1, r2}
  None = None
  Provisioned <- MCProvisioned
  StoreOperations = {}
  Idle = 2
  Absolute = 3
  ActivityInterval = 1
  MaxRevision = 2
  MaxTime = 3
SYMMETRY Symmetry
PROPERTIES
  ExpiredStaysExpired
