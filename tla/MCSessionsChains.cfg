\* Rotations, an account-wide revocation and a replaced password against sign-ins.
SPECIFICATION SessionsSpec
CONSTANTS
  Account = {a1}
  SessionId = {s1, s2, s3}
  Request = {r1, r2}
  None = None
  Provisioned <- MCProvisioned
  StoreOperations = {"rotate", "revoke all", "set password"}
  Idle = 2
  Absolute = 2
  ActivityInterval = 1
  MaxRevision = 2
  MaxTime = 0
SYMMETRY Symmetry
INVARIANTS
  PasswordCutoff
  OneOpenPerChain
  RecordedOnce
