\* Two overlapping requests that reach the service today, and suspensions.
SPECIFICATION SessionsSpec
CONSTANTS
  Account = {a1}
  SessionId = {s1, s2}
  Request = {r1, r2}
  None = None
  Provisioned <- MCProvisioned
  StoreOperations = {"suspend"}
  Idle = 2
  Absolute = 3
  ActivityInterval = 1
  MaxRevision = 2
  MaxTime = 3
SYMMETRY Symmetry
INVARIANTS
  SessionsTypeOK
PROPERTIES
  ActivityMovesForward
  EndsAreFinal
  SuspensionStopsWrites
