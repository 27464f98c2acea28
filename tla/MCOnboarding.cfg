\* One request at a time and one dispatcher on the same tables.
SPECIFICATION Spec
CONSTANTS
  Address = {a1}
  ChallengeId = {c1, c2}
  ClaimId = {k1, k2, k3}
  None = None
  Request = {r1}
  Dispatcher = {d1}
  Provisioned <- MCProvisioned
  Lifetime = 3
  ResendInterval = 2
  MaxTime = 3
  Batch = 1
  MaxAttempts = 2
  Lease = 2
  SendTimeout = 1
  Backoff = 1
PROPERTIES
  DeliveryIsUnobtrusive
  RequestsAreExpected
