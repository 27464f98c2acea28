\* Two processes, leases that lapse, attempts that run out, failures that stop.
SPECIFICATION FairSpec
CONSTANTS
  Address = {a1}
  ChallengeId = {c1}
  ClaimId = {k1, k2, k3}
  None = None
  Dispatcher = {d1, d2}
  Lifetime = 3
  ResendInterval = 2
  MaxTime = 5
  Batch = 1
  MaxAttempts = 2
  Lease = 2
  SendTimeout = 1
  Backoff = 1
INVARIANTS
  DeliveryTypeOK
  CopiesWithinAttempts
PROPERTIES
  LiveLeaseIsProtected
  NothingIsDroppedUnsent
  EveryRowLeaves
