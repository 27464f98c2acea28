\* Leases that outlast one call, as the policy requires, but not a batch of two.
SPECIFICATION PromptSpec
CONSTANTS
  Address = {a1, a2}
  ChallengeId = {c1, c2}
  ClaimId = {k1, k2, k3}
  None = None
  Dispatcher = {d1, d2}
  Lifetime = 4
  ResendInterval = 1
  MaxTime = 3
  Batch = 2
  MaxAttempts = 2
  Lease = 2
  SendTimeout = 1
  Backoff = 1
SYMMETRY Symmetry
INVARIANTS
  NoReclaimInFlight
