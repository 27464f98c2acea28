\* Two overlapping requests on one address, and up to three issuances.
SPECIFICATION RegistrationSpec
CONSTANTS
  Address = {a1}
  ChallengeId = {c1, c2, c3}
  ClaimId = {k1}
  None = None
  Request = {r1, r2}
  Provisioned <- MCProvisioned
  Lifetime = 3
  ResendInterval = 2
  MaxTime = 4
SYMMETRY Symmetry
INVARIANTS
  OneCurrentChallenge
  QueuedOnlyWhileCurrent
  VerifiedByOneConsumption
  ConstraintsHold
  PasswordBehindTheToken
  ResendSpacing
  RetryNeverCollides
PROPERTIES
  SuspensionIsNotUndone
