\* Three transactions at a time over two accounts and three sessions.
SPECIFICATION LocksSpec
CONSTANTS
  a1 = a1
  a2 = a2
  s1 = s1
  s2 = s2
  s3 = s3
  Account = {a1, a2}
  SessionId = {s1, s2, s3}
  Owner <- MCOwner
  Transaction = {t1, t2, t3}
  NoAccount = NoAccount
SYMMETRY Symmetry
INVARIANTS
  NoLockCycle
