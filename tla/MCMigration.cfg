\* Three runs of three versions of the program, which hand two connections to each other.
SPECIFICATION MigrationSpec
CONSTANTS
  Runner = {r1, r2, r3}
  Session = {s1, s2}
  m1 = m1
  m2 = m2
  m3 = m3
  edited = edited
  Migrations = {m1, m2, m3, edited}
  Sets <- MCSets
  Histories <- MCHistories
  None = None
INVARIANTS
  OneRunAtATime
  AppliedIsComplete
PROPERTIES
  ForwardOnly
  EveryRunEnds
CHECK_DEADLOCK FALSE
