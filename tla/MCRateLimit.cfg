\* Three clients after one identity, a table that two of them fill.
SPECIFICATION Spec
CONSTANTS
  Client = {k1, k2, k3}
  Identity = {i1}
  Dimensions <- MCBoth
  Keys <- MCKeys
  Presented <- MCPresented
  Attempts <- MCAttempts
  Window = 3
  Capacity = 2
  Calls = {c1, c2}
  MaxWait = 1
  MaxClock = 5
SYMMETRY Symmetry
INVARIANTS
  TypeOK
  DeadlineIsHonest
  AtMostTwoWindows
PROPERTIES
  RefusalsAreDeserved
  NoBoundIsForgotten
  ChargedTogether
