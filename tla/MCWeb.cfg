\* One tab with two requests under way, and the sessions it and another tab open.
SPECIFICATION WebSpec
CONSTANTS
  Slot = {1, 2}
  SessionId = {s1, s2}
  None = None
PROPERTIES
  RepliesDecideInOrder
  RequestsAreEarned
  LinkGetsItsAnswer
  EveryWaitEnds
CHECK_DEADLOCK FALSE
