\* Two requests, with and without registration.  A process that ended takes no step.
SPECIFICATION LifecycleSpec
CONSTANTS
  Handler = {h1, h2}
  MaxDispatchFailures = 2
INVARIANTS
  StoppedInOrder
  EndsTellTheTruth
PROPERTIES
  EveryStopEnds
CHECK_DEADLOCK FALSE
