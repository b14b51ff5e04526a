SPECIFICATION Spec
CONSTANTS
  Procs = {p1}
  MaxObjects = 2
  MaxUpdates = 2
  GraceReqs = {1, 3}
  DefaultGrace = 2
  Channels = {TRUE}
  Reconciles = TRUE
  ShutsDown = FALSE
INVARIANTS StopInterruptsSync NoProcessForgotten NoUpdateLost
PROPERTIES  OneWayLifecycle
CHECK_DEADLOCK FALSE
