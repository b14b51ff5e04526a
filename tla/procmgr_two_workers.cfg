SPECIFICATION Spec
CONSTANTS
  Procs = {p1}
  MaxObjects = 2
  MaxUpdates = 2
  GraceReqs = {}
  DefaultGrace = 2
  Channels = {FALSE}
  Reconciles = TRUE
  ShutsDown = FALSE
INVARIANT OneCallPerProcess
CHECK_DEADLOCK FALSE
