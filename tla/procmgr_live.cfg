SPECIFICATION FairSpec
CONSTANTS
  Procs = {p1}
  MaxObjects = 1
  MaxUpdates = 2
  GraceReqs = {}
  DefaultGrace = 2
  Channels = {FALSE}
  Reconciles = TRUE
  ShutsDown = TRUE
PROPERTIES TerminationCompletes ShutdownDrains
CHECK_DEADLOCK FALSE
