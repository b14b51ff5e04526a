SPECIFICATION Spec
CONSTANTS
  MaxMessages = 4
  Claims = {2}
  MaxRetries = 1
  MaxStarts = 2
  Setups <- RestartSetups
INVARIANT StoppedIsDone
CHECK_DEADLOCK FALSE
