SPECIFICATION FairSpec
CONSTANTS
  None = None
  Clients = {c1, c2}
  Owner = owner
  Ids = {1}
  MaxRetries = 1
  MaxStarts = 1
  MaxMessages = 3
  Setups <- StopSetups
PROPERTY StopReturns
CHECK_DEADLOCK FALSE
