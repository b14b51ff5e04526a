SPECIFICATION FairSpec
CONSTANTS
  None = None
  Clients = {c1, c2}
  Owner = owner
  Ids = {1, 2}
  MaxRetries = 1
  MaxStarts = 2
  MaxMessages = 3
  Setups <- AllSetups
INVARIANTS BatchesKept AckedKept Deduplicated
PROPERTIES CallsReturn AckedPublished
CHECK_DEADLOCK FALSE
