SPECIFICATION MCSpec
CONSTANTS
  MaxMessages = 4
  Claims = {2, 3}
  MaxRetries = 1
  MaxStarts = 3
  Setups <- AllSetups
  Buffer = 1
  Epoch = 100
  Second = 10
  MaxSubs = 2
  Retention = 1
  Keys = {"a", "b", "c"}
  Clients = {"c1", "c2"}
  Tags = {"on", "off"}
  MaxIdentities = 2
  RetryAttempts = 1
INVARIANTS  HealthyIsConsuming CapacityBound ExpiredNotServed  MulticastAccounts
PROPERTIES PositionKept  LoopRuns
CHECK_DEADLOCK FALSE
