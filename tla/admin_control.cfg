SPECIFICATION FairSpec
CONSTANTS
  Nodes = {n1, n2}
  Proxies <- MCTwoProxies
  Namespaces = {x1}
  Launchers = {}
  Patterns = {}
  Addrs = {a1}
  Configs = {c1}
  Capacities = {}
  None = None
  PartitionCount = 4
  PartitionOf <- MCPartitionOf
  Ops = {"RegisterProxy", "CreateNamespace", "UpdateProxyStatus"}
  MaxCalls = 2
  MaxCrashes = 1
  MaxSnapshots = 0
  StorageFails = TRUE
INVARIANTS OwnersAgree StorageNeverAhead
PROPERTY HandlersReturn
CHECK_DEADLOCK FALSE
