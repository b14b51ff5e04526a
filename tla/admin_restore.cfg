SPECIFICATION Spec
CONSTANTS
  Nodes = {n1, n2, n3}
  Proxies <- MCOneProxy
  Namespaces = {x1}
  Launchers = {l1}
  Patterns = {}
  Addrs = {a1}
  Configs = {c1}
  Capacities = {1}
  None = None
  PartitionCount = 4
  PartitionOf <- MCPartitionOf
  Ops = {"RegisterProxy", "RegisterLauncher"}
  MaxCalls = 2
  MaxCrashes = 1
  MaxSnapshots = 1
  StorageFails = FALSE
SYMMETRY MCNodeSymmetry
INVARIANT RestoredNodesRun
CHECK_DEADLOCK FALSE
