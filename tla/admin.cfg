SPECIFICATION Spec
CONSTANTS
  Nodes = {n1, n2, n3}
  Proxies <- MCOneProxy
  Namespaces = {x1}
  Launchers = {l1}
  Patterns = {k1}
  Addrs = {a1}
  Configs = {c1}
  Capacities = {2}
  None = None
  PartitionCount = 4
  PartitionOf <- MCPartitionOf
  Ops = {"RegisterLauncher", "AssignPattern", "UpdateLauncherStatus"}
  MaxCalls = 2
  MaxCrashes = 1
  MaxSnapshots = 1
  StorageFails = FALSE
SYMMETRY MCNodeSymmetry
INVARIANTS ReplicasAgree AckedIsDurable
CHECK_DEADLOCK FALSE
