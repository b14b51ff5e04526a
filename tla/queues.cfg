SPECIFICATION MCSpec
CONSTANTS
  PartitionCount = 6
  MaxId = 7
  Ids <- MCIds
  Fields = {"f", "g"}
  Values <- MCValues
  Strings <- MCStrings
  Procs = {p1, p2, p3}
  Delays = {2}
  BaseDelay = 3
  MaxDelay = 5
  Width = 8
  Jitters = {75, 124}
  MaxFails = 1
  MaxTime = 2
INVARIANTS Coverage LookupInverts FilterLaws
PROPERTIES  QueuedIsServed Converges
CHECK_DEADLOCK FALSE
