\* Two instances, two callers that share one of them, a database error, a crash.
SPECIFICATION FairSpec
CONSTANTS
  n1 = n1
  n2 = n2
  c1 = c1
  c2 = c2
  c3 = c3
  Nodes <- MCNodes
  Callers <- MCCallers
  NodeOf <- MCNodeOf
  BatchSize = 2
  LowWatermark = 1
  Capacity = 3
  MaxCalls = 4
  MaxFaults = 1
  MaxCrashes = 1
INVARIANTS NothingWasted
PROPERTIES NeverTwice CallsReturn
CHECK_DEADLOCK FALSE
