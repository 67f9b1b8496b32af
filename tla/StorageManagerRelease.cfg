SPECIFICATION Spec
CONSTANTS
  None = None
  Clusters = {k1, k2}
  Nodes = {n1}
  Sizes = {1}
  MaxCalls = 3
  MaxFaults = 1
  MaxPolls = 1
PROPERTIES
  ReleasesOnlyOwn
CHECK_DEADLOCK FALSE
