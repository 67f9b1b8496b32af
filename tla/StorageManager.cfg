SPECIFICATION FairSpec
CONSTANTS
  None = None
  Clusters = {k1, k2}
  Nodes = {n1}
  Sizes = {1}
  MaxCalls = 2
  MaxFaults = 2
  MaxPolls = 1
INVARIANTS
  TypeOK
  OkMeansDone

  
CHECK_DEADLOCK FALSE
