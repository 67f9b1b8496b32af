SPECIFICATION FairSpec
CONSTANTS
  w1 = w1
  w2 = w2
  h1 = h1
  h2 = h2
  v1 = v1
  v2 = v2
  None = None
  Workflows = {w1, w2}
  Nodes = {h1, h2}
  Images = {v1, v2}
  Plans <- MCPlans
  MaxPods = 3
  MaxPolls = 2
INVARIANTS
  TypeOK
  OkMeansDone
  QuietDuringRemoval
  ConfMatchesAccounts
  OneVersionAtATime
PROPERTIES
  MapsOutlivePods
  
CHECK_DEADLOCK FALSE
