SPECIFICATION FairSpec
CONSTANTS
  NoIns = NoIns
  Instances = {i1, i2}
  i1 = i1
  i2 = i2
  Ops <- MCOps
  MaxCalls = 2
  MaxFaults = 1
  MaxChurn = 1
  MaxPolls = 1
INVARIANTS
  TypeOK
  OkMeansDone
  CommandsGoToOwnPod
PROPERTIES
  StoppedBeforeDelete
  CallsEnd
CHECK_DEADLOCK FALSE
