SPECIFICATION FairSpec
CONSTANTS
  c1 = c1
  c2 = c2
  g1 = g1
  g2 = g2
  n1 = n1
  n2 = n2
  NoCaller = NoCaller
  Callers = {c1, c2}
  Generators = {g1}
  GenOf <- MCGenOf1
  Main <- MCMain
  Reserved <- MCReserved
  StoredPorts = {13}
  Nodes = {n1}
  Reporting = {n1}
  Checked = {12}
  StartPorts = {13}
  MaxCalls = 2
  MaxFaults = 3
  MaxChanges = 0
PROPERTIES
  CallsEnd
CHECK_DEADLOCK FALSE
