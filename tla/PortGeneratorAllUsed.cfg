SPECIFICATION Spec
CONSTANTS
  c1 = c1
  c2 = c2
  g1 = g1
  g2 = g2
  n1 = n1
  n2 = n2
  NoCaller = NoCaller
  Callers = {c1, c2}
  Generators = {g1, g2}
  GenOf <- MCGenOf
  Main <- MCMain
  Reserved <- MCReserved
  StoredPorts = {11}
  Nodes = {n1, n2}
  Reporting = {n1}
  Checked = {12, 13}
  StartPorts = {13}
  MaxCalls = 2
  MaxFaults = 0
  MaxChanges = 0
INVARIANT AllUsedMeansNoneFree
CHECK_DEADLOCK FALSE
