SPECIFICATION FairSpec
CONSTANTS
  c1 = c1
  c2 = c2
  h1 = h1
  h2 = h2
  a1 = a1
  a2 = a2
  None = None
  Callers = {c1, c2}
  Nodes = {h1, h2}
  Controllers = {h1}
  Addresses = {a1, a2}
  HwTTL = 1
  ConfTTL = 2
  AddrTTL = 1
  MaxProbe = 1
  Far <- MCFar
  Targets = {h2}
  MaxCalls <- MCCalls
  FirstAddress <- MCFirst
  MaxEvents <- MCEvents
INVARIANTS
  TypeOK
PROPERTIES
  PlacementsMatchNodes
  ConfWasInForce
  AddressWasTrue
  
CHECK_DEADLOCK FALSE
