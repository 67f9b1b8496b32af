SPECIFICATION FairSpec
CONSTANTS
  c1 = c1
  c2 = c2
  c3 = c3
  g1 = g1
  g2 = g2
  NoCaller = NoCaller
  NoGen = NoGen
  Callers = {c1, c2, c3}
  Generators = {g1, g2}
  GenOf <- MCGenOf
  Batches = {2}
  DefaultId = 10
  StoredIds = {3}
  MaxCalls = 3
  MaxFaults = 2
INVARIANTS
  TypeOK
  IdsUnique
  IdsFollowCallOrder
  NoConflictWithinGenerator
PROPERTIES
  CounterNeverGoesBack
  CallsEnd
  ImplementsIdService
CHECK_DEADLOCK FALSE
