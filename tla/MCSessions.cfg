CONSTANTS
  s1 = s1
  s2 = s2
  j1 = j1
  j2 = j2
  r1 = r1
  r2 = r2
  Session <- MCSession
  Job <- MCJob
  Request <- MCRequest
SPECIFICATION FairSpec
INVARIANTS
  EarlyPinProtects
PROPERTIES
  ConnectionsEnd
CHECK_DEADLOCK FALSE
