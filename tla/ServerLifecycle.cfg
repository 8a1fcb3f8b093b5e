SPECIFICATION FairSpec
CONSTANTS
  r1 = r1
  r2 = r2
  q1 = q1
  s1 = s1
  s2 = s2
  h1 = h1
  Runner <- MCRunner
  Request <- MCRequest
  Server <- MCServer
  NoServer = NoServer
  Signal <- MCSignal
INVARIANTS
  TypeOK
  UnstoppableNeedsRace
PROPERTIES
  StopReturns
  StopEndsServe
CHECK_DEADLOCK FALSE
