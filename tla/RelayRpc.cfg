SPECIFICATION FairSpec
CONSTANTS
  r1 = r1
  r2 = r2
  Req <- MCReq
  MaxSessions = 2
INVARIANTS
  TypeOK
  PendingMatchesCallers
  OnlyOwnCloseInterferes
PROPERTIES
  RequestsReturn
  ImplementsContract
CHECK_DEADLOCK FALSE
