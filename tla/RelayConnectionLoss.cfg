SPECIFICATION FairSpec
CONSTANTS
  s1 = s1
  s2 = s2
  s3 = s3
  Socket <- MCSocket
  NoSocket = NoSocket
  BaseDelay = 1000
  MaxDelay = 30000
  MaxAttempts = 2
  UserDisconnects = FALSE
PROPERTY LossIsRepaired
CHECK_DEADLOCK FALSE
