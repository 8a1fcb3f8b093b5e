SPECIFICATION FairSpec
CONSTANTS
  ringing = ringing
  answered = answered
  ended = ended
  other = other
  Unknown = Unknown
  Target <- MCTarget
  Waiter <- MCKnown
  OnEnded <- MCOnEnded
  Timed <- MCTimed
INVARIANTS
  TypeOK
  NoLostWakeup
  TrueMeansReached
PROPERTIES
  NoTimeoutAfterReached
  ReachedReturns
