SPECIFICATION MessageFairSpec
CONSTANTS
  m1 = m1
  m2 = m2
  Message <- MCMessage
INVARIANTS
  MessageTypeOK
  ReasonBeforeWake
PROPERTIES
  TerminalReleasesWaiter
  ImplementsCompletion
CHECK_DEADLOCK FALSE
