SPECIFICATION Spec
CONSTANTS
  play = play
  collect = collect
  detect = detect
  ActionId <- MCCollectDetect
  KindOf <- MCKindOf
  NoAction = NoAction
  EarlyEvents = TRUE
INVARIANTS
  TypeOK
  EndedSettlesAll
  ActionPointerLive
PROPERTY
  ImplementsCompletion
CHECK_DEADLOCK FALSE
