SPECIFICATION Spec
CONSTANTS
  in1 = in1
  leg1 = leg1
  leg2 = leg2
  d1 = d1
  Inbound = Inbound
  NoCall = NoCall
  CallId <- MCCalls
  Dialer <- MCDialer
  LegOf <- MCLegOf
  MaxActiveCalls = 1
  MaxSessions = 2
SYMMETRY MCLegs
INVARIANTS
  TypeOK
  PointersLive
  TerminalEventResolvesDial
  DialPromiseOnce
  ReturnedCallIsRouted
CHECK_DEADLOCK FALSE
