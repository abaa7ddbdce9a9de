SPECIFICATION LiveSpec
CONSTANTS
  a1 = a1
  a2 = a2
  m1 = m1
  w1 = w1
  u1 = u1
  u2 = u2
  Asks <- TwoAsks
  Blocking <- OneAsk
  Messages <- OneMessage
  Lingers <- Either
  FarLapses <- NoLease
  MaxTime <- ThreeRows
  Callers = {u1, u2}
  Conns = {c1, c2}
  Links = {"pipe", "http"}
  Plans <- TwoPlans
  ReadTries = 1
PROPERTIES EveryTurnIsHeard GoneLetsGo EveryCallEnds
CHECK_DEADLOCK FALSE
