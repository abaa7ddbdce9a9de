SPECIFICATION ReadSpec
CONSTANTS
  Parts = {"wait"}
  None = None
  a1 = a1
  a2 = a2
  m1 = m1
  w1 = w1
  w2 = w2
  Waits <- Two
  Third = 1
  Asks <- TwoAsks
  Blocking <- OneAsk
  Messages <- OneMessage
  Lingers <- Either
  FarLapses <- OnALease
  MaxTime <- LessOnALease
  MaxChange = 4
  MaxKey = 2
  MaxClock = 2
  MaxId = 2
  HandEdits <- EitherEdit
INVARIANTS NonePassed
