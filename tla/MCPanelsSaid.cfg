SPECIFICATION LocalSpec
CONSTANTS
  Moving = {"panels"}
  w1 = w1
  w2 = w2
  Takers = {t1, t2, t3}
  Scopes = {1, 2}
  Nobody = nobody
  Processes <- Two
  Tries = 2
  MaxFiles = 3
  MaxCalls = 2
  MaxEdits = 2
  Briefings = {b}
  Others = {c}
  Passes = {s1}
  After = 2
  MaxClock = 3
  MaxRevision = 5
  Workers = {a}
  WaitIds <- Two
  Lines = {x}
  NoLine = none
  MaxTime = 5
  MaxFails = 1
  Stuck = {k1}
  Messages = {k2}
  Nothing = nothing
  New = new
  Unreadable = unreadable
  MaxRev = 3
  MaxTexts = 2
INVARIANTS NothingSentIsSo
CHECK_DEADLOCK FALSE
