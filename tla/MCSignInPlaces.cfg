SPECIFICATION SignInSpec
CONSTANTS
  s1 = s1
  s2 = s2
  p1 = p1
  p2 = p2
  Servers = {s1}
  Runs = {p1, p2}
  Setups <- BothPlaces
  ServerTries = 1
  MaxTokens = 2
  MaxRuns = 3
INVARIANTS NoneLeft
CHECK_DEADLOCK FALSE
