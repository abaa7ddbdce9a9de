SPECIFICATION ServedSpec
CONSTANTS
  u1 = u1
  u2 = u2
  Callers = {u1, u2}
  Conns = {c1, c2}
  Links = {"pipe", "http"}
  Plans <- TwoPlans
  ReadTries = 1
  Tabs = {t1, t2}
  MaxStore = 2
  MaxFaults = 1
  Keys = {1, 2}
  Askers = {t1, t2}
  FeedSize = 1
  MaxEvents = 2
  MaxBoots = 2
  MaxAway = 1
  s1 = s1
  s2 = s2
  p1 = p1
  p2 = p2
  Servers = {s1, s2}
  Runs = {p1, p2}
  Setups <- EachPlace
  ServerTries = 1
  MaxTokens = 2
  MaxRuns = 3
  None = None
  b1 = b1
  b2 = b2
  i1 = i1
  i2 = i2
  r1 = r1
  r2 = r2
  rest1 = rest1
  rest2 = rest2
  RowIds <- MCRowIds
  Bodies <- MCBodies
  Items <- MCItems
  Rests <- MCRests
  OpenInputs <- MCOpens
  AmendInputs <- MCAmends
  StoredInputs <- MCStored
  MaxRows = 5
  MaxGap = 1
  OpenKinds = {"decision", "approval", "stuck", "message", "briefing"}
INVARIANTS StoredOnce AnswerIsSo NeverOlderThanTold EachNoticedOnce NoneLeft NeverLeftWithout CaseTypeOK StateSaysWhatStands AnswerIsToTheQuestion ReplayAgrees SinceMeansIt
PROPERTIES PagesCatchUp SaidIsSo AnswerIsKept QuestionOnlyGrows
CHECK_DEADLOCK FALSE
