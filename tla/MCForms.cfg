SPECIFICATION InboxSpec
CONSTANTS
  None = None
  b1 = b1
  b2 = b2
  i1 = i1
  i2 = i2
  r1 = r1
  r2 = r2
  t1 = t1
  t2 = t2
  RowIds <- MCRowIds
  Items <- MCItems
  Bodies <- MCBodies
  Rests <- MCRests
  OpenInputs <- MCOpens
  AmendInputs <- MCAmends
  StoredInputs <- MCStored
  MaxRows = 6
  MaxGap = 0
  MaxReads = 2
  MaxSends = 2
  Longest <- EachInbox
INVARIANTS FreshFormIsTaken
PROPERTIES AnswersLand WithdrawsLand FilesWhatWasTicked
CHECK_DEADLOCK FALSE
