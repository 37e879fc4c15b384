SPECIFICATION FairSpec
CONSTANTS
  Conn = {c1, c2}
  c1 = c1
  c2 = c2
  MaxTask = 3
  MaxWidget = 1
  Tabs = 1
  Frames = {"message", "answer", "disconnect", "resumeTurn", "resumeRound", "evolve"}
PROPERTIES
  CancelledTurnEnds
  RewindReturns
  AbandonedSessionIsFree
CHECK_DEADLOCK FALSE
