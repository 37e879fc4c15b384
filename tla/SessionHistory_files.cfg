SPECIFICATION Spec
CONSTANTS
  MaxId = 3
  MaxTurn = 2
  MaxRound = 2
  MaxCheckpoint = 2
  MaxFork = 2
  MaxFault = 1
  Events = {"rest", "switch", "hub", "fail", "turnCut", "roundCut", "restore"}
CONSTRAINT Worthwhile
INVARIANTS
  IInv
  BubblesHaveRounds
  SummaryOfTheKept
  SopOfTheKept
  VendorInStep
PROPERTIES
  FreshTurnIsNew
  CutIsRecoverable
  ImplementsSlot
CHECK_DEADLOCK FALSE
