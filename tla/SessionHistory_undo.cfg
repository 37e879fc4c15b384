SPECIFICATION Spec
CONSTANTS
  MaxId = 3
  MaxTurn = 2
  MaxRound = 2
  MaxCheckpoint = 2
  MaxFork = 2
  MaxFault = 0
  Events = {"turnCut", "restore"}
INVARIANT RestoredInLine
CHECK_DEADLOCK FALSE
