SPECIFICATION Spec
CONSTANTS
  Conn = {c1, c2}
  c1 = c1
  c2 = c2
  MaxTask = 2
  MaxWidget = 2
  Tabs = 2
  Frames = {"message", "auto", "answer", "confirm", "resumeTurn", "disconnect", "crash", "fail"}
SYMMETRY ConnSymmetry
INVARIANTS
  IInv
  TurnExclusion
  QueueOwnerLive
  NoOrphanTurn
CHECK_DEADLOCK FALSE
