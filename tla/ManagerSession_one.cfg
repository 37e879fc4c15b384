SPECIFICATION Spec
CONSTANTS
  Conn = {c1, c2}
  c1 = c1
  c2 = c2
  MaxTask = 3
  MaxWidget = 2
  Tabs = 1
  Frames = {"message", "cancel", "answer", "disconnect", "crash", "resumeTurn"}
SYMMETRY ConnSymmetry
INVARIANTS
  StampMatches
  TruncateExclusive
  AnsweredStaysAnswered
PROPERTIES
  NoLateTerminal
CHECK_DEADLOCK FALSE
