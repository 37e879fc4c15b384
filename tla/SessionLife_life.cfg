SPECIFICATION Spec
CONSTANTS
  Session = {a}
  Key = {k}
  Request = {r1, r2}
  Tabs = 1
  MaxRun = 2
  MaxBirth = 2
  MaxHub = 1
  Kinds = {"delete", "close", "command", "submission", "open", "turn", "rewind", "connect", "late", "shutdown"}
SYMMETRY Sym
INVARIANTS
  IInv
  DeleteFollowsItsRuns
PROPERTY NoResurrection
CHECK_DEADLOCK FALSE
