SPECIFICATION Spec
CONSTANTS
  Session = {a}
  Key = {k}
  Request = {r1, r2}
  Tabs = 2
  MaxRun = 3
  MaxBirth = 1
  MaxHub = 0
  Kinds = {"command"}
SYMMETRY Sym
INVARIANT OneRunPerId
CHECK_DEADLOCK FALSE
