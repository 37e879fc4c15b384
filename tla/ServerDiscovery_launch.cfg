SPECIFICATION Spec
CONSTANTS
  Client = {c1, c2}
  c1 = c1
  c2 = c2
  MaxServer = 2
  Port = {8000, 8001}
  Polls = 1
  Faults = {"aging", "slow", "manual", "stop", "kill"}
SYMMETRY CallerSymmetry
INVARIANTS
  IInv
  LaunchExclusion
  OneLaunch
  SoleServerIsRegistered
CHECK_DEADLOCK FALSE
