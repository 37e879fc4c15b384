CONSTANTS
  Inner <- MCInner
  First <- A
  Reporting <- MCReporting
  Workspaces <- MCWorkspaces
  MaxConns = 2
  MaxRestarts = 1
  MaxWire = 1
  MaxRoots = 2
SPECIFICATION Spec
CHECK_DEADLOCK FALSE
INVARIANTS
  IInv
  MirrorIsNewest
  EndedGraphSurvives
  DeletedStaysDeleted
  FreshPageShowsTheEnd
  RebuiltIsNavigable
PROPERTIES
  MirrorKeepsStatus
  EndedGraphIsShown
