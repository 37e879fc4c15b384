SPECIFICATION Spec
CONSTANTS
  Target = {a, b}
  Modes = {"keyed", "fresh"}
  MaxTask = 2
  MaxStage = 2
  MaxBreak = 2
  SlashTool = "other"
  Placement = "given"
  Overlap = FALSE
SYMMETRY AnyTarget
INVARIANTS
  IInv
  OneWriter
  LiveNotWrittenOff
  ChipsKeepTheirWorkspace
  RightReuse
  CutIsQuiet
CHECK_DEADLOCK FALSE
