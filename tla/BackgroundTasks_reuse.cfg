SPECIFICATION Spec
CONSTANTS
  Target = {a, b}
  Modes = {"keyed"}
  MaxTask = 2
  MaxStage = 2
  MaxBreak = 1
  SlashTool = "other"
  Placement = "own"
  Overlap = FALSE
INVARIANTS
  RightReuse
CHECK_DEADLOCK FALSE
