SPECIFICATION Spec
CONSTANTS
  Conn = {c1}
  c1 = c1
  MaxTask = 2
  MaxWidget = 2
  Tabs = 1
  Frames = {"message", "auto", "answer"}
PROPERTIES
  AnswersFit
CHECK_DEADLOCK FALSE
