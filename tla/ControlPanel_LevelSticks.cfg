CONSTANTS
  Radios = {"wifi"}
  Streams = {"ring"}
  FirstStream = "ring"
  MaxLevel = 1
  FirstLevel = 1
  Buttons = {}
  Paths = {"/"}
  Root = "/"
  Stub = TRUE
  Prompt = TRUE
  MaxCalls = 2
  MaxMoves = 1
SPECIFICATION Spec
CHECK_DEADLOCK FALSE
PROPERTIES LevelSticks
