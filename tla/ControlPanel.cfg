CONSTANTS
  Radios = {"wifi", "cell"}
  Streams = {"ring", "alarm"}
  FirstStream = "ring"
  MaxLevel = 1
  FirstLevel = 1
  Buttons = {"device.lock", "location.get"}
  Paths = {"/"}
  Root = "/"
  Stub = FALSE
  Prompt = FALSE
  MaxCalls = 2
  MaxMoves = 2
SPECIFICATION Spec
VIEW View
CHECK_DEADLOCK FALSE
INVARIANTS TypeOK OneAtATime ShownIsReal QuietShowsDevice
PROPERTIES BusyEnds
