SPECIFICATION Spec
CONSTANTS
  ContinueHeadlessPolicy = FALSE
  MaxIoStalls = 1
  MaxNetworkGaps = 2
  MalformedThreshold = 2
  UInt32Max = 3
  UInt64Max = 1000
  Frames = {0, 2}
  MaxReports = 5
PROPERTY HaltIsTerminal
