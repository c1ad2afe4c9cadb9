SPECIFICATION Spec
CONSTANTS
  ContinueHeadlessPolicy = TRUE
  MaxIoStalls = 0
  MaxNetworkGaps = 1
  MalformedThreshold = 2
  UInt32Max = 3
  UInt64Max = 1000
  Worlds = {0, 1}
  InitialWorld = 0
  Inputs = {"turn", "grow"}
  EmptyInput = "turn"
  Step <- Turns
  Overflows <- Outgrows
  Capacity = 2
  MaxFrame = 4
  LogCapacity = 2
  CheckpointInterval = 2
  MaxReports = 2
INVARIANT TimelineKept
PROPERTY TracesTellTheStep
