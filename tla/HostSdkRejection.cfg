SPECIFICATION AnyHostSpec
CONSTANTS
  ContinueHeadlessPolicy = TRUE
  MaxIoStalls = 0
  MaxNetworkGaps = 1
  MalformedThreshold = 1
  UInt32Max = 3
  UInt64Max = 1000
  Worlds = {"world"}
  InitialWorld = "world"
  Inputs = {"input"}
  EmptyInput = "input"
  Step <- KeepsWorld
  Overflows <- NeverOverflows
  Capacity = 2
  MaxFrame = 4
  CheckpointInterval = 2
  MaxReports = 3
  FollowsDirectives = FALSE
  Null = Null
PROPERTY RejectionChangesNothing
