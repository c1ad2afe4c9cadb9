SPECIFICATION Spec
CONSTANTS
  ContinueHeadlessPolicy = TRUE
  MaxIoStalls = 1
  MaxNetworkGaps = 2
  MalformedThreshold = 2
  UInt32Max = 3
  UInt64Max = 1000
  Frames = {0, 2}
  MaxReports = 5
INVARIANTS TypeOK EventIsAnswerable EventIsLastCause
PROPERTIES RecoveryIsEarned EscalationIsConsecutive
