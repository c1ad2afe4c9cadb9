SPECIFICATION Spec
CONSTANTS
  Worlds <- MCWorlds
  InitialWorld <- MCInitialWorld
  Inputs <- MCInputs
  EmptyInput = "small"
  Step <- MCStep
  Overflows <- MCOverflows
  Capacity = 3
  MaxFrame = 5
  Keys = {"k1", "k2"}
  LastFrame = 2
  MaxLostAnswers = 2
  Payloads = {"a", "b"}
  MaxRecords = 3
  MaxMishaps = 3
  ChunkSize = 1
  TraceCapacity = 2
  FrameCapacity = 2
  MaxEntryBytes = 6
  MaxTotalBytes = 19
  MaxTraceEvents = 2
  ManifestBytes <- EntryBytes
  MaxCiphertext = 50
  BodyLists <- MCBodyLists
  Branches = {1, 2}
  BundleKeys <- MCBundleKeys
  Policies <- MCPolicies
  MaxSteps = 3
  MaxEvidence = 2
  MaxCalls = 3
INVARIANTS
  TimelineIsReplay
  CurrentIsNewest
  RecordsSurvive
  LedgerMatchesWorld
  
  DiagnosisExact
  OpenedIsProtected
PROPERTIES
  AbortedEngineStops
  CorrectionKeepsPast
  NeverOverwrites
  RollbackReportsCrossed
