SPECIFICATION Calls
CONSTANTS
  Components = {"position", "velocity"}
  World <- SmallWorlds
  BodyCount = 3
  PageBodies = 2
  Capacity = 3
  CheckpointInterval = 4
  MaxFrame = 6
  BodyBytes = 40
  PatchBytes = 48
  PageIndexBytes = 4
  MaxPenalty = 4096
  NoDirty = NoDirty
  NoValue = NoValue
  ChunkSize = 1
  MaxDeltaDepth = 3
  AdaptiveDensityPpm = 500000
INVARIANTS LedgersAndTreesExact StoresAgree
PROPERTY StoresImplement
