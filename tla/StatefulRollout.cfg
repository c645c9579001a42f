SPECIFICATION SceneSpec
CONSTANTS
  MaxOrdinal = 3
  Revisions = {"A", "B", "C"}
  InitSpec <- RollingA
  Specs <- AnyScene
  InPlacePairs <- InPlaceAB
  BrokenRevs = {}
  StartSettled = TRUE
  MaxEdits = 2
  MaxFaults = 1
  MaxOutages = 1
  MaxTroubles = 1
INVARIANTS TypeOK FloorInOneRollout PartitionPinned
PROPERTIES SurgeHeld
CHECK_DEADLOCK FALSE
