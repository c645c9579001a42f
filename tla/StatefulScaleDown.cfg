SPECIFICATION FairSpec
CONSTANTS
  MaxOrdinal = 1
  Revisions = {"A", "B"}
  InitSpec <- OneDownA
  Specs <- OneDownScaled
  InPlacePairs <- InPlaceAB
  BrokenRevs = {}
  StartSettled = TRUE
  MaxEdits = 2
  MaxFaults = 0
  MaxOutages = 0
  MaxTroubles = 1
PROPERTIES Convergence
CHECK_DEADLOCK FALSE
