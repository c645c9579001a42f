SPECIFICATION Spec
CONSTANTS
  MaxOrdinal = 0
  Revisions = {"A", "B"}
  InitSpec <- OneA
  Specs <- OneAB
  InPlacePairs <- InPlaceBothWays
  BrokenRevs = {}
  StartSettled = TRUE
  MaxEdits = 3
  MaxFaults = 0
  MaxOutages = 0
  MaxTroubles = 0
PROPERTIES AdvanceIsEarned
CHECK_DEADLOCK FALSE
