SPECIFICATION PartSpec
CHECK_DEADLOCK FALSE
CONSTANTS
  None = None
  Roles = {"decode", "prefill"}
  Scenarios <- All
  HistoryLimit = 1
  Incompatible = Incompatible
  MaxOrdinal = 2
  Revisions = {"A", "B", "C"}
  InitSpec <- OrderedA
  Specs <- Changes
  InPlacePairs = {}
  BrokenRevs = {"B"}
  StartSettled = TRUE
  MaxEdits = 2
  MaxFaults = 1
  MaxOutages = 0
  MaxTroubles = 1
PROPERTIES CreatedAfterDependencies NoInheritance NoChurn Converges Convergence OrderedCreation
