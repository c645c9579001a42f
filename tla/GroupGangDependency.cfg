SPECIFICATION GroupSpec
CHECK_DEADLOCK FALSE
CONSTANTS
  Roles = {"decode", "prefill"}
  Scenarios <- GangDependency
  HistoryLimit = 1
  None = None
  Incompatible = Incompatible
PROPERTY Converges
