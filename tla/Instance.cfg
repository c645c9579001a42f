SPECIFICATION PartSpec
CHECK_DEADLOCK FALSE
CONSTANTS
  Components <- TwoComponents
  MaxSize = 2
  Revisions = {"a", "b", "c"}
  NoRev = "norev"
  Template <- Templates
  TenMinutes = 1
  Int64Bits = 16
  Int32Bits = 8
  Scenarios <- CrashesAndChanges
  MaxDeletes = 1
  MaxSeconds = 31
  MaxRestarts = 16
INVARIANTS CycleIsFound DelayIsExact
PROPERTIES BackoffRespected Recovers NeverBlocked
