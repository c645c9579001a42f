SPECIFICATION Spec
CHECK_DEADLOCK FALSE
CONSTANTS
  Components <- TwoComponents
  MaxSize = 2
  Revisions = {"a", "b", "c"}
  NoRev = "norev"
  Template <- Templates
  TenMinutes = 1
  Int64Bits = 16
  Int32Bits = 8
  Scenarios <- OnlyTearDown
PROPERTY DeleteOrder
