SPECIFICATION PartSpec
CHECK_DEADLOCK FALSE
CONSTANTS
  None = None
  MaxNode = 2
  Roles = {"prefill", "decode"}
  Scenarios <- Jobs
  b1 = b1
  b2 = b2
  m1 = m1
  Indexes = {0, 1}
  Uids = {1, 2, 3}
  Bodies = {b1, b2}
  Metas = {m1}
  Templates <- SpelledBothWays
  SetBudget = 2
INVARIANT ToleranceKept
PROPERTIES CompletedCoversTarget AttemptNeverRegresses Settles ForeignUntouched SetSettles
