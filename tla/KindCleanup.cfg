SPECIFICATION KindSpec
CHECK_DEADLOCK FALSE
CONSTANTS
  None = None
  Orphan = orphan
  KindSizes = {1}
  KindUids = {o1, o2}
  KindBudget = 2
PROPERTY RolesLeftUntouched
