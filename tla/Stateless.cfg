SPECIFICATION Spec
CONSTANTS
  None = None
  Revisions = {r1, r2}
  Scenarios <- All
  Budget = 2
PROPERTIES SurgeKept FloorKeptButSpecified PartitionKept Converges
CHECK_DEADLOCK FALSE
