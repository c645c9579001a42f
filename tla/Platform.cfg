SPECIFICATION Spec
CHECK_DEADLOCK FALSE
CONSTANTS
  None = None
  n1 = n1
  n2 = n2
  Ordinal = ordinal
  RandomNames = {r1, r2, r3}
  DispatchUids = {u1, u2, u3, u4}
  DispatchBudget = 3
  StsTemplates = {1, 2}
  MaxReplicas = 2
  Strategies <- ThreeStrategies
  StsBudget = 2
  Slots = {0, 1}
  Ports = {p1, p2}
  Nodes = {n1, n2}
  GroupUids = {g1, g2}
  InstUids = {u1, u2, u3}
  Schedulings <- ThreeSchedulings
  PacedRoles = {"decode", "prefill"}
  MaxPaced = 5
  Skews = {1, 25, 50, 100}
  Replicas = {q1, q2}
  CAs = {c1, c2, c3, c4, c5, c6, c7, c8}
  Targets = {1, 2}
  CertBudget = 2
  Coordinations = {k1, k2}
  RoleSizes = {0, 1, 2}
  Partitions = {0, 1}
  StoredBefore <- OldObjects
  ApiBudget = 2
  Orphan = orphan
  KindSizes = {0, 1}
  KindUids = {o1, o2, o3}
  KindBudget = 3
  RevNames <- PatchHashes
  HashOf <- PatchHash
  OwnerTemplates <- ThreeTemplates
  HistoryLimit = 0
  Children = {1}
  HistBudget = 2
INVARIANTS PlatformTypeOK NoDuplicates PinnedToHosts SkewKept OneAuthority StoredViewsAgree
PROPERTIES PortsAreLeases ForeignKept RevisionsInUseKept QuietUnlessEdited PlatformSettles
