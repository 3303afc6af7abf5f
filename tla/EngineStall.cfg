SPECIFICATION Spec
CONSTANTS
  r1 = r1  r2 = r2  a = a  b = b  c = c  e = e
  NoNode = NoNode  Unset = Unset  Free = Free  Departed = Departed
  Replica <- Replicas
  Node <- PairNodes
  Start = a
  Kind <- PairKind
  Routes <- PairRoutes
  Follow <- PairFollow
  OnError <- PairOnError
  Tolerant = {}
  Fallible = {a}
  LoopLimit = 5
  StableIds = FALSE
  MaxStalls = 1
  RegistryOutage = FALSE
  MaxCrashes = 0
  MaxDbErrors = 1
  MaxCancels = 1
  MaxDuplicates = 0
  MaxDeliveries = 0
  MaxQueue = 1
SYMMETRY Symmetry
CHECK_DEADLOCK FALSE
INVARIANTS StopsWithinOneNode
PROPERTIES LiveLeaseNotStolen
