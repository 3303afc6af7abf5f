SPECIFICATION Spec
CONSTANTS
  r1 = r1  r2 = r2  a = a  b = b  c = c  e = e
  NoNode = NoNode  Unset = Unset  Free = Free  Departed = Departed
  Replica <- Replicas
  Node <- LoopNodes
  Start = a
  Kind <- LoopKind
  Routes <- LoopRoutes
  Follow <- LoopFollow
  OnError <- LoopOnError
  Tolerant = {}
  Fallible = {}
  LoopLimit = 6
  StableIds = FALSE
  MaxStalls = 0
  RegistryOutage = FALSE
  MaxCrashes = 1
  MaxDbErrors = 0
  MaxCancels = 0
  MaxDuplicates = 0
  MaxDeliveries = 0
  MaxQueue = 1
SYMMETRY Symmetry
CHECK_DEADLOCK FALSE
INVARIANTS FiredOncePerArrival
