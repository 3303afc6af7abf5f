SPECIFICATION FairSpec
CONSTANTS
  r1 = r1  r2 = r2  a = a  b = b  c = c  e = e
  NoNode = NoNode  Unset = Unset  Free = Free  Departed = Departed
  Replica <- Replicas
  Node <- Nodes
  Start = a
  Kind <- WaitKind
  Routes <- WaitRoutes
  Follow <- WaitFollow
  OnError <- None
  Tolerant = {}
  Fallible = {c}
  LoopLimit = 8
  StableIds = FALSE
  MaxStalls = 0
  RegistryOutage = TRUE
  MaxCrashes = 0
  MaxDbErrors = 0
  MaxCancels = 0
  MaxDuplicates = 0
  MaxDeliveries = 3
  MaxQueue = 1
CHECK_DEADLOCK FALSE
INVARIANTS TypeOK
PROPERTIES SequentialRun
