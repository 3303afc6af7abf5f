SPECIFICATION FairSpec
CONSTANTS
  r1 = r1  r2 = r2  a = a  b = b  c = c  e = e
  NoNode = NoNode  Unset = Unset  Free = Free  Departed = Departed
  Replica <- Replicas
  Node <- Nodes
  Start = a
  Kind <- BranchKind
  Routes <- BranchRoutes
  Follow <- BranchFollow
  OnError <- BranchOnError
  Tolerant <- BranchTolerant
  Fallible <- BranchFallible
  LoopLimit = 5
  StableIds = TRUE
  MaxStalls = 0
  RegistryOutage = TRUE
  MaxCrashes = 2
  MaxDbErrors = 0
  MaxCancels = 0
  MaxDuplicates = 0
  MaxDeliveries = 0
  MaxQueue = 1
CHECK_DEADLOCK FALSE
INVARIANTS ExclusiveWorker RunIsHeld FiredOncePerArrival
PROPERTIES SequentialRun Settles
