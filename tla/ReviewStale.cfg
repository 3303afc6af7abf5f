SPECIFICATION Spec
CONSTANTS
  draft = draft  review = review  sign = sign  done = done  yes = yes  no = no
  NoNode = NoNode
  Node <- LoopNodes
  HumanNode <- LoopHumans
  Start = draft
  Follow <- LoopFollow
  Decision = {yes, no}
  NextMap <- LoopMap
  Attempts = 3
  PostAttempts = 3
  Sla = TRUE
  RegistryOutage = FALSE
  SweepOverlaps = FALSE
  SweepReaches = TRUE
  MaxRacing = 1
  MaxFaults = 0
  MaxTaskCrashes = 0
  MaxVisits = 2
CHECK_DEADLOCK FALSE
PROPERTIES PausedUntilItsTaskIsCompleted
