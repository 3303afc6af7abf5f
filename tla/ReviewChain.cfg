SPECIFICATION Spec
CONSTANTS
  draft = draft  review = review  sign = sign  done = done  yes = yes  no = no
  NoNode = NoNode
  Node <- ChainNodes
  HumanNode <- ChainHumans
  Start = review
  Follow <- ChainFollow
  Decision = {yes, no}
  NextMap <- ChainMap
  Attempts = 3
  PostAttempts = 3
  Sla = TRUE
  RegistryOutage = TRUE
  SweepOverlaps = FALSE
  SweepReaches = TRUE
  MaxRacing = 1
  MaxFaults = 0
  MaxTaskCrashes = 1
  MaxVisits = 2
CHECK_DEADLOCK FALSE
PROPERTIES PausedUntilItsTaskIsCompleted FollowsTheRecordedAnswer HandledOnce
