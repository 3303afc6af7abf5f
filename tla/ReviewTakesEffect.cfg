SPECIFICATION FairSpec
CONSTANTS
  draft = draft  review = review  sign = sign  done = done  yes = yes  no = no
  NoNode = NoNode
  Node <- OneNodes
  HumanNode <- OneHumans
  Start = review
  Follow <- OneFollow
  Decision = {no}
  NextMap <- OneMap
  Attempts = 1
  PostAttempts = 2
  Sla = FALSE
  RegistryOutage = TRUE
  SweepOverlaps = TRUE
  SweepReaches = TRUE
  MaxRacing = 1
  MaxFaults = 2
  MaxTaskCrashes = 0
  MaxVisits = 2
CHECK_DEADLOCK FALSE
INVARIANTS WaitsWithATask
PROPERTIES DecisionTakesEffect
