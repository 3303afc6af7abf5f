SPECIFICATION FairSpec
CONSTANTS
  NoReplica = NoReplica
  PastOwner = PastOwner
  Manual = Manual
  Expr <- MixedExprs
  Replica = {a, b}
  Stalls = FALSE
  MaxClock = 4
  Horizon = 2
  Edits = 2
  StatusEdits = 1
  CreateErrors = 1
  MaxCuts = 1
CHECK_DEADLOCK FALSE
INVARIANTS FiresOnce 
PROPERTIES NotSkipped TriggerNodeWins
