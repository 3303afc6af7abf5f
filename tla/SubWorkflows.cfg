SPECIFICATION FairSpec
CONSTANTS
  outer = outer  inner = inner
  NoWorkflow = NoWorkflow
  NoDefinition = NoDefinition
  Workflow = {outer, inner}
  Definition <- Definitions
  Existing <- AtFirst
  Client = {c1, c2}
  MaxEdits = 2
  MaxDepth = 2
  Slots = 2
  Attempts = 1
  NodeTimeout = TRUE
  WaitForHuman = FALSE
  MaxArrivals = 1
  MaxFaults = 1
  RestartLimit = 500
CHECK_DEADLOCK FALSE
INVARIANTS ChildrenBounded UpdatesAreWhole UpdatesGoThrough
PROPERTIES ComesToRest
