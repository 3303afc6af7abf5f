SPECIFICATION FairSpec
CONSTANTS
  NoReplica = NoReplica
  PastOwner = PastOwner
  Item = {i1, i2}
  Replica = {a, b}
  Stalls = FALSE
  MaxPerPoll = 1
  Window = 2
  RegistryErrors = 1
  SourceErrors = 1
  CreateErrors = 1
  Toggles = 1
  MaxCuts = 1
  MaxFired = 3
CHECK_DEADLOCK FALSE
INVARIANTS OneRunPerItem
PROPERTIES BacklogNotReplayed NewItemsFire
