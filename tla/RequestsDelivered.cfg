SPECIFICATION FairSpec
CONSTANTS
  Key = {k1, k2}
  Overlap = FALSE
  LateRepeats = FALSE
  Pauses = TRUE
  MaxDeliveries = 3
  MaxCrashes = 1
  MaxPeriods = 1
  Slots = 1
  RestartLimit = 1
  MaxUnread = 1
CHECK_DEADLOCK FALSE
INVARIANTS RepliesAgree CrashesBoundRunsPerKey
PROPERTIES RunsAreNotLost
