SPECIFICATION FairSpec
CONSTANTS
  Seconds = 2  Minutes = 2  Hours = 2
  BranchGuard = 4  BodyGuard = 4  MaxItems = 2
  ClientTimeout = 30  StepTimeout = {0, 20}  RequestTimeout = {0, 60}  StepRetries = {0}
  InitialSettings <- MCInitialSettings  NewSettings <- MCNewSettings
  Requests <- MCRequests  Listings <- MCListings
  LowerAmounts = {1, 150, 1000, 2000, 5000}
  CronExpressions <- MCCronExpressions  Clocks <- MCClocks  Froms <- MCFroms
  ParallelSteps <- MCParallelSteps  LoopSteps <- MCLoopSteps  Definitions <- MCDefinitions
CHECK_DEADLOCK FALSE
INVARIANTS NextRunIsTheFirst ExpressionsMeanWhatIsWritten DataStepsAreRight BranchesDoNotInterfere LoopsGoItemByItem
  AnswersAreAttributed DecisionsAreCautious ValidationVouches ConnectorCallsAreWhole OneResult
PROPERTIES RetriesAreSafe StepsEnd
