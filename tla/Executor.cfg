SPECIFICATION FairSpec
CONSTANTS
  InstanceCount = 6
  Config <- Means
  FailAtOnce = {"try"}
  MaxRunning = 3
  MaxAborts = 2
INVARIANTS TriesBounded
PROPERTIES ImplementsExecution OutcomesAreEarned LeavesNothingBehind EveryExecutionStops
CHECK_DEADLOCK FALSE
