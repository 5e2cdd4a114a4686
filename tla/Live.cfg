SPECIFICATION FairSpec
CONSTANTS
  e1 = e1
  e2 = e2
  e3 = e3
  NoExecutor = NoExecutor
  Temporary = Temporary
  NoHost = NoHost
  Tasks <- FlowTasks
  Configs <- OneConfig
  FirstConfig = "c"
  TasksOf <- FlowTasksOf
  MaxTotalTaskInstances <- TwoAtOnce
  OnConfigLoad <- NoAction
  Outcomes <- FlowOutcomes
  Hosts <- OneHost
  Kinds <- MCKinds
  Capacity <- MCCapacity
  Executors <- TwoExecutors
  Requests <- FlowRequests
  MaxQueuedRequests = 5
  MaxRequests = 1
  MaxId = 3
  Switches <- NoSwitch
  Commands = {"cancel", "abort", "shutdown"}
PROPERTIES EveryInstanceEnds ShutdownEnds
CHECK_DEADLOCK FALSE
