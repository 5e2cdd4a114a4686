SPECIFICATION Spec
CONSTANTS
  e1 = e1
  e2 = e2
  e3 = e3
  NoExecutor = NoExecutor
  Temporary = Temporary
  NoHost = NoHost
  Tasks <- TwoTasks
  Configs <- OneConfig
  FirstConfig = "c"
  TasksOf <- OnStartHerd
  MaxTotalTaskInstances <- TwoAtOnce
  OnConfigLoad <- NoAction
  Outcomes <- AnyOutcome
  Hosts <- OneHost
  Kinds <- MCKinds
  Capacity <- MCCapacity
  Executors <- TwoExecutors
  Requests <- FlowRequests
  MaxQueuedRequests = 5
  MaxRequests = 3
  MaxId = 6
  Switches <- NoSwitch
  Commands = {}
SYMMETRY ExecutorSymmetry
INVARIANTS MaxInstancesRespected
CHECK_DEADLOCK FALSE
