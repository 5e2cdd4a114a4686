SPECIFICATION Spec
CONSTANTS
  e1 = e1
  e2 = e2
  e3 = e3
  NoExecutor = NoExecutor
  Temporary = Temporary
  NoHost = NoHost
  Tasks <- LoneTasks
  Configs <- LoneConfigs
  FirstConfig = "ab"
  TasksOf <- LoneTasksOf
  MaxTotalTaskInstances <- LonePool
  OnConfigLoad <- LoneOnConfigLoad
  Outcomes <- LoneOutcomes
  Hosts <- TwoHosts
  Kinds <- MCKinds
  Capacity <- MCCapacity
  Executors <- ThreeExecutors
  Requests <- LoneRequests
  MaxQueuedRequests = 2
  MaxRequests = 3
  MaxId = 3
  Switches <- OneSwitch
  Commands = {"host", "reload"}
SYMMETRY ExecutorSymmetry
INVARIANTS LimitsRespected ExecutorsPartitioned NoStartableForgotten
CHECK_DEADLOCK FALSE
