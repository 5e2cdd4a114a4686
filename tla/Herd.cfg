SPECIFICATION BoundedDrawing
CONSTANTS
  e1 = e1
  e2 = e2
  e3 = e3
  NoExecutor = NoExecutor
  Temporary = Temporary
  NoHost = NoHost
  Tasks <- HerdTasks
  Configs <- HerdConfigs
  FirstConfig = "all"
  TasksOf <- HerdTasksOf
  MaxTotalTaskInstances <- HerdPool
  OnConfigLoad <- NoAction
  Outcomes <- HerdOutcomes
  Hosts <- OneHost
  Kinds <- MCKinds
  Capacity <- MCCapacity
  Executors <- ThreeExecutors
  Requests <- HerdRequests
  MaxQueuedRequests = 5
  MaxRequests = 2
  MaxId = 3
  Switches <- NoSwitch
  Commands = {"cancel", "abort", "bytask", "reload", "shutdown"}
SYMMETRY ExecutorSymmetry
INVARIANTS IndexesAgree HerderKeepsPromise ExecutorWhileStarted
  PlannedAttended HerdDiagramIsFaithful
PROPERTIES StatusFollowsGraph ShutdownStartsNothing
CHECK_DEADLOCK FALSE
