SPECIFICATION FairSpec
CONSTANTS
  Addresses = {"admin", "oncall"}
  Alerts = {"host.down", "task.failure"}
  OneShot = {"task.failure"}
  Configs <- TwoConfigs
  IntMax = 100
  Cap = 3
  MaxPending = 1
INVARIANTS WaitingIsScheduled
PROPERTIES ImplementsMailView EveryNoticeMailed
CHECK_DEADLOCK FALSE
