SPECIFICATION Spec
CONSTANTS
  host1 = host1
  host2 = host2
  port1 = port1
  port2 = port2
  host = host
  port = port
  Received = {"Raised", "Canceled"}
  Roots = {r1, r2, r3, r4}
  MaxTime = 1
  Alerts <- MCAlerts
  Configs <- MCConfigs
SYMMETRY Addresses
INVARIANTS ForestIsExact
PROPERTIES ImplementsGridboardView CopyKeepsItsItems
CHECK_DEADLOCK FALSE
