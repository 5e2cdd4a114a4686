SPECIFICATION FairSpec
CONSTANTS
  Alerts <- MCAlerts
  Settings <- MCSettings
  Default <- MCDefault
  Requests <- AllRequests
  BufferSize = 1
  MaxRequests = 4
  MaxTime = 3
  Horizon = 7
INVARIANTS NothingLost NoGhostOnBoards
PROPERTIES ImplementsChannelView TransitionsInTime EveryDelayEnds
CHECK_DEADLOCK FALSE
