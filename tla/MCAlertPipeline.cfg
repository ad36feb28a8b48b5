CONSTANTS
  p1 = p1
  Logs <- AllLogs
  Grace = 0
  MaxTime = 1
  MaxRestores = 1
  MAX_ALERTS = 2
  Partitions = {p1, p2}
  Raised <- ByHand
  Unreadable <- NoAlert
  PartitionsFor <- SomePartitionsFor
  MaxRaised = 3
  MaxTrouble = 2
SPECIFICATION MCSpec
INVARIANTS TypeOK AlertsAreDue CaughtUpShowsNewest PushedAgainOnlyWhenFull
PROPERTY EveryReasonIsAlerted
CHECK_DEADLOCK FALSE
