CONSTANTS
  Doors = {d1}
  MaxStarts = 2
  MaxMonitors = 2
  Debounce = 1
  MaxOpen = 1
  MaxFrames = 8
  MaxGap = 1
SPECIFICATION FairSpec
INVARIANTS TypeOK OneMonitorPerDoor ReportIsRight MonitorAgreesWithReport AlertsMatchReport
PROPERTY StopTakesEffect
CHECK_DEADLOCK FALSE
