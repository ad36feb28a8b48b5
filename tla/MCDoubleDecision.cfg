CONSTANTS
  Alerts = {a1}
  Clients = {c1, c2}
  Consumer = Consumer
  MaxActions = 1
  MaxRequests = 3
  MaxEvents = 0
  MaxFaults = 0
SPECIFICATION Spec
INVARIANT DecidedOnce
CHECK_DEADLOCK FALSE
