CONSTANTS
  Alerts = {a1}
  Clients = {c1}
  Consumer = Consumer
  MaxActions = 2
  MaxRequests = 3
  MaxEvents = 2
  MaxFaults = 1
SPECIFICATION FairSpec
INVARIANTS TypeOK ExecutedAsApproved OutcomeIsTrue
PROPERTIES FinishedStaysFinished RunsSettle
CHECK_DEADLOCK FALSE
