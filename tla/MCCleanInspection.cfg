CONSTANTS
  Shipments = {t1}
  Orders = {}
  NoOrder = NoOrder
  Clients = {c1}
  Camel = Camel
  MaxRequests = 2
  MaxEvents = 1
  MaxFaults = 0
SPECIFICATION Spec
PROPERTY CleanInspectionOnlyRecordsNotes
CHECK_DEADLOCK FALSE
