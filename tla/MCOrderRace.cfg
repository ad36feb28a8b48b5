CONSTANTS
  Orders = {o1}
  Shipments = {t1}
  NoOrder = NoOrder
  Clients = {c1}
  Listener = Listener
  MaxRequests = 2
  MaxEvents = 1
  MaxFaults = 0
SPECIFICATION Spec
INVARIANT ReceiptAnnouncedOnce
CHECK_DEADLOCK FALSE
