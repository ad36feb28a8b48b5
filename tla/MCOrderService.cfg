CONSTANTS
  Orders = {o1}
  Shipments = {t1}
  NoOrder = NoOrder
  Clients = {c1}
  Listener = Listener
  MaxRequests = 3
  MaxEvents = 2
  MaxFaults = 1
SPECIFICATION FairSpec
INVARIANTS TypeOK ClosingIsFinal LastAnnouncementIsStored
PROPERTY DeliveryClosesOrder
CHECK_DEADLOCK FALSE
