CONSTANTS
  Shipments = {t1}
  Orders = {}
  NoOrder = NoOrder
  Clients = {c1}
  Camel = Camel
  MaxRequests = 2
  MaxEvents = 2
  MaxFaults = 1
SPECIFICATION FairSpec
INVARIANTS TypeOK LastAnnouncementIsStored AlertsFollowQuarantine
PROPERTIES DamageIsAlerted
CHECK_DEADLOCK FALSE
