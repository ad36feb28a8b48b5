CONSTANTS
  p1 = p1
  Orders = {o1}
  Shipments = {t1}
  NoOrder = NoOrder
  Positions = {p1}
  PositionOf <- SmallPositionOf
  QuantityOf <- SmallQuantityOf
  InitialStock <- SmallStock
  IntMax = 7
  Feed = Feed
  Listener = Listener
  Camel = Camel
  Deltas = {}
  Counts = {}
  ShipmentClients = {c1}
  OrderClients = {c1}
  InventoryClients = {}
  MaxShipmentRequests = 3
  MaxOrderRequests = 1
  MaxInventoryRequests = 0
  MaxFaults = 2
SPECIFICATION FairSpec
PROPERTIES SagaIsGoodsReceipt DeliveredIsBooked
CHECK_DEADLOCK FALSE
