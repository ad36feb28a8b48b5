CONSTANTS
  o1 = o1
  o2 = o2
  p1 = p1
  Orders = {o1, o2}
  Positions = {p1}
  PositionOf <- SmallPositionOf
  QuantityOf <- SmallQuantityOf
  InitialStock <- SmallStock
  Clients = {c1}
  Feed = Feed
  Listener = Listener
  Deltas <- SmallDeltas
  Counts <- SmallCounts
  IntMax = 3
  MaxRequests = 2
  MaxEvents = 2
  MaxFaults = 1
SPECIFICATION FairSpec
INVARIANTS TypeOK StockIsLedger LastUpdateIsStored
PROPERTIES ReceiptIsProcessed
CHECK_DEADLOCK FALSE
