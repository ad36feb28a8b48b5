---------------------------- MODULE DeliverySaga ----------------------------
(***************************************************************************)
(* The delivery saga: shipment-service, order-service and                  *)
(* inventory-service, which share nothing but two topics.                  *)
(*                                                                         *)
(*   shipment-service --shipmentsTopic--> order-service                    *)
(*                    --ordersTopic-----> inventory-service                *)
(*                                                                         *)
(* Each service crashes on its own; they share one budget of faults.       *)
(***************************************************************************)
EXTENDS Integers, Kafka

CONSTANTS
  Orders, Shipments, NoOrder, Positions, PositionOf, QuantityOf, InitialStock, IntMax,
  Feed, Listener, Camel, Deltas, Counts,
  ShipmentClients, OrderClients, InventoryClients,
  MaxShipmentRequests, MaxOrderRequests, MaxInventoryRequests,  \* bounds
  MaxFaults                                                     \* bound

VARIABLES
  shipmentsTopic, ordersTopic, faults,  \* shared
  shipments, shipmentTask, visionTopic, alertsTopic, visionPosition, visionCommitted,
  shipmentRequests, shipmentsRaced, shipmentsMissed,
  orders, orderTask, orderPosition, orderCommitted, orderRequests, ordersRaced, ordersMissed,
  stock, processed, inventoryTask, lastUpdate, inventoryPosition, inventoryCommitted,
  inventoryRequests, credited, ledger, inventoryRaced, inventoryMissed

S == INSTANCE ShipmentService WITH
       Clients <- ShipmentClients, MaxRequests <- MaxShipmentRequests, MaxEvents <- 0,
       requests <- shipmentRequests, raced <- shipmentsRaced, missed <- shipmentsMissed

O == INSTANCE OrderService WITH
       Clients <- OrderClients, MaxRequests <- MaxOrderRequests, MaxEvents <- 0,
       position <- orderPosition, committed <- orderCommitted,
       requests <- orderRequests, raced <- ordersRaced, missed <- ordersMissed

I == INSTANCE InventoryService WITH
       Clients <- InventoryClients, MaxRequests <- MaxInventoryRequests, MaxEvents <- 0,
       position <- inventoryPosition, committed <- inventoryCommitted,
       requests <- inventoryRequests, raced <- inventoryRaced, missed <- inventoryMissed

shipmentVars == <<shipments, shipmentTask, visionTopic, shipmentsTopic, alertsTopic, visionPosition,
                  visionCommitted, shipmentRequests, shipmentsRaced, shipmentsMissed>>
orderVars == <<orders, orderTask, ordersTopic, orderPosition, orderCommitted, orderRequests,
               ordersRaced, ordersMissed>>
inventoryVars == <<stock, processed, inventoryTask, lastUpdate, inventoryPosition,
                   inventoryCommitted, inventoryRequests, credited, ledger, inventoryRaced, inventoryMissed>>
vars == <<shipmentVars, orderVars, inventoryVars, faults>>

Init == S!Init /\ O!Init /\ I!Init

\* A shipment is booked against an order that order-service knows, or none.
Book(c, t, o) == S!Create(c, t, o) /\ (o # NoOrder => O!Exists(o))

\* No inspection reaches the vision topic here: a quarantine announces a
\* status like any request does, and a request may announce that one too.
ShipmentStep ==
  /\ \/ S!Handle
     \/ \E c \in ShipmentClients, t \in Shipments, o \in Orders \cup {NoOrder} : Book(c, t, o)
  /\ UNCHANGED <<orderVars, inventoryVars>>

OrderStep == O!Service /\ UNCHANGED <<shipmentVars, inventoryVars>>

InventoryStep == I!Service /\ UNCHANGED <<shipmentVars, orderVars>>

Next == ShipmentStep \/ OrderStep \/ InventoryStep

Spec == Init /\ [][Next]_vars
FairSpec == Spec /\ S!ServiceFairness /\ O!ServiceFairness /\ I!ServiceFairness

-----------------------------------------------------------------------------
(* Properties.                                                             *)

Delivered(o) ==
  \E t \in Shipments, i \in 1..Cardinality(Records(shipmentsTopic)) :
    /\ i \in DOMAIN shipmentsTopic[t]
    /\ shipmentsTopic[t][i] = [type |-> "DELIVERED", order |-> o]

Received(o) == \E i \in DOMAIN ordersTopic[o] : ordersTopic[o][i] = "RECEIVED"
Booked(o) == \E id \in processed : id[1] = o

\* How far an order's goods have come, read off the topics and the table of
\* processed events.
StageOf(o) ==
  IF Booked(o) THEN "booked"
  ELSE IF Received(o) THEN "received"
  ELSE IF Delivered(o) THEN "delivered"
  ELSE "open"

Receipt == INSTANCE GoodsReceipt WITH stage <- [o \in Orders |-> StageOf(o)]

\* While REST clients leave an order's status to the saga, the three services
\* implement GoodsReceipt through crashes, redeliveries, retries and lost
\* sends: no step books goods that were not delivered and received, or books
\* them twice.
SagaIsGoodsReceipt == Receipt!Spec

\* The goods of a delivered order end up in stock unless the saga lost a link:
\* order-service or inventory-service dropped an announcement or gave up on a
\* record (the window between store and publish that EventPublisher admits).
DeliveredIsBooked ==
  \A o \in Orders :
    Delivered(o) ~> Booked(o) \/ o \in ordersMissed \/ PositionOf[o] \in inventoryMissed

=============================================================================
