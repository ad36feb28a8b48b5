---------------------------- MODULE OrderService ----------------------------
(***************************************************************************)
(* order-service: purchase orders, changed by REST requests and by the     *)
(* listener on the shipments topic (the middle step of the delivery saga). *)
(* Each change is announced on the orders topic, where inventory-service   *)
(* waits for ORDER_RECEIVED.                                               *)
(*                                                                         *)
(* An announcement is the status it reports: publish() names the event     *)
(* "ORDER_" + status and the rest of its payload never changes.  For the   *)
(* same reason a handler's private copy of the row matters only through    *)
(* the check made on it, and the step that stores it writes `to`.          *)
(***************************************************************************)
EXTENDS Kafka, Handlers

CONSTANTS
  Orders,       \* order numbers
  Shipments,    \* tracking numbers, the keys of the shipments topic
  NoOrder,      \* the orderNumber of a shipment that is not linked to an order
  Clients,      \* HTTP request threads
  Listener,     \* the one consumer thread of the shipments listener
  MaxRequests,  \* bound: REST requests in a behaviour
  MaxEvents,    \* bound: shipment events in a behaviour
  MaxFaults     \* bound: crashes, failed handlers and lost sends in a behaviour

ASSUME OrderConstants ==
  /\ NoOrder \notin Orders
  /\ Listener \notin Clients
  /\ {MaxRequests, MaxEvents, MaxFaults} \subseteq Nat

VARIABLES
  orders,          \* table purchase_orders: the stored status, or "absent"
  orderTask,       \* what each thread is doing
  shipmentsTopic,  \* read by the listener
  ordersTopic,     \* written by publish()
  position,        \* the listener's place in the shipments topic
  committed,       \* where a restarted listener resumes
  requests,        \* REST requests so far
  faults,          \* faults so far
  raced,           \* history: orders on which an outdated handler acted
  missed           \* history: orders that lost an announcement or a shipment event

serviceVars == <<orders, orderTask, ordersTopic, position, committed, requests, raced, missed>>
vars == <<serviceVars, shipmentsTopic, faults>>

Status == {"CREATED", "APPROVED", "SHIPPED", "RECEIVED", "CANCELLED"}
ClosedStatus == {"RECEIVED", "CANCELLED"}
Threads == Clients \cup {Listener}
Task == {Idle} \cup [pc: {"read", "saved"}, key: Orders, to: Status,
                     from: Shipments \cup {"rest"}, stale: BOOLEAN]

isClosed_ReceivedOnly(o) == orders[o] = "RECEIVED"
isClosed(o) == orders[o] \in ClosedStatus
Exists(o) == orders[o] # "absent"

\* The table after orders.save(), which inserts or overwrites (insert() with
\* IF NOT EXISTS would not overwrite); the copy saved differs in its status only.
Stored_InsertOnly(o, status) == IF Exists(o) THEN orders ELSE [orders EXCEPT ![o] = status]
Stored(o, status) == [orders EXCEPT ![o] = status]

\* Where the restarted listener resumes: at the last committed offset, which
\* is the start of the log (auto-offset-reset: earliest) if it has none.
Resumed_Latest == [t \in Shipments |-> Len(shipmentsTopic[t])]
Resumed == committed

Init ==
  /\ orders = [o \in Orders |-> "absent"]
  /\ orderTask = [h \in Threads |-> Idle]
  /\ shipmentsTopic = EmptyTopic(Shipments)
  /\ ordersTopic = EmptyTopic(Orders)
  /\ position = AtStart(Shipments)
  /\ committed = AtStart(Shipments)
  /\ requests = 0
  /\ faults = 0
  /\ raced = {}
  /\ missed = {}

-----------------------------------------------------------------------------
(* REST requests.  A request that is refused (unknown or closed order)     *)
(* changes nothing and is not a step.                                      *)

NewRequest(c) ==
  /\ orderTask[c] = Idle
  /\ requests < MaxRequests
  /\ requests' = requests + 1

\* create: the number is fresh, so nobody else works on the row yet.  The
\* catalog lookup before it only decides whether the order is placed at all.
Create(c, o) ==
  /\ NewRequest(c)
  /\ ~ Exists(o)
  /\ orders' = Stored(o, "CREATED")
  /\ orderTask' = [orderTask EXCEPT ![c] =
                     [pc |-> "saved", key |-> o, to |-> "CREATED", from |-> "rest", stale |-> FALSE]]
  /\ UNCHANGED <<ordersTopic, position, committed, raced, missed, shipmentsTopic, faults>>

\* updateStatus up to its check: any status may be asked for an open order.
UpdateRead(c, o, status) ==
  /\ NewRequest(c)
  /\ Exists(o) /\ ~ isClosed(o)
  /\ orderTask' = [orderTask EXCEPT ![c] =
                     [pc |-> "read", key |-> o, to |-> status, from |-> "rest", stale |-> FALSE]]
  /\ UNCHANGED <<orders, ordersTopic, position, committed, raced, missed, shipmentsTopic, faults>>

-----------------------------------------------------------------------------
(* The saga step onShipmentEvent.                                          *)

\* A way to get it wrong: the shipment's own status ends up in the order.
Reaction_ShipmentStatus(e) ==
  IF e.order \in Orders /\ Exists(e.order) /\ ~ isClosed(e.order) THEN {e.type} ELSE {}

\* The statuses the event asks for, given the order as read: none or one.
Reaction(e) ==
  IF e.order \notin Orders THEN {}
  ELSE {s \in Status :
          \/ /\ e.type = "IN_TRANSIT"
             /\ orders[e.order] \in {"CREATED", "APPROVED"}
             /\ s = "SHIPPED"
          \/ /\ e.type = "DELIVERED"
             /\ Exists(e.order) /\ ~ isClosed(e.order)
             /\ s = "RECEIVED"}

ListenerRead(t) ==
  /\ orderTask[Listener] = Idle
  /\ HasNext(shipmentsTopic, position, t)
  /\ LET e == NextRecord(shipmentsTopic, position, t) IN
       \/ /\ Reaction(e) = {}
          /\ position' = Advanced(position, t)
          /\ UNCHANGED orderTask
       \/ \E s \in Reaction(e) :
          /\ orderTask' = [orderTask EXCEPT ![Listener] =
                             [pc |-> "read", key |-> e.order, to |-> s, from |-> t, stale |-> FALSE]]
          /\ UNCHANGED position
  /\ UNCHANGED <<orders, ordersTopic, committed, requests, raced, missed, shipmentsTopic, faults>>

-----------------------------------------------------------------------------
(* transition(): store, then publish.                                      *)

MarkRaced(h) == raced' = IF orderTask[h].stale THEN raced \cup {orderTask[h].key} ELSE raced

\* The handler is over; the listener goes on to its next record.
Finish(h) ==
  /\ orderTask' = [orderTask EXCEPT ![h] = Idle]
  /\ position' = IF h = Listener THEN Advanced(position, orderTask[h].from) ELSE position

Save(h) ==
  /\ orderTask[h].pc = "read"
  /\ orders' = Stored(orderTask[h].key, orderTask[h].to)
  /\ orderTask' = Overtake(orderTask, h, orderTask[h].key,
                           [orderTask[h] EXCEPT !.pc = "saved", !.stale = FALSE])
  /\ MarkRaced(h)
  /\ UNCHANGED <<ordersTopic, position, committed, requests, missed, shipmentsTopic, faults>>

Publish(h) ==
  /\ orderTask[h].pc = "saved"
  /\ ordersTopic' = Published(ordersTopic, orderTask[h].key, orderTask[h].to)
  /\ Finish(h)
  /\ MarkRaced(h)
  /\ UNCHANGED <<orders, committed, requests, missed, shipmentsTopic, faults>>

-----------------------------------------------------------------------------
(* Faults.                                                                 *)

Fault == faults < MaxFaults /\ faults' = faults + 1

Unannounced(hs) == {orderTask[h].key : h \in {g \in hs : orderTask[g].pc = "saved"}}

\* The send fails after send() has returned: relay() only logs it, and the
\* handler has long gone on.
LosePublish(h) ==
  /\ Fault
  /\ orderTask[h].pc = "saved"
  /\ Finish(h)
  /\ missed' = missed \cup Unannounced({h})
  /\ UNCHANGED <<orders, ordersTopic, committed, requests, raced, shipmentsTopic>>

\* A step of the handler throws (Cassandra times out before or after it has
\* applied the write).  A request answers 500.  The container delivers the
\* record to the listener again, or skips it once its attempts are used up.
Fail(h) ==
  /\ Fault
  /\ orderTask[h] # Idle
  /\ orderTask' = [orderTask EXCEPT ![h] = Idle]
  /\ \/ /\ position' = position
        /\ missed' = missed \cup Unannounced({h})
     \/ /\ h = Listener
        /\ position' = Advanced(position, orderTask[h].from)
        /\ missed' = missed \cup {orderTask[h].key}
  /\ UNCHANGED <<orders, ordersTopic, committed, requests, raced, shipmentsTopic>>

\* The listener's batch is handled: its offsets are committed.
Commit ==
  /\ orderTask[Listener] = Idle
  /\ committed # position
  /\ committed' = position
  /\ UNCHANGED <<orders, orderTask, ordersTopic, position, requests, raced, missed, shipmentsTopic, faults>>

\* The process dies and comes back: what was in memory is gone, and the
\* records since the last commit are delivered again.
Crash ==
  /\ Fault
  /\ orderTask' = [h \in Threads |-> Idle]
  /\ position' = Resumed
  /\ missed' = missed \cup Unannounced(Threads)
  /\ UNCHANGED <<orders, ordersTopic, committed, requests, raced, shipmentsTopic>>

-----------------------------------------------------------------------------

\* What order-service does; another service may append to shipmentsTopic.
Service ==
  \/ \E c \in Clients, o \in Orders :
       \/ Create(c, o)
       \/ \E s \in Status : UpdateRead(c, o, s)
  \/ \E t \in Shipments : ListenerRead(t)
  \/ \E h \in Threads : Save(h) \/ Publish(h) \/ LosePublish(h) \/ Fail(h)
  \/ Commit
  \/ Crash

\* shipment-service seen from here: any event of any shipment, linked to an
\* order or not.  The listener treats all types but two alike: "DAMAGED"
\* stands for them.
ShipmentEvent == [type: {"IN_TRANSIT", "DELIVERED", "DAMAGED"}, order: Orders \cup {NoOrder}]

Announce(t, e) ==
  /\ Cardinality(Records(shipmentsTopic)) < MaxEvents
  /\ shipmentsTopic' = Published(shipmentsTopic, t, e)
  /\ UNCHANGED <<serviceVars, faults>>

Next == Service \/ \E t \in Shipments, e \in ShipmentEvent : Announce(t, e)

\* A thread that has started a handler runs on, and the consumer keeps
\* polling; nobody has to send a request, and faults have no fairness.
ServiceFairness ==
  /\ \A h \in Threads : WF_vars(Save(h)) /\ WF_vars(Publish(h))
  /\ \A t \in Shipments : WF_vars(ListenerRead(t))
  /\ WF_vars(Commit)

Spec == Init /\ [][Next]_vars
FairSpec == Spec /\ ServiceFairness

-----------------------------------------------------------------------------
(* Properties.                                                             *)

\* The shape of the state: rows, threads, topics and cursors.
TypeOK ==
  /\ orders \in [Orders -> Status \cup {"absent"}]
  /\ orderTask \in [Threads -> Task]
  /\ shipmentsTopic \in [Shipments -> Seq(ShipmentEvent)]
  /\ ordersTopic \in [Orders -> Seq(Status)]
  /\ position \in [Shipments -> Nat] /\ committed \in [Shipments -> Nat]
  /\ requests \in 0..MaxRequests /\ faults \in 0..MaxFaults
  /\ raced \subseteq Orders /\ missed \subseteq Orders

\* An order is announced as closed (RECEIVED or CANCELLED) at most once and
\* nothing is announced after that, whatever is redelivered, retried or
\* restarted, as long as no outdated handler acted on it.  inventory-service
\* books goods per announcement, so this is what keeps the stock right:
\* the isClosed() checks of updateStatus and onShipmentEvent are to give it.
ClosingIsFinal ==
  \A o \in Orders \ raced : \A i \in DOMAIN ordersTopic[o] :
    ordersTopic[o][i] \in ClosedStatus => i = Len(ordersTopic[o])

\* A closed order stays as it is in the table: every way to a write leads
\* through the check of updateStatus or that of onShipmentEvent, and only a
\* handler that read the order before it was closed gets past them.
ClosedStaysClosed ==
  [][\A o \in Orders \ raced' : orders[o] \in ClosedStatus => orders'[o] = orders[o]]_vars

\* When nobody works on an order, the last announcement is the stored
\* status, unless an outdated handler acted on it or an announcement was
\* lost: store-then-publish keeps the topic in step with the table.
LastAnnouncementIsStored ==
  \A o \in Orders \ (raced \cup missed) :
    Exists(o) /\ Quiet(orderTask, o) =>
      /\ ordersTopic[o] # <<>>
      /\ ordersTopic[o][Len(ordersTopic[o])] = orders[o]

\* A delivery that the listener has still to read closes its order, also
\* when the service crashes on the way: the offset is committed only after
\* the record is handled.  Excused are an order an outdated handler wrote over,
\* a record skipped after repeated failures, and a lost announcement.
DeliveryClosesOrder ==
  \A t \in Shipments, i \in 1..MaxEvents, o \in Orders :
    /\ position[t] < i /\ i <= Len(shipmentsTopic[t])
    /\ shipmentsTopic[t][i] = [type |-> "DELIVERED", order |-> o]
    /\ Exists(o)
    ~> orders[o] \in ClosedStatus \/ o \in missed \/ o \in raced

\* README, "order-service is idempotent by order state", and the comment on
\* onShipmentEvent: an order is received once, so at most one ORDER_RECEIVED
\* tells inventory-service to book its goods.
ReceiptAnnouncedOnce ==
  \A o \in Orders : \A i, j \in DOMAIN ordersTopic[o] :
    ordersTopic[o][i] = "RECEIVED" /\ ordersTopic[o][j] = "RECEIVED" => i = j

=============================================================================
