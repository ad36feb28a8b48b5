--------------------------- MODULE ShipmentService ---------------------------
(***************************************************************************)
(* shipment-service: shipments, changed by REST requests and by the Camel  *)
(* route on the vision topic, which quarantines what an inspection flags.  *)
(* A status change is announced on the shipments topic (the first step of  *)
(* the delivery saga), a damage alert on the alerts topic.  The ETA, which *)
(* only the stream processor looks at, is left out.                        *)
(***************************************************************************)
EXTENDS Kafka, Handlers

CONSTANTS
  Shipments,    \* tracking numbers
  Orders,       \* order numbers
  NoOrder,      \* the orderNumber of a shipment that is not linked
  Clients,      \* HTTP request threads
  Camel,        \* the one consumer thread of the vision route
  MaxRequests,  \* bound: REST requests in a behaviour
  MaxEvents,    \* bound: inspections in a behaviour
  MaxFaults     \* bound: crashes, failed handlers and lost sends

ASSUME ShipmentConstants ==
  /\ NoOrder \notin Orders
  /\ Camel \notin Clients
  /\ {MaxRequests, MaxEvents, MaxFaults} \subseteq Nat

VARIABLES
  shipments,        \* table shipments: the stored row, or Absent
  shipmentTask,     \* what each thread is doing
  visionTopic,      \* read by the Camel route
  shipmentsTopic,   \* written by publish()
  alertsTopic,      \* written by handleDamagedInspection
  visionPosition,   \* the route's place in the vision topic
  visionCommitted,  \* where a restarted route resumes
  requests,         \* REST requests so far
  faults,           \* faults so far
  raced,            \* history: shipments an outdated handler wrote or announced
  missed            \* history: shipments that lost an announcement or an inspection

serviceVars == <<shipments, shipmentTask, shipmentsTopic, alertsTopic, visionPosition,
                 visionCommitted, requests, raced, missed>>
vars == <<serviceVars, visionTopic, faults>>

Status == {"CREATED", "IN_TRANSIT", "DELAYED", "DELIVERED", "DAMAGED"}
Absent == [status |-> "absent"]
Row == [status: Status, notes: {"none", "clean", "damage"}, order: Orders \cup {NoOrder}]
AlertType == {"COLD_CHAIN_BREACH", "SHIPMENT_DAMAGED"}

\* What the route makes of a vision event: `type` is the event's, `damaged`
\* its damaged or breach flag.
Inspection == [type: {"INSPECTION_COMPLETED", "COLD_CHAIN_INSPECTED", "OTHER"}, damaged: BOOLEAN]
AlertOf_Severity(e) == "CRITICAL"
AlertOf(e) == IF e.type = "COLD_CHAIN_INSPECTED" THEN "COLD_CHAIN_BREACH" ELSE "SHIPMENT_DAMAGED"

Threads == Clients \cup {Camel}

\* A handler holds the row as it will store it.  `alert` is the alert to raise
\* after the status is announced; a clean inspection is silent: it announces
\* nothing.
Task == {Idle} \cup
  [pc: {"read", "saved", "announced"}, key: Shipments, row: Row,
   alert: AlertType \cup {"none", "silent"}, stale: BOOLEAN]

Exists(t) == shipments[t] # Absent

\* The row as the two inspection handlers leave it.
DamagedRow(row) == [row EXCEPT !.status = "DAMAGED", !.notes = "damage"]
CleanRow_Released(row) == [row EXCEPT !.status = "IN_TRANSIT", !.notes = "clean"]
CleanRow(row) == [row EXCEPT !.notes = "clean"]

\* What a handler has left to do once its row is stored.
AfterSave_AlertOnly(task) ==
  IF task.alert = "silent" THEN Idle
  ELSE [task EXCEPT !.pc = IF task.alert \in AlertType THEN "announced" ELSE "saved", !.stale = FALSE]
AfterSave(task) ==
  IF task.alert = "silent" THEN Idle ELSE [task EXCEPT !.pc = "saved", !.stale = FALSE]

\* Where the restarted route resumes (autoOffsetReset=earliest).
Resumed_Latest == [t \in Shipments |-> Len(visionTopic[t])]
Resumed == visionCommitted

Init ==
  /\ shipments = [t \in Shipments |-> Absent]
  /\ shipmentTask = [h \in Threads |-> Idle]
  /\ visionTopic = EmptyTopic(Shipments)
  /\ shipmentsTopic = EmptyTopic(Shipments)
  /\ alertsTopic = EmptyTopic(Shipments)
  /\ visionPosition = AtStart(Shipments)
  /\ visionCommitted = AtStart(Shipments)
  /\ requests = 0
  /\ faults = 0
  /\ raced = {}
  /\ missed = {}

-----------------------------------------------------------------------------
(* REST requests; one for an unknown shipment is refused and is no step.   *)

NewRequest(c) ==
  /\ shipmentTask[c] = Idle
  /\ requests < MaxRequests
  /\ requests' = requests + 1

Begin(h, pc, t, row, alert) ==
  shipmentTask' = [shipmentTask EXCEPT ![h] =
    [pc |-> pc, key |-> t, row |-> row, alert |-> alert, stale |-> FALSE]]

\* create: the tracking number is fresh.  requireOrder() has checked a linked
\* order with order-service before; a refusal leaves no trace.
Create(c, t, o) ==
  LET row == [status |-> "CREATED", notes |-> "none", order |-> o] IN
  /\ NewRequest(c)
  /\ ~ Exists(t)
  /\ shipments' = [shipments EXCEPT ![t] = row]
  /\ Begin(c, "saved", t, row, "none")
  /\ UNCHANGED <<shipmentsTopic, alertsTopic, visionPosition, visionCommitted, raced, missed,
                 visionTopic, faults>>

\* updateStatus: any status may follow any other.
UpdateRead(c, t, status) ==
  /\ NewRequest(c)
  /\ Exists(t)
  /\ Begin(c, "read", t, [shipments[t] EXCEPT !.status = status], "none")
  /\ UNCHANGED <<shipments, shipmentsTopic, alertsTopic, visionPosition, visionCommitted, raced,
                 missed, visionTopic, faults>>

-----------------------------------------------------------------------------
(* The Camel route.                                                        *)

\* Filter, choice, and the inspection handler up to its save.  An inspection
\* of an unknown shipment fails on every attempt and ends as a dead letter.
InspectRead(t) ==
  /\ shipmentTask[Camel] = Idle
  /\ HasNext(visionTopic, visionPosition, t)
  /\ LET e == NextRecord(visionTopic, visionPosition, t)
         applies == e.type # "OTHER" /\ Exists(t)
     IN
     \/ /\ ~ applies
        /\ visionPosition' = Advanced(visionPosition, t)
        /\ UNCHANGED shipmentTask
     \/ /\ applies /\ e.damaged
        /\ Begin(Camel, "read", t, DamagedRow(shipments[t]), AlertOf(e))
        /\ UNCHANGED visionPosition
     \/ /\ applies /\ ~ e.damaged
        /\ Begin(Camel, "read", t, CleanRow(shipments[t]), "silent")
        /\ UNCHANGED visionPosition
  /\ UNCHANGED <<shipments, shipmentsTopic, alertsTopic, visionCommitted, requests, raced, missed,
                 visionTopic, faults>>

-----------------------------------------------------------------------------
(* Storing and publishing.                                                 *)

MarkRaced(h) ==
  raced' = IF shipmentTask[h].stale THEN raced \cup {shipmentTask[h].key} ELSE raced

\* The handler is over; the route goes on to its next record.
NextPosition(h) == IF h = Camel THEN Advanced(visionPosition, shipmentTask[h].key) ELSE visionPosition

\* After its announcement a handler with an alert goes on, any other is over.
AfterPublish(h) ==
  IF shipmentTask[h].alert \in AlertType
  THEN /\ shipmentTask' = [shipmentTask EXCEPT ![h].pc = "announced"]
       /\ UNCHANGED visionPosition
  ELSE /\ shipmentTask' = [shipmentTask EXCEPT ![h] = Idle]
       /\ visionPosition' = NextPosition(h)

Save(h) ==
  LET task == shipmentTask[h] IN
  /\ task.pc = "read"
  /\ shipments' = [shipments EXCEPT ![task.key] = task.row]
  /\ shipmentTask' = Overtake(shipmentTask, h, task.key, AfterSave(task))
  /\ visionPosition' = IF AfterSave(task) = Idle THEN NextPosition(h) ELSE visionPosition
  /\ MarkRaced(h)
  /\ UNCHANGED <<shipmentsTopic, alertsTopic, visionCommitted, requests, missed, visionTopic, faults>>

\* Consumers see the new status and the order the shipment is linked to.
Publish(h) ==
  LET task == shipmentTask[h] IN
  /\ task.pc = "saved"
  /\ shipmentsTopic' = Published(shipmentsTopic, task.key,
                                 [type |-> task.row.status, order |-> task.row.order])
  /\ AfterPublish(h)
  /\ MarkRaced(h)
  /\ UNCHANGED <<shipments, alertsTopic, visionCommitted, requests, missed, visionTopic, faults>>

PublishAlert ==
  LET task == shipmentTask[Camel] IN
  /\ task.pc = "announced"
  /\ alertsTopic' = Published(alertsTopic, task.key, task.alert)
  /\ shipmentTask' = [shipmentTask EXCEPT ![Camel] = Idle]
  /\ visionPosition' = NextPosition(Camel)
  /\ UNCHANGED <<shipments, shipmentsTopic, visionCommitted, requests, raced, missed, visionTopic, faults>>

-----------------------------------------------------------------------------
(* Faults.                                                                 *)

Fault == faults < MaxFaults /\ faults' = faults + 1

\* A request that ends before its event is out is not repeated; an inspection is.
Unannounced(hs) ==
  {shipmentTask[c].key : c \in {g \in hs \cap Clients : shipmentTask[g].pc = "saved"}}

\* The send fails after send() has returned: relay() only logs it, and the
\* handler has long gone on.
LosePublish(h) ==
  /\ Fault
  /\ shipmentTask[h].pc = "saved"
  /\ AfterPublish(h)
  /\ missed' = missed \cup {shipmentTask[h].key}
  /\ UNCHANGED <<shipments, shipmentsTopic, alertsTopic, visionCommitted, requests, raced, visionTopic>>

\* The broker refuses the alert.
LoseAlert ==
  /\ Fault
  /\ shipmentTask[Camel].pc = "announced"
  /\ shipmentTask' = [shipmentTask EXCEPT ![Camel] = Idle]
  /\ visionPosition' = NextPosition(Camel)
  /\ missed' = missed \cup {shipmentTask[Camel].key}
  /\ UNCHANGED <<shipments, shipmentsTopic, alertsTopic, visionCommitted, requests, raced, visionTopic>>

\* A step of the handler throws.  A request answers 500.  The dead letter
\* channel calls the inspection handler again from its start, or gives the
\* inspection up once its attempts are used up.
Fail(h) ==
  /\ Fault
  /\ shipmentTask[h] # Idle
  /\ shipmentTask' = [shipmentTask EXCEPT ![h] = Idle]
  /\ \/ /\ visionPosition' = visionPosition
        /\ missed' = missed \cup Unannounced({h})
     \/ /\ h = Camel
        /\ visionPosition' = NextPosition(h)
        /\ missed' = missed \cup {shipmentTask[h].key}
  /\ UNCHANGED <<shipments, shipmentsTopic, alertsTopic, visionCommitted, requests, raced, visionTopic>>

\* The offsets of what the route has handled are committed.
Commit ==
  /\ shipmentTask[Camel] = Idle
  /\ visionCommitted # visionPosition
  /\ visionCommitted' = visionPosition
  /\ UNCHANGED <<shipments, shipmentTask, shipmentsTopic, alertsTopic, visionPosition, requests,
                 raced, missed, visionTopic, faults>>

\* The process dies and comes back; inspections since the last commit come again.
Crash ==
  /\ Fault
  /\ shipmentTask' = [h \in Threads |-> Idle]
  /\ visionPosition' = Resumed
  /\ missed' = missed \cup Unannounced(Threads)
  /\ UNCHANGED <<shipments, shipmentsTopic, alertsTopic, visionCommitted, requests, raced, visionTopic>>

-----------------------------------------------------------------------------

\* Everything but Create, whose order is checked with order-service.
Handle ==
  \/ \E c \in Clients, t \in Shipments, s \in Status : UpdateRead(c, t, s)
  \/ \E t \in Shipments : InspectRead(t)
  \/ \E h \in Threads : Save(h) \/ Publish(h) \/ LosePublish(h) \/ Fail(h)
  \/ PublishAlert
  \/ LoseAlert
  \/ Commit
  \/ Crash

\* The AI service seen from here: it may publish any inspection of any
\* tracking number.
Inspect(t, e) ==
  /\ Cardinality(Records(visionTopic)) < MaxEvents
  /\ visionTopic' = Published(visionTopic, t, e)
  /\ UNCHANGED <<serviceVars, faults>>

Next ==
  \/ Handle
  \/ \E c \in Clients, t \in Shipments, o \in Orders \cup {NoOrder} : Create(c, t, o)
  \/ \E t \in Shipments, e \in Inspection : Inspect(t, e)

\* Started handlers run on and the route keeps polling.
ServiceFairness ==
  /\ \A h \in Threads : WF_vars(Save(h)) /\ WF_vars(Publish(h))
  /\ WF_vars(PublishAlert)
  /\ \A t \in Shipments : WF_vars(InspectRead(t))
  /\ WF_vars(Commit)

Spec == Init /\ [][Next]_vars
FairSpec == Spec /\ ServiceFairness

-----------------------------------------------------------------------------
(* Properties.                                                             *)

\* The shape of the state.
TypeOK ==
  /\ shipments \in [Shipments -> Row \cup {Absent}]
  /\ shipmentTask \in [Threads -> Task]
  /\ visionTopic \in [Shipments -> Seq(Inspection)]
  /\ shipmentsTopic \in [Shipments -> Seq([type: Status, order: Orders \cup {NoOrder}])]
  /\ alertsTopic \in [Shipments -> Seq(AlertType)]
  /\ visionPosition \in [Shipments -> Nat] /\ visionCommitted \in [Shipments -> Nat]
  /\ requests \in 0..MaxRequests /\ faults \in 0..MaxFaults
  /\ raced \subseteq Shipments /\ missed \subseteq Shipments

\* When nobody works on a shipment and no inspection of it waits (perhaps for
\* the second time), the status last announced is the stored one, unless an
\* outdated handler acted on it or an announcement was lost.
\* order-service and the delay detector see nothing but the announcements, and
\* a clean inspection announces nothing: it must not move the status.
LastAnnouncementIsStored ==
  \A t \in Shipments \ (raced \cup missed) :
    Exists(t) /\ Quiet(shipmentTask, t) /\ ~ HasNext(visionTopic, visionPosition, t) =>
      /\ shipmentsTopic[t] # <<>>
      /\ shipmentsTopic[t][Len(shipmentsTopic[t])].type = shipments[t].status

\* Every damage alert handed to Kafka has a SHIPMENT_DAMAGED of its own handed
\* over before it, also when the inspection is handled again after a crash
\* between the two: nobody is alerted to goods whose quarantine, which stops
\* their ETA timer, was never announced.
AlertsFollowQuarantine ==
  \A t \in Shipments \ missed :
    Len(alertsTopic[t]) <=
      Cardinality({i \in DOMAIN shipmentsTopic[t] : shipmentsTopic[t][i].type = "DAMAGED"})

\* A flagged inspection that the route has still to read raises its alert,
\* also when the service crashes on the way: the offset is committed only
\* after the handler is through.  A dead letter and a send the broker refused
\* are the excuses.
DamageIsAlerted ==
  \A t \in Shipments, i \in 1..MaxEvents, type \in {"INSPECTION_COMPLETED", "COLD_CHAIN_INSPECTED"} :
    /\ visionPosition[t] < i /\ i <= Len(visionTopic[t])
    /\ visionTopic[t][i] = [type |-> type, damaged |-> TRUE]
    /\ Exists(t)
    ~> \/ \E j \in DOMAIN alertsTopic[t] : alertsTopic[t][j] = AlertOf([type |-> type])
       \/ t \in missed

\* ShipmentServiceTest.cleanInspectionOnlyRecordsNotes: an inspection that
\* flags nothing stores its notes and leaves the shipment's status alone.
CleanInspectionOnlyRecordsNotes ==
  [][shipmentTask[Camel].pc = "read" /\ shipmentTask[Camel].alert = "silent" /\ Save(Camel)
       => shipments'[shipmentTask[Camel].key].status = shipments[shipmentTask[Camel].key].status]_vars

=============================================================================
