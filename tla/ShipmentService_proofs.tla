----------------------- MODULE ShipmentService_proofs -----------------------
(***************************************************************************)
(* Proofs about shipment-service, for any sets of shipments, orders and    *)
(* request threads and any bounds.                                         *)
(*                                                                         *)
(* The two safety properties speak of the topics and the table.  What      *)
(* makes them inductive is what the handlers in between know and owe: the  *)
(* Camel thread handles the record at its position, a damage alert in its  *)
(* hands is about a row it set to DAMAGED, an up-to-date handler knows the *)
(* stored status, and a stored status that is not announced yet is either  *)
(* in the hands of a handler that has stored its row or in a flagged       *)
(* inspection that the route still has to handle, perhaps once more.       *)
(***************************************************************************)
EXTENDS ShipmentService, TLAPS, FiniteSetTheorems

-----------------------------------------------------------------------------
(* Cursors and topics.                                                     *)

\* Moving one cursor on by one keeps the type of the cursors.
LEMMA AdvancedType ==
  ASSUME NEW Keys, NEW cursor \in [Keys -> Nat], NEW k
  PROVE  Advanced(cursor, k) \in [Keys -> Nat]
<1>1. CASE k \in Keys
  BY <1>1 DEF Advanced
<1>2. CASE k \notin Keys
  BY <1>2 DEF Advanced
<1>3. QED
  BY <1>1, <1>2

\* Appending an event keeps the type of a topic.
LEMMA PublishedType ==
  ASSUME NEW Keys, NEW Events, NEW topic \in [Keys -> Seq(Events)], NEW k \in Keys, NEW e \in Events
  PROVE  Published(topic, k, e) \in [Keys -> Seq(Events)]
BY DEF Published

-----------------------------------------------------------------------------
(* The inductive invariant.                                                *)

\* An inspection that flags its shipment.
Flags(e) == e.type # "OTHER" /\ e.damaged

\* The Camel thread is past the announcement of t, with its alert in hand.
Announced(t) == WorksOn(shipmentTask, Camel, t) /\ shipmentTask[Camel].pc = "announced"

\* The Camel thread handles the record at its position: a damage alert and a
\* DAMAGED row for one that flags, notes alone for any other.
HandlesItsRecord(task) ==
  LET e == NextRecord(visionTopic, visionPosition, task.key) IN
  /\ HasNext(visionTopic, visionPosition, task.key)
  /\ IF Flags(e) THEN task.alert \in AlertType /\ task.row.status = "DAMAGED"
     ELSE task.alert = "silent"

\* What every thread has in hand fits its place.
TaskFits(h) ==
  LET task == shipmentTask[h] IN
  task # Idle =>
    /\ task.pc = "announced" => task.alert \in AlertType
    /\ task.alert = "silent" => task.pc = "read"
    /\ h \in Clients => task.alert = "none"
    /\ h = Camel => HandlesItsRecord(task)

TasksFit == \A h \in Threads : TaskFits(h)

\* A restarted route takes nothing up later than where it stood.
ResumesBehind == \A t \in Shipments : visionCommitted[t] <= visionPosition[t]

\* Handler h is up to date and about to announce, or to store, the status that
\* is stored already.
Knows(h, t) ==
  /\ WorksOn(shipmentTask, h, t) /\ ~ shipmentTask[h].stale
  /\ shipmentTask[h].pc = "saved" \/ shipmentTask[h].alert = "silent"

KnowStatus(t) ==
  \A h \in Threads :
    Knows(h, t) => Exists(t) /\ shipments[t].status = shipmentTask[h].row.status

LastIsStored(t) ==
  /\ shipmentsTopic[t] # <<>>
  /\ shipmentsTopic[t][Len(shipmentsTopic[t])].type = shipments[t].status

\* Handler h has stored the row and has its announcement still to make.
Saved(h, t) == WorksOn(shipmentTask, h, t) /\ shipmentTask[h].pc = "saved"

\* The route has still to announce t as damaged, for the record at i.
Owed(t, i) ==
  /\ i \in DOMAIN visionTopic[t] /\ visionPosition[t] < i
  /\ Flags(visionTopic[t][i])
  /\ Announced(t) => visionPosition[t] + 1 < i

Settled(t) ==
  \/ LastIsStored(t)
  \/ \E h \in Threads : Saved(h, t)
  \/ \E i \in Nat : Owed(t, i)

Quarantines(log) == {i \in DOMAIN log : log[i].type = "DAMAGED"}

\* Alerts, with the one in hand, are no more than the quarantines announced.
Backed(t) ==
  /\ Announced(t) => Len(alertsTopic[t]) + 1 <= Cardinality(Quarantines(shipmentsTopic[t]))
  /\ Len(alertsTopic[t]) <= Cardinality(Quarantines(shipmentsTopic[t]))

ShipmentInv ==
  /\ TypeOK /\ TasksFit /\ ResumesBehind
  /\ \A t \in Shipments : KnowStatus(t)
  /\ \A t \in Shipments \ (raced \cup missed) : Exists(t) => Settled(t)
  /\ \A t \in Shipments \ missed : Backed(t)

-----------------------------------------------------------------------------
(* Types.                                                                  *)

ShipmentEvent == [type: Status, order: Orders \cup {NoOrder}]

\* A task in which everything is as Begin puts it together.
LEMMA TaskType ==
  ASSUME NEW pc \in {"read", "saved"}, NEW t \in Shipments, NEW row \in Row,
         NEW alert \in AlertType \cup {"none", "silent"}
  PROVE  [pc |-> pc, key |-> t, row |-> row, alert |-> alert, stale |-> FALSE] \in Task
BY DEF Task

\* The fields of a busy thread's task.
LEMMA BusyTask ==
  ASSUME TypeOK, NEW h \in Threads, shipmentTask[h] # Idle
  PROVE  /\ shipmentTask[h].pc \in {"read", "saved", "announced"}
         /\ shipmentTask[h].key \in Shipments
         /\ shipmentTask[h].row \in Row
         /\ shipmentTask[h].alert \in AlertType \cup {"none", "silent"}
         /\ shipmentTask[h].stale \in BOOLEAN
BY DEF TypeOK, Task

\* A thread inside a handler is not idle.
LEMMA NotIdle ==
  ASSUME NEW h, shipmentTask[h].pc \in {"read", "saved", "announced"} PROVE shipmentTask[h] # Idle
BY DEF Idle

\* A row is not the mark of a missing one, and has a status.
LEMMA RowIsPresent == ASSUME NEW row \in Row PROVE row # Absent /\ row.status \in Status
BY DEF Row, Absent, Status

\* The rows that handlers put together.
LEMMA RowTypes ==
  ASSUME NEW row \in Row, NEW s \in Status
  PROVE  /\ [row EXCEPT !.status = s] \in Row /\ [row EXCEPT !.status = s].status = s
         /\ DamagedRow(row) \in Row /\ DamagedRow(row).status = "DAMAGED"
         /\ CleanRow(row) \in Row /\ CleanRow(row).status = row.status
BY DEF Row, Status, DamagedRow, CleanRow

\* A task after its save, and what it keeps.
LEMMA AfterSaveType ==
  ASSUME NEW task \in Task, task # Idle
  PROVE  /\ AfterSave(task) \in Task
         /\ task.alert = "silent" => AfterSave(task) = Idle
         /\ task.alert # "silent" =>
              /\ AfterSave(task) # Idle /\ AfterSave(task).pc = "saved" /\ AfterSave(task).stale = FALSE
              /\ AfterSave(task).key = task.key /\ AfterSave(task).row = task.row
              /\ AfterSave(task).alert = task.alert
<1> DEFINE next == [task EXCEPT !.pc = "saved", !.stale = FALSE]
<1>1. next \in Task /\ next.pc = "saved" /\ next.stale = FALSE /\ next.key = task.key
      /\ next.row = task.row /\ next.alert = task.alert
  BY DEF Task
<1>2. Idle \in Task
  BY DEF Task
<1>3. next # Idle
  BY <1>1 DEF Idle
<1>4. AfterSave(task) = IF task.alert = "silent" THEN Idle ELSE next
  BY DEF AfterSave
<1> HIDE DEF next
<1>5. QED
  BY <1>1, <1>2, <1>3, <1>4

\* Overtaking keeps the type of the threads' tasks.
LEMMA OvertakeType ==
  ASSUME NEW task \in [Threads -> Task], NEW h \in Threads, NEW k, NEW next \in Task
  PROVE  Overtake(task, h, k, next) \in [Threads -> Task]
<1>1. ASSUME NEW g \in Threads, g # h, WorksOn(task, g, k)
      PROVE  [task[g] EXCEPT !.stale = TRUE] \in Task
  <2>1. task[g] \in Task /\ task[g] # Idle
    BY <1>1 DEF WorksOn
  <2>2. QED
    BY <2>1 DEF Task
<1>2. DOMAIN task = Threads
  OBVIOUS
<1>3. QED
  BY <1>1, <1>2 DEF Overtake

\* A thread that begins a handler.
LEMMA BeginType ==
  ASSUME TypeOK, NEW h \in Threads, NEW pc \in {"read", "saved"}, NEW t \in Shipments, NEW row \in Row,
         NEW alert \in AlertType \cup {"none", "silent"}, Begin(h, pc, t, row, alert)
  PROVE  shipmentTask' \in [Threads -> Task]
BY TaskType DEF Begin, TypeOK

\* Where the route goes on is a place in each log.
LEMMA NextPositionType ==
  ASSUME TypeOK, NEW h PROVE NextPosition(h) \in [Shipments -> Nat]
BY AdvancedType DEF NextPosition, TypeOK

\* The initial state has the right shape.
LEMMA InitType == Init => TypeOK
<1>1. Idle \in Task
  BY DEF Task
<1>2. QED
  BY <1>1, ShipmentConstants DEF Init, TypeOK, EmptyTopic, AtStart

\* After an announcement: the thread goes on with its alert, or is idle.
LEMMA AfterPublishType ==
  ASSUME TypeOK, NEW h \in Threads, shipmentTask[h] # Idle, AfterPublish(h)
  PROVE  shipmentTask' \in [Threads -> Task] /\ visionPosition' \in [Shipments -> Nat]
<1>1. CASE shipmentTask[h].alert \in AlertType
  <2>1. [shipmentTask[h] EXCEPT !.pc = "announced"] \in Task
    BY DEF TypeOK, Task
  <2>2. shipmentTask' = [shipmentTask EXCEPT ![h] = [shipmentTask[h] EXCEPT !.pc = "announced"]]
    BY <1>1 DEF AfterPublish
  <2>3. QED
    BY <1>1, <2>1, <2>2 DEF AfterPublish, TypeOK
<1>2. CASE shipmentTask[h].alert \notin AlertType
  <2>1. Idle \in Task
    BY DEF Task
  <2>2. QED
    BY <1>2, <2>1, NextPositionType DEF AfterPublish, TypeOK
<1>3. QED
  BY <1>1, <1>2

\* Every step keeps the shape, one action at a time.
LEMMA NextType == TypeOK /\ TasksFit /\ [Next]_vars => TypeOK'
<1> SUFFICES ASSUME TypeOK, TasksFit, [Next]_vars PROVE TypeOK'
  OBVIOUS
<1>0. MaxRequests \in Nat /\ MaxFaults \in Nat
  BY ShipmentConstants
<1>1. Idle \in Task
  BY DEF Task
<1>2. Camel \in Threads /\ Clients \subseteq Threads
  BY DEF Threads
<1>3. ASSUME NEW c, NewRequest(c) PROVE requests' \in 0..MaxRequests
  BY <1>0, <1>3 DEF NewRequest, TypeOK
<1>4. ASSUME NEW c \in Clients, NEW t \in Shipments, NEW o \in Orders \cup {NoOrder}, Create(c, t, o)
      PROVE  TypeOK'
  <2> DEFINE row == [status |-> "CREATED", notes |-> "none", order |-> o]
  <2>1. row \in Row
    BY DEF Row, Status
  <2> HIDE DEF row
  <2>2. Begin(c, "saved", t, row, "none") /\ shipments' = [shipments EXCEPT ![t] = row]
    BY <1>4 DEF Create, row
  <2>3. shipmentTask' \in [Threads -> Task]
    BY <1>2, <2>1, <2>2, BeginType
  <2>4. shipments' \in [Shipments -> Row \cup {Absent}]
    BY <2>1, <2>2 DEF TypeOK
  <2>5. QED
    BY <1>4, <1>3, <2>3, <2>4 DEF Create, TypeOK
<1>5. ASSUME NEW c \in Clients, NEW t \in Shipments, NEW s \in Status, UpdateRead(c, t, s) PROVE TypeOK'
  <2>1. shipments[t] \in Row
    BY <1>5 DEF UpdateRead, Exists, TypeOK
  <2>2. [shipments[t] EXCEPT !.status = s] \in Row
    BY <2>1, RowTypes
  <2>3. shipmentTask' \in [Threads -> Task]
    BY <1>2, <1>5, <2>2, BeginType DEF UpdateRead
  <2>4. QED
    BY <1>5, <1>3, <2>3 DEF UpdateRead, TypeOK
<1>6. ASSUME NEW t \in Shipments, InspectRead(t) PROVE TypeOK'
  <2>1. shipmentTask' \in [Threads -> Task] /\ visionPosition' \in [Shipments -> Nat]
    <3> DEFINE e == NextRecord(visionTopic, visionPosition, t)
    <3>1. CASE shipmentTask' = shipmentTask /\ visionPosition' = Advanced(visionPosition, t)
      BY <3>1, AdvancedType DEF TypeOK
    <3>2. CASE Exists(t) /\ Begin(Camel, "read", t, DamagedRow(shipments[t]), AlertOf(e))
               /\ visionPosition' = visionPosition
      <4>1. shipments[t] \in Row
        BY <3>2 DEF Exists, TypeOK
      <4>2. DamagedRow(shipments[t]) \in Row /\ AlertOf(e) \in AlertType
        BY <4>1, RowTypes DEF AlertOf, AlertType, Status
      <4>3. QED
        BY <1>2, <3>2, <4>2, BeginType DEF TypeOK
    <3>3. CASE Exists(t) /\ Begin(Camel, "read", t, CleanRow(shipments[t]), "silent")
               /\ visionPosition' = visionPosition
      <4>1. shipments[t] \in Row
        BY <3>3 DEF Exists, TypeOK
      <4>2. CleanRow(shipments[t]) \in Row
        BY <4>1, RowTypes DEF Status
      <4>3. QED
        BY <1>2, <3>3, <4>2, BeginType DEF TypeOK
    <3>4. QED
      BY <1>6, <3>1, <3>2, <3>3 DEF InspectRead
  <2>2. QED
    BY <1>6, <2>1 DEF InspectRead, TypeOK
<1>7. ASSUME NEW h \in Threads, shipmentTask[h] # Idle, MarkRaced(h) PROVE raced' \subseteq Shipments
  BY <1>7, BusyTask DEF MarkRaced, TypeOK
<1>8. ASSUME NEW hs \in SUBSET Threads PROVE Unannounced(hs) \subseteq Shipments
  BY NotIdle, BusyTask DEF Unannounced
<1>9. ASSUME Fault PROVE faults' \in 0..MaxFaults
  BY <1>0, <1>9 DEF Fault, TypeOK
<1>10. ASSUME NEW h \in Threads, Save(h) PROVE TypeOK'
  <2>1. shipmentTask[h] # Idle /\ shipmentTask[h] \in Task
    BY <1>10, NotIdle DEF Save, TypeOK
  <2>2. shipmentTask' \in [Threads -> Task]
    BY <1>10, <2>1, AfterSaveType, OvertakeType DEF Save, TypeOK
  <2>3. shipments' \in [Shipments -> Row \cup {Absent}]
    BY <1>10, <2>1, BusyTask DEF Save, TypeOK
  <2>4. visionPosition' \in [Shipments -> Nat]
    BY <1>10, NextPositionType DEF Save, TypeOK
  <2>5. raced' \subseteq Shipments
    BY <1>7, <1>10, <2>1 DEF Save
  <2>6. QED
    BY <1>10, <2>2, <2>3, <2>4, <2>5 DEF Save, TypeOK
<1>11. ASSUME NEW h \in Threads, Publish(h) PROVE TypeOK'
  <2>1. shipmentTask[h] # Idle
    BY <1>11, NotIdle DEF Publish
  <2> DEFINE e == [type |-> shipmentTask[h].row.status, order |-> shipmentTask[h].row.order]
  <2>2. e \in ShipmentEvent
    BY <2>1, BusyTask DEF ShipmentEvent, Row
  <2> HIDE DEF e
  <2>3. shipmentsTopic' = Published(shipmentsTopic, shipmentTask[h].key, e)
    BY <1>11 DEF Publish, e
  <2>4. shipmentsTopic' \in [Shipments -> Seq(ShipmentEvent)]
    BY <2>1, <2>2, <2>3, BusyTask, PublishedType DEF TypeOK, ShipmentEvent
  <2>5. raced' \subseteq Shipments
    BY <1>7, <1>11, <2>1 DEF Publish
  <2>6. shipmentTask' \in [Threads -> Task] /\ visionPosition' \in [Shipments -> Nat]
    BY <1>11, <2>1, AfterPublishType DEF Publish
  <2>7. QED
    BY <1>11, <2>4, <2>5, <2>6 DEF Publish, TypeOK, ShipmentEvent
<1>12. CASE PublishAlert
  <2>1. shipmentTask[Camel] # Idle
    BY <1>12, NotIdle DEF PublishAlert
  <2>2. shipmentTask[Camel].alert \in AlertType
    BY <1>2, <1>12, <2>1 DEF PublishAlert, TasksFit, TaskFits
  <2>3. alertsTopic' \in [Shipments -> Seq(AlertType)]
    BY <1>2, <1>12, <2>1, <2>2, BusyTask, PublishedType DEF PublishAlert, TypeOK
  <2>4. QED
    BY <1>1, <1>12, <2>3, NextPositionType DEF PublishAlert, TypeOK
<1>13. ASSUME NEW h \in Threads, LosePublish(h) PROVE TypeOK'
  <2>1. shipmentTask[h] # Idle
    BY <1>13, NotIdle DEF LosePublish
  <2>2. shipmentTask' \in [Threads -> Task] /\ visionPosition' \in [Shipments -> Nat]
    BY <1>13, <2>1, AfterPublishType DEF LosePublish
  <2>3. missed' \subseteq Shipments
    BY <1>13, <2>1, BusyTask DEF LosePublish, TypeOK
  <2>4. QED
    BY <1>9, <1>13, <2>2, <2>3 DEF LosePublish, TypeOK
<1>14. CASE LoseAlert
  <2>1. shipmentTask[Camel] # Idle
    BY <1>14, NotIdle DEF LoseAlert
  <2>2. missed' \subseteq Shipments
    BY <1>2, <1>14, <2>1, BusyTask DEF LoseAlert, TypeOK
  <2>3. QED
    BY <1>1, <1>9, <1>14, <2>2, NextPositionType DEF LoseAlert, TypeOK
<1>15. ASSUME NEW h \in Threads, Fail(h) PROVE TypeOK'
  <2>1. Unannounced({h}) \subseteq Shipments /\ shipmentTask[h].key \in Shipments
    BY <1>8, <1>15, BusyTask DEF Fail
  <2>2. missed' \subseteq Shipments
    BY <1>15, <2>1 DEF Fail, TypeOK
  <2>3. visionPosition' \in [Shipments -> Nat]
    BY <1>15, NextPositionType DEF Fail, TypeOK
  <2>4. shipmentTask' \in [Threads -> Task]
    BY <1>1, <1>15 DEF Fail, TypeOK
  <2>5. QED
    BY <1>9, <1>15, <2>2, <2>3, <2>4 DEF Fail, TypeOK
<1>16. CASE Commit
  BY <1>16 DEF Commit, TypeOK
<1>17. CASE Crash
  <2>1. missed' \subseteq Shipments
    BY <1>8, <1>17 DEF Crash, TypeOK
  <2>2. shipmentTask' \in [Threads -> Task]
    BY <1>1, <1>17 DEF Crash
  <2>3. QED
    BY <1>9, <1>17, <2>1, <2>2 DEF Crash, Resumed, TypeOK
<1>18. ASSUME NEW t \in Shipments, NEW e \in Inspection, Inspect(t, e) PROVE TypeOK'
  <2>1. visionTopic' \in [Shipments -> Seq(Inspection)]
    BY <1>18, PublishedType DEF Inspect, TypeOK
  <2>2. QED
    BY <1>18, <2>1 DEF Inspect, serviceVars, TypeOK
<1>19. CASE UNCHANGED vars
  BY <1>19 DEF vars, serviceVars, TypeOK
<1>20. QED
  BY <1>4, <1>5, <1>6, <1>10, <1>11, <1>12, <1>13, <1>14, <1>15, <1>16, <1>17, <1>18, <1>19
  DEF Next, Handle

-----------------------------------------------------------------------------
(* What a step does to the threads.                                        *)

\* Thread h goes on with the same work, perhaps outdated meanwhile, or is as idle.
GoesOn(h) ==
  /\ shipmentTask[h] = Idle <=> shipmentTask'[h] = Idle
  /\ shipmentTask[h] # Idle =>
       /\ shipmentTask'[h].pc = shipmentTask[h].pc
       /\ shipmentTask'[h].key = shipmentTask[h].key
       /\ shipmentTask'[h].row = shipmentTask[h].row
       /\ shipmentTask'[h].alert = shipmentTask[h].alert
       /\ ~ shipmentTask'[h].stale => ~ shipmentTask[h].stale

\* What Save leaves in the threads: the saver has its announcement to make or
\* is idle, every other handler of the row is outdated, the rest goes on.
LEMMA SaveEffect ==
  ASSUME TypeOK, NEW h \in Threads, Save(h)
  PROVE  /\ shipmentTask[h] # Idle
         /\ shipmentTask[h].alert = "silent" => shipmentTask'[h] = Idle
         /\ shipmentTask[h].alert # "silent" =>
              /\ shipmentTask'[h] # Idle /\ shipmentTask'[h].pc = "saved"
              /\ shipmentTask'[h].key = shipmentTask[h].key
              /\ shipmentTask'[h].row = shipmentTask[h].row
              /\ shipmentTask'[h].alert = shipmentTask[h].alert
         /\ \A g \in Threads \ {h} :
              /\ GoesOn(g)
              /\ WorksOn(shipmentTask, g, shipmentTask[h].key) => shipmentTask'[g].stale
<1>1. shipmentTask[h] # Idle
  BY NotIdle DEF Save
<1>2. shipmentTask \in [Threads -> Task] /\ DOMAIN shipmentTask = Threads /\ shipmentTask[h] \in Task
  BY DEF TypeOK
<1> DEFINE next == AfterSave(shipmentTask[h])
<1>3. shipmentTask' = Overtake(shipmentTask, h, shipmentTask[h].key, next)
  BY DEF Save
<1> HIDE DEF next
<1>4. shipmentTask'[h] = next
  BY <1>2, <1>3 DEF Overtake
<1>5. ASSUME NEW g \in Threads \ {h}
      PROVE  /\ GoesOn(g)
             /\ WorksOn(shipmentTask, g, shipmentTask[h].key) => shipmentTask'[g].stale
  <2>1. CASE WorksOn(shipmentTask, g, shipmentTask[h].key)
    <3> DEFINE old == shipmentTask[g]
               new == [old EXCEPT !.stale = TRUE]
    <3>1. shipmentTask'[g] = new
      BY <1>2, <1>3, <2>1 DEF Overtake
    <3>2. old \in Task /\ old # Idle
      BY <1>2, <2>1 DEF WorksOn
    <3>3. /\ new.stale = TRUE /\ new.pc = old.pc /\ new.key = old.key /\ new.row = old.row
          /\ new.alert = old.alert /\ old.pc \in {"read", "saved", "announced"}
      BY <3>2 DEF Task
    <3>4. new # Idle
      BY <3>3 DEF Idle
    <3> HIDE DEF new
    <3>5. QED
      BY <3>1, <3>2, <3>3, <3>4 DEF GoesOn
  <2>2. CASE ~ WorksOn(shipmentTask, g, shipmentTask[h].key)
    <3>1. shipmentTask'[g] = shipmentTask[g]
      BY <1>2, <1>3, <2>2 DEF Overtake
    <3>2. QED
      BY <2>2, <3>1 DEF GoesOn
  <2>3. QED
    BY <2>1, <2>2
<1>6. QED
  BY <1>1, <1>2, <1>4, <1>5, AfterSaveType DEF next

\* What AfterPublish leaves in the threads.
LEMMA AfterPublishEffect ==
  ASSUME TypeOK, NEW h \in Threads, shipmentTask[h] # Idle, AfterPublish(h)
  PROVE  /\ shipmentTask[h].alert \notin AlertType =>
              shipmentTask'[h] = Idle /\ visionPosition' = NextPosition(h)
         /\ shipmentTask[h].alert \in AlertType =>
              /\ shipmentTask'[h] # Idle /\ shipmentTask'[h].pc = "announced"
              /\ shipmentTask'[h].key = shipmentTask[h].key
              /\ shipmentTask'[h].row = shipmentTask[h].row
              /\ shipmentTask'[h].alert = shipmentTask[h].alert
              /\ visionPosition' = visionPosition
         /\ \A g \in Threads \ {h} : shipmentTask'[g] = shipmentTask[g]
<1>1. \A g \in Threads \ {h} : shipmentTask'[g] = shipmentTask[g]
  BY DEF AfterPublish, TypeOK
<1>2. CASE shipmentTask[h].alert \in AlertType
  <2> DEFINE new == [shipmentTask[h] EXCEPT !.pc = "announced"]
  <2>1. shipmentTask'[h] = new /\ visionPosition' = visionPosition
    BY <1>2 DEF AfterPublish, TypeOK
  <2>2. /\ new.pc = "announced" /\ new.key = shipmentTask[h].key /\ new.row = shipmentTask[h].row
        /\ new.alert = shipmentTask[h].alert
    BY DEF TypeOK, Task
  <2>3. new # Idle
    BY <2>2 DEF Idle
  <2> HIDE DEF new
  <2>4. QED
    BY <1>1, <1>2, <2>1, <2>2, <2>3
<1>3. CASE shipmentTask[h].alert \notin AlertType
  BY <1>1, <1>3 DEF AfterPublish, TypeOK
<1>4. QED
  BY <1>2, <1>3

\* The places of the other shipments' logs stay where they are.
LEMMA NextPositionEffect ==
  ASSUME TypeOK, NEW h \in Threads, shipmentTask[h] # Idle
  PROVE  /\ h # Camel => NextPosition(h) = visionPosition
         /\ h = Camel => NextPosition(h)[shipmentTask[h].key] = visionPosition[shipmentTask[h].key] + 1
         /\ \A t \in Shipments : t # shipmentTask[h].key => NextPosition(h)[t] = visionPosition[t]
BY BusyTask DEF NextPosition, Advanced, TypeOK

\* A thread that begins.
LEMMA BeginEffect ==
  ASSUME TypeOK, NEW h \in Threads, NEW pc \in {"read", "saved"}, NEW t \in Shipments, NEW row \in Row,
         NEW alert \in AlertType \cup {"none", "silent"}, Begin(h, pc, t, row, alert)
  PROVE  /\ shipmentTask'[h] # Idle
         /\ shipmentTask'[h].pc = pc /\ shipmentTask'[h].key = t /\ shipmentTask'[h].row = row
         /\ shipmentTask'[h].alert = alert /\ shipmentTask'[h].stale = FALSE
         /\ \A g \in Threads \ {h} : shipmentTask'[g] = shipmentTask[g]
<1> DEFINE task == [pc |-> pc, key |-> t, row |-> row, alert |-> alert, stale |-> FALSE]
<1>1. shipmentTask'[h] = task /\ \A g \in Threads \ {h} : shipmentTask'[g] = shipmentTask[g]
  BY DEF Begin, TypeOK
<1>2. task # Idle
  BY DEF Idle
<1>3. QED
  BY <1>1, <1>2

-----------------------------------------------------------------------------
(* What threads have in hand fits.                                         *)

\* Nothing is in hand at the start.
LEMMA InitTasks == Init => TasksFit /\ ResumesBehind
BY DEF Init, TasksFit, TaskFits, ResumesBehind, AtStart

\* A thread that goes on fits, where the route's record is still in its place.
LEMMA GoesOnFits ==
  ASSUME NEW h \in Threads, TaskFits(h), GoesOn(h),
         h = Camel /\ shipmentTask[h] # Idle =>
           UNCHANGED <<visionTopic, visionPosition>>
  PROVE  TaskFits(h)'
BY DEF TaskFits, GoesOn, HandlesItsRecord

\* So does one that is not touched, when the log only grows.
LEMMA GrowingLog ==
  ASSUME TypeOK, NEW t \in Shipments, NEW e, visionTopic' = Published(visionTopic, t, e),
         NEW k \in Shipments
  PROVE  /\ DOMAIN visionTopic[k] \subseteq DOMAIN visionTopic'[k]
         /\ Len(visionTopic[k]) <= Len(visionTopic'[k])
         /\ \A i \in DOMAIN visionTopic[k] : visionTopic'[k][i] = visionTopic[k][i]
<1>1. visionTopic[k] \in Seq(Inspection)
  BY DEF TypeOK
<1>2. CASE k = t
  <2>1. visionTopic'[k] = Append(visionTopic[k], e)
    BY <1>2 DEF Published, TypeOK
  <2>2. QED
    BY <1>1, <2>1
<1>3. CASE k # t
  <2>1. visionTopic'[k] = visionTopic[k]
    BY <1>3 DEF Published, TypeOK
  <2>2. QED
    BY <1>1, <2>1
<1>4. QED
  BY <1>2, <1>3

\* Every step leaves threads with what fits.
LEMMA NextTasks ==
  ASSUME TypeOK, TasksFit, [Next]_vars PROVE TasksFit'
<1> SUFFICES ASSUME NEW g \in Threads PROVE TaskFits(g)'
  BY DEF TasksFit
<1>0. Camel \in Threads /\ Clients \subseteq Threads /\ Camel \notin Clients /\ TaskFits(g)
  BY ShipmentConstants DEF Threads, TasksFit
<1>1. ASSUME shipmentTask'[g] = Idle PROVE TaskFits(g)'
  BY <1>1 DEF TaskFits
<1>2. ASSUME GoesOn(g), g = Camel /\ shipmentTask[g] # Idle => UNCHANGED <<visionTopic, visionPosition>>
      PROVE  TaskFits(g)'
  BY <1>0, <1>2, GoesOnFits
<1>3. ASSUME shipmentTask'[g] = shipmentTask[g] PROVE GoesOn(g)
  BY <1>3 DEF GoesOn
<1>4. ASSUME NEW c \in Clients, NEW t \in Shipments, NEW pc \in {"read", "saved"}, NEW row \in Row,
             Begin(c, pc, t, row, "none"), UNCHANGED <<visionTopic, visionPosition>>
      PROVE  TaskFits(g)'
  <2>1. CASE g = c
    <3>1. /\ shipmentTask'[g].pc = pc /\ shipmentTask'[g].alert = "none"
      <4>1. c \in Threads /\ "none" \in AlertType \cup {"none", "silent"} /\ Begin(c, pc, t, row, "none")
        BY <1>0, <1>4
      <4>2. shipmentTask'[c].pc = pc /\ shipmentTask'[c].alert = "none"
        BY <4>1 DEF Begin, TypeOK
      <4>3. QED
        BY <2>1, <4>2
    <3>2. QED
      BY <1>0, <2>1, <3>1 DEF TaskFits
  <2>2. CASE g # c
    <3>1. shipmentTask'[g] = shipmentTask[g]
      <4>1. c \in Threads /\ "none" \in AlertType \cup {"none", "silent"} /\ Begin(c, pc, t, row, "none")
        BY <1>0, <1>4
      <4>2. QED
        BY <2>2, <4>1, BeginEffect
    <3>2. QED
      BY <1>2, <1>3, <1>4, <3>1
  <2>3. QED
    BY <2>1, <2>2
<1>5. ASSUME NEW t \in Shipments, InspectRead(t) PROVE TaskFits(g)'
  <2> DEFINE e == NextRecord(visionTopic, visionPosition, t)
  <2>1. shipmentTask[Camel] = Idle /\ HasNext(visionTopic, visionPosition, t) /\ UNCHANGED visionTopic
    BY <1>5 DEF InspectRead
  <2>2. CASE shipmentTask' = shipmentTask
    <3>1. GoesOn(g)
      BY <1>3, <2>2
    <3>2. QED
      BY <1>2, <2>1, <3>1
  <2>3. ASSUME NEW row \in Row, NEW alert \in AlertType \cup {"none", "silent"}, Begin(Camel, "read", t, row, alert), UNCHANGED visionPosition,
               IF Flags(e) THEN alert \in AlertType /\ row.status = "DAMAGED" ELSE alert = "silent"
        PROVE  TaskFits(g)'
    <3>1. CASE g = Camel
      <4>1. /\ shipmentTask'[g].pc = "read" /\ shipmentTask'[g].key = t /\ shipmentTask'[g].row = row
            /\ shipmentTask'[g].alert = alert
        <5>1. /\ shipmentTask'[Camel].pc = "read" /\ shipmentTask'[Camel].key = t
              /\ shipmentTask'[Camel].row = row /\ shipmentTask'[Camel].alert = alert
          BY <1>0, <2>3 DEF Begin, TypeOK
        <5>2. QED
          BY <3>1, <5>1
      <4>2. HandlesItsRecord(shipmentTask[g])'
        BY <2>1, <2>3, <4>1 DEF HandlesItsRecord
      <4>3. QED
        BY <1>0, <3>1, <4>1, <4>2 DEF TaskFits
    <3>2. CASE g # Camel
      <4>1. shipmentTask'[g] = shipmentTask[g]
        BY <1>0, <2>3, <3>2, BeginEffect
      <4>2. QED
        BY <1>2, <1>3, <3>2, <4>1
    <3>3. QED
      BY <3>1, <3>2
  <2>4. ASSUME Exists(t), e.type # "OTHER", e.damaged,
               Begin(Camel, "read", t, DamagedRow(shipments[t]), AlertOf(e)), UNCHANGED visionPosition
        PROVE  TaskFits(g)'
    <3>0. shipments[t] \in Row /\ "DAMAGED" \in Status
      BY <2>4 DEF Exists, TypeOK, Status
    <3>1. DamagedRow(shipments[t]) \in Row /\ DamagedRow(shipments[t]).status = "DAMAGED"
      BY <3>0, RowTypes
    <3>2. AlertOf(e) \in AlertType /\ Flags(e)
      BY <2>4 DEF AlertOf, AlertType, Flags
    <3>3. QED
      BY <2>3, <2>4, <3>1, <3>2
  <2>5. ASSUME Exists(t), ~ e.damaged, Begin(Camel, "read", t, CleanRow(shipments[t]), "silent"),
               UNCHANGED visionPosition
        PROVE  TaskFits(g)'
    <3>1. shipments[t] \in Row /\ "DAMAGED" \in Status
      BY <2>5 DEF Exists, TypeOK, Status
    <3>2. CleanRow(shipments[t]) \in Row
      BY <3>1, RowTypes
    <3>3. QED
      BY <2>3, <2>5, <3>2 DEF Flags
  <2>6. QED
    BY <1>5, <2>2, <2>4, <2>5 DEF InspectRead
<1>6. ASSUME NEW h \in Threads, Save(h) PROVE TaskFits(g)'
  <2>0. /\ UNCHANGED visionTopic
        /\ shipmentTask[h].alert # "silent" => UNCHANGED visionPosition
    BY <1>6, AfterSaveType, SaveEffect DEF Save, TypeOK
  <2>1. CASE g = h
    <3>1. CASE shipmentTask[h].alert = "silent"
      BY <1>1, <1>6, <2>1, <3>1, SaveEffect
    <3>2. CASE shipmentTask[h].alert # "silent"
      <4>1. /\ shipmentTask'[g].pc = "saved" /\ shipmentTask'[g].key = shipmentTask[g].key
            /\ shipmentTask'[g].row = shipmentTask[g].row /\ shipmentTask'[g].alert = shipmentTask[g].alert
            /\ shipmentTask[g] # Idle
        BY <1>6, <2>1, <3>2, SaveEffect
      <4>2. QED
        BY <1>0, <2>0, <2>1, <3>2, <4>1 DEF TaskFits, HandlesItsRecord
    <3>3. QED
      BY <3>1, <3>2
  <2>2. CASE g # h
    <3>1. GoesOn(g)
      BY <1>6, <2>2, SaveEffect
    <3>2. h # Camel => UNCHANGED visionPosition
      BY <1>6 DEF Save, NextPosition
    <3>3. QED
      BY <1>2, <2>0, <2>2, <3>1, <3>2
  <2>3. QED
    BY <2>1, <2>2
<1>7. ASSUME NEW h \in Threads, shipmentTask[h] # Idle, AfterPublish(h), UNCHANGED visionTopic
      PROVE  TaskFits(g)'
  <2>1. CASE g = h
    <3>1. CASE shipmentTask[h].alert \notin AlertType
      BY <1>1, <1>7, <2>1, <3>1, AfterPublishEffect
    <3>2. CASE shipmentTask[h].alert \in AlertType
      <4>1. /\ shipmentTask'[g].pc = "announced" /\ shipmentTask'[g].key = shipmentTask[g].key
            /\ shipmentTask'[g].row = shipmentTask[g].row /\ shipmentTask'[g].alert = shipmentTask[g].alert
            /\ visionPosition' = visionPosition
        BY <1>7, <2>1, <3>2, AfterPublishEffect
      <4>2. "silent" \notin AlertType /\ "none" \notin AlertType
        BY DEF AlertType
      <4>3. QED
        BY <1>0, <1>7, <2>1, <3>2, <4>1, <4>2 DEF TaskFits, HandlesItsRecord
    <3>3. QED
      BY <3>1, <3>2
  <2>2. CASE g # h
    <3>1. GoesOn(g)
      BY <1>3, <1>7, <2>2, AfterPublishEffect
    <3>2. h # Camel => UNCHANGED visionPosition
      BY <1>7, AfterPublishEffect DEF NextPosition
    <3>3. QED
      BY <1>2, <1>7, <2>2, <3>1, <3>2
  <2>3. QED
    BY <2>1, <2>2
<1>8. ASSUME NEW h \in Threads, Publish(h) \/ LosePublish(h) PROVE TaskFits(g)'
  BY <1>7, <1>8, NotIdle DEF Publish, LosePublish
<1>9. ASSUME NEW h \in Threads, shipmentTask' = [shipmentTask EXCEPT ![h] = Idle],
             h # Camel => UNCHANGED visionPosition, UNCHANGED visionTopic
      PROVE  TaskFits(g)'
  <2>1. shipmentTask'[g] = IF g = h THEN Idle ELSE shipmentTask[g]
    BY <1>9 DEF TypeOK
  <2>2. QED
    BY <1>1, <1>2, <1>3, <1>9, <2>1
<1>10. ASSUME PublishAlert \/ LoseAlert PROVE TaskFits(g)'
  BY <1>0, <1>9, <1>10 DEF PublishAlert, LoseAlert
<1>11. ASSUME NEW h \in Threads, Fail(h) PROVE TaskFits(g)'
  BY <1>9, <1>11 DEF Fail
<1>12. CASE Crash
  BY <1>1, <1>12 DEF Crash
<1>13. ASSUME NEW t \in Shipments, NEW e \in Inspection, Inspect(t, e) PROVE TaskFits(g)'
  <2>1. UNCHANGED <<shipmentTask, visionPosition>> /\ visionTopic' = Published(visionTopic, t, e)
    BY <1>13 DEF Inspect, serviceVars
  <2>2. CASE g = Camel /\ shipmentTask[g] # Idle
    <3> DEFINE k == shipmentTask[g].key
    <3>1. k \in Shipments
      BY <2>2, BusyTask
    <3>2. visionTopic[k] \in Seq(Inspection) /\ visionTopic'[k] \in Seq(Inspection) /\ visionPosition[k] \in Nat
      <4>1. visionTopic' \in [Shipments -> Seq(Inspection)]
        BY <2>1, PublishedType DEF TypeOK
      <4>2. QED
        BY <3>1, <4>1 DEF TypeOK
    <3>3. HasNext(visionTopic, visionPosition, k)
      BY <1>0, <2>2 DEF TaskFits, HandlesItsRecord
    <3>4. visionPosition[k] + 1 \in DOMAIN visionTopic[k]
      BY <3>2, <3>3 DEF HasNext
    <3>5. visionTopic'[k][visionPosition[k] + 1] = visionTopic[k][visionPosition[k] + 1]
          /\ Len(visionTopic[k]) <= Len(visionTopic'[k])
      BY <2>1, <3>1, <3>4, GrowingLog
    <3>6. HasNext(visionTopic, visionPosition, k)'
          /\ NextRecord(visionTopic, visionPosition, k)' = NextRecord(visionTopic, visionPosition, k)
      BY <2>1, <3>2, <3>3, <3>5 DEF HasNext, NextRecord
    <3>7. HandlesItsRecord(shipmentTask[g])'
      BY <1>0, <2>1, <2>2, <3>6 DEF TaskFits, HandlesItsRecord
    <3>8. QED
      BY <1>0, <2>1, <2>2, <3>7 DEF TaskFits
  <2>3. CASE ~ (g = Camel /\ shipmentTask[g] # Idle)
    BY <1>2, <1>3, <2>1, <2>3
  <2>4. QED
    BY <2>2, <2>3
<1>14. CASE Commit \/ UNCHANGED vars
  <2>1. UNCHANGED <<shipmentTask, visionTopic, visionPosition>>
    BY <1>14 DEF Commit, vars, serviceVars
  <2>2. QED
    BY <1>2, <1>3, <2>1
<1>15. ASSUME NEW c \in Clients, NEW t \in Shipments, NEW s \in Status, UpdateRead(c, t, s) PROVE TaskFits(g)'
  <2>1. shipments[t] \in Row
    BY <1>15 DEF UpdateRead, Exists, TypeOK
  <2>2. [shipments[t] EXCEPT !.status = s] \in Row
    BY <2>1, RowTypes
  <2>3. QED
    BY <1>4, <1>15, <2>2 DEF UpdateRead
<1>16. ASSUME NEW c \in Clients, NEW t \in Shipments, NEW o \in Orders \cup {NoOrder}, Create(c, t, o)
       PROVE  TaskFits(g)'
  <2>1. [status |-> "CREATED", notes |-> "none", order |-> o] \in Row
    BY DEF Row, Status
  <2>2. QED
    BY <1>4, <1>16, <2>1 DEF Create
<1>17. QED
  BY <1>5, <1>6, <1>8, <1>10, <1>11, <1>12, <1>13, <1>14, <1>15, <1>16 DEF Next, Handle

\* The committed places stay behind the route's.
LEMMA NextResumes ==
  ASSUME TypeOK, ResumesBehind, [Next]_vars PROVE ResumesBehind'
<1> SUFFICES ASSUME NEW t \in Shipments PROVE visionCommitted'[t] <= visionPosition'[t]
  BY DEF ResumesBehind
<1>0. /\ visionCommitted[t] \in Nat /\ visionPosition[t] \in Nat
      /\ visionCommitted[t] <= visionPosition[t] /\ Camel \in Threads
  BY DEF TypeOK, ResumesBehind, Threads
<1>1. ASSUME UNCHANGED visionCommitted, NEW k, visionPosition' \in {visionPosition, Advanced(visionPosition, k)}
      PROVE  visionCommitted'[t] <= visionPosition'[t]
  <2>1. CASE visionPosition' = visionPosition
    BY <1>0, <1>1, <2>1
  <2>2. CASE visionPosition' = Advanced(visionPosition, k)
    <3>1. visionPosition'[t] \in {visionPosition[t], visionPosition[t] + 1}
      BY <2>2 DEF Advanced, TypeOK
    <3>2. QED
      BY <1>0, <1>1, <3>1
  <2>3. QED
    BY <1>1, <2>1, <2>2
<1>2. ASSUME NEW h, UNCHANGED visionCommitted, visionPosition' \in {visionPosition, NextPosition(h)}
      PROVE  visionCommitted'[t] <= visionPosition'[t]
  BY <1>1, <1>2 DEF NextPosition
<1>3. ASSUME NEW c \in Clients, NEW k \in Shipments, NEW o \in Orders \cup {NoOrder}, Create(c, k, o)
      PROVE  visionCommitted'[t] <= visionPosition'[t]
  BY <1>0, <1>3 DEF Create
<1>4. ASSUME NEW c \in Clients, NEW k \in Shipments, NEW s \in Status, UpdateRead(c, k, s)
      PROVE  visionCommitted'[t] <= visionPosition'[t]
  BY <1>0, <1>4 DEF UpdateRead
<1>5. ASSUME NEW k \in Shipments, InspectRead(k) PROVE visionCommitted'[t] <= visionPosition'[t]
  BY <1>1, <1>5 DEF InspectRead
<1>6. ASSUME NEW h \in Threads, Save(h) PROVE visionCommitted'[t] <= visionPosition'[t]
  BY <1>2, <1>6 DEF Save
<1>7. ASSUME NEW h \in Threads, Publish(h) \/ LosePublish(h) PROVE visionCommitted'[t] <= visionPosition'[t]
  BY <1>2, <1>7 DEF Publish, LosePublish, AfterPublish
<1>8. ASSUME PublishAlert \/ LoseAlert PROVE visionCommitted'[t] <= visionPosition'[t]
  BY <1>2, <1>8 DEF PublishAlert, LoseAlert
<1>9. ASSUME NEW h \in Threads, Fail(h) PROVE visionCommitted'[t] <= visionPosition'[t]
  BY <1>2, <1>9 DEF Fail
<1>10. CASE Commit
  BY <1>0, <1>10 DEF Commit
<1>11. CASE Crash
  BY <1>0, <1>11 DEF Crash, Resumed
<1>12. ASSUME NEW k \in Shipments, NEW e \in Inspection, Inspect(k, e)
       PROVE  visionCommitted'[t] <= visionPosition'[t]
  BY <1>0, <1>12 DEF Inspect, serviceVars
<1>13. CASE UNCHANGED vars
  BY <1>0, <1>13 DEF vars, serviceVars
<1>14. QED
  BY <1>3, <1>4, <1>5, <1>6, <1>7, <1>8, <1>9, <1>10, <1>11, <1>12, <1>13 DEF Next, Handle

-----------------------------------------------------------------------------
(* What up-to-date handlers know.                                          *)

\* A step that leaves the stored status of t alone and gives no handler an
\* up-to-date row of it.
LEMMA KnowledgeKept ==
  ASSUME NEW t \in Shipments, KnowStatus(t), shipments'[t] = shipments[t],
         \A h \in Threads : Knows(h, t)' => Knows(h, t) /\ shipmentTask'[h].row = shipmentTask[h].row
  PROVE  KnowStatus(t)'
BY DEF KnowStatus, Exists

\* A handler that goes on knows no more than before.
LEMMA GoesOnKnows ==
  ASSUME NEW h \in Threads, GoesOn(h), NEW t, Knows(h, t)'
  PROVE  Knows(h, t) /\ shipmentTask'[h].row = shipmentTask[h].row
BY DEF GoesOn, Knows, WorksOn

\* A handler that has begun, with a row of its own making.
LEMMA BeginKnows ==
  ASSUME TypeOK, NEW h \in Threads, NEW pc \in {"read", "saved"}, NEW k \in Shipments, NEW row \in Row,
         NEW alert \in AlertType \cup {"none", "silent"}, Begin(h, pc, k, row, alert),
         NEW t \in Shipments, KnowStatus(t),
         t # k => shipments'[t] = shipments[t],
         t = k => /\ UNCHANGED shipments \/ \A g \in Threads : ~ Knows(g, t)
                  /\ pc = "saved" \/ alert = "silent" => Exists(t)' /\ shipments'[t].status = row.status
  PROVE  KnowStatus(t)'
<1>1. \A g \in Threads \ {h} : shipmentTask'[g] = shipmentTask[g]
  BY BeginEffect
<1>2. /\ shipmentTask'[h].pc = pc /\ shipmentTask'[h].key = k /\ shipmentTask'[h].row = row
      /\ shipmentTask'[h].alert = alert
  BY DEF Begin, TypeOK
<1>3. ASSUME NEW g \in Threads, g # h, Knows(g, t)'
      PROVE  Exists(t)' /\ shipments'[t].status = shipmentTask'[g].row.status
  <2>1. Knows(g, t)
    BY <1>1, <1>3 DEF Knows, WorksOn
  <2>2. shipments'[t] = shipments[t]
    BY <2>1
  <2>3. QED
    BY <1>1, <1>3, <2>1, <2>2 DEF KnowStatus, Exists
<1>4. ASSUME Knows(h, t)' PROVE Exists(t)' /\ shipments'[t].status = shipmentTask'[h].row.status
  BY <1>2, <1>4 DEF Knows, WorksOn
<1>5. QED
  BY <1>3, <1>4 DEF KnowStatus

\* Every step keeps what up-to-date handlers know true.
LEMMA NextKnows ==
  ASSUME TypeOK, TasksFit, [Next]_vars, NEW t \in Shipments, KnowStatus(t) PROVE KnowStatus(t)'
<1>0. Camel \in Threads /\ Clients \subseteq Threads
  BY DEF Threads
<1>1. ASSUME UNCHANGED shipments, NEW h \in Threads, ~ Knows(h, t)',
             \A g \in Threads \ {h} : shipmentTask'[g] = shipmentTask[g]
      PROVE  KnowStatus(t)'
  <2>1. \A g \in Threads : Knows(g, t)' => Knows(g, t) /\ shipmentTask'[g].row = shipmentTask[g].row
    BY <1>1 DEF Knows, WorksOn
  <2>2. QED
    BY <1>1, <2>1, KnowledgeKept
<1>2. ASSUME NEW h, shipmentTask'[h] = Idle PROVE ~ Knows(h, t)'
  BY <1>2 DEF Knows, WorksOn
<1>3. ASSUME NEW c \in Clients, NEW k \in Shipments, NEW o \in Orders \cup {NoOrder}, Create(c, k, o)
      PROVE  KnowStatus(t)'
  <2> DEFINE row == [status |-> "CREATED", notes |-> "none", order |-> o]
  <2>1. row \in Row
    BY DEF Row, Status
  <2> HIDE DEF row
  <2>2. Begin(c, "saved", k, row, "none") /\ shipments' = [shipments EXCEPT ![k] = row] /\ ~ Exists(k)
    BY <1>3 DEF Create, row
  <2>3. t # k => shipments'[t] = shipments[t]
    BY <2>2 DEF TypeOK
  <2>4. t = k => (\A g \in Threads : ~ Knows(g, t)) /\ Exists(t)' /\ shipments'[t] = row
    BY <2>1, <2>2, RowIsPresent DEF TypeOK, KnowStatus, Exists
  <2>5. c \in Threads /\ "none" \in AlertType \cup {"none", "silent"} /\ "saved" \in {"read", "saved"}
    BY <1>0
  <2>6. QED
    BY <2>1, <2>2, <2>3, <2>4, <2>5, BeginKnows
<1>4. ASSUME NEW c \in Clients, NEW k \in Shipments, NEW s \in Status, UpdateRead(c, k, s)
      PROVE  KnowStatus(t)'
  <2>1. shipments[k] \in Row
    BY <1>4 DEF UpdateRead, Exists, TypeOK
  <2>2. [shipments[k] EXCEPT !.status = s] \in Row
    BY <2>1, RowTypes
  <2>3. UNCHANGED shipments /\ Begin(c, "read", k, [shipments[k] EXCEPT !.status = s], "none")
    BY <1>4 DEF UpdateRead
  <2>4. c \in Threads
    BY <1>0
  <2>5. \A g \in Threads \ {c} : shipmentTask'[g] = shipmentTask[g]
    BY <2>2, <2>3, <2>4, BeginEffect
  <2>6. shipmentTask'[c].pc = "read" /\ shipmentTask'[c].alert = "none"
    BY <2>3, <2>4 DEF Begin, TypeOK
  <2>7. ~ Knows(c, t)'
    BY <2>6 DEF Knows
  <2>8. QED
    BY <1>1, <2>3, <2>4, <2>5, <2>7
<1>5. ASSUME NEW k \in Shipments, InspectRead(k) PROVE KnowStatus(t)'
  <2> DEFINE e == NextRecord(visionTopic, visionPosition, k)
  <2>1. UNCHANGED shipments
    BY <1>5 DEF InspectRead
  <2>2. CASE shipmentTask' = shipmentTask
    BY <2>1, <2>2 DEF KnowStatus, Knows, WorksOn, Exists
  <2>3. CASE Exists(k) /\ Begin(Camel, "read", k, DamagedRow(shipments[k]), AlertOf(e))
    <3>1. shipmentTask'[Camel].pc = "read" /\ shipmentTask'[Camel].alert # "silent"
      BY <1>0, <2>3 DEF Begin, TypeOK, AlertOf
    <3>2. \A g \in Threads \ {Camel} : shipmentTask'[g] = shipmentTask[g]
      BY <1>0, <2>3 DEF Begin, TypeOK
    <3>3. ~ Knows(Camel, t)'
      BY <3>1 DEF Knows
    <3>4. QED
      BY <1>0, <1>1, <2>1, <3>2, <3>3
  <2>4. CASE Exists(k) /\ Begin(Camel, "read", k, CleanRow(shipments[k]), "silent")
    <3>0. "DAMAGED" \in Status
      BY DEF Status
    <3>1. shipments[k] \in Row
      BY <2>4 DEF Exists, TypeOK
    <3>2. CleanRow(shipments[k]) \in Row /\ CleanRow(shipments[k]).status = shipments[k].status
      BY <3>0, <3>1, RowTypes
    <3>3. t = k => Exists(t)' /\ shipments'[t].status = CleanRow(shipments[k]).status
      BY <2>1, <2>4, <3>2 DEF Exists
    <3>4. "silent" \in AlertType \cup {"none", "silent"} /\ "read" \in {"read", "saved"}
      OBVIOUS
    <3>5. QED
      BY <1>0, <2>1, <2>4, <3>2, <3>3, <3>4, BeginKnows
  <2>5. QED
    BY <1>5, <2>2, <2>3, <2>4 DEF InspectRead
<1>6. ASSUME NEW h \in Threads, Save(h) PROVE KnowStatus(t)'
  <2> DEFINE k == shipmentTask[h].key
  <2>1. shipments' = [shipments EXCEPT ![k] = shipmentTask[h].row] /\ shipmentTask[h].row \in Row
        /\ k \in Shipments /\ shipmentTask[h] # Idle
    BY <1>6, NotIdle, BusyTask DEF Save
  <2>2. \A g \in Threads \ {h} : GoesOn(g)
    BY <1>6, SaveEffect
  <2>3. CASE t # k
    <3>1. shipments'[t] = shipments[t]
      BY <2>1, <2>3 DEF TypeOK
    <3>2. ~ Knows(h, t)'
      BY <1>6, <2>3, SaveEffect DEF Knows, WorksOn
    <3>3. \A g \in Threads : Knows(g, t)' => Knows(g, t) /\ shipmentTask'[g].row = shipmentTask[g].row
      BY <2>2, <3>2, GoesOnKnows
    <3>4. QED
      BY <3>1, <3>3, KnowledgeKept
  <2>4. CASE t = k
    <3>1. shipments'[t] = shipmentTask[h].row /\ Exists(t)'
      BY <2>1, <2>4, RowIsPresent DEF TypeOK, Exists
    <3>2. ASSUME NEW g \in Threads, g # h PROVE ~ Knows(g, t)'
      <4>1. GoesOn(g) /\ (WorksOn(shipmentTask, g, k) => shipmentTask'[g].stale)
        BY <1>6, <3>2, SaveEffect
      <4>2. QED
        BY <2>4, <4>1 DEF Knows, WorksOn, GoesOn
    <3>3. Knows(h, t)' => shipmentTask'[h].row = shipmentTask[h].row
      BY <1>6, SaveEffect DEF Knows, WorksOn
    <3>4. QED
      BY <3>1, <3>2, <3>3 DEF KnowStatus
  <2>5. QED
    BY <2>3, <2>4
<1>7. ASSUME NEW h \in Threads, Publish(h) \/ LosePublish(h) PROVE KnowStatus(t)'
  <2>1. UNCHANGED shipments /\ shipmentTask[h] # Idle /\ AfterPublish(h)
    BY <1>7, NotIdle DEF Publish, LosePublish
  <2>2. ~ Knows(h, t)'
    <3>1. "silent" \notin AlertType
      BY DEF AlertType
    <3>2. QED
      BY <1>2, <2>1, <3>1, AfterPublishEffect DEF Knows
  <2>3. QED
    BY <1>1, <2>1, <2>2, AfterPublishEffect
<1>8. ASSUME NEW h \in Threads, shipmentTask' = [shipmentTask EXCEPT ![h] = Idle], UNCHANGED shipments
      PROVE  KnowStatus(t)'
  <2>1. shipmentTask'[h] = Idle /\ \A g \in Threads \ {h} : shipmentTask'[g] = shipmentTask[g]
    BY <1>8 DEF TypeOK
  <2>2. QED
    BY <1>1, <1>2, <1>8, <2>1
<1>9. CASE PublishAlert \/ LoseAlert
  BY <1>0, <1>8, <1>9 DEF PublishAlert, LoseAlert
<1>10. ASSUME NEW h \in Threads, Fail(h) PROVE KnowStatus(t)'
  BY <1>8, <1>10 DEF Fail
<1>11. CASE Crash
  <2>1. \A h \in Threads : ~ Knows(h, t)'
    BY <1>2, <1>11 DEF Crash
  <2>2. QED
    BY <2>1 DEF KnowStatus
<1>12. ASSUME UNCHANGED <<shipments, shipmentTask>> PROVE KnowStatus(t)'
  BY <1>12 DEF KnowStatus, Knows, WorksOn, Exists
<1>13. CASE Commit \/ UNCHANGED vars
  BY <1>12, <1>13 DEF Commit, vars, serviceVars
<1>14. ASSUME NEW k \in Shipments, NEW e \in Inspection, Inspect(k, e) PROVE KnowStatus(t)'
  BY <1>12, <1>14 DEF Inspect, serviceVars
<1>15. QED
  BY <1>3, <1>4, <1>5, <1>6, <1>7, <1>9, <1>10, <1>11, <1>13, <1>14 DEF Next, Handle

-----------------------------------------------------------------------------
(* What is stored is announced, in hand or owed.                           *)

\* The thread that is past an announcement is the route's, and it alone.
LEMMA CamelAlone == Camel \in Threads /\ Clients \subseteq Threads /\ Threads \ Clients = {Camel}
BY ShipmentConstants DEF Threads

\* A step elsewhere: what is stored, announced and still to be read of t stays,
\* and no handler that has stored it ends.
LEMMA StaysSettled ==
  ASSUME TypeOK, NEW t \in Shipments, Settled(t),
         shipments'[t].status = shipments[t].status, shipmentsTopic'[t] = shipmentsTopic[t],
         visionTopic'[t] = visionTopic[t], visionPosition'[t] = visionPosition[t],
         Announced(t)' => Announced(t),
         \A h \in Threads : Saved(h, t) => Saved(h, t)' \/ Settled(t)'
  PROVE  Settled(t)'
<1>1. CASE LastIsStored(t)
  BY <1>1 DEF LastIsStored, Settled
<1>2. CASE \E h \in Threads : Saved(h, t)
  BY <1>2 DEF Settled
<1>3. CASE \E i \in Nat : Owed(t, i)
  <2>1. PICK i \in Nat : Owed(t, i)
    BY <1>3
  <2>2. Owed(t, i)'
    BY <2>1 DEF Owed
  <2>3. QED
    BY <2>2 DEF Settled
<1>4. QED
  BY <1>1, <1>2, <1>3 DEF Settled

\* A route that has stored the row of a flagged inspection, and then handles it
\* again, still owes its announcement.
LEMMA SavedIsOwed ==
  ASSUME TypeOK, TasksFit, NEW t \in Shipments, Saved(Camel, t),
         visionTopic'[t] = visionTopic[t], visionPosition'[t] \in Nat,
         visionPosition'[t] <= visionPosition[t], ~ Announced(t)'
  PROVE  Settled(t)'
<1>1. HasNext(visionTopic, visionPosition, t) /\ Flags(visionTopic[t][visionPosition[t] + 1])
  BY CamelAlone DEF Saved, WorksOn, TasksFit, TaskFits, HandlesItsRecord, NextRecord
<1>2. PICK i \in Nat : i = visionPosition[t] + 1
  BY DEF TypeOK
<1>3. i \in DOMAIN visionTopic[t] /\ visionPosition'[t] < i
  BY <1>1, <1>2 DEF HasNext, TypeOK
<1>4. Owed(t, i)'
  BY <1>1, <1>2, <1>3 DEF Owed
<1>5. QED
  BY <1>4 DEF Settled

\* When the route goes on to the next record, no other announcement of t is
\* lost: what it handled is announced, or does not flag.
LEMMA OwedLater ==
  ASSUME TypeOK, NEW t \in Shipments, NEW i \in Nat, Owed(t, i),
         visionTopic'[t] = visionTopic[t], visionPosition'[t] = visionPosition[t] + 1,
         Announced(t) \/ ~ Flags(NextRecord(visionTopic, visionPosition, t)), ~ Announced(t)'
  PROVE  Settled(t)'
<1>1. visionPosition[t] \in Nat
  BY DEF TypeOK
<1>2. visionPosition[t] + 1 < i
  BY <1>1 DEF Owed, NextRecord
<1>3. Owed(t, i)'
  BY <1>1, <1>2 DEF Owed
<1>4. QED
  BY <1>3 DEF Settled

\* Save: the saver has its announcement to make, unless it stored notes alone,
\* and then, up to date, it left the status as it was.
LEMMA SaveSettled ==
  ASSUME TypeOK, TasksFit, NEW h \in Threads, Save(h), NEW t \in Shipments \ raced',
         KnowStatus(t), Exists(t), Settled(t)
  PROVE  Settled(t)'
<1> DEFINE k == shipmentTask[h].key
<1>1. /\ k \in Shipments /\ shipmentTask[h] # Idle /\ shipmentTask[h].pc = "read"
      /\ shipmentTask[h].row \in Row
      /\ UNCHANGED <<shipmentsTopic, visionTopic>>
      /\ shipments' = [shipments EXCEPT ![k] = shipmentTask[h].row]
  BY NotIdle, BusyTask DEF Save
<1>2. \A g \in Threads : Saved(g, t) => Saved(g, t)'
  <2>1. \A g \in Threads : Saved(g, t) => g # h
    BY <1>1 DEF Saved
  <2>2. QED
    BY <2>1, SaveEffect DEF Saved, WorksOn, GoesOn
<1>3. Announced(t)' => Announced(t)
  BY <1>1, CamelAlone, SaveEffect DEF Announced, WorksOn, GoesOn
<1>4. CASE t # k
  <2>1. shipments'[t] = shipments[t]
    BY <1>1, <1>4 DEF TypeOK
  <2>2. visionPosition'[t] = visionPosition[t]
    BY <1>1, <1>4, NextPositionEffect DEF Save
  <2>3. QED
    BY <1>1, <1>2, <1>3, <2>1, <2>2, StaysSettled
<1>5. CASE t = k /\ shipmentTask[h].alert # "silent"
  <2>1. Saved(h, t)'
    BY <1>5, SaveEffect DEF Saved, WorksOn
  <2>2. QED
    BY <2>1 DEF Settled
<1>6. CASE t = k /\ shipmentTask[h].alert = "silent"
  <2>1. h = Camel
    BY <1>1, <1>6, CamelAlone DEF TasksFit, TaskFits
  <2>2. Knows(h, t)
    BY <1>1, <1>6 DEF Save, MarkRaced, Knows, WorksOn
  <2>3. shipments'[t].status = shipments[t].status
    BY <1>1, <1>6, <2>2 DEF KnowStatus, TypeOK
  <2>4. visionPosition'[t] = visionPosition[t] + 1
    <3>1. AfterSave(shipmentTask[h]) = Idle
      BY <1>6 DEF AfterSave
    <3>2. QED
      BY <1>1, <1>6, <2>1, <3>1, NextPositionEffect DEF Save
  <2>5. ~ Flags(NextRecord(visionTopic, visionPosition, t))
    <3>1. "silent" \notin AlertType
      BY DEF AlertType
    <3>2. QED
      BY <1>1, <1>6, <2>1, <3>1 DEF TasksFit, TaskFits, HandlesItsRecord
  <2>6. ~ Announced(t)'
    BY <1>6, <2>1, SaveEffect DEF Announced, WorksOn
  <2>7. CASE LastIsStored(t)
    BY <1>1, <2>3, <2>7 DEF LastIsStored, Settled
  <2>8. CASE \E g \in Threads : Saved(g, t)
    BY <1>2, <2>8 DEF Settled
  <2>9. CASE \E i \in Nat : Owed(t, i)
    BY <1>1, <2>4, <2>5, <2>6, <2>9, OwedLater
  <2>10. QED
    BY <2>7, <2>8, <2>9 DEF Settled
<1>7. QED
  BY <1>4, <1>5, <1>6

\* Publish: an up-to-date handler announces the stored status.
LEMMA PublishSettled ==
  ASSUME TypeOK, TasksFit, NEW h \in Threads, Publish(h), NEW t \in Shipments \ raced',
         KnowStatus(t), Settled(t)
  PROVE  Settled(t)'
<1> DEFINE k == shipmentTask[h].key
           e == [type |-> shipmentTask[h].row.status, order |-> shipmentTask[h].row.order]
<1>1. /\ k \in Shipments /\ shipmentTask[h] # Idle /\ shipmentTask[h].pc = "saved"
      /\ UNCHANGED <<shipments, visionTopic>> /\ AfterPublish(h)
      /\ shipmentsTopic' = [shipmentsTopic EXCEPT ![k] = Append(@, e)]
  BY NotIdle, BusyTask DEF Publish, Published
<1>2. CASE t # k
  <2>1. shipmentsTopic'[t] = shipmentsTopic[t]
    BY <1>1, <1>2 DEF TypeOK
  <2>2. visionPosition'[t] = visionPosition[t]
    BY <1>1, <1>2, AfterPublishEffect, NextPositionEffect
  <2>3. \A g \in Threads : Saved(g, t) => g # h
    BY <1>2 DEF Saved, WorksOn
  <2>4. \A g \in Threads : Saved(g, t) => Saved(g, t)'
    BY <1>1, <2>3, AfterPublishEffect DEF Saved, WorksOn
  <2>5. Announced(t)' => Announced(t)
    BY <1>1, <1>2, CamelAlone, AfterPublishEffect DEF Announced, WorksOn
  <2>6. QED
    BY <1>1, <2>1, <2>2, <2>4, <2>5, StaysSettled
<1>3. CASE t = k
  <2>1. Knows(h, t)
    BY <1>1, <1>3 DEF Publish, MarkRaced, Knows, WorksOn
  <2>2. e.type = shipments[t].status
    BY <2>1 DEF KnowStatus
  <2>3. e \in ShipmentEvent
    BY <1>1, BusyTask DEF ShipmentEvent, Row
  <2>4. shipmentsTopic[t] \in Seq(ShipmentEvent) /\ shipmentsTopic'[t] = Append(shipmentsTopic[t], e)
    BY <1>1, <1>3 DEF TypeOK, ShipmentEvent
  <2> HIDE DEF e
  <2>5. shipmentsTopic'[t] # <<>> /\ shipmentsTopic'[t][Len(shipmentsTopic'[t])] = e
    BY <2>3, <2>4
  <2>6. LastIsStored(t)'
    BY <1>1, <2>2, <2>5 DEF LastIsStored
  <2>7. QED
    BY <2>6 DEF Settled
<1>4. QED
  BY <1>2, <1>3

\* Steps that end handlers without a trace: each that had stored its row is
\* noted in missed, or is the route's, which reads its inspection again.
LEMMA EndSettled ==
  ASSUME TypeOK, TasksFit, ResumesBehind, NEW hs \in SUBSET Threads,
         \A h \in Threads : shipmentTask'[h] = IF h \in hs THEN Idle ELSE shipmentTask[h],
         UNCHANGED <<shipments, shipmentsTopic, visionTopic>>, Unannounced(hs) \subseteq missed',
         NEW t \in Shipments \ missed', Settled(t),
         visionPosition'[t] \in Nat, visionPosition'[t] <= visionPosition[t],
         Camel \notin hs => visionPosition'[t] = visionPosition[t]
  PROVE  Settled(t)'
<1>0. visionPosition[t] \in Nat
  BY DEF TypeOK
<1>1. CASE LastIsStored(t)
  BY <1>1 DEF LastIsStored, Settled
<1>2. ASSUME NEW h \in Threads, Saved(h, t) PROVE Settled(t)'
  <2>1. CASE h \notin hs
    <3>1. Saved(h, t)'
      BY <1>2, <2>1 DEF Saved, WorksOn
    <3>2. QED
      BY <3>1 DEF Settled
  <2>2. CASE h \in hs /\ h \in Clients
    <3>1. t \in Unannounced(hs)
      BY <1>2, <2>2 DEF Unannounced, Saved, WorksOn
    <3>2. QED
      BY <3>1
  <2>3. CASE h \in hs /\ h = Camel
    <3>1. ~ Announced(t)'
      BY <2>3 DEF Announced, WorksOn
    <3>2. QED
      BY <1>2, <2>3, <3>1, SavedIsOwed
  <2>4. QED
    BY <2>1, <2>2, <2>3, CamelAlone
<1>3. ASSUME NEW i \in Nat, Owed(t, i) PROVE Settled(t)'
  <2>1. CASE Camel \in hs
    <3>1. ~ Announced(t)'
      BY <2>1 DEF Announced, WorksOn
    <3>2. Owed(t, i)'
      BY <1>0, <1>3, <3>1 DEF Owed
    <3>3. QED
      BY <3>2 DEF Settled
  <2>2. CASE Camel \notin hs
    <3>1. Announced(t)' => Announced(t)
      BY <2>2, CamelAlone DEF Announced, WorksOn
    <3>2. Owed(t, i)'
      BY <1>3, <2>2, <3>1 DEF Owed
    <3>3. QED
      BY <3>2 DEF Settled
  <2>3. QED
    BY <2>1, <2>2
<1>4. QED
  BY <1>1, <1>2, <1>3 DEF Settled

\* Every step keeps the account, for a shipment no outdated handler acted on
\* and that lost nothing.
LEMMA NextSettled ==
  ASSUME TypeOK, TasksFit, ResumesBehind, TypeOK', [Next]_vars, NEW t \in Shipments \ (raced' \cup missed'),
         KnowStatus(t), Exists(t) => Settled(t), Exists(t)'
  PROVE  Settled(t)'
<1>0. visionPosition[t] \in Nat /\ visionPosition'[t] \in Nat
  BY DEF TypeOK
<1>1. ASSUME NEW h \in Threads, NEW pc \in {"read", "saved"}, NEW k \in Shipments, NEW row \in Row,
             NEW alert \in AlertType \cup {"none", "silent"}, Begin(h, pc, k, row, alert),
             shipmentTask[h] = Idle,
             UNCHANGED <<shipmentsTopic, visionTopic, visionPosition>>, shipments'[t] = shipments[t]
      PROVE  Settled(t)'
  <2>1. \A g \in Threads \ {h} : shipmentTask'[g] = shipmentTask[g]
    BY <1>1, BeginEffect
  <2>2. shipmentTask'[h].pc = pc /\ pc # "announced"
    BY <1>1 DEF Begin, TypeOK
  <2>3. \A g \in Threads : Saved(g, t) => Saved(g, t)'
    BY <1>1, <2>1 DEF Saved, WorksOn
  <2>4. Announced(t)' => Announced(t)
    BY <2>1, <2>2, CamelAlone DEF Announced, WorksOn
  <2>5. Settled(t)
    BY <1>1 DEF Exists
  <2>6. QED
    BY <1>1, <2>3, <2>4, <2>5, StaysSettled
<1>2. ASSUME NEW c \in Clients, NEW k \in Shipments, NEW o \in Orders \cup {NoOrder}, Create(c, k, o)
      PROVE  Settled(t)'
  <2> DEFINE row == [status |-> "CREATED", notes |-> "none", order |-> o]
  <2>1. row \in Row
    BY DEF Row, Status
  <2> HIDE DEF row
  <2>2. /\ Begin(c, "saved", k, row, "none") /\ shipments' = [shipments EXCEPT ![k] = row]
        /\ shipmentTask[c] = Idle /\ UNCHANGED <<shipmentsTopic, visionTopic, visionPosition>>
        /\ c \in Threads
    BY <1>2, CamelAlone DEF Create, NewRequest, row
  <2>3. CASE t = k
    <3>1. Saved(c, t)'
      <4>1. shipmentTask'[c].pc = "saved" /\ shipmentTask'[c].key = k
        BY <2>2 DEF Begin, TypeOK
      <4>2. QED
        BY <2>3, <4>1, NotIdle DEF Saved, WorksOn, Idle
    <3>2. QED
      BY <2>2, <3>1 DEF Settled
  <2>4. CASE t # k
    <3>1. shipments'[t] = shipments[t]
      BY <2>2, <2>4 DEF TypeOK
    <3>2. "none" \in AlertType \cup {"none", "silent"}
      OBVIOUS
    <3>3. QED
      BY <1>1, <2>1, <2>2, <3>1, <3>2
  <2>5. QED
    BY <2>3, <2>4
<1>3. ASSUME NEW c \in Clients, NEW k \in Shipments, NEW s \in Status, UpdateRead(c, k, s)
      PROVE  Settled(t)'
  <2>1. shipments[k] \in Row
    BY <1>3 DEF UpdateRead, Exists, TypeOK
  <2>2. [shipments[k] EXCEPT !.status = s] \in Row
    BY <2>1, RowTypes
  <2>3. "none" \in AlertType \cup {"none", "silent"} /\ c \in Threads
    BY CamelAlone
  <2>4. QED
    BY <1>1, <1>3, <2>2, <2>3 DEF UpdateRead, NewRequest
<1>4. ASSUME NEW k \in Shipments, InspectRead(k) PROVE Settled(t)'
  <2> DEFINE e == NextRecord(visionTopic, visionPosition, k)
  <2>1. shipmentTask[Camel] = Idle /\ UNCHANGED <<shipments, shipmentsTopic, visionTopic>>
    BY <1>4 DEF InspectRead
  <2>2. Exists(t) /\ Settled(t)
    BY <2>1 DEF Exists
  <2>3. ASSUME ~ (e.type # "OTHER" /\ Exists(k)), visionPosition' = Advanced(visionPosition, k),
               shipmentTask' = shipmentTask
        PROVE  Settled(t)'
    <3>1. /\ \A g \in Threads : Saved(g, t) <=> Saved(g, t)'
          /\ ~ Announced(t) /\ ~ Announced(t)'
      BY <2>1, <2>3 DEF Saved, WorksOn, Announced
    <3>2. CASE t # k
      <4>1. visionPosition'[t] = visionPosition[t]
        BY <2>3, <3>2 DEF Advanced, TypeOK
      <4>2. QED
        BY <2>1, <2>2, <3>1, <4>1, StaysSettled
    <3>3. CASE t = k
      <4>1. ~ Flags(NextRecord(visionTopic, visionPosition, t))
        BY <2>2, <2>3, <3>3 DEF Flags
      <4>2. visionPosition'[t] = visionPosition[t] + 1
        BY <2>3, <3>3 DEF Advanced, TypeOK
      <4>3. \A i \in Nat : Owed(t, i) => Settled(t)'
        BY <2>1, <3>1, <4>1, <4>2, OwedLater
      <4>4. LastIsStored(t) => LastIsStored(t)'
        BY <2>1 DEF LastIsStored
      <4>5. QED
        BY <2>2, <3>1, <4>3, <4>4 DEF Settled
    <3>4. QED
      BY <3>2, <3>3
  <2>4. ASSUME Exists(k), UNCHANGED visionPosition,
               \/ Begin(Camel, "read", k, DamagedRow(shipments[k]), AlertOf(e))
               \/ Begin(Camel, "read", k, CleanRow(shipments[k]), "silent")
        PROVE  Settled(t)'
    <3>1. shipments[k] \in Row /\ "DAMAGED" \in Status
      BY <2>4 DEF Exists, TypeOK, Status
    <3>2. DamagedRow(shipments[k]) \in Row /\ CleanRow(shipments[k]) \in Row
      BY <3>1, RowTypes
    <3>3. {AlertOf(e), "silent"} \subseteq AlertType \cup {"none", "silent"}
      BY DEF AlertOf, AlertType
    <3>4. Camel \in Threads /\ shipments'[t] = shipments[t]
      BY <2>1, CamelAlone
    <3>5. CASE Begin(Camel, "read", k, DamagedRow(shipments[k]), AlertOf(e))
      BY <1>1, <2>1, <2>4, <3>2, <3>3, <3>4, <3>5
    <3>6. CASE Begin(Camel, "read", k, CleanRow(shipments[k]), "silent")
      BY <1>1, <2>1, <2>4, <3>2, <3>3, <3>4, <3>6
    <3>7. QED
      BY <2>4, <3>5, <3>6
  <2>5. QED
    BY <1>4, <2>3, <2>4 DEF InspectRead
<1>5. ASSUME UNCHANGED shipments PROVE Settled(t)
  BY <1>5 DEF Exists
<1>6. ASSUME NEW h \in Threads, Save(h) PROVE Settled(t)'
  <2>1. CASE Exists(t)
    BY <1>6, <2>1, SaveSettled
  <2>2. CASE ~ Exists(t)
    <3>1. t = shipmentTask[h].key
      BY <1>6, <2>2 DEF Save, Exists, TypeOK
    <3>2. CASE shipmentTask[h].alert = "silent"
      <4>1. shipmentTask[h] # Idle
        BY <1>6, NotIdle DEF Save
      <4>2. Knows(h, t)
        BY <1>6, <3>1, <3>2, <4>1 DEF Save, MarkRaced, Knows, WorksOn
      <4>3. QED
        BY <2>2, <4>2 DEF KnowStatus
    <3>3. CASE shipmentTask[h].alert # "silent"
      <4>1. Saved(h, t)'
        BY <1>6, <3>1, <3>3, SaveEffect DEF Saved, WorksOn
      <4>2. QED
        BY <4>1 DEF Settled
    <3>4. QED
      BY <3>2, <3>3
  <2>3. QED
    BY <2>1, <2>2
<1>7. ASSUME NEW h \in Threads, Publish(h) PROVE Settled(t)'
  BY <1>5, <1>7, PublishSettled DEF Publish
<1>8. CASE PublishAlert
  <2>1. /\ shipmentTask[Camel] # Idle /\ shipmentTask[Camel].pc = "announced"
        /\ UNCHANGED <<shipments, shipmentsTopic, visionTopic>> /\ visionPosition' = NextPosition(Camel)
    BY <1>8, NotIdle DEF PublishAlert
  <2>2. \A g \in Threads : shipmentTask'[g] = IF g = Camel THEN Idle ELSE shipmentTask[g]
    BY <1>8 DEF PublishAlert, TypeOK
  <2>3. (\A g \in Threads : Saved(g, t) => Saved(g, t)') /\ ~ Announced(t)'
    BY <2>1, <2>2, CamelAlone DEF Saved, WorksOn, Announced
  <2>4. Settled(t)
    BY <1>5, <2>1
  <2>5. CASE t # shipmentTask[Camel].key
    <3>1. visionPosition'[t] = visionPosition[t]
      BY <2>1, <2>5, CamelAlone, NextPositionEffect
    <3>2. QED
      BY <2>1, <2>3, <2>4, <3>1, StaysSettled
  <2>6. CASE t = shipmentTask[Camel].key
    <3>1. Announced(t) /\ visionPosition'[t] = visionPosition[t] + 1
      BY <2>1, <2>6, CamelAlone, NextPositionEffect DEF Announced, WorksOn
    <3>2. \A i \in Nat : Owed(t, i) => Settled(t)'
      BY <2>1, <2>3, <3>1, OwedLater
    <3>3. LastIsStored(t) => LastIsStored(t)'
      BY <2>1 DEF LastIsStored
    <3>4. QED
      BY <2>3, <2>4, <3>2, <3>3 DEF Settled
  <2>7. QED
    BY <2>5, <2>6
<1>9. ASSUME NEW h \in Threads, LosePublish(h) PROVE Settled(t)'
  <2>1. /\ shipmentTask[h] # Idle /\ AfterPublish(h) /\ t # shipmentTask[h].key
        /\ UNCHANGED <<shipments, shipmentsTopic, visionTopic>>
    BY <1>9, NotIdle DEF LosePublish
  <2>2. visionPosition'[t] = visionPosition[t]
    BY <2>1, AfterPublishEffect, NextPositionEffect
  <2>3. \A g \in Threads : Saved(g, t) => g # h
    BY <2>1 DEF Saved, WorksOn
  <2>4. \A g \in Threads : Saved(g, t) => Saved(g, t)'
    BY <2>1, <2>3, AfterPublishEffect DEF Saved, WorksOn
  <2>5. Announced(t)' => Announced(t)
    BY <2>1, CamelAlone, AfterPublishEffect DEF Announced, WorksOn
  <2>6. QED
    BY <1>5, <2>1, <2>2, <2>4, <2>5, StaysSettled
<1>10. ASSUME NEW h \in Threads, shipmentTask[h] # Idle, t # shipmentTask[h].key,
              shipmentTask' = [shipmentTask EXCEPT ![h] = Idle], visionPosition' = NextPosition(h),
              UNCHANGED <<shipments, shipmentsTopic, visionTopic>>
       PROVE  Settled(t)'
  <2>1. \A g \in Threads : shipmentTask'[g] = IF g = h THEN Idle ELSE shipmentTask[g]
    BY <1>10 DEF TypeOK
  <2>2. (\A g \in Threads : Saved(g, t) => Saved(g, t)') /\ (Announced(t)' => Announced(t))
    BY <1>10, <2>1, CamelAlone DEF Saved, WorksOn, Announced
  <2>3. visionPosition'[t] = visionPosition[t]
    BY <1>10, NextPositionEffect
  <2>4. QED
    BY <1>5, <1>10, <2>2, <2>3, StaysSettled
<1>11. CASE LoseAlert
  <2>1. shipmentTask[Camel] # Idle /\ Camel \in Threads
    BY <1>11, CamelAlone, NotIdle DEF LoseAlert
  <2>2. t # shipmentTask[Camel].key
    BY <1>11 DEF LoseAlert
  <2>3. QED
    BY <1>10, <1>11, <2>1, <2>2 DEF LoseAlert
<1>12. ASSUME NEW h \in Threads, Fail(h) PROVE Settled(t)'
  <2>1. CASE visionPosition' = visionPosition /\ missed' = missed \cup Unannounced({h})
    <3>1. \A g \in Threads : shipmentTask'[g] = IF g \in {h} THEN Idle ELSE shipmentTask[g]
      BY <1>12 DEF Fail, TypeOK
    <3>2. UNCHANGED <<shipments, shipmentsTopic, visionTopic>> /\ visionPosition'[t] <= visionPosition[t]
      BY <1>0, <1>12, <2>1 DEF Fail
    <3>3. QED
      BY <1>0, <1>5, <2>1, <3>1, <3>2, EndSettled
  <2>2. CASE visionPosition' = NextPosition(h) /\ missed' = missed \cup {shipmentTask[h].key}
    BY <1>10, <1>12, <2>2 DEF Fail
  <2>3. QED
    BY <1>12, <2>1, <2>2 DEF Fail
<1>13. CASE Crash
  <2>1. \A g \in Threads : shipmentTask'[g] = IF g \in Threads THEN Idle ELSE shipmentTask[g]
    BY <1>13 DEF Crash
  <2>2. UNCHANGED <<shipments, shipmentsTopic, visionTopic>> /\ Unannounced(Threads) \subseteq missed'
    BY <1>13 DEF Crash
  <2>3. visionPosition'[t] <= visionPosition[t]
    BY <1>13 DEF Crash, Resumed, ResumesBehind
  <2>4. QED
    BY <1>0, <1>5, <2>1, <2>2, <2>3, CamelAlone, EndSettled
<1>14. ASSUME UNCHANGED <<shipments, shipmentTask, shipmentsTopic, visionTopic, visionPosition>>
       PROVE  Settled(t)'
  BY <1>5, <1>14, StaysSettled DEF Announced, Saved, WorksOn
<1>15. CASE Commit \/ UNCHANGED vars
  BY <1>14, <1>15 DEF Commit, vars, serviceVars
<1>16. ASSUME NEW k \in Shipments, NEW e \in Inspection, Inspect(k, e) PROVE Settled(t)'
  <2>1. UNCHANGED <<shipments, shipmentTask, shipmentsTopic, visionPosition>>
        /\ visionTopic' = Published(visionTopic, k, e)
    BY <1>16 DEF Inspect, serviceVars
  <2>2. ASSUME NEW i \in Nat, Owed(t, i) PROVE Owed(t, i)'
    BY <2>1, <2>2, GrowingLog DEF Owed, Announced, WorksOn
  <2>3. LastIsStored(t) => LastIsStored(t)'
    BY <2>1 DEF LastIsStored
  <2>4. \A h \in Threads : Saved(h, t) => Saved(h, t)'
    BY <2>1 DEF Saved, WorksOn
  <2>5. QED
    BY <1>5, <2>1, <2>2, <2>3, <2>4 DEF Settled
<1>17. QED
  BY <1>2, <1>3, <1>4, <1>6, <1>7, <1>8, <1>9, <1>11, <1>12, <1>13, <1>15, <1>16 DEF Next, Handle

-----------------------------------------------------------------------------
(* Alerts are backed by quarantines.                                       *)

\* What an announcement adds to the quarantines of its log.
LEMMA QuarantinesGrow ==
  ASSUME NEW log \in Seq(ShipmentEvent), NEW e \in ShipmentEvent
  PROVE  /\ Cardinality(Quarantines(log)) \in Nat /\ Cardinality(Quarantines(Append(log, e))) \in Nat
         /\ Cardinality(Quarantines(log)) <= Cardinality(Quarantines(Append(log, e)))
         /\ e.type = "DAMAGED" =>
              Cardinality(Quarantines(Append(log, e))) = Cardinality(Quarantines(log)) + 1
<1> DEFINE n == Len(log) + 1
<1>1. IsFiniteSet(Quarantines(log))
  <2>1. IsFiniteSet(1..Len(log))
    BY FS_Interval
  <2>2. Quarantines(log) \subseteq 1..Len(log)
    BY DEF Quarantines
  <2>3. QED
    BY <2>1, <2>2, FS_Subset
<1>2. n \notin Quarantines(log)
  BY DEF Quarantines
<1>3. Quarantines(Append(log, e)) =
        IF e.type = "DAMAGED" THEN Quarantines(log) \cup {n} ELSE Quarantines(log)
  <2>1. /\ DOMAIN Append(log, e) = DOMAIN log \cup {n}
        /\ Append(log, e)[n] = e /\ \A i \in DOMAIN log : Append(log, e)[i] = log[i]
    OBVIOUS
  <2>2. QED
    BY <2>1 DEF Quarantines
<1>4. Cardinality(Quarantines(log)) \in Nat
  BY <1>1, FS_CardinalityType
<1>5. Cardinality(Quarantines(log) \cup {n}) = Cardinality(Quarantines(log)) + 1
  BY <1>1, <1>2, FS_AddElement
<1>6. QED
  BY <1>3, <1>4, <1>5

\* Nothing new about the alerts of t.
LEMMA StaysBacked ==
  ASSUME NEW t, Backed(t), alertsTopic'[t] = alertsTopic[t], shipmentsTopic'[t] = shipmentsTopic[t],
         Announced(t)' => Announced(t)
  PROVE  Backed(t)'
BY DEF Backed

\* Every step keeps alerts backed, for a shipment that lost nothing.
LEMMA NextBacked ==
  ASSUME TypeOK, TasksFit, [Next]_vars, NEW t \in Shipments \ missed', Backed(t) PROVE Backed(t)'
<1>1. ASSUME NEW h \in Threads, shipmentTask' = [shipmentTask EXCEPT ![h] = Idle],
             UNCHANGED <<shipmentsTopic, alertsTopic>>
      PROVE  Backed(t)'
  <2>1. shipmentTask'[Camel] = IF h = Camel THEN Idle ELSE shipmentTask[Camel]
    BY <1>1, CamelAlone DEF TypeOK
  <2>2. QED
    BY <1>1, <2>1, StaysBacked DEF Announced, WorksOn
<1>2. ASSUME NEW h \in Threads, NEW pc \in {"read", "saved"}, NEW k, NEW row, NEW alert,
             Begin(h, pc, k, row, alert), UNCHANGED <<shipmentsTopic, alertsTopic>>
      PROVE  Backed(t)'
  <2>1. shipmentTask'[Camel] = shipmentTask[Camel] \/ shipmentTask'[Camel].pc = pc
    BY <1>2, CamelAlone DEF Begin, TypeOK
  <2>2. QED
    BY <1>2, <2>1, StaysBacked DEF Announced, WorksOn
<1>3. ASSUME NEW c \in Clients, NEW k \in Shipments, NEW o \in Orders \cup {NoOrder}, Create(c, k, o)
      PROVE  Backed(t)'
  BY <1>2, <1>3, CamelAlone DEF Create
<1>4. ASSUME NEW c \in Clients, NEW k \in Shipments, NEW s \in Status, UpdateRead(c, k, s)
      PROVE  Backed(t)'
  BY <1>2, <1>4, CamelAlone DEF UpdateRead
<1>5. ASSUME UNCHANGED <<shipmentTask, shipmentsTopic, alertsTopic>> PROVE Backed(t)'
  BY <1>5, StaysBacked DEF Announced, WorksOn
<1>6. ASSUME NEW k \in Shipments, InspectRead(k) PROVE Backed(t)'
  BY <1>2, <1>5, <1>6, CamelAlone DEF InspectRead
<1>7. ASSUME NEW h \in Threads, Save(h) PROVE Backed(t)'
  <2>1. UNCHANGED <<shipmentsTopic, alertsTopic>>
    BY <1>7 DEF Save
  <2>2. Announced(t)' => Announced(t)
    BY <1>7, CamelAlone, SaveEffect DEF Announced, WorksOn, GoesOn
  <2>3. QED
    BY <2>1, <2>2, StaysBacked
<1>8. ASSUME NEW h \in Threads, Publish(h) PROVE Backed(t)'
  <2> DEFINE k == shipmentTask[h].key
             e == [type |-> shipmentTask[h].row.status, order |-> shipmentTask[h].row.order]
  <2>1. /\ k \in Shipments /\ shipmentTask[h] # Idle /\ UNCHANGED alertsTopic /\ AfterPublish(h)
        /\ shipmentsTopic' = [shipmentsTopic EXCEPT ![k] = Append(@, e)]
        /\ shipmentTask[h].pc = "saved"
    BY <1>8, NotIdle, BusyTask DEF Publish, Published
  <2>2. e \in ShipmentEvent /\ e.type = shipmentTask[h].row.status
    BY <2>1, BusyTask DEF ShipmentEvent, Row
  <2> HIDE DEF e
  <2>3. CASE t # k
    <3>1. shipmentsTopic'[t] = shipmentsTopic[t]
      BY <2>1, <2>3 DEF TypeOK
    <3>2. Announced(t)' => Announced(t)
      BY <2>1, <2>3, CamelAlone, AfterPublishEffect DEF Announced, WorksOn
    <3>3. QED
      BY <2>1, <3>1, <3>2, StaysBacked
  <2>4. CASE t = k
    <3>1. shipmentsTopic[t] \in Seq(ShipmentEvent) /\ shipmentsTopic'[t] = Append(shipmentsTopic[t], e)
      BY <2>1, <2>4 DEF TypeOK, ShipmentEvent
    <3>2. Len(alertsTopic[t]) \in Nat
      BY DEF TypeOK
    <3>3. CASE shipmentTask[h].alert \in AlertType
      <4>1. h = Camel
        <5>1. "none" \notin AlertType
          BY DEF AlertType
        <5>2. QED
          BY <2>1, <3>3, <5>1, CamelAlone DEF TasksFit, TaskFits
      <4>2. e.type = "DAMAGED"
        <5>1. "silent" \notin AlertType
          BY DEF AlertType
        <5>2. QED
          BY <2>1, <2>2, <3>3, <4>1, <5>1 DEF TasksFit, TaskFits, HandlesItsRecord
      <4>3. QED
        BY <2>1, <2>2, <3>1, <3>2, <4>2, QuarantinesGrow DEF Backed
    <3>4. CASE shipmentTask[h].alert \notin AlertType
      <4>1. Announced(t)' => Announced(t)
        BY <2>1, <3>4, CamelAlone, AfterPublishEffect DEF Announced, WorksOn
      <4>2. QED
        BY <2>1, <2>2, <3>1, <3>2, <4>1, QuarantinesGrow DEF Backed
    <3>5. QED
      BY <3>3, <3>4
  <2>5. QED
    BY <2>3, <2>4
<1>9. CASE PublishAlert
  <2> DEFINE k == shipmentTask[Camel].key
  <2>1. /\ k \in Shipments /\ shipmentTask[Camel] # Idle /\ UNCHANGED shipmentsTopic
        /\ shipmentTask[Camel].pc = "announced" /\ shipmentTask[Camel].alert \in AlertType
        /\ alertsTopic' = [alertsTopic EXCEPT ![k] = Append(@, shipmentTask[Camel].alert)]
    BY <1>9, NotIdle, BusyTask, CamelAlone DEF PublishAlert, Published, TasksFit, TaskFits
  <2>2. ~ Announced(t)'
    BY <1>9, CamelAlone DEF PublishAlert, Announced, WorksOn, TypeOK
  <2>3. CASE t # k
    <3>1. alertsTopic'[t] = alertsTopic[t]
      BY <2>1, <2>3 DEF TypeOK
    <3>2. QED
      BY <2>1, <2>2, <3>1, StaysBacked
  <2>4. CASE t = k
    <3>1. Announced(t)
      BY <2>1, <2>4 DEF Announced, WorksOn
    <3>2. alertsTopic[t] \in Seq(AlertType) /\ alertsTopic'[t] = Append(alertsTopic[t], shipmentTask[Camel].alert)
      BY <2>1, <2>4 DEF TypeOK
    <3>3. Len(alertsTopic'[t]) = Len(alertsTopic[t]) + 1
      BY <2>1, <3>2
    <3>4. QED
      BY <2>1, <2>2, <3>1, <3>3 DEF Backed
  <2>5. QED
    BY <2>3, <2>4
<1>10. ASSUME NEW h \in Threads, LosePublish(h) PROVE Backed(t)'
  <2>1. /\ shipmentTask[h] # Idle /\ AfterPublish(h) /\ t # shipmentTask[h].key
        /\ UNCHANGED <<shipmentsTopic, alertsTopic>>
    BY <1>10, NotIdle DEF LosePublish
  <2>2. Announced(t)' => Announced(t)
    BY <2>1, CamelAlone, AfterPublishEffect DEF Announced, WorksOn
  <2>3. QED
    BY <2>1, <2>2, StaysBacked
<1>11. CASE LoseAlert
  BY <1>1, <1>11, CamelAlone DEF LoseAlert
<1>12. ASSUME NEW h \in Threads, Fail(h) PROVE Backed(t)'
  BY <1>1, <1>12 DEF Fail
<1>13. CASE Crash
  BY <1>13, CamelAlone, StaysBacked DEF Crash, Announced, WorksOn
<1>14. CASE Commit \/ UNCHANGED vars
  BY <1>5, <1>14 DEF Commit, vars, serviceVars
<1>15. ASSUME NEW k \in Shipments, NEW e \in Inspection, Inspect(k, e) PROVE Backed(t)'
  BY <1>5, <1>15 DEF Inspect, serviceVars
<1>16. QED
  BY <1>3, <1>4, <1>6, <1>7, <1>8, <1>9, <1>10, <1>11, <1>12, <1>13, <1>14, <1>15 DEF Next, Handle

-----------------------------------------------------------------------------
(* The theorems.                                                           *)

\* The initial state satisfies the invariant.
LEMMA InitInv == Init => ShipmentInv
<1> SUFFICES ASSUME Init PROVE ShipmentInv
  OBVIOUS
<1>1. \A h \in Threads : shipmentTask[h] = Idle
  BY DEF Init
<1>2. \A t \in Shipments : KnowStatus(t) /\ ~ Exists(t) /\ ~ Announced(t)
  BY <1>1, CamelAlone DEF Init, KnowStatus, Knows, WorksOn, Exists, Announced
<1>3. ASSUME NEW t \in Shipments PROVE Backed(t)
  <2>1. alertsTopic[t] = <<>> /\ shipmentsTopic[t] = <<>>
    BY DEF Init, EmptyTopic
  <2>2. Quarantines(<<>>) = {}
    BY DEF Quarantines
  <2>3. Cardinality(Quarantines(<<>>)) = 0
    BY <2>2, FS_EmptySet
  <2>4. QED
    BY <1>2, <2>1, <2>3 DEF Backed
<1>4. QED
  BY <1>2, <1>3, InitType, InitTasks DEF ShipmentInv

\* Nothing that was raced or missed is forgotten.
LEMMA HistoryGrows == [Next]_vars => raced \subseteq raced' /\ missed \subseteq missed'
BY DEF Next, Handle, Create, UpdateRead, InspectRead, Save, Publish, PublishAlert, LosePublish, LoseAlert,
  Fail, Commit, Crash, Inspect, MarkRaced, vars, serviceVars

\* Every step keeps the invariant.
LEMMA NextInv == ShipmentInv /\ [Next]_vars => ShipmentInv'
<1> SUFFICES ASSUME ShipmentInv, [Next]_vars PROVE ShipmentInv'
  OBVIOUS
<1>1. TypeOK /\ TasksFit /\ ResumesBehind
  BY DEF ShipmentInv
<1>2. TypeOK' /\ TasksFit' /\ ResumesBehind'
  BY <1>1, NextType, NextTasks, NextResumes
<1>3. ASSUME NEW t \in Shipments PROVE KnowStatus(t)'
  BY <1>1, NextKnows DEF ShipmentInv
<1>4. ASSUME NEW t \in Shipments \ (raced' \cup missed'), Exists(t)' PROVE Settled(t)'
  <2>1. KnowStatus(t) /\ (Exists(t) => Settled(t))
    BY HistoryGrows DEF ShipmentInv
  <2>2. QED
    BY <1>1, <1>2, <1>4, <2>1, NextSettled
<1>5. ASSUME NEW t \in Shipments \ missed' PROVE Backed(t)'
  <2>1. Backed(t)
    BY HistoryGrows DEF ShipmentInv
  <2>2. QED
    BY <1>1, <2>1, NextBacked
<1>6. QED
  BY <1>2, <1>3, <1>4, <1>5 DEF ShipmentInv

\* What is stored, announced and under way agree throughout.
THEOREM Invariant == Spec => []ShipmentInv
BY InitInv, NextInv, PTL DEF Spec

\* The rows, threads, topics and cursors of shipment-service keep their shape.
THEOREM TypeInvariant == Spec => []TypeOK
<1>1. ShipmentInv => TypeOK
  BY DEF ShipmentInv
<1>2. QED
  BY <1>1, Invariant, PTL

\* The last announcement of a shipment at rest is the stored status.
THEOREM AnnouncementAgreement == Spec => []LastAnnouncementIsStored
<1>1. ShipmentInv => LastAnnouncementIsStored
  <2> SUFFICES ASSUME ShipmentInv, NEW t \in Shipments \ (raced \cup missed), Exists(t),
                      Quiet(shipmentTask, t), ~ HasNext(visionTopic, visionPosition, t)
               PROVE  LastIsStored(t)
    BY DEF LastAnnouncementIsStored, LastIsStored
  <2>1. TypeOK /\ Settled(t)
    BY DEF ShipmentInv
  <2>2. \A h \in Threads : ~ Saved(h, t)
    BY <2>1 DEF TypeOK, Quiet, Saved
  <2>3. \A i \in Nat : ~ Owed(t, i)
    BY <2>1 DEF TypeOK, Owed, HasNext
  <2>4. QED
    BY <2>1, <2>2, <2>3 DEF Settled
<1>2. QED
  BY <1>1, Invariant, PTL

\* No more damage alerts than announced quarantines.
THEOREM QuarantineComesFirst == Spec => []AlertsFollowQuarantine
<1>1. ShipmentInv => AlertsFollowQuarantine
  BY DEF ShipmentInv, Backed, Quarantines, AlertsFollowQuarantine
<1>2. QED
  BY <1>1, Invariant, PTL

=============================================================================
