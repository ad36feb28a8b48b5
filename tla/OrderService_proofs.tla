------------------------ MODULE OrderService_proofs ------------------------
(***************************************************************************)
(* Proofs about order-service, for any sets of orders, shipments and       *)
(* request threads and any bounds.                                         *)
(*                                                                         *)
(* The safety properties speak of the topic or of the table alone and are  *)
(* not inductive.  The strengthening OrderInv ties the one to the other by *)
(* way of the handlers between them: on an order no outdated handler has   *)
(* touched, an up-to-date handler knows the stored status, at most one is  *)
(* past its save, and once a closing is announced none is left.            *)
(***************************************************************************)
EXTENDS OrderService, TLAPS

-----------------------------------------------------------------------------
(* Cursors.                                                                *)

\* Moving one cursor on by one keeps the type of the cursors.
LEMMA AdvancedType ==
  ASSUME NEW Keys, NEW cursor \in [Keys -> Nat], NEW k
  PROVE  Advanced(cursor, k) \in [Keys -> Nat]
<1>1. CASE k \in Keys
  BY <1>1 DEF Advanced
<1>2. CASE k \notin Keys
  BY <1>2 DEF Advanced
<1>3. QED
  BY <1>1, <1>2

-----------------------------------------------------------------------------
(* The inductive invariant.                                                *)

\* Handler h works on order o, is at pc, and nobody has overtaken it.
Fresh(h, o, pc) ==
  WorksOn(orderTask, h, o) /\ orderTask[h].pc = pc /\ ~ orderTask[h].stale

\* What up-to-date handlers know: one that has read the order found it open,
\* one that has stored it left its own status there, and is alone in that.
FreshHandlersKnow(o) ==
  \A h \in Threads :
    /\ Fresh(h, o, "read") => Exists(o) /\ ~ isClosed(o)
    /\ Fresh(h, o, "saved") => /\ orders[o] = orderTask[h].to
                               /\ \A g \in Threads : Fresh(g, o, "saved") => g = h

\* An announced closing is the last announcement, the table has it, and no
\* up-to-date handler is about to announce anything.
ClosingIsSettled(o) ==
  \A i \in DOMAIN ordersTopic[o] : ordersTopic[o][i] \in ClosedStatus =>
    /\ i = Len(ordersTopic[o])
    /\ isClosed(o)
    /\ \A h \in Threads : ~ Fresh(h, o, "saved")

LastIsStored(o) ==
  /\ ordersTopic[o] # <<>>
  /\ ordersTopic[o][Len(ordersTopic[o])] = orders[o]

\* The stored status is announced, or its announcement is on the way.
AnnouncedOrUnderway(o) ==
  Exists(o) => LastIsStored(o) \/ \E h \in Threads : Fresh(h, o, "saved")

InStep(o) ==
  /\ FreshHandlersKnow(o)
  /\ ClosingIsSettled(o)
  /\ o \notin missed => AnnouncedOrUnderway(o)

OrderInv == TypeOK /\ \A o \in Orders \ raced : InStep(o)

-----------------------------------------------------------------------------
(* Types.                                                                  *)

\* Overtaking keeps the type of the threads' tasks.
LEMMA OvertakeType ==
  ASSUME NEW task \in [Threads -> Task], NEW h \in Threads, NEW k, NEW next \in Task
  PROVE  Overtake(task, h, k, next) \in [Threads -> Task]
<1>1. ASSUME NEW g \in Threads, g # h, WorksOn(task, g, k)
      PROVE  [task[g] EXCEPT !.stale = TRUE] \in Task
  <2>1. task[g] \in Task /\ task[g] # Idle
    BY <1>1 DEF WorksOn
  <2>2. QED
    BY <2>1 DEF Task
<1>2. DOMAIN task = Threads
  OBVIOUS
<1>3. QED
  BY <1>1, <1>2 DEF Overtake

\* The fields of a busy thread's task.
LEMMA BusyTask ==
  ASSUME TypeOK, NEW h \in Threads, orderTask[h] # Idle
  PROVE  /\ orderTask[h].pc \in {"read", "saved"}
         /\ orderTask[h].key \in Orders
         /\ orderTask[h].to \in Status
         /\ orderTask[h].from \in Shipments \cup {"rest"}
         /\ orderTask[h].stale \in BOOLEAN
BY DEF TypeOK, Task

\* A thread inside a handler is not idle.
LEMMA NotIdle == ASSUME NEW h, orderTask[h].pc \in {"read", "saved"} PROVE orderTask[h] # Idle
BY DEF Idle

\* The initial state has the right shape.
LEMMA InitType == Init => TypeOK
<1>1. Idle \in Task
  BY DEF Task
<1>2. QED
  BY <1>1, OrderConstants DEF Init, TypeOK, EmptyTopic, AtStart

\* Every step keeps the shape, one action at a time.
LEMMA NextType == TypeOK /\ [Next]_vars => TypeOK'
<1> SUFFICES ASSUME TypeOK, [Next]_vars PROVE TypeOK'
  OBVIOUS
<1> USE OrderConstants
<1>1. Idle \in Task
  BY DEF Task
<1>2. ASSUME NEW c \in Clients, NEW o \in Orders, Create(c, o) PROVE TypeOK'
  <2>1. [pc |-> "saved", key |-> o, to |-> "CREATED", from |-> "rest", stale |-> FALSE] \in Task
    BY DEF Task, Status
  <2>2. orderTask' \in [Threads -> Task]
    BY <1>2, <2>1 DEF Create, TypeOK
  <2>3. orders' \in [Orders -> Status \cup {"absent"}]
    BY <1>2 DEF Create, TypeOK, Stored, Status
  <2>4. QED
    BY <1>2, <2>2, <2>3 DEF Create, NewRequest, TypeOK
<1>3. ASSUME NEW c \in Clients, NEW o \in Orders, NEW s \in Status, UpdateRead(c, o, s) PROVE TypeOK'
  <2>1. [pc |-> "read", key |-> o, to |-> s, from |-> "rest", stale |-> FALSE] \in Task
    BY DEF Task
  <2>2. orderTask' \in [Threads -> Task]
    BY <1>3, <2>1 DEF UpdateRead, TypeOK
  <2>3. QED
    BY <1>3, <2>2 DEF UpdateRead, NewRequest, TypeOK
<1>4. ASSUME NEW t \in Shipments, ListenerRead(t) PROVE TypeOK'
  <2> DEFINE e == NextRecord(shipmentsTopic, position, t)
  <2>1. ASSUME position' = Advanced(position, t), UNCHANGED orderTask PROVE TypeOK'
    <3>1. position' \in [Shipments -> Nat]
      BY <2>1, AdvancedType DEF TypeOK
    <3>2. QED
      BY <1>4, <2>1, <3>1 DEF ListenerRead, TypeOK
  <2>2. ASSUME NEW s \in Reaction(e), UNCHANGED position,
               orderTask' = [orderTask EXCEPT ![Listener] =
                 [pc |-> "read", key |-> e.order, to |-> s, from |-> t, stale |-> FALSE]]
        PROVE  TypeOK'
    <3>1. e.order \in Orders /\ s \in Status
      BY <2>2 DEF Reaction
    <3>2. [pc |-> "read", key |-> e.order, to |-> s, from |-> t, stale |-> FALSE] \in Task
      BY <3>1 DEF Task
    <3>3. orderTask' \in [Threads -> Task]
      BY <2>2, <3>2 DEF TypeOK
    <3>4. QED
      BY <1>4, <2>2, <3>3 DEF ListenerRead, TypeOK
  <2>3. QED
    BY <1>4, <2>1, <2>2 DEF ListenerRead
<1>5. ASSUME NEW h \in Threads, Finish(h)
      PROVE  orderTask' \in [Threads -> Task] /\ position' \in [Shipments -> Nat]
  <2>1. Advanced(position, orderTask[h].from) \in [Shipments -> Nat]
    BY AdvancedType DEF TypeOK
  <2>2. QED
    BY <1>1, <1>5, <2>1 DEF Finish, TypeOK
<1>6. ASSUME NEW h \in Threads, orderTask[h] # Idle, MarkRaced(h) PROVE raced' \subseteq Orders
  BY <1>6, BusyTask DEF MarkRaced, TypeOK
<1>7. ASSUME NEW hs \in SUBSET Threads PROVE Unannounced(hs) \subseteq Orders
  BY NotIdle, BusyTask DEF Unannounced
<1>8. ASSUME Fault PROVE faults' \in 0..MaxFaults
  BY <1>8 DEF Fault, TypeOK
<1>9. ASSUME NEW h \in Threads, Save(h) PROVE TypeOK'
  <2>1. orderTask[h] # Idle
    BY <1>9, NotIdle DEF Save
  <2>2. [orderTask[h] EXCEPT !.pc = "saved", !.stale = FALSE] \in Task
    BY <2>1 DEF TypeOK, Task
  <2>3. orderTask' \in [Threads -> Task]
    BY <1>9, <2>2, OvertakeType DEF Save, TypeOK
  <2>4. orders' \in [Orders -> Status \cup {"absent"}]
    BY <1>9, <2>1, BusyTask DEF Save, Stored, TypeOK
  <2>5. raced' \subseteq Orders
    BY <1>6, <1>9, <2>1 DEF Save
  <2>6. QED
    BY <1>9, <2>3, <2>4, <2>5 DEF Save, TypeOK
<1>10. ASSUME NEW h \in Threads, Publish(h) PROVE TypeOK'
  <2>1. orderTask[h] # Idle
    BY <1>10, NotIdle DEF Publish
  <2>2. ordersTopic' \in [Orders -> Seq(Status)]
    BY <1>10, <2>1, BusyTask DEF Publish, TypeOK, Published
  <2>3. raced' \subseteq Orders
    BY <1>6, <1>10, <2>1 DEF Publish
  <2>4. QED
    BY <1>5, <1>10, <2>2, <2>3 DEF Publish, TypeOK
<1>11. ASSUME NEW h \in Threads, LosePublish(h) PROVE TypeOK'
  <2>1. missed' \subseteq Orders
    BY <1>7, <1>11 DEF LosePublish, TypeOK
  <2>2. QED
    BY <1>5, <1>8, <1>11, <2>1 DEF LosePublish, TypeOK
<1>12. ASSUME NEW h \in Threads, Fail(h) PROVE TypeOK'
  <2> DEFINE skipped == Advanced(position, orderTask[h].from)
  <2>1. missed' \subseteq Orders
    <3>1. Unannounced({h}) \subseteq Orders /\ orderTask[h].key \in Orders
      BY <1>7, <1>12, BusyTask DEF Fail
    <3>2. QED
      BY <1>12, <3>1 DEF Fail, TypeOK
  <2>2. position' \in [Shipments -> Nat]
    <3>1. skipped \in [Shipments -> Nat]
      BY AdvancedType DEF TypeOK
    <3>2. position' = position \/ position' = skipped
      BY <1>12 DEF Fail
    <3>3. QED
      BY <3>1, <3>2 DEF TypeOK
  <2>3. orderTask' \in [Threads -> Task]
    BY <1>1, <1>12 DEF Fail, TypeOK
  <2>4. QED
    BY <1>8, <1>12, <2>1, <2>2, <2>3 DEF Fail, TypeOK
<1>13. CASE Commit
  BY <1>13 DEF Commit, TypeOK
<1>14. CASE Crash
  <2>1. missed' \subseteq Orders
    BY <1>7, <1>14 DEF Crash, TypeOK
  <2>2. orderTask' \in [Threads -> Task]
    BY <1>1, <1>14 DEF Crash
  <2>3. QED
    BY <1>8, <1>14, <2>1, <2>2 DEF Crash, Resumed, TypeOK
<1>15. ASSUME NEW t \in Shipments, NEW e \in ShipmentEvent, Announce(t, e) PROVE TypeOK'
  <2>1. shipmentsTopic' \in [Shipments -> Seq(ShipmentEvent)]
    BY <1>15 DEF Announce, TypeOK, Published
  <2>2. QED
    BY <1>15, <2>1 DEF Announce, serviceVars, TypeOK
<1>16. CASE UNCHANGED vars
  BY <1>16 DEF vars, serviceVars, TypeOK
<1>17. QED
  BY <1>2, <1>3, <1>4, <1>9, <1>10, <1>11, <1>12, <1>13, <1>14, <1>15, <1>16 DEF Next, Service

\* The rows, threads, topics and cursors of order-service keep their shape.
THEOREM TypeInvariant == Spec => []TypeOK
BY InitType, NextType, PTL DEF Spec

-----------------------------------------------------------------------------
(* What a step does to the handlers of one order.                          *)

\* A step that leaves the order's row and log alone, makes no handler of it
\* fresh, and takes a fresh one past its save away only with a note in missed.
LEMMA Undisturbed ==
  ASSUME NEW o \in Orders, InStep(o),
         orders'[o] = orders[o], ordersTopic'[o] = ordersTopic[o], missed \subseteq missed',
         \A h \in Threads, pc \in {"read", "saved"} :
           Fresh(h, o, pc)' => Fresh(h, o, pc) /\ orderTask'[h].to = orderTask[h].to,
         \A h \in Threads : Fresh(h, o, "saved") => Fresh(h, o, "saved")' \/ o \in missed'
  PROVE  InStep(o)'
<1>1. FreshHandlersKnow(o)'
  BY DEF InStep, FreshHandlersKnow, Exists, isClosed
<1>2. ClosingIsSettled(o)'
  BY DEF InStep, ClosingIsSettled, isClosed
<1>3. o \notin missed' => AnnouncedOrUnderway(o)'
  BY DEF InStep, AnnouncedOrUnderway, LastIsStored, Exists
<1>4. QED
  BY <1>1, <1>2, <1>3 DEF InStep

\* A handler that has just read an open order knows what it must know.
LEMMA ReadKeepsStep ==
  ASSUME TypeOK, NEW h \in Threads, orderTask[h] = Idle,
         NEW k \in Orders, Exists(k), ~ isClosed(k), NEW task \in Task,
         task # Idle, task.pc = "read", task.key = k,
         orderTask' = [orderTask EXCEPT ![h] = task],
         UNCHANGED <<orders, ordersTopic, missed>>,
         NEW o \in Orders, InStep(o)
  PROVE  InStep(o)'
<1>1. \A g \in Threads : g # h => orderTask'[g] = orderTask[g]
  BY DEF TypeOK
<1>2. orderTask'[h] = task
  BY DEF TypeOK
<1>3. \A g \in Threads : Fresh(g, o, "saved")' <=> Fresh(g, o, "saved")
  BY <1>1, <1>2 DEF Fresh, WorksOn
<1>4. \A g \in Threads : Fresh(g, o, "read")' => Fresh(g, o, "read") \/ (g = h /\ k = o)
  BY <1>1, <1>2 DEF Fresh, WorksOn
<1>5. \A g \in Threads : Fresh(g, o, "saved") => orderTask'[g].to = orderTask[g].to
  BY <1>1 DEF Fresh, WorksOn
<1>6. FreshHandlersKnow(o)'
  BY <1>3, <1>4, <1>5 DEF InStep, FreshHandlersKnow, Exists, isClosed
<1>7. ClosingIsSettled(o)'
  BY <1>3 DEF InStep, ClosingIsSettled, isClosed
<1>8. o \notin missed' => AnnouncedOrUnderway(o)'
  BY <1>3 DEF InStep, AnnouncedOrUnderway, LastIsStored, Exists
<1>9. QED
  BY <1>6, <1>7, <1>8 DEF InStep

\* What Save leaves in the threads: the saver is fresh and past its save,
\* every other handler of the row is outdated, the rest are as they were.
LEMMA SaveEffect ==
  ASSUME TypeOK, NEW h \in Threads, Save(h)
  PROVE  /\ orderTask[h] # Idle
         /\ orderTask'[h] # Idle
         /\ orderTask'[h].pc = "saved"
         /\ orderTask'[h].key = orderTask[h].key
         /\ orderTask'[h].to = orderTask[h].to
         /\ ~ orderTask'[h].stale
         /\ \A g \in Threads \ {h} :
              IF WorksOn(orderTask, g, orderTask[h].key)
              THEN orderTask'[g].stale /\ orderTask'[g].key = orderTask[h].key
              ELSE orderTask'[g] = orderTask[g]
<1>1. orderTask[h] # Idle
  BY NotIdle DEF Save
<1>2. orderTask \in [Threads -> Task] /\ DOMAIN orderTask = Threads
  BY DEF TypeOK
<1> DEFINE next == [orderTask[h] EXCEPT !.pc = "saved", !.stale = FALSE]
<1>3. orderTask' = Overtake(orderTask, h, orderTask[h].key, next)
  BY DEF Save
<1>4. orderTask'[h] = next
  BY <1>2, <1>3 DEF Overtake
<1>5. /\ next.pc = "saved" /\ next.key = orderTask[h].key
      /\ next.to = orderTask[h].to /\ next.stale = FALSE
  BY <1>1, <1>2 DEF Task
<1>6. next # Idle
  BY <1>5 DEF Idle
<1>7. ASSUME NEW g \in Threads \ {h}
      PROVE  IF WorksOn(orderTask, g, orderTask[h].key)
             THEN orderTask'[g].stale /\ orderTask'[g].key = orderTask[h].key
             ELSE orderTask'[g] = orderTask[g]
  <2>1. CASE WorksOn(orderTask, g, orderTask[h].key)
    <3>1. orderTask'[g] = [orderTask[g] EXCEPT !.stale = TRUE]
      BY <1>2, <1>3, <2>1 DEF Overtake
    <3>2. orderTask[g] \in Task /\ orderTask[g] # Idle /\ orderTask[g].key = orderTask[h].key
      BY <1>2, <2>1 DEF WorksOn
    <3>3. [orderTask[g] EXCEPT !.stale = TRUE].stale = TRUE
      BY <3>2 DEF Task
    <3>4. [orderTask[g] EXCEPT !.stale = TRUE].key = orderTask[g].key
      BY <3>2 DEF Task
    <3>5. QED
      BY <2>1, <3>1, <3>2, <3>3, <3>4
  <2>2. CASE ~ WorksOn(orderTask, g, orderTask[h].key)
    BY <1>2, <1>3, <2>2 DEF Overtake
  <2>3. QED
    BY <2>1, <2>2
<1>8. QED
  BY <1>1, <1>4, <1>5, <1>6, <1>7

-----------------------------------------------------------------------------
(* The invariant holds.                                                    *)

\* Nothing is stored, announced or under way at the start.
LEMMA InitInv == Init => OrderInv
<1> SUFFICES ASSUME Init, NEW o \in Orders PROVE InStep(o)
  BY InitType DEF OrderInv
<1>1. \A h \in Threads, pc \in {"read", "saved"} : ~ Fresh(h, o, pc)
  BY DEF Init, Fresh, WorksOn
<1>2. ordersTopic[o] = <<>> /\ ~ Exists(o)
  BY DEF Init, EmptyTopic, Exists
<1>3. QED
  BY <1>1, <1>2 DEF InStep, FreshHandlersKnow, ClosingIsSettled, AnnouncedOrUnderway

\* Create: the order did not exist, so no fresh handler and no closing of it does.
LEMMA CreateKeepsStep ==
  ASSUME TypeOK, NEW c \in Clients, NEW k \in Orders, Create(c, k), NEW o \in Orders, InStep(o)
  PROVE  InStep(o)'
<1> DEFINE task == [pc |-> "saved", key |-> k, to |-> "CREATED", from |-> "rest", stale |-> FALSE]
<1>1. c \in Threads /\ orderTask[c] = Idle
  BY DEF Create, NewRequest, Threads
<1>2. task # Idle /\ task.pc = "saved" /\ task.key = k /\ task.to = "CREATED" /\ task.stale = FALSE
  BY DEF Idle
<1>3. orderTask'[c] = task /\ \A g \in Threads : g # c => orderTask'[g] = orderTask[g]
  BY <1>1 DEF Create, TypeOK
<1>4. CASE o # k
  <2>1. \A h \in Threads, pc \in {"read", "saved"} : Fresh(h, o, pc)' <=> Fresh(h, o, pc)
    BY <1>1, <1>2, <1>3, <1>4 DEF Fresh, WorksOn
  <2>2. \A h \in Threads, pc \in {"read", "saved"} : Fresh(h, o, pc) => orderTask'[h].to = orderTask[h].to
    BY <1>1, <1>3 DEF Fresh, WorksOn
  <2>3. orders'[o] = orders[o] /\ UNCHANGED <<ordersTopic, missed>>
    BY <1>4 DEF Create, Stored, TypeOK
  <2>4. QED
    BY <2>1, <2>2, <2>3, Undisturbed
<1>5. CASE o = k
  <2>1. orders[o] = "absent" /\ orders'[o] = "CREATED" /\ UNCHANGED <<ordersTopic, missed>>
    BY <1>5 DEF Create, Exists, Stored, TypeOK
  <2>2. \A g \in Threads : ~ Fresh(g, o, "read") /\ ~ Fresh(g, o, "saved")
    <3>1. \A g \in Threads : Fresh(g, o, "saved") => orderTask[g].to \in Status
      BY BusyTask DEF Fresh, WorksOn
    <3>2. QED
      BY <2>1, <3>1 DEF InStep, FreshHandlersKnow, Exists, Status
  <2>3. \A g \in Threads : ~ Fresh(g, o, "read")' /\ (Fresh(g, o, "saved")' <=> g = c)
    BY <1>2, <1>3, <1>5, <2>2 DEF Fresh, WorksOn
  <2>4. FreshHandlersKnow(o)'
    BY <1>2, <1>3, <2>1, <2>3 DEF FreshHandlersKnow
  <2>5. \A i \in DOMAIN ordersTopic[o] : ordersTopic[o][i] \notin ClosedStatus
    BY <2>1 DEF InStep, ClosingIsSettled, isClosed, ClosedStatus
  <2>6. ClosingIsSettled(o)'
    BY <2>1, <2>5 DEF ClosingIsSettled
  <2>7. AnnouncedOrUnderway(o)'
    BY <1>1, <2>3 DEF AnnouncedOrUnderway
  <2>8. QED
    BY <2>4, <2>6, <2>7 DEF InStep
<1>6. QED
  BY <1>4, <1>5

\* Save: a fresh saver has read the order open, so no closing was announced,
\* and it leaves every other handler of the order outdated.
LEMMA SaveKeepsStep ==
  ASSUME TypeOK, NEW h \in Threads, Save(h), NEW o \in Orders \ raced', InStep(o)
  PROVE  InStep(o)'
<1> DEFINE k == orderTask[h].key
<1>1. k \in Orders /\ orderTask[h] # Idle /\ orderTask[h].pc = "read"
  BY SaveEffect, BusyTask DEF Save
<1>2. CASE o # k
  <2>1. \A g \in Threads, pc \in {"read", "saved"} : Fresh(g, o, pc)' => orderTask'[g] = orderTask[g]
    BY <1>2, SaveEffect DEF Fresh, WorksOn
  <2>2. \A g \in Threads, pc \in {"read", "saved"} : Fresh(g, o, pc) => orderTask'[g] = orderTask[g]
    BY <1>2, SaveEffect DEF Fresh, WorksOn
  <2>3. \A g \in Threads, pc \in {"read", "saved"} :
          /\ Fresh(g, o, pc)' => Fresh(g, o, pc) /\ orderTask'[g].to = orderTask[g].to
          /\ Fresh(g, o, pc) => Fresh(g, o, pc)'
    BY <2>1, <2>2 DEF Fresh, WorksOn
  <2>4. orders'[o] = orders[o] /\ UNCHANGED <<ordersTopic, missed>>
    BY <1>2 DEF Save, Stored, TypeOK
  <2>5. QED
    BY <2>3, <2>4, Undisturbed
<1>3. CASE o = k
  <2>1. ~ orderTask[h].stale
    BY <1>3 DEF Save, MarkRaced
  <2>2. Exists(o) /\ ~ isClosed(o)
    BY <1>1, <1>3, <2>1 DEF InStep, FreshHandlersKnow, Fresh, WorksOn
  <2>3. \A i \in DOMAIN ordersTopic[o] : ordersTopic[o][i] \notin ClosedStatus
    BY <2>2 DEF InStep, ClosingIsSettled
  <2>4. orders'[o] = orderTask'[h].to /\ UNCHANGED ordersTopic
    BY <1>3, SaveEffect DEF Save, Stored, TypeOK
  <2>5. \A g \in Threads : ~ Fresh(g, o, "read")' /\ (Fresh(g, o, "saved")' <=> g = h)
    BY <1>3, SaveEffect DEF Fresh, WorksOn
  <2>6. FreshHandlersKnow(o)'
    BY <2>4, <2>5 DEF FreshHandlersKnow
  <2>7. ClosingIsSettled(o)'
    BY <2>3, <2>4 DEF ClosingIsSettled
  <2>8. AnnouncedOrUnderway(o)'
    BY <2>5 DEF AnnouncedOrUnderway
  <2>9. QED
    BY <2>6, <2>7, <2>8 DEF InStep
<1>4. QED
  BY <1>2, <1>3

\* Publish: a fresh handler announces the stored status, nothing was closed
\* before, and nobody else is about to announce anything.
LEMMA PublishKeepsStep ==
  ASSUME TypeOK, NEW h \in Threads, Publish(h), NEW o \in Orders \ raced', InStep(o)
  PROVE  InStep(o)'
<1> DEFINE k == orderTask[h].key
<1>1. orderTask[h] # Idle /\ orderTask[h].pc = "saved"
  BY NotIdle DEF Publish
<1>2. k \in Orders /\ orderTask[h].to \in Status
  BY <1>1, BusyTask
<1>3. orderTask'[h] = Idle /\ \A g \in Threads : g # h => orderTask'[g] = orderTask[g]
  BY DEF Publish, Finish, TypeOK
<1>4. \A g \in Threads, pc \in {"read", "saved"} :
        Fresh(g, o, pc)' => g # h /\ Fresh(g, o, pc) /\ orderTask'[g].to = orderTask[g].to
  BY <1>3 DEF Fresh, WorksOn
<1>5. CASE o # k
  <2>1. \A g \in Threads : Fresh(g, o, "saved") => Fresh(g, o, "saved")'
    BY <1>3, <1>5 DEF Fresh, WorksOn
  <2>2. ordersTopic'[o] = ordersTopic[o] /\ UNCHANGED <<orders, missed>>
    BY <1>5 DEF Publish, Published, TypeOK
  <2>3. QED
    BY <1>4, <2>1, <2>2, Undisturbed
<1>6. CASE o = k
  <2>1. Fresh(h, o, "saved")
    BY <1>1, <1>6 DEF Publish, MarkRaced, Fresh, WorksOn
  <2>2. orders[o] = orderTask[h].to /\ \A g \in Threads : ~ Fresh(g, o, "saved")'
    BY <1>4, <2>1 DEF InStep, FreshHandlersKnow
  <2>3. \A i \in DOMAIN ordersTopic[o] : ordersTopic[o][i] \notin ClosedStatus
    BY <2>1 DEF InStep, ClosingIsSettled
  <2>4. ordersTopic'[o] = Append(ordersTopic[o], orders[o]) /\ UNCHANGED orders
    BY <1>6, <2>2 DEF Publish, Published, TypeOK
  <2>5. FreshHandlersKnow(o)'
    BY <1>4, <2>2, <2>4 DEF InStep, FreshHandlersKnow, Exists, isClosed
  <2>6. ordersTopic[o] \in Seq(Status) /\ orders[o] \in Status
    BY <1>2, <2>2 DEF TypeOK
  <2>7. LastIsStored(o)'
    BY <2>4, <2>6 DEF LastIsStored
  <2>8. ClosingIsSettled(o)'
    <3> SUFFICES ASSUME NEW i \in DOMAIN ordersTopic'[o], ordersTopic'[o][i] \in ClosedStatus
                 PROVE  i = Len(ordersTopic'[o]) /\ isClosed(o)'
      BY <2>2 DEF ClosingIsSettled
    <3>1. i = Len(ordersTopic'[o])
      BY <2>3, <2>4, <2>6
    <3>2. QED
      BY <2>4, <2>6, <3>1 DEF isClosed
  <2>9. QED
    BY <2>5, <2>7, <2>8 DEF InStep, AnnouncedOrUnderway
<1>7. QED
  BY <1>5, <1>6

\* A step that only ends handlers, and notes in missed the order of each that
\* was past its save (LosePublish, Fail, Crash).
LEMMA EndKeepsStep ==
  ASSUME TypeOK, NEW hs \in SUBSET Threads,
         \A h \in Threads : orderTask'[h] = IF h \in hs THEN Idle ELSE orderTask[h],
         UNCHANGED <<orders, ordersTopic>>, missed \subseteq missed', Unannounced(hs) \subseteq missed',
         NEW o \in Orders, InStep(o)
  PROVE  InStep(o)'
<1>1. \A h \in Threads, pc \in {"read", "saved"} :
        Fresh(h, o, pc)' => Fresh(h, o, pc) /\ orderTask'[h].to = orderTask[h].to
  BY DEF Fresh, WorksOn
<1>2. ASSUME NEW h \in Threads, Fresh(h, o, "saved") PROVE Fresh(h, o, "saved")' \/ o \in missed'
  <2>1. CASE h \in hs
    BY <1>2, <2>1 DEF Fresh, WorksOn, Unannounced
  <2>2. CASE h \notin hs
    BY <1>2, <2>2 DEF Fresh, WorksOn
  <2>3. QED
    BY <2>1, <2>2
<1>3. QED
  BY <1>1, <1>2, Undisturbed

\* Every step keeps the invariant, one action at a time.
LEMMA NextInv == OrderInv /\ [Next]_vars => OrderInv'
<1> SUFFICES ASSUME OrderInv, [Next]_vars, NEW o \in Orders \ raced' PROVE InStep(o)'
  BY NextType DEF OrderInv
<1>0. TypeOK
  BY DEF OrderInv
<1>1. ASSUME NEW h \in Threads, MarkRaced(h) PROVE o \in Orders \ raced
  BY <1>1 DEF MarkRaced
<1>2. ASSUME UNCHANGED raced PROVE InStep(o)
  BY <1>2 DEF OrderInv
<1>3. ASSUME NEW c \in Clients, NEW k \in Orders, Create(c, k) PROVE InStep(o)'
  BY <1>0, <1>2, <1>3, CreateKeepsStep DEF Create
<1>4. ASSUME NEW c \in Clients, NEW k \in Orders, NEW s \in Status, UpdateRead(c, k, s) PROVE InStep(o)'
  <2> DEFINE task == [pc |-> "read", key |-> k, to |-> s, from |-> "rest", stale |-> FALSE]
  <2>1. task \in Task /\ task # Idle /\ task.pc = "read" /\ task.key = k
    BY DEF Task, Idle
  <2>2. c \in Threads /\ orderTask[c] = Idle
    BY <1>4 DEF UpdateRead, NewRequest, Threads
  <2>3. QED
    BY <1>0, <1>2, <1>4, <2>1, <2>2, ReadKeepsStep DEF UpdateRead
<1>5. ASSUME NEW t \in Shipments, ListenerRead(t) PROVE InStep(o)'
  <2> DEFINE e == NextRecord(shipmentsTopic, position, t)
  <2>1. ASSUME UNCHANGED orderTask PROVE InStep(o)'
    <3>1. UNCHANGED <<orders, orderTask, ordersTopic, missed>>
      BY <1>5, <2>1 DEF ListenerRead
    <3>2. InStep(o)
      BY <1>2, <1>5 DEF ListenerRead
    <3>3. QED
      BY <3>1, <3>2, Undisturbed DEF Fresh, WorksOn
  <2>2. ASSUME NEW s \in Reaction(e),
               orderTask' = [orderTask EXCEPT ![Listener] =
                 [pc |-> "read", key |-> e.order, to |-> s, from |-> t, stale |-> FALSE]]
        PROVE  InStep(o)'
    <3> DEFINE task == [pc |-> "read", key |-> e.order, to |-> s, from |-> t, stale |-> FALSE]
    <3>1. e.order \in Orders /\ s \in Status /\ Exists(e.order) /\ ~ isClosed(e.order)
      BY <2>2 DEF Reaction, Exists, isClosed, ClosedStatus
    <3>2. task \in Task /\ task # Idle /\ task.pc = "read" /\ task.key = e.order
      BY <3>1 DEF Task, Idle
    <3>3. Listener \in Threads /\ orderTask[Listener] = Idle
      BY <1>5 DEF ListenerRead, Threads
    <3>4. UNCHANGED <<orders, ordersTopic, missed>> /\ InStep(o)
      BY <1>2, <1>5 DEF ListenerRead
    <3>5. QED
      BY <1>0, <2>2, <3>1, <3>2, <3>3, <3>4, ReadKeepsStep
  <2>3. QED
    BY <1>5, <2>1, <2>2 DEF ListenerRead
<1>6. ASSUME NEW h \in Threads, Save(h) PROVE InStep(o)'
  BY <1>0, <1>1, <1>6, SaveKeepsStep DEF Save, OrderInv
<1>7. ASSUME NEW h \in Threads, Publish(h) PROVE InStep(o)'
  BY <1>0, <1>1, <1>7, PublishKeepsStep DEF Publish, OrderInv
<1>8. ASSUME NEW h \in Threads, LosePublish(h) PROVE InStep(o)'
  <2>1. \A g \in Threads : orderTask'[g] = IF g \in {h} THEN Idle ELSE orderTask[g]
    BY <1>0, <1>8 DEF LosePublish, Finish, TypeOK
  <2>2. QED
    BY <1>0, <1>2, <1>8, <2>1, EndKeepsStep DEF LosePublish
<1>9. ASSUME NEW h \in Threads, Fail(h) PROVE InStep(o)'
  <2>1. \A g \in Threads : orderTask'[g] = IF g \in {h} THEN Idle ELSE orderTask[g]
    BY <1>0, <1>9 DEF Fail, TypeOK
  <2>2. Unannounced({h}) \subseteq {orderTask[h].key}
    BY DEF Unannounced
  <2>3. missed \subseteq missed' /\ Unannounced({h}) \subseteq missed'
    BY <1>9, <2>2 DEF Fail
  <2>4. UNCHANGED <<orders, ordersTopic>> /\ InStep(o)
    BY <1>2, <1>9 DEF Fail
  <2>5. QED
    BY <1>0, <2>1, <2>3, <2>4, EndKeepsStep
<1>10. CASE Crash
  BY <1>0, <1>2, <1>10, EndKeepsStep DEF Crash
<1>11. ASSUME UNCHANGED <<orders, orderTask, ordersTopic, raced, missed>> PROVE InStep(o)'
  BY <1>2, <1>11, Undisturbed DEF Fresh, WorksOn
<1>12. CASE Commit
  BY <1>11, <1>12 DEF Commit
<1>13. ASSUME NEW t \in Shipments, NEW e \in ShipmentEvent, Announce(t, e) PROVE InStep(o)'
  BY <1>11, <1>13 DEF Announce, serviceVars
<1>14. CASE UNCHANGED vars
  BY <1>11, <1>14 DEF vars, serviceVars
<1>15. QED
  BY <1>3, <1>4, <1>5, <1>6, <1>7, <1>8, <1>9, <1>10, <1>12, <1>13, <1>14 DEF Next, Service

\* What is announced, what is stored and what the handlers know agree.
THEOREM Invariant == Spec => []OrderInv
BY InitInv, NextInv, PTL DEF Spec

\* An order no outdated handler acted on is announced as closed at most once,
\* and nothing after that.
THEOREM ClosingFinality == Spec => []ClosingIsFinal
<1>1. OrderInv => ClosingIsFinal
  BY DEF OrderInv, InStep, ClosingIsSettled, ClosingIsFinal
<1>2. QED
  BY <1>1, Invariant, PTL

\* The last announcement of an order at rest is the stored status.
THEOREM AnnouncementAgreement == Spec => []LastAnnouncementIsStored
<1>1. OrderInv => LastAnnouncementIsStored
  <2> SUFFICES ASSUME OrderInv, NEW o \in Orders \ (raced \cup missed), Exists(o), Quiet(orderTask, o)
               PROVE  LastIsStored(o)
    BY DEF LastAnnouncementIsStored, LastIsStored
  <2>1. AnnouncedOrUnderway(o)
    BY DEF OrderInv, InStep
  <2>2. \A h \in Threads : ~ Fresh(h, o, "saved")
    BY DEF OrderInv, TypeOK, Quiet, Fresh
  <2>3. QED
    BY <2>1, <2>2 DEF AnnouncedOrUnderway
<1>2. QED
  BY <1>1, Invariant, PTL

\* Only an outdated handler changes the row of a closed order.
THEOREM ClosedRowsStay == Spec => ClosedStaysClosed
<1> DEFINE Stays == \A o \in Orders \ raced' : orders[o] \in ClosedStatus => orders'[o] = orders[o]
<1>1. OrderInv /\ [Next]_vars => Stays
  <2> SUFFICES ASSUME OrderInv, [Next]_vars, NEW o \in Orders \ raced',
                      orders[o] \in ClosedStatus
               PROVE  orders'[o] = orders[o]
    OBVIOUS
  <2>0. TypeOK
    BY DEF OrderInv
  <2>1. ASSUME NEW c \in Clients, NEW k \in Orders, Create(c, k) PROVE orders'[o] = orders[o]
    BY <2>0, <2>1 DEF Create, Stored, Exists, ClosedStatus, TypeOK
  <2>2. ASSUME NEW h \in Threads, Save(h) PROVE orders'[o] = orders[o]
    <3>1. CASE o # orderTask[h].key
      BY <2>0, <2>2, <3>1 DEF Save, Stored, TypeOK
    <3>2. CASE o = orderTask[h].key
      <4>1. orderTask[h] # Idle /\ ~ orderTask[h].stale /\ o \notin raced
        BY <2>2, <3>2, NotIdle DEF Save, MarkRaced
      <4>2. Fresh(h, o, "read")
        BY <2>2, <3>2, <4>1 DEF Save, Fresh, WorksOn
      <4>3. FALSE
        BY <4>1, <4>2 DEF OrderInv, InStep, FreshHandlersKnow, isClosed
      <4>4. QED
        BY <4>3
    <3>3. QED
      BY <3>1, <3>2
  <2>3. CASE UNCHANGED orders
    BY <2>3
  <2>4. QED
    BY <2>1, <2>2, <2>3 DEF Next, Service, UpdateRead, ListenerRead, Publish, LosePublish, Fail,
      Commit, Crash, Announce, vars, serviceVars
<1>2. QED
  BY <1>1, Invariant, PTL DEF Spec, ClosedStaysClosed

=============================================================================
