---------------------- MODULE InventoryService_proofs ----------------------
(***************************************************************************)
(* Proofs about inventory-service, for any sets of orders, positions and   *)
(* threads, any width of int and any bounds.                               *)
(*                                                                         *)
(* The argument has two halves.  An up-to-date handler of a position has   *)
(* computed what it will store from the quantity that is still there, and  *)
(* int addition is exact whenever setQuantity() accepts the result; and an *)
(* event the listener is about to apply is not yet among those recorded,   *)
(* which include every event whose goods the ledger counts.                *)
(***************************************************************************)
EXTENDS InventoryService, TLAPS

-----------------------------------------------------------------------------
(* Cursors.                                                                *)

\* Moving one cursor on by one keeps the type of the cursors.
LEMMA AdvancedType ==
  ASSUME NEW Keys, NEW cursor \in [Keys -> Nat], NEW k
  PROVE  Advanced(cursor, k) \in [Keys -> Nat]
<1>1. CASE k \in Keys
  BY <1>1 DEF Advanced
<1>2. CASE k \notin Keys
  BY <1>2 DEF Advanced
<1>3. QED
  BY <1>1, <1>2

-----------------------------------------------------------------------------
(* The inductive invariant.                                                *)

\* Handler h works on position p, is at pc, and nobody has overtaken it.
Fresh(h, p, pc) ==
  WorksOn(inventoryTask, h, p) /\ inventoryTask[h].pc = pc /\ ~ inventoryTask[h].stale

\* Editors apply no event; the listener applies one that is not recorded.
EventsAreNew ==
  /\ \A h \in Editors : inventoryTask[h] # Idle => inventoryTask[h].event = NoEvent
  /\ inventoryTask[Listener] # Idle =>
       /\ inventoryTask[Listener].event # NoEvent
       /\ inventoryTask[Listener].pc = "read" => inventoryTask[Listener].event \notin processed
  /\ credited \subseteq processed

\* A handler that has read the position moves the stock by its delta.
FreshReadersAreExact(p) ==
  \A h \in Threads : Fresh(h, p, "read") =>
    inventoryTask[h].absolute \/ inventoryTask[h].to = stock[p] + inventoryTask[h].delta

\* A handler that has stored the position left its quantity there, alone.
FreshSaversAgree(p) ==
  \A h \in Threads : Fresh(h, p, "saved") =>
    /\ stock[p] = inventoryTask[h].to
    /\ \A g \in Threads : Fresh(g, p, "saved") => g = h

\* The stored quantity is announced, or its announcement is on the way.
AnnouncedOrUnderway(p) ==
  \/ lastUpdate[p] = stock[p]
  \/ lastUpdate[p] = NoUpdate /\ stock[p] = InitialStock[p]
  \/ \E h \in Threads : Fresh(h, p, "saved")

InStep(p) ==
  /\ stock[p] = ledger[p]
  /\ FreshReadersAreExact(p)
  /\ FreshSaversAgree(p)
  /\ p \notin missed => AnnouncedOrUnderway(p)

StockInv == TypeOK /\ EventsAreNew /\ \A p \in Positions \ raced : InStep(p)

-----------------------------------------------------------------------------
(* Arithmetic.                                                             *)

\* If setQuantity() accepts the sum of a stored quantity and a change, the sum
\* is the exact one: an addition that wraps around ends below zero.
LEMMA AcceptedSumIsExact ==
  ASSUME NEW a \in Quantity, NEW b \in Int32, Accepts(Plus(a, b))
  PROVE  Plus(a, b) = a + b /\ Plus(a, b) \in Quantity
BY InventoryConstants DEF Quantity, Int32, Accepts, Plus

-----------------------------------------------------------------------------
(* Types.                                                                  *)

\* Overtaking keeps the type of the threads' tasks.
LEMMA OvertakeType ==
  ASSUME NEW task \in [Threads -> Task], NEW h \in Threads, NEW k, NEW next \in Task
  PROVE  Overtake(task, h, k, next) \in [Threads -> Task]
<1>1. ASSUME NEW g \in Threads, g # h, WorksOn(task, g, k)
      PROVE  [task[g] EXCEPT !.stale = TRUE] \in Task
  <2>1. task[g] \in Task /\ task[g] # Idle
    BY <1>1 DEF WorksOn
  <2>2. QED
    BY <2>1 DEF Task
<1>2. DOMAIN task = Threads
  OBVIOUS
<1>3. QED
  BY <1>1, <1>2 DEF Overtake

\* A handler's task after its save.
LEMMA SavedTask ==
  ASSUME NEW task \in Task, task # Idle
  PROVE  /\ [task EXCEPT !.pc = "saved", !.stale = FALSE] \in Task
         /\ [task EXCEPT !.pc = "saved", !.stale = FALSE].pc = "saved"
         /\ [task EXCEPT !.pc = "saved", !.stale = FALSE].key = task.key
         /\ [task EXCEPT !.pc = "saved", !.stale = FALSE].to = task.to
         /\ [task EXCEPT !.pc = "saved", !.stale = FALSE].event = task.event
         /\ [task EXCEPT !.pc = "saved", !.stale = FALSE].stale = FALSE
BY DEF Task

\* The fields of a busy thread's task.
LEMMA BusyTask ==
  ASSUME TypeOK, NEW h \in Threads, inventoryTask[h] # Idle
  PROVE  /\ inventoryTask[h].pc \in {"read", "saved"}
         /\ inventoryTask[h].key \in Positions
         /\ inventoryTask[h].to \in Quantity
         /\ inventoryTask[h].delta \in Int32
         /\ inventoryTask[h].event \in EventIds \cup {NoEvent}
         /\ inventoryTask[h].stale \in BOOLEAN
BY DEF TypeOK, Task

\* A thread inside a handler is not idle.
LEMMA NotIdle == ASSUME NEW h, inventoryTask[h].pc \in {"read", "saved"} PROVE inventoryTask[h] # Idle
BY DEF Idle

\* No record has the id that stands for none.
LEMMA NoEventIsNone == NoEvent \notin EventIds
<1>1. ASSUME NEW id \in EventIds PROVE id # NoEvent
  <2>1. PICK o \in Orders, i \in Nat \ {0} : id = <<o, i>>
    BY DEF EventIds
  <2>2. <<o, i>> # <<>>
    OBVIOUS
  <2>3. QED
    BY <2>1, <2>2 DEF NoEvent
<1>2. QED
  BY <1>1

\* The id of the next record of an order.
LEMMA EventIdType == ASSUME TypeOK, NEW o \in Orders PROVE EventId(o) \in EventIds /\ EventId(o) # NoEvent
BY DEF TypeOK, EventId, EventIds, NoEvent

\* The two kinds of edits, with what is known of their arguments.
LEMMA EditCases ==
  ASSUME TypeOK
  PROVE  /\ \A c \in Clients, p \in Positions, d \in Deltas : AdjustRead(c, p, d) =>
              /\ Plus(stock[p], d) \in Quantity /\ d \in Int32 /\ c \in Editors
              /\ Plus(stock[p], d) = stock[p] + d
         /\ \A p \in Positions, q \in Counts : SetQuantityRead(p, q) => q \in Quantity /\ Feed \in Editors
<1>1. ASSUME NEW c \in Clients, NEW p \in Positions, NEW d \in Deltas, AdjustRead(c, p, d)
      PROVE  /\ Plus(stock[p], d) \in Quantity /\ d \in Int32 /\ c \in Editors
             /\ Plus(stock[p], d) = stock[p] + d
  <2>1. stock[p] \in Quantity /\ d \in Int32
    BY InventoryConstants DEF TypeOK
  <2>2. Accepts(Plus(stock[p], d))
    BY <1>1 DEF AdjustRead, Edit
  <2>3. QED
    BY <2>1, <2>2, AcceptedSumIsExact DEF Editors
<1>2. ASSUME NEW p \in Positions, NEW q \in Counts, SetQuantityRead(p, q)
      PROVE  q \in Quantity /\ Feed \in Editors
  BY <1>2, InventoryConstants DEF SetQuantityRead, Edit, Accepts, Quantity, Int32, Editors
<1>3. QED
  BY <1>1, <1>2

\* The initial state has the right shape.
LEMMA InitType == Init => TypeOK
<1>1. Idle \in Task
  BY DEF Task
<1>2. InitialStock \in [Positions -> Int]
  BY InventoryConstants DEF Quantity
<1>3. ASSUME Init
      PROVE  /\ ordersTopic \in [Orders -> Seq(OrderEvent)]
             /\ position \in [Orders -> Nat] /\ committed \in [Orders -> Nat]
  BY <1>3 DEF Init, EmptyTopic, AtStart
<1>4. QED
  BY <1>1, <1>2, <1>3, InventoryConstants DEF Init, TypeOK

\* An edit keeps the shape.
LEMMA EditType ==
  ASSUME TypeOK, NEW h \in Editors, NEW p \in Positions, NEW to \in Quantity, NEW delta \in Int32,
         NEW absolute \in BOOLEAN, Edit(h, p, to, delta, absolute)
  PROVE  TypeOK'
<1>1. [pc |-> "read", key |-> p, to |-> to, delta |-> delta, absolute |-> absolute,
       event |-> NoEvent, stale |-> FALSE] \in Task
  BY DEF Task
<1>2. inventoryTask' \in [Threads -> Task]
  BY <1>1 DEF Edit, TypeOK
<1>3. requests' \in 0..MaxRequests
  BY InventoryConstants DEF Edit, TypeOK
<1>4. QED
  BY <1>2, <1>3 DEF Edit, TypeOK

\* A step of the listener keeps the shape.
LEMMA ListenerType ==
  ASSUME TypeOK, NEW o \in Orders, ListenerStep(o)
  PROVE  TypeOK'
<1>1. Advanced(position, o) \in [Orders -> Nat]
  BY AdvancedType DEF TypeOK
<1>2. CASE SkipEvent(o)
  BY <1>1, <1>2 DEF ListenerStep, SkipEvent, Handled, TypeOK
<1>3. CASE ReceiveUnknownPosition(o)
  <2>1. processed' \subseteq EventIds
    BY <1>3, EventIdType DEF ReceiveUnknownPosition, TypeOK
  <2>2. QED
    BY <1>1, <1>3, <2>1 DEF ListenerStep, ReceiveUnknownPosition, Handled, TypeOK
<1>4. CASE ReceiveRead(o)
  <2> DEFINE p == PositionOf[o]
             sum == Plus(stock[p], QuantityOf[o])
             task == [pc |-> "read", key |-> p, to |-> sum, delta |-> QuantityOf[o],
                      absolute |-> FALSE, event |-> EventId(o), stale |-> FALSE]
  <2>1. p \in Positions /\ stock[p] \in Quantity /\ QuantityOf[o] \in Int32
    BY <1>4, InventoryConstants DEF ReceiveRead, TypeOK, Int32
  <2>2. CASE Handled(o) /\ missed' = missed \cup {p} /\ UNCHANGED inventoryTask
    BY <1>1, <1>4, <2>1, <2>2 DEF ListenerStep, ReceiveRead, Handled, TypeOK
  <2>3. CASE /\ Accepts(sum)
             /\ inventoryTask' = [inventoryTask EXCEPT ![Listener] = task]
             /\ UNCHANGED <<position, missed>>
    <3>1. sum \in Quantity
      BY <2>1, <2>3, AcceptedSumIsExact
    <3>2. task \in Task
      BY <2>1, <3>1, EventIdType DEF Task
    <3>3. inventoryTask' \in [Threads -> Task]
      BY <2>3, <3>2 DEF TypeOK
    <3>4. QED
      BY <1>4, <2>3, <3>3 DEF ListenerStep, ReceiveRead, TypeOK
  <2>4. QED
    BY <1>4, <2>2, <2>3 DEF ReceiveRead
<1>5. QED
  BY <1>2, <1>3, <1>4 DEF ListenerStep

\* Every step keeps the shape, one action at a time.
LEMMA NextType == TypeOK /\ [Next]_vars => TypeOK'
<1> SUFFICES ASSUME TypeOK, [Next]_vars PROVE TypeOK'
  OBVIOUS
<1> USE InventoryConstants
<1>1. Idle \in Task
  BY DEF Task
<1>2. ASSUME NEW c \in Clients, NEW p \in Positions, NEW d \in Deltas, AdjustRead(c, p, d) PROVE TypeOK'
  <2>1. Plus(stock[p], d) \in Quantity /\ d \in Int32 /\ c \in Editors
    BY <1>2, EditCases
  <2>2. Edit(c, p, Plus(stock[p], d), d, FALSE)
    BY <1>2 DEF AdjustRead
  <2>3. QED
    BY <2>1, <2>2, EditType
<1>3. ASSUME NEW p \in Positions, NEW q \in Counts, SetQuantityRead(p, q) PROVE TypeOK'
  <2>1. q \in Quantity /\ Feed \in Editors /\ 0 \in Int32
    BY <1>3, EditCases DEF Int32
  <2>2. Edit(Feed, p, q, 0, TRUE)
    BY <1>3 DEF SetQuantityRead
  <2>3. QED
    BY <2>1, <2>2, EditType
<1>4. ASSUME NEW o \in Orders, ListenerStep(o) PROVE TypeOK'
  BY <1>4, ListenerType
<1>5. ASSUME NEW h \in Threads, Finish(h)
      PROVE  inventoryTask' \in [Threads -> Task] /\ position' \in [Orders -> Nat]
  <2>1. Advanced(position, inventoryTask[h].event[1]) \in [Orders -> Nat]
    BY AdvancedType DEF TypeOK
  <2>2. QED
    BY <1>1, <1>5, <2>1 DEF Finish, Handled, TypeOK
<1>6. ASSUME NEW h \in Threads, inventoryTask[h] # Idle, MarkRaced(h) PROVE raced' \subseteq Positions
  BY <1>6, BusyTask DEF MarkRaced, TypeOK
<1>7. ASSUME NEW hs \in SUBSET Threads PROVE Unannounced(hs) \subseteq Positions
  BY NotIdle, BusyTask DEF Unannounced
<1>8. ASSUME Fault PROVE faults' \in 0..MaxFaults
  BY <1>8 DEF Fault, TypeOK
<1>9. ASSUME NEW h \in Threads, Save(h) PROVE TypeOK'
  <2> DEFINE task == inventoryTask[h]
  <2>1. task # Idle
    BY <1>9, NotIdle DEF Save
  <2>2. [task EXCEPT !.pc = "saved", !.stale = FALSE] \in Task
    BY <2>1, SavedTask DEF TypeOK
  <2>3. inventoryTask' \in [Threads -> Task]
    BY <1>9, <2>2, OvertakeType DEF Save, TypeOK
  <2>4. task.to \in Quantity /\ task.delta \in Int32 /\ task.event \in EventIds \cup {NoEvent}
    BY <2>1, BusyTask
  <2>5. stock' \in [Positions -> Quantity]
    BY <1>9, <2>4 DEF Save, TypeOK
  <2>6. ledger' \in [Positions -> Int]
    <3> DEFINE entry == IF task.absolute THEN task.to
                        ELSE IF task.event \in credited THEN ledger[task.key]
                        ELSE ledger[task.key] + task.delta
    <3>1. task.key \in Positions /\ task.to \in Int /\ task.delta \in Int
      BY <2>1, <2>4, BusyTask DEF Quantity, Int32
    <3>2. entry \in Int
      BY <3>1 DEF TypeOK
    <3>3. ledger' = [ledger EXCEPT ![task.key] = entry]
      BY <1>9 DEF Save
    <3> HIDE DEF entry
    <3>4. QED
      BY <3>2, <3>3 DEF TypeOK
  <2>7. processed' \subseteq EventIds /\ credited' \subseteq EventIds
    BY <1>9, <2>4 DEF Save, TypeOK
  <2>8. raced' \subseteq Positions
    BY <1>6, <1>9, <2>1 DEF Save
  <2>9. QED
    BY <1>9, <2>3, <2>5, <2>6, <2>7, <2>8 DEF Save, TypeOK
<1>10. ASSUME NEW h \in Threads, PublishUpdate(h) PROVE TypeOK'
  <2>1. inventoryTask[h] # Idle
    BY <1>10, NotIdle DEF PublishUpdate
  <2>2. lastUpdate' \in [Positions -> Quantity \cup {NoUpdate}]
    BY <1>10, <2>1, BusyTask DEF PublishUpdate, Announced, TypeOK
  <2>3. raced' \subseteq Positions
    BY <1>6, <1>10, <2>1 DEF PublishUpdate
  <2>4. QED
    BY <1>5, <1>10, <2>2, <2>3 DEF PublishUpdate, TypeOK
<1>11. ASSUME NEW h \in Threads, LoseUpdate(h) PROVE TypeOK'
  <2>1. missed' \subseteq Positions \cup {PositionOf[o] : o \in Orders}
    BY <1>7, <1>11 DEF LoseUpdate, TypeOK
  <2>2. QED
    BY <1>5, <1>8, <1>11, <2>1 DEF LoseUpdate, TypeOK
<1>12. ASSUME NEW h \in Threads, Fail(h) PROVE TypeOK'
  <2> DEFINE skipped == Advanced(position, inventoryTask[h].event[1])
  <2>1. missed' \subseteq Positions \cup {PositionOf[o] : o \in Orders}
    <3>1. Unannounced({h}) \subseteq Positions /\ inventoryTask[h].key \in Positions
      BY <1>7, <1>12, BusyTask DEF Fail
    <3>2. QED
      BY <1>12, <3>1 DEF Fail, TypeOK
  <2>2. position' \in [Orders -> Nat]
    <3>1. skipped \in [Orders -> Nat]
      BY AdvancedType DEF TypeOK
    <3>2. position' = position \/ position' = skipped
      BY <1>12 DEF Fail, Handled
    <3>3. QED
      BY <3>1, <3>2 DEF TypeOK
  <2>3. inventoryTask' \in [Threads -> Task]
    BY <1>1, <1>12 DEF Fail, TypeOK
  <2>4. QED
    BY <1>8, <1>12, <2>1, <2>2, <2>3 DEF Fail, TypeOK
<1>13. ASSUME NEW o \in Orders, ReceiveUnknownPositionFails(o) PROVE TypeOK'
  <2>1. processed' \subseteq EventIds
    BY <1>13, EventIdType DEF ReceiveUnknownPositionFails, TypeOK
  <2>2. position' \in [Orders -> Nat]
    <3>1. Advanced(position, o) \in [Orders -> Nat] /\ position \in [Orders -> Nat]
      BY AdvancedType DEF TypeOK
    <3>2. position' = position \/ position' = Advanced(position, o)
      BY <1>13 DEF ReceiveUnknownPositionFails, Handled
    <3>3. QED
      BY <3>1, <3>2
  <2>3. missed' \subseteq Positions \cup {PositionOf[k] : k \in Orders}
    BY <1>13 DEF ReceiveUnknownPositionFails, TypeOK
  <2>4. QED
    BY <1>8, <1>13, <2>1, <2>2, <2>3 DEF ReceiveUnknownPositionFails, TypeOK
<1>14. CASE Commit
  BY <1>14 DEF Commit, TypeOK
<1>15. CASE Crash
  <2>1. missed' \subseteq Positions \cup {PositionOf[o] : o \in Orders}
    BY <1>7, <1>15 DEF Crash, TypeOK
  <2>2. inventoryTask' \in [Threads -> Task]
    BY <1>1, <1>15 DEF Crash
  <2>3. QED
    BY <1>8, <1>15, <2>1, <2>2 DEF Crash, Resumed, TypeOK
<1>16. ASSUME NEW o \in Orders, NEW status \in OrderEvent, Announce(o, status) PROVE TypeOK'
  <2>1. ordersTopic' \in [Orders -> Seq(OrderEvent)]
    BY <1>16 DEF Announce, TypeOK, Published
  <2>2. QED
    BY <1>16, <2>1 DEF Announce, serviceVars, TypeOK
<1>17. CASE UNCHANGED vars
  BY <1>17 DEF vars, serviceVars, TypeOK
<1>18. QED
  BY <1>2, <1>3, <1>4, <1>9, <1>10, <1>11, <1>12, <1>13, <1>14, <1>15, <1>16, <1>17 DEF Next, Service

\* The rows, tables, threads, topics and cursors of inventory-service keep
\* their shape; no stored or announced quantity is negative or too large.
THEOREM TypeInvariant == Spec => []TypeOK
BY InitType, NextType, PTL DEF Spec

-----------------------------------------------------------------------------
(* What a step does to the handlers of one position.                       *)

\* A step that leaves the position's row, ledger and announcement alone, makes
\* no handler of it fresh, and takes a fresh one past its save away only with
\* a note in missed.
LEMMA Undisturbed ==
  ASSUME NEW p \in Positions, InStep(p),
         stock'[p] = stock[p], ledger'[p] = ledger[p], lastUpdate'[p] = lastUpdate[p],
         missed \subseteq missed',
         \A h \in Threads, pc \in {"read", "saved"} : Fresh(h, p, pc)' =>
           /\ Fresh(h, p, pc)
           /\ inventoryTask'[h].to = inventoryTask[h].to
           /\ inventoryTask'[h].delta = inventoryTask[h].delta
           /\ inventoryTask'[h].absolute = inventoryTask[h].absolute,
         \A h \in Threads : Fresh(h, p, "saved") => Fresh(h, p, "saved")' \/ p \in missed'
  PROVE  InStep(p)'
<1>1. FreshReadersAreExact(p)'
  BY DEF InStep, FreshReadersAreExact
<1>2. FreshSaversAgree(p)'
  BY DEF InStep, FreshSaversAgree
<1>3. p \notin missed' => AnnouncedOrUnderway(p)'
  BY DEF InStep, AnnouncedOrUnderway
<1>4. QED
  BY <1>1, <1>2, <1>3 DEF InStep

\* A handler that has just read its row and will move it by its delta.
LEMMA ReadKeepsStep ==
  ASSUME TypeOK, NEW h \in Threads, inventoryTask[h] = Idle,
         NEW task, task # Idle, task.pc = "read",
         task.absolute \/ task.to = stock[task.key] + task.delta,
         inventoryTask' = [inventoryTask EXCEPT ![h] = task],
         UNCHANGED <<stock, ledger, lastUpdate, missed>>,
         NEW p \in Positions, InStep(p)
  PROVE  InStep(p)'
<1>1. inventoryTask'[h] = task /\ \A g \in Threads : g # h => inventoryTask'[g] = inventoryTask[g]
  BY DEF TypeOK
<1>2. \A g \in Threads : Fresh(g, p, "saved")' <=> Fresh(g, p, "saved")
  BY <1>1 DEF Fresh, WorksOn
<1>3. \A g \in Threads : Fresh(g, p, "saved") => inventoryTask'[g] = inventoryTask[g]
  BY <1>1 DEF Fresh, WorksOn
<1>4. \A g \in Threads : Fresh(g, p, "read")' =>
        \/ Fresh(g, p, "read") /\ inventoryTask'[g] = inventoryTask[g]
        \/ inventoryTask'[g] = task /\ task.key = p
  BY <1>1 DEF Fresh, WorksOn
<1>5. FreshReadersAreExact(p)'
  BY <1>4 DEF InStep, FreshReadersAreExact
<1>6. FreshSaversAgree(p)'
  BY <1>2, <1>3 DEF InStep, FreshSaversAgree
<1>7. p \notin missed' => AnnouncedOrUnderway(p)'
  BY <1>2 DEF InStep, AnnouncedOrUnderway
<1>8. QED
  BY <1>5, <1>6, <1>7 DEF InStep

\* What Save leaves in the threads: the saver is fresh and past its save,
\* every other handler of the row is outdated, the rest are as they were.
LEMMA SaveEffect ==
  ASSUME TypeOK, NEW h \in Threads, Save(h)
  PROVE  /\ inventoryTask[h] # Idle
         /\ inventoryTask'[h] # Idle
         /\ inventoryTask'[h].pc = "saved"
         /\ inventoryTask'[h].key = inventoryTask[h].key
         /\ inventoryTask'[h].to = inventoryTask[h].to
         /\ inventoryTask'[h].event = inventoryTask[h].event
         /\ ~ inventoryTask'[h].stale
         /\ \A g \in Threads \ {h} :
              /\ inventoryTask[g] # Idle =>
                   /\ inventoryTask'[g].event = inventoryTask[g].event
                   /\ inventoryTask'[g].pc = inventoryTask[g].pc
              /\ inventoryTask[g] = Idle => inventoryTask'[g] = Idle
              /\ IF WorksOn(inventoryTask, g, inventoryTask[h].key)
                 THEN inventoryTask'[g].stale /\ inventoryTask'[g].key = inventoryTask[h].key
                 ELSE inventoryTask'[g] = inventoryTask[g]
<1>1. inventoryTask[h] # Idle
  BY NotIdle DEF Save
<1>2. inventoryTask \in [Threads -> Task] /\ DOMAIN inventoryTask = Threads
  BY DEF TypeOK
<1> DEFINE next == [inventoryTask[h] EXCEPT !.pc = "saved", !.stale = FALSE]
<1>3. inventoryTask' = Overtake(inventoryTask, h, inventoryTask[h].key, next)
  BY DEF Save
<1>4. inventoryTask'[h] = next
  BY <1>2, <1>3 DEF Overtake
<1>5. /\ next.pc = "saved" /\ next.key = inventoryTask[h].key /\ next.to = inventoryTask[h].to
      /\ next.event = inventoryTask[h].event /\ next.stale = FALSE
  BY <1>1, <1>2, SavedTask
<1>6. next # Idle
  BY <1>5 DEF Idle
<1>7. ASSUME NEW g \in Threads \ {h}
      PROVE  /\ inventoryTask[g] # Idle =>
                  /\ inventoryTask'[g].event = inventoryTask[g].event
                  /\ inventoryTask'[g].pc = inventoryTask[g].pc
             /\ inventoryTask[g] = Idle => inventoryTask'[g] = Idle
             /\ IF WorksOn(inventoryTask, g, inventoryTask[h].key)
                THEN inventoryTask'[g].stale /\ inventoryTask'[g].key = inventoryTask[h].key
                ELSE inventoryTask'[g] = inventoryTask[g]
  <2>1. CASE WorksOn(inventoryTask, g, inventoryTask[h].key)
    <3>1. inventoryTask'[g] = [inventoryTask[g] EXCEPT !.stale = TRUE]
      BY <1>2, <1>3, <2>1 DEF Overtake
    <3>2. /\ inventoryTask[g] \in Task /\ inventoryTask[g] # Idle
          /\ inventoryTask[g].key = inventoryTask[h].key
      BY <1>2, <2>1 DEF WorksOn
    <3>3. /\ [inventoryTask[g] EXCEPT !.stale = TRUE].stale = TRUE
          /\ [inventoryTask[g] EXCEPT !.stale = TRUE].key = inventoryTask[g].key
          /\ [inventoryTask[g] EXCEPT !.stale = TRUE].pc = inventoryTask[g].pc
          /\ [inventoryTask[g] EXCEPT !.stale = TRUE].event = inventoryTask[g].event
      BY <3>2 DEF Task
    <3>4. QED
      BY <2>1, <3>1, <3>2, <3>3
  <2>2. CASE ~ WorksOn(inventoryTask, g, inventoryTask[h].key)
    BY <1>2, <1>3, <2>2 DEF Overtake
  <2>3. QED
    BY <2>1, <2>2 DEF WorksOn
<1>8. QED
  BY <1>1, <1>4, <1>5, <1>6, <1>7

\* Save: a fresh saver moves the stock by just what the ledger counts.
LEMMA SaveKeepsStep ==
  ASSUME TypeOK, EventsAreNew, NEW h \in Threads, Save(h), NEW p \in Positions \ raced', InStep(p)
  PROVE  InStep(p)'
<1> DEFINE task == inventoryTask[h]
<1>1. task.key \in Positions /\ task # Idle /\ task.pc = "read"
  BY SaveEffect, BusyTask DEF Save
<1>2. CASE p # task.key
  <2>1. \A g \in Threads, pc \in {"read", "saved"} : Fresh(g, p, pc)' => inventoryTask'[g] = inventoryTask[g]
    BY <1>2, SaveEffect DEF Fresh, WorksOn
  <2>2. \A g \in Threads, pc \in {"read", "saved"} : Fresh(g, p, pc) => inventoryTask'[g] = inventoryTask[g]
    BY <1>2, SaveEffect DEF Fresh, WorksOn
  <2>3. \A g \in Threads, pc \in {"read", "saved"} :
          (Fresh(g, p, pc)' => Fresh(g, p, pc)) /\ (Fresh(g, p, pc) => Fresh(g, p, pc)')
    BY <2>1, <2>2 DEF Fresh, WorksOn
  <2>4. stock'[p] = stock[p] /\ ledger'[p] = ledger[p] /\ UNCHANGED <<lastUpdate, missed>>
    BY <1>2 DEF Save, TypeOK
  <2>5. QED
    BY <2>1, <2>3, <2>4, Undisturbed
<1>3. CASE p = task.key
  <2>1. Fresh(h, p, "read")
    BY <1>1, <1>3 DEF Save, MarkRaced, Fresh, WorksOn
  <2>2. stock'[p] = task.to
    BY <1>1, <1>3 DEF Save, TypeOK
  <2>3. task.event \notin credited
    <3>1. NoEvent \notin credited
      BY NoEventIsNone DEF TypeOK
    <3>2. CASE h \in Editors
      BY <1>1, <3>1, <3>2 DEF EventsAreNew
    <3>3. CASE h = Listener
      BY <1>1, <3>3 DEF EventsAreNew
    <3>4. QED
      BY <3>2, <3>3 DEF Threads
  <2>4. ledger'[p] = IF task.absolute THEN task.to ELSE ledger[p] + task.delta
    BY <1>1, <1>3, <2>3 DEF Save, TypeOK
  <2>5. stock'[p] = ledger'[p]
    BY <2>1, <2>2, <2>4 DEF InStep, FreshReadersAreExact
  <2>6. \A g \in Threads : ~ Fresh(g, p, "read")' /\ (Fresh(g, p, "saved")' <=> g = h)
    BY <1>3, SaveEffect DEF Fresh, WorksOn
  <2>7. FreshReadersAreExact(p)'
    BY <2>6 DEF FreshReadersAreExact
  <2>8. FreshSaversAgree(p)'
    BY <2>2, <2>6, SaveEffect DEF FreshSaversAgree
  <2>9. AnnouncedOrUnderway(p)'
    BY <2>6 DEF AnnouncedOrUnderway
  <2>10. QED
    BY <2>5, <2>7, <2>8, <2>9 DEF InStep
<1>4. QED
  BY <1>2, <1>3

\* PublishUpdate: a fresh handler announces the stored quantity.
LEMMA PublishKeepsStep ==
  ASSUME TypeOK, NEW h \in Threads, PublishUpdate(h), NEW p \in Positions \ raced', InStep(p)
  PROVE  InStep(p)'
<1> DEFINE k == inventoryTask[h].key
<1>1. inventoryTask[h] # Idle /\ inventoryTask[h].pc = "saved"
  BY NotIdle DEF PublishUpdate
<1>2. inventoryTask'[h] = Idle /\ \A g \in Threads : g # h => inventoryTask'[g] = inventoryTask[g]
  BY DEF PublishUpdate, Finish, TypeOK
<1>3. \A g \in Threads, pc \in {"read", "saved"} :
        Fresh(g, p, pc)' => Fresh(g, p, pc) /\ g # h /\ inventoryTask'[g] = inventoryTask[g]
  BY <1>2 DEF Fresh, WorksOn
<1>4. CASE p # k
  <2>1. \A g \in Threads : Fresh(g, p, "saved") => Fresh(g, p, "saved")'
    BY <1>2, <1>4 DEF Fresh, WorksOn
  <2>2. lastUpdate'[p] = lastUpdate[p] /\ UNCHANGED <<stock, ledger, missed>>
    BY <1>4 DEF PublishUpdate, TypeOK
  <2>3. QED
    BY <1>3, <2>1, <2>2, Undisturbed
<1>5. CASE p = k
  <2>1. Fresh(h, p, "saved")
    BY <1>1, <1>5 DEF PublishUpdate, MarkRaced, Fresh, WorksOn
  <2>2. stock[p] = inventoryTask[h].to /\ \A g \in Threads : ~ Fresh(g, p, "saved")'
    BY <1>3, <2>1 DEF InStep, FreshSaversAgree
  <2>3. lastUpdate'[p] = stock'[p] /\ UNCHANGED <<stock, ledger>>
    BY <1>5, <2>2 DEF PublishUpdate, Announced, TypeOK
  <2>4. FreshReadersAreExact(p)' /\ FreshSaversAgree(p)'
    BY <1>3, <2>2, <2>3 DEF InStep, FreshReadersAreExact, FreshSaversAgree
  <2>5. QED
    BY <2>3, <2>4 DEF InStep, AnnouncedOrUnderway
<1>6. QED
  BY <1>4, <1>5

\* A step that only ends handlers, and notes in missed the position of each
\* that was past its save (LoseUpdate, Fail, Crash).
LEMMA EndKeepsStep ==
  ASSUME TypeOK, NEW hs \in SUBSET Threads,
         \A h \in Threads : inventoryTask'[h] = IF h \in hs THEN Idle ELSE inventoryTask[h],
         UNCHANGED <<stock, ledger, lastUpdate>>,
         missed \subseteq missed', Unannounced(hs) \subseteq missed',
         NEW p \in Positions, InStep(p)
  PROVE  InStep(p)'
<1>1. \A h \in Threads, pc \in {"read", "saved"} :
        Fresh(h, p, pc)' => Fresh(h, p, pc) /\ inventoryTask'[h] = inventoryTask[h]
  BY DEF Fresh, WorksOn
<1>2. ASSUME NEW h \in Threads, Fresh(h, p, "saved") PROVE Fresh(h, p, "saved")' \/ p \in missed'
  <2>1. CASE h \in hs
    BY <1>2, <2>1 DEF Fresh, WorksOn, Unannounced
  <2>2. CASE h \notin hs
    BY <1>2, <2>2 DEF Fresh, WorksOn
  <2>3. QED
    BY <2>1, <2>2
<1>3. QED
  BY <1>1, <1>2, Undisturbed

-----------------------------------------------------------------------------
(* The invariant holds.                                                    *)

\* No event is recorded or under way at the start, and the stock is the ledger.
LEMMA InitInv == Init => StockInv
<1> SUFFICES ASSUME Init PROVE EventsAreNew /\ \A p \in Positions : InStep(p)
  BY InitType DEF StockInv
<1>1. \A h \in Threads : inventoryTask[h] = Idle
  BY DEF Init
<1>2. EventsAreNew
  BY <1>1 DEF Init, EventsAreNew, Threads
<1>3. ASSUME NEW p \in Positions PROVE InStep(p)
  <2>1. \A h \in Threads, pc \in {"read", "saved"} : ~ Fresh(h, p, pc)
    BY <1>1 DEF Fresh, WorksOn
  <2>2. stock[p] = ledger[p] /\ lastUpdate[p] = NoUpdate /\ stock[p] = InitialStock[p]
    BY DEF Init
  <2>3. QED
    BY <2>1, <2>2 DEF InStep, FreshReadersAreExact, FreshSaversAgree, AnnouncedOrUnderway
<1>4. QED
  BY <1>2, <1>3

\* Events stay new when threads only end, and none is recorded meanwhile.
LEMMA EndKeepsNew ==
  ASSUME EventsAreNew, UNCHANGED <<processed, credited>>,
         \A h \in Threads : inventoryTask'[h] \in {Idle, inventoryTask[h]}
  PROVE  EventsAreNew'
<1>1. \A h \in Editors : h \in Threads
  BY DEF Threads
<1>2. Listener \in Threads
  BY DEF Threads
<1>3. QED
  BY <1>1, <1>2 DEF EventsAreNew

\* An edit: the editor applies no event and moves its row exactly.
LEMMA EditKeepsInv ==
  ASSUME StockInv, NEW h \in Editors, NEW p \in Positions, NEW to, NEW delta, NEW absolute,
         Edit(h, p, to, delta, absolute), absolute \/ to = stock[p] + delta
  PROVE  EventsAreNew' /\ \A k \in Positions \ raced' : InStep(k)'
<1> DEFINE task == [pc |-> "read", key |-> p, to |-> to, delta |-> delta, absolute |-> absolute,
                    event |-> NoEvent, stale |-> FALSE]
<1>1. h \in Threads /\ h # Listener /\ inventoryTask[h] = Idle /\ TypeOK
  BY InventoryConstants DEF Edit, Threads, StockInv
<1>2. /\ task # Idle /\ task.pc = "read" /\ task.key = p /\ task.to = to /\ task.delta = delta
      /\ task.absolute = absolute /\ task.event = NoEvent
  BY DEF Idle
<1>3. inventoryTask' = [inventoryTask EXCEPT ![h] = task]
  BY DEF Edit
<1>4. UNCHANGED <<stock, processed, lastUpdate, credited, ledger, raced, missed>>
  BY DEF Edit
<1> HIDE DEF task
<1>5. inventoryTask'[h] = task /\ \A g \in Threads : g # h => inventoryTask'[g] = inventoryTask[g]
  BY <1>1, <1>3 DEF TypeOK
<1>6. EventsAreNew'
  BY <1>1, <1>2, <1>4, <1>5 DEF StockInv, EventsAreNew, Threads
<1>7. ASSUME NEW k \in Positions \ raced' PROVE InStep(k)'
  <2>1. InStep(k)
    BY <1>4 DEF StockInv
  <2>2. task.absolute \/ task.to = stock[task.key] + task.delta
    BY <1>2
  <2>3. QED
    BY <1>1, <1>2, <1>3, <1>4, <2>1, <2>2, ReadKeepsStep
<1>8. QED
  BY <1>6, <1>7

\* A step of the listener: what it reads to apply is not recorded, and nothing
\* is recorded while it applies it.
LEMMA ListenerKeepsInv ==
  ASSUME StockInv, NEW o \in Orders, ListenerStep(o)
  PROVE  EventsAreNew' /\ \A k \in Positions \ raced' : InStep(k)'
<1>1. Listener \in Threads /\ inventoryTask[Listener] = Idle /\ TypeOK
  BY DEF ListenerStep, Threads, StockInv
<1>2. UNCHANGED <<stock, lastUpdate, credited, ledger, raced>>
  BY DEF ListenerStep, SkipEvent, ReceiveUnknownPosition, ReceiveRead
<1>3. \A k \in Positions \ raced' : InStep(k)
  BY <1>2 DEF StockInv
<1>4. missed \subseteq missed' /\ processed \subseteq processed'
  BY DEF ListenerStep, SkipEvent, ReceiveUnknownPosition, ReceiveRead
<1>5. CASE UNCHANGED inventoryTask
  <2>1. EventsAreNew'
    BY <1>1, <1>2, <1>4, <1>5 DEF StockInv, EventsAreNew
  <2>2. ASSUME NEW k \in Positions \ raced' PROVE InStep(k)'
    BY <1>2, <1>3, <1>4, <1>5, <2>2, Undisturbed DEF Fresh, WorksOn
  <2>3. QED
    BY <2>1, <2>2
<1>6. CASE ReceiveRead(o) /\ ~ UNCHANGED inventoryTask
  <2> DEFINE p == PositionOf[o]
             sum == Plus(stock[p], QuantityOf[o])
             task == [pc |-> "read", key |-> p, to |-> sum, delta |-> QuantityOf[o],
                      absolute |-> FALSE, event |-> EventId(o), stale |-> FALSE]
  <2>1. /\ Accepts(sum) /\ inventoryTask' = [inventoryTask EXCEPT ![Listener] = task]
        /\ UNCHANGED <<processed, missed>> /\ p \in Positions /\ ~ IsProcessed(o)
    BY <1>6 DEF ReceiveRead
  <2>2. stock[p] \in Quantity /\ QuantityOf[o] \in Int32
    BY <1>1, <2>1, InventoryConstants DEF TypeOK, Int32
  <2>3. sum = stock[p] + QuantityOf[o]
    BY <2>1, <2>2, AcceptedSumIsExact
  <2>4. /\ task # Idle /\ task.pc = "read" /\ task.key = p /\ task.to = sum
        /\ task.delta = QuantityOf[o] /\ task.event = EventId(o)
    BY DEF Idle
  <2>5. EventId(o) # NoEvent /\ EventId(o) \notin processed
    BY <1>1, <2>1, EventIdType DEF IsProcessed
  <2> HIDE DEF task
  <2>6. /\ inventoryTask'[Listener] = task
        /\ \A g \in Threads : g # Listener => inventoryTask'[g] = inventoryTask[g]
    BY <1>1, <2>1 DEF TypeOK
  <2>7. EventsAreNew'
    BY <1>2, <2>1, <2>4, <2>5, <2>6, InventoryConstants DEF StockInv, EventsAreNew, Threads
  <2>8. task.absolute \/ task.to = stock[task.key] + task.delta
    BY <2>3, <2>4
  <2>9. ASSUME NEW k \in Positions \ raced' PROVE InStep(k)'
    BY <1>1, <1>2, <1>3, <2>1, <2>4, <2>8, <2>9, ReadKeepsStep
  <2>10. QED
    BY <2>7, <2>9
<1>7. QED
  BY <1>5, <1>6 DEF ListenerStep, SkipEvent, ReceiveUnknownPosition

\* Save: the listener's event is recorded and its task leaves the read phase.
LEMMA SaveKeepsNew ==
  ASSUME TypeOK, EventsAreNew, NEW h \in Threads, Save(h)
  PROVE  EventsAreNew'
<1> DEFINE task == inventoryTask[h]
<1>1. task # Idle /\ inventoryTask'[h] # Idle /\ inventoryTask'[h].pc = "saved"
  BY SaveEffect
<1>2. \A g \in Threads :
        /\ inventoryTask'[g] # Idle => inventoryTask[g] # Idle /\ inventoryTask'[g].event = inventoryTask[g].event
        /\ inventoryTask'[g].pc = "read" /\ inventoryTask'[g] # Idle => g # h /\ inventoryTask[g].pc = "read"
  BY SaveEffect
<1>3. credited' \subseteq processed'
  BY DEF Save, EventsAreNew
<1>4. h \in Editors => processed' = processed
  BY <1>1 DEF Save, EventsAreNew
<1>5. \A g \in Editors : inventoryTask'[g] # Idle => inventoryTask'[g].event = NoEvent
  BY <1>2 DEF EventsAreNew, Threads
<1>6. inventoryTask'[Listener] # Idle => inventoryTask'[Listener].event # NoEvent
  BY <1>2 DEF EventsAreNew, Threads
<1>7. inventoryTask'[Listener] # Idle /\ inventoryTask'[Listener].pc = "read" =>
        inventoryTask'[Listener].event \notin processed'
  BY <1>2, <1>4 DEF EventsAreNew, Threads
<1>8. QED
  BY <1>3, <1>5, <1>6, <1>7 DEF EventsAreNew

\* Every step keeps the invariant, one action at a time.
LEMMA NextInv == StockInv /\ [Next]_vars => StockInv'
<1> SUFFICES ASSUME StockInv, [Next]_vars
             PROVE  EventsAreNew' /\ \A p \in Positions \ raced' : InStep(p)'
  BY NextType DEF StockInv
<1> DEFINE Kept == EventsAreNew' /\ \A p \in Positions \ raced' : InStep(p)'
<1>1. TypeOK /\ EventsAreNew
  BY DEF StockInv
<1>2. ASSUME NEW h \in Threads, MarkRaced(h) PROVE raced \subseteq raced'
  BY <1>2 DEF MarkRaced
<1>3. ASSUME raced \subseteq raced', NEW p \in Positions \ raced' PROVE p \in Positions \ raced /\ InStep(p)
  BY <1>3 DEF StockInv
<1>4. ASSUME NEW c \in Clients, NEW p \in Positions, NEW d \in Deltas, AdjustRead(c, p, d) PROVE Kept
  <2>1. c \in Editors /\ Plus(stock[p], d) = stock[p] + d
    BY <1>1, <1>4, EditCases
  <2>2. Edit(c, p, Plus(stock[p], d), d, FALSE)
    BY <1>4 DEF AdjustRead
  <2>3. QED
    BY <2>1, <2>2, EditKeepsInv
<1>5. ASSUME NEW p \in Positions, NEW q \in Counts, SetQuantityRead(p, q) PROVE Kept
  <2>1. Feed \in Editors /\ Edit(Feed, p, q, 0, TRUE)
    BY <1>1, <1>5, EditCases DEF SetQuantityRead
  <2>2. QED
    BY <2>1, EditKeepsInv
<1>6. ASSUME NEW o \in Orders, ListenerStep(o) PROVE Kept
  BY <1>6, ListenerKeepsInv
<1>7. ASSUME NEW h \in Threads, Save(h) PROVE Kept
  <2>1. ASSUME NEW p \in Positions \ raced' PROVE InStep(p)'
    BY <1>1, <1>2, <1>3, <1>7, <2>1, SaveKeepsStep DEF Save
  <2>2. QED
    BY <1>1, <1>7, <2>1, SaveKeepsNew
<1>8. ASSUME NEW h \in Threads, PublishUpdate(h) PROVE Kept
  <2>1. \A g \in Threads : inventoryTask'[g] \in {Idle, inventoryTask[g]}
    BY <1>1, <1>8 DEF PublishUpdate, Finish, TypeOK
  <2>2. EventsAreNew'
    BY <1>1, <1>8, <2>1, EndKeepsNew DEF PublishUpdate
  <2>3. ASSUME NEW p \in Positions \ raced' PROVE InStep(p)'
    BY <1>1, <1>2, <1>3, <1>8, <2>3, PublishKeepsStep DEF PublishUpdate
  <2>4. QED
    BY <2>2, <2>3
<1>9. ASSUME NEW hs \in SUBSET Threads,
             \A h \in Threads : inventoryTask'[h] = IF h \in hs THEN Idle ELSE inventoryTask[h],
             UNCHANGED <<stock, processed, credited, ledger, lastUpdate, raced>>,
             missed \subseteq missed', Unannounced(hs) \subseteq missed'
      PROVE  Kept
  <2>1. EventsAreNew'
    BY <1>1, <1>9, EndKeepsNew
  <2>2. ASSUME NEW p \in Positions \ raced' PROVE InStep(p)'
    BY <1>1, <1>3, <1>9, <2>2, EndKeepsStep
  <2>3. QED
    BY <2>1, <2>2
<1>10. ASSUME NEW h \in Threads, LoseUpdate(h) PROVE Kept
  <2>1. \A g \in Threads : inventoryTask'[g] = IF g \in {h} THEN Idle ELSE inventoryTask[g]
    BY <1>1, <1>10 DEF LoseUpdate, Finish, TypeOK
  <2>2. QED
    BY <1>9, <1>10, <2>1 DEF LoseUpdate
<1>11. ASSUME NEW h \in Threads, Fail(h) PROVE Kept
  <2>1. \A g \in Threads : inventoryTask'[g] = IF g \in {h} THEN Idle ELSE inventoryTask[g]
    BY <1>1, <1>11 DEF Fail, TypeOK
  <2>2. Unannounced({h}) \subseteq {inventoryTask[h].key}
    BY DEF Unannounced
  <2>3. missed \subseteq missed' /\ Unannounced({h}) \subseteq missed'
    BY <1>11, <2>2 DEF Fail
  <2>4. UNCHANGED <<stock, processed, credited, ledger, lastUpdate, raced>>
    BY <1>11 DEF Fail
  <2>5. QED
    BY <1>9, <2>1, <2>3, <2>4
<1>12. CASE Crash
  BY <1>9, <1>12 DEF Crash
<1>13. ASSUME UNCHANGED <<stock, processed, inventoryTask, credited, ledger, lastUpdate, raced, missed>>
       PROVE  Kept
  <2>1. \A h \in Threads : inventoryTask'[h] = IF h \in {} THEN Idle ELSE inventoryTask[h]
    BY <1>13
  <2>2. Unannounced({}) = {}
    BY DEF Unannounced
  <2>3. QED
    BY <1>9, <1>13, <2>1, <2>2
<1>14. ASSUME NEW o \in Orders, ReceiveUnknownPositionFails(o) PROVE Kept
  <2>1. /\ UNCHANGED <<stock, inventoryTask, credited, ledger, lastUpdate, raced>>
        /\ missed \subseteq missed' /\ inventoryTask[Listener] = Idle
        /\ processed \subseteq processed'
    BY <1>14 DEF ReceiveUnknownPositionFails
  <2>2. EventsAreNew'
    BY <1>1, <2>1 DEF EventsAreNew
  <2>3. ASSUME NEW p \in Positions \ raced' PROVE InStep(p)'
    BY <1>1, <1>3, <2>1, <2>3, Undisturbed DEF Fresh, WorksOn
  <2>4. QED
    BY <2>2, <2>3
<1>15. CASE Commit
  BY <1>13, <1>15 DEF Commit
<1>16. ASSUME NEW o \in Orders, NEW status \in OrderEvent, Announce(o, status) PROVE Kept
  BY <1>13, <1>16 DEF Announce, serviceVars
<1>17. CASE UNCHANGED vars
  BY <1>13, <1>17 DEF vars, serviceVars
<1>18. QED
  BY <1>4, <1>5, <1>6, <1>7, <1>8, <1>10, <1>11, <1>12, <1>14, <1>15, <1>16, <1>17 DEF Next, Service

\* Tables, handlers and announcements of inventory-service agree.
THEOREM Invariant == Spec => []StockInv
BY InitInv, NextInv, PTL DEF Spec

\* Stock is the sum of the accepted changes, with each ORDER_RECEIVED event
\* counted once, wherever no outdated handler has written.
THEOREM StockAccounting == Spec => []StockIsLedger
<1>1. StockInv => StockIsLedger
  BY DEF StockInv, InStep, StockIsLedger
<1>2. QED
  BY <1>1, Invariant, PTL

\* The quantity last announced of a position at rest is the stored one.
THEOREM UpdateAgreement == Spec => []LastUpdateIsStored
<1>1. StockInv => LastUpdateIsStored
  <2> SUFFICES ASSUME StockInv, NEW p \in Positions \ (raced \cup missed), Quiet(inventoryTask, p)
               PROVE  \/ lastUpdate[p] = stock[p]
                      \/ lastUpdate[p] = NoUpdate /\ stock[p] = InitialStock[p]
    BY DEF LastUpdateIsStored
  <2>1. AnnouncedOrUnderway(p)
    BY DEF StockInv, InStep
  <2>2. \A h \in Threads : ~ Fresh(h, p, "saved")
    BY DEF StockInv, TypeOK, Quiet, Fresh
  <2>3. QED
    BY <2>1, <2>2 DEF AnnouncedOrUnderway
<1>2. QED
  BY <1>1, Invariant, PTL

=============================================================================
