-------------------------- MODULE InventoryService --------------------------
(***************************************************************************)
(* inventory-service: the stock of each position (a SKU in a warehouse),   *)
(* changed by three kinds of handlers:                                     *)
(*   - REST adjust(), relative to the stored quantity;                     *)
(*   - the supplier feed's setQuantity(), an absolute count;               *)
(*   - receivePurchaseOrder(), the last step of the delivery saga, which   *)
(*     stores stock and processed-event record in one logged batch.        *)
(* Each change is announced as INVENTORY_UPDATED.  Quantities are Java     *)
(* ints: IntMax stands for Integer.MAX_VALUE.                              *)
(***************************************************************************)
EXTENDS Integers, Kafka, Handlers

CONSTANTS
  Orders,         \* purchase orders, the keys of the orders topic
  Positions,      \* sku@warehouse positions with a row in inventory_items
  PositionOf,     \* the position an order's goods go to; it may have no row
  QuantityOf,     \* the quantity of an order
  InitialStock,   \* the stock of each position at the start
  Clients,        \* HTTP request threads (adjust)
  Feed,           \* the Camel thread of the supplier feed (setQuantity)
  Listener,       \* the one consumer thread of the orders listener
  Deltas,         \* relative changes asked for
  Counts,         \* absolute counts in the feed
  IntMax,         \* the largest int
  MaxRequests,    \* bound: adjust requests and feed rows in a behaviour
  MaxEvents,      \* bound: order events in a behaviour
  MaxFaults       \* bound: crashes, failed handlers and lost sends

Int32 == (-IntMax - 1)..IntMax
Quantity == 0..IntMax
Editors == Clients \cup {Feed}
Threads == Editors \cup {Listener}

ASSUME InventoryConstants ==
  /\ IntMax \in Nat
  /\ QuantityOf \in [Orders -> 1..IntMax]
  /\ DOMAIN PositionOf = Orders
  /\ InitialStock \in [Positions -> Quantity]
  /\ Deltas \subseteq Int32 /\ Counts \subseteq Int32
  /\ Listener \notin Editors /\ Feed \notin Clients
  /\ {MaxRequests, MaxEvents, MaxFaults} \subseteq Nat

VARIABLES
  stock,          \* table inventory_items: the stored quantity
  processed,      \* table processed_events: the ids <<order, place>> recorded
  inventoryTask,  \* what each thread is doing
  ordersTopic,    \* read by the listener
  lastUpdate,     \* inventory topic: the quantity in the last INVENTORY_UPDATED
  position,       \* the listener's place in the orders topic
  committed,      \* where a restarted listener resumes
  requests,       \* REST requests and feed rows so far
  faults,         \* faults so far
  credited,       \* history: the events whose goods the ledger counts
  ledger,         \* history: the quantity the accepted changes add up to
  raced,          \* history: positions an outdated handler wrote or announced
  missed          \* history: positions, with or without a row, that lost an announcement or a receipt

serviceVars == <<stock, processed, inventoryTask, lastUpdate, position, committed,
                 requests, credited, ledger, raced, missed>>
vars == <<serviceVars, ordersTopic, faults>>

EventIds == Orders \X (Nat \ {0})
NoEvent == <<>>
NoUpdate == -1

\* A handler that has read its row: it will store `to`.  For a relative change
\* `delta` says by how much that is meant to move the stock; an absolute count
\* leaves nothing of the earlier ledger (absolute).  `event` is the order event
\* of the listener.
Task == {Idle} \cup
  [pc: {"read", "saved"}, key: Positions, to: Quantity, delta: Int32, absolute: BOOLEAN,
   event: EventIds \cup {NoEvent}, stale: BOOLEAN]

\* int addition of two ints: one wrap at most.
Plus(a, b) ==
  LET sum == a + b IN
  IF sum > IntMax THEN sum - 2 * (IntMax + 1)
  ELSE IF sum < -IntMax - 1 THEN sum + 2 * (IntMax + 1)
  ELSE sum

\* setQuantity() takes no negative quantity.
Accepts_Any(quantity) == TRUE
Accepts(quantity) == quantity >= 0

\* The listener's next record of order o, and whether it was applied before.
EventId(o) == <<o, position[o] + 1>>
IsProcessed_NotChecked(o) == FALSE
IsProcessed(o) == EventId(o) \in processed

\* The quantity in the INVENTORY_UPDATED event: that of the row just stored.
Announced_BeforeChange(task) == task.to - task.delta
Announced(task) == task.to

\* Where the restarted listener resumes (auto-offset-reset: earliest).
Resumed_Latest == [o \in Orders |-> Len(ordersTopic[o])]
Resumed == committed

Init ==
  /\ stock = InitialStock
  /\ processed = {}
  /\ inventoryTask = [h \in Threads |-> Idle]
  /\ ordersTopic = EmptyTopic(Orders)
  /\ lastUpdate = [p \in Positions |-> NoUpdate]
  /\ position = AtStart(Orders)
  /\ committed = AtStart(Orders)
  /\ requests = 0
  /\ faults = 0
  /\ credited = {}
  /\ ledger = InitialStock
  /\ raced = {}
  /\ missed = {}

-----------------------------------------------------------------------------
(* REST adjustments and feed rows.  setQuantity() refuses a negative       *)
(* quantity: the handler throws and changes nothing, which is not a step.  *)

Edit(h, p, to, delta, absolute) ==
  /\ inventoryTask[h] = Idle
  /\ requests < MaxRequests
  /\ Accepts(to)
  /\ requests' = requests + 1
  /\ inventoryTask' = [inventoryTask EXCEPT ![h] =
       [pc |-> "read", key |-> p, to |-> to, delta |-> delta, absolute |-> absolute,
        event |-> NoEvent, stale |-> FALSE]]
  /\ UNCHANGED <<stock, processed, lastUpdate, position, committed, credited, ledger, raced, missed,
                 ordersTopic, faults>>

AdjustRead(c, p, delta) == Edit(c, p, Plus(stock[p], delta), delta, FALSE)

SetQuantityRead(p, quantity) == Edit(Feed, p, quantity, 0, TRUE)

-----------------------------------------------------------------------------
(* The saga step receivePurchaseOrder.                                     *)

\* The listener moves on to its next record of order o.
Handled(o) == position' = Advanced(position, o)

\* An event of another type, or one recorded as processed.
SkipEvent(o) ==
  /\ \/ NextRecord(ordersTopic, position, o) # "RECEIVED"
     \/ IsProcessed(o)
  /\ Handled(o)
  /\ UNCHANGED <<stock, processed, inventoryTask, credited, ledger, missed>>

\* Goods for a position without a row: the batch holds the record alone.
IsForUnknownPosition(o) ==
  /\ NextRecord(ordersTopic, position, o) = "RECEIVED"
  /\ ~ IsProcessed(o)
  /\ PositionOf[o] \notin Positions

ReceiveUnknownPosition(o) ==
  /\ IsForUnknownPosition(o)
  /\ processed' = processed \cup {EventId(o)}
  /\ Handled(o)
  /\ UNCHANGED <<stock, inventoryTask, credited, ledger, missed>>

\* The checks and reads, up to the batch.  setQuantity() throws when the sum
\* has wrapped: every attempt ends the same way and the record is skipped.
ReceiveRead(o) ==
  LET p == PositionOf[o]
      sum == Plus(stock[p], QuantityOf[o])
  IN
  /\ NextRecord(ordersTopic, position, o) = "RECEIVED"
  /\ ~ IsProcessed(o)
  /\ p \in Positions
  /\ \/ /\ ~ Accepts(sum)
        /\ Handled(o)
        /\ missed' = missed \cup {p}
        /\ UNCHANGED inventoryTask
     \/ /\ Accepts(sum)
        /\ inventoryTask' = [inventoryTask EXCEPT ![Listener] =
             [pc |-> "read", key |-> p, to |-> sum, delta |-> QuantityOf[o], absolute |-> FALSE,
              event |-> EventId(o), stale |-> FALSE]]
        /\ UNCHANGED <<position, missed>>
  /\ UNCHANGED <<stock, processed, credited, ledger>>

ListenerStep(o) ==
  /\ inventoryTask[Listener] = Idle
  /\ HasNext(ordersTopic, position, o)
  /\ SkipEvent(o) \/ ReceiveUnknownPosition(o) \/ ReceiveRead(o)
  /\ UNCHANGED <<lastUpdate, committed, requests, raced, ordersTopic, faults>>

-----------------------------------------------------------------------------
(* Storing and announcing.                                                 *)

MarkRaced(h) ==
  raced' = IF inventoryTask[h].stale THEN raced \cup {inventoryTask[h].key} ELSE raced

\* change() saves one row; the listener's batch stores the row and the
\* processed-event record, both or neither.
Save(h) ==
  LET task == inventoryTask[h] IN
  /\ task.pc = "read"
  /\ stock' = [stock EXCEPT ![task.key] = task.to]
  /\ processed' = processed \cup ({task.event} \ {NoEvent})
  /\ ledger' = [ledger EXCEPT ![task.key] =
                  IF task.absolute THEN task.to
                  ELSE IF task.event \in credited THEN @
                  ELSE @ + task.delta]
  /\ credited' = credited \cup ({task.event} \ {NoEvent})
  /\ inventoryTask' = Overtake(inventoryTask, h, task.key,
                               [task EXCEPT !.pc = "saved", !.stale = FALSE])
  /\ MarkRaced(h)
  /\ UNCHANGED <<lastUpdate, position, committed, requests, missed, ordersTopic, faults>>

Finish(h) ==
  /\ inventoryTask' = [inventoryTask EXCEPT ![h] = Idle]
  /\ IF h = Listener THEN Handled(inventoryTask[h].event[1]) ELSE position' = position

PublishUpdate(h) ==
  /\ inventoryTask[h].pc = "saved"
  /\ lastUpdate' = [lastUpdate EXCEPT ![inventoryTask[h].key] = Announced(inventoryTask[h])]
  /\ Finish(h)
  /\ MarkRaced(h)
  /\ UNCHANGED <<stock, processed, committed, requests, credited, ledger, missed, ordersTopic, faults>>

-----------------------------------------------------------------------------
(* Faults.                                                                 *)

Fault == faults < MaxFaults /\ faults' = faults + 1

Unannounced(hs) == {inventoryTask[h].key : h \in {g \in hs : inventoryTask[g].pc = "saved"}}

\* The send fails after send() has returned: relay() only logs it, and the
\* handler has long gone on.
LoseUpdate(h) ==
  /\ Fault
  /\ inventoryTask[h].pc = "saved"
  /\ Finish(h)
  /\ missed' = missed \cup Unannounced({h})
  /\ UNCHANGED <<stock, processed, lastUpdate, committed, requests, credited, ledger, raced, ordersTopic>>

\* A step of the handler throws.  A request answers 500 and a feed row is
\* retried or given up (a new SetQuantityRead or none); the container delivers
\* the listener's record again, or skips it once its attempts are used up.
Fail(h) ==
  /\ Fault
  /\ inventoryTask[h] # Idle
  /\ inventoryTask' = [inventoryTask EXCEPT ![h] = Idle]
  /\ \/ /\ position' = position
        /\ missed' = missed \cup Unannounced({h})
     \/ /\ h = Listener
        /\ Handled(inventoryTask[h].event[1])
        /\ missed' = missed \cup {inventoryTask[h].key}
  /\ UNCHANGED <<stock, processed, lastUpdate, committed, requests, credited, ledger, raced, ordersTopic>>

\* The batch for goods without a row throws: it timed out and is applied all
\* the same, and the container delivers the record again, or the attempts are
\* used up and the record is skipped with nothing stored.
ReceiveUnknownPositionFails(o) ==
  /\ Fault
  /\ inventoryTask[Listener] = Idle
  /\ HasNext(ordersTopic, position, o)
  /\ IsForUnknownPosition(o)
  /\ \/ processed' = processed \cup {EventId(o)} /\ UNCHANGED <<position, missed>>
     \/ Handled(o) /\ missed' = missed \cup {PositionOf[o]} /\ UNCHANGED processed
  /\ UNCHANGED <<stock, inventoryTask, lastUpdate, committed, requests, credited, ledger, raced, ordersTopic>>

Commit ==
  /\ inventoryTask[Listener] = Idle
  /\ committed # position
  /\ committed' = position
  /\ UNCHANGED <<stock, processed, inventoryTask, lastUpdate, position, requests, credited, ledger, raced,
                 missed, ordersTopic, faults>>

\* The process dies and comes back; records since the last commit come again.
Crash ==
  /\ Fault
  /\ inventoryTask' = [h \in Threads |-> Idle]
  /\ position' = Resumed
  /\ missed' = missed \cup Unannounced(Threads)
  /\ UNCHANGED <<stock, processed, lastUpdate, committed, requests, credited, ledger, raced, ordersTopic>>

-----------------------------------------------------------------------------

\* What inventory-service does; order-service appends to ordersTopic.
Service ==
  \/ \E p \in Positions :
       \/ \E c \in Clients, d \in Deltas : AdjustRead(c, p, d)
       \/ \E q \in Counts : SetQuantityRead(p, q)
  \/ \E o \in Orders : ListenerStep(o) \/ ReceiveUnknownPositionFails(o)
  \/ \E h \in Threads : Save(h) \/ PublishUpdate(h) \/ LoseUpdate(h) \/ Fail(h)
  \/ Commit
  \/ Crash

\* order-service seen from here: it may announce an order's receipt, more than
\* once if its own handlers raced, and other changes ("SHIPPED" stands for the
\* types the listener ignores).
OrderEvent == {"SHIPPED", "RECEIVED"}

Announce(o, status) ==
  /\ Cardinality(Records(ordersTopic)) < MaxEvents
  /\ ordersTopic' = Published(ordersTopic, o, status)
  /\ UNCHANGED <<serviceVars, faults>>

Next == Service \/ \E o \in Orders, status \in OrderEvent : Announce(o, status)

\* Started handlers run on and the consumer keeps polling.
ServiceFairness ==
  /\ \A h \in Threads : WF_vars(Save(h)) /\ WF_vars(PublishUpdate(h))
  /\ \A o \in Orders : WF_vars(ListenerStep(o))
  /\ WF_vars(Commit)

Spec == Init /\ [][Next]_vars
FairSpec == Spec /\ ServiceFairness

-----------------------------------------------------------------------------
(* Properties.                                                             *)

\* The shape of the state; in particular every stored quantity is a
\* non-negative int.
TypeOK ==
  /\ stock \in [Positions -> Quantity]
  /\ processed \subseteq EventIds
  /\ inventoryTask \in [Threads -> Task]
  /\ ordersTopic \in [Orders -> Seq(OrderEvent)]
  /\ lastUpdate \in [Positions -> Quantity \cup {NoUpdate}]
  /\ position \in [Orders -> Nat] /\ committed \in [Orders -> Nat]
  /\ requests \in 0..MaxRequests /\ faults \in 0..MaxFaults
  /\ credited \subseteq EventIds /\ ledger \in [Positions -> Int]
  /\ raced \subseteq Positions
  /\ missed \subseteq Positions \cup {PositionOf[o] : o \in Orders}

\* The stored quantity is the opening stock, or the last count, plus every
\* accepted adjustment and every ORDER_RECEIVED event once - whatever is
\* redelivered, retried, wrapped around or lost in a crash - on a position
\* where no outdated handler has written.  The batch of stock and
\* processed-event record and the check before it are there for this.
StockIsLedger == \A p \in Positions \ raced : stock[p] = ledger[p]

\* When nobody works on a position, the quantity last announced, which the
\* low-stock detector goes by, is the stored one, unless an outdated handler
\* has acted or an announcement was lost.
LastUpdateIsStored ==
  \A p \in Positions \ (raced \cup missed) :
    Quiet(inventoryTask, p) =>
      \/ lastUpdate[p] = stock[p]
      \/ lastUpdate[p] = NoUpdate /\ stock[p] = InitialStock[p]

\* Every ORDER_RECEIVED the listener has still to read is recorded as
\* processed in the end: no crash between reading, storing and committing the
\* offset loses a receipt, and none is taken for done before its batch is.
\* Excused are positions, with or without a row, with a receipt that was
\* skipped, because its sum did not fit an int or its attempts failed.
ReceiptIsProcessed ==
  \A o \in Orders, i \in 1..MaxEvents :
    /\ position[o] < i /\ i <= Len(ordersTopic[o])
    /\ ordersTopic[o][i] = "RECEIVED"
    ~> <<o, i>> \in processed \/ PositionOf[o] \in missed

=============================================================================
