# SupplySphere: a TLA+ model of its services, saga, alerts and AI workflows

SupplySphere is a supply-chain platform: Spring Boot services that own one
Cassandra keyspace each and talk through Kafka topics, a Flink job that turns the
event streams into alerts, a Python AI service, and an Angular UI. The modules
here model every part that keeps state others depend on: the services that carry goods
from a shipment into stock, the catalog and its caches, alerts from detection to the
screen, the workflow that resolves exceptions, photo inspections, door monitors and
replenishment agents, with the faults and interleavings they live with. `PROJECT.json`
maps every definition to the lines it models.

## 1. The system

| Component | State it keeps | Operations that change it | Talks to |
|---|---|---|---|
| event backbone (`scm-common/event`, Kafka) | topics partitioned by key, a committed offset per consumer group | `EventPublisher.publish` -> `KafkaMessageRelay.relay`, polling, offset commits | everybody |
| order-service | table `purchase_orders` | `create`, `updateStatus` (REST), `onShipmentEvent` (listener on *shipments*) | publishes *orders*; asks catalog over REST |
| inventory-service | tables `inventory_items`, `processed_events`, `product_views` | `adjust` (REST), `setQuantity` (supplier feed), `receivePurchaseOrder` (listener on *orders*), `upsertProduct` (listener on *products*) | publishes *inventory* |
| shipment-service | table `shipments` | `create`, `updateStatus` (REST), `handleDamagedInspection`, `handleCleanInspection` (Camel route on *vision*) | publishes *shipments*, *alerts*; asks order-service over REST |
| catalog-service | table `products`, caches in Redis | `upsert`, `broadcastAll`, cached reads | publishes *products* (compacted) |
| alert-service | the last 200 alerts, the SSE subscribers | `onAlert`, `raise` (REST), `subscribe` | reads and writes *alerts* |
| stream processor (Flink) | keyed state per position, shipment and product; checkpoints | low-stock, delay and demand-spike detectors | reads *inventory*, *shipments*, *orders*; writes *alerts* |
| exception workflow (AI service) | a run per alert, graph checkpoints | `start`, `decide`, execution of the approved actions | reads *alerts*; calls the services over REST |
| dock doors (AI service) | monitors, their threads and detectors | start and stop a monitor, a detection, an alert per opening | writes *vision*, *alerts* |
| replenishment (AI service, MCP server) | the policy file, a lock per process | train, recommend | reads inventory and orders over REST |
| photo inspections (AI service) | none; a request's progress | inspect for damage, inspect a cold chain, report | reads the catalog; writes *vision*, or calls shipment- and alert-service where Kafka is off |
| gateway, chat agent, RAG, MCP tools, UI, seeders | none of their own, or presentation | | |

What is hard here:

* **Read-modify-write without a version.** Every service reads a row, decides, and
  writes the whole row back (`repository.save`, an upsert in Cassandra). REST
  threads, the listener and the Camel route run side by side; nothing notices that
  the row changed between read and write.
* **Store, then publish.** There is no outbox. A crash between the two, or a send
  that fails after `send()` returned, leaves a row that no consumer hears about.
* **At-least-once delivery.** Offsets are committed after the handler; a crash or a
  failed handler brings records back. order-service relies on the order's state to
  recognise them, inventory-service on a processed-event record stored in one
  logged batch with the stock.
* **Sagas without a coordinator.** A delivered shipment closes its order and a
  closed order books its goods; each step sees only the event before it.
* Caches that are refreshed after the write, timers that race the events they wait
  for, retries of remote calls that may have succeeded, threads stopped from
  outside, a file two processes write: the catalog, stream and AI components.

What makes each component correct:

* order-service: a closed order stays closed and is announced as closed once; the
  topic agrees with the table when nothing is under way; a delivery closes its order.
* inventory-service: stock is the sum of the accepted changes, each receipt counted
  once; quantities never become negative or wrap; a receipt is never lost.
* shipment-service: the status others know is the stored one; a damage alert comes
  with a quarantine; a flagged inspection is not lost.
* the saga: goods are booked once, only after they were delivered and received.
* workflow: one run per alert, one decision per run, each action at most once and only
  as approved; a report that is true.
* catalog: a read gives a current product but for known races, which the time-to-live
  ends; the topic, and so every read model, comes to the stored product.
* alerts: each has its reason and each reason gives one, through restarts of the job;
  the view shows as many as it can, and of each partition the newest in order.
* photo inspections: the stricter the range, the stricter the verdict; no alert without
  a quarantine.
* dock doors: one live monitor per door; openings as the frames show them; an alert per
  violation; a stop that takes effect.
* replenishment: recommendations by current policies; a file that keeps what was
  trained; trainer and evaluator that play the same game.

## 2. The modules

| Module | Models | Notes |
|---|---|---|
| `Kafka` | topics, cursors | a topic is a function from key to log, a consumer a position per key |
| `Handlers` | threads that run one handler at a time | the steps read, save, publish, and the history flag `stale` |
| `OrderService` | order-service | instances of it are checked alone and in the saga |
| `InventoryService` | inventory-service, the stock part | Java int arithmetic with a small `IntMax` |
| `ShipmentService` | shipment-service and its Camel route | |
| `GoodsReceipt` | the abstract saga | open -> delivered -> received -> booked, stock moves with the last step only |
| `DeliverySaga` | the three services over their two topics | refinement of `GoodsReceipt` |
| `ExceptionWorkflow` | the AI service's workflow runs | LangGraph's checkpoints and aiokafka's auto-commit are modelled from their use |
| `CatalogService` | catalog-service for one product: cached reads, `setTemperatureRange`, the start-up broadcast | the Redis cache manager is modelled from its annotations and its error handler |
| `ColdChain` | damage and cold-chain inspections, composed with `CatalogService` | the verdict as an operator on findings |
| `StreamProcessor` | the Flink job: low-stock and delay detectors, sink, checkpoints, restores | Flink and its Kafka source from the job's configuration |
| `AlertService` | alert-service's window and its listener, on the partitions of *alerts* | the one topic whose partitions a property tells apart |
| `AlertPipeline` | the two joined by *alerts* | |
| `DoorDetector` | the debounced door state and the report on a clip | recursive functions |
| `DockDoors` | monitors, their threads, requests and alerts | |
| `InventorySim` | the replenishment environment and its vectorised twin | recursive functions |
| `Replenishment` | requests of two processes on the policy file | |
| `MC*` | small instances for TLC | |
| `*_proofs` | TLAPS proofs about the module they are named for | |

### How state and actions correspond to the code

*Rows* keep the columns that the properties can tell apart: an order's status, a
position's quantity, a shipment's status, notes and linked order. *A handler* is cut
where another process can act in between: after its reads (`UpdateRead`,
`ListenerRead`, `AdjustRead`, `SetQuantityRead`, `ReceiveRead`, `InspectRead`), after
its store (`Save`), after its publish (`Publish`, `PublishUpdate`, `PublishAlert`).
The thread's record in `orderTask`, `inventoryTask` or `shipmentTask` is its local
state between those points. A request that is refused, or a query, changes nothing
and is no step. The inventory batch is one step: Cassandra's logged batch stores both
rows or neither. Events are the fields their readers use.

*The exception workflow* runs on one event loop, so its cuts are its awaits: `Ask` is
the checkpoint read inside `view()`, `Answer` the judgement after that await together
with the entry into `_in_flight`, `Load` the graph's own read, and then one step per
node. The nodes from `classify` to `draft_plan` only read other services and are one
step, `Plan`; `execute` is one step per action (`ExecuteAction`), each of which takes
effect, is refused, or takes effect while its answer is lost. LangGraph writes
checkpoints in the background (its default durability), so `Flush` may come
late and a crash may lose the newest one.

*The catalog* is one product whose range is all that changes. A cached read is a `Hit`,
or a `Miss` that reads the database, with `PutLoaded` later: whatever was loaded is
cached. An update is `Save`, `Publish`, `Refresh` (the put of the one entry and the evict
of the other, after the method has returned); each Redis command may fail and is then
logged and passed over. `UpdateFails` is an exception once the product is stored, by a
save that times out or in `view()`, which reads the supplier: the update is then neither
published nor put nor evicted. `ReadAll` and `PublishAll` are the broadcast at each start. The
time-to-live is `Expire`, at any time.

*An inspection* is cut at its calls: the product lookup (through the catalog's cache),
the assessment, the report, and without Kafka the alert after the status. `CallFails`
ends a request wherever a call may raise. `Verdict` follows `inspect` in
`cold_chain.py`: hot and cold spots, displays, indicators and visible signs.

*The Flink job* reads one position and one shipment, whose logs are there from the start
(an event that is not read yet need not have been published yet). `DetectLowStock`,
`DetectDelay` and `OnTimer` are the process functions, `Send` the sink, `Checkpoint` an
at-least-once one that waits for the sink, `Restore` a restart from the last one, or
from `latest()` where there is none.

*alert-service* is `Raise`, `OnAlert`, `Commit`, `Redeliver` and `Restart` with a new
consumer group from the earliest offset. `sent` is *alerts* in the order of sending, and
`partition` says where each record went: the sink writes without a key and so into any
partition, an alert raised over REST into the one of its entity's key (`PartitionsFor`).
`OnAlert(p)` reads the next record of one partition, whichever comes first in a poll. A
record that is no alert makes `EventJson.read` throw; when its attempts are used up it is
skipped (`Readable`).

*A door monitor* is a thread that blocks in OpenCV (`opening`, `reading`) and looks at
its stop event between calls only; `Start`, `Stop` and `StopAll` are requests on the
event loop, `AlertRaised` and `AlertFails` the coroutine the thread handed over. Both
sides write the status without a lock, as in the code. A frame is its time and whether
it looks open.

*A replenishment request* is cut at its awaits: the stock, the inventory (fetched before
the lock), the lock's queue, loading, training a position, emptying the file, writing it.
`Crash` ends a process anywhere. What training ends with is any policy the search may
end with; a stored policy stands for the settings it was trained for. The environment's
orders in transit are a set, told apart by the day each was placed, because only the sum
of what is due and of what is on order matters; the twin's are a sequence of columns.

*Faults* of the services are `Crash` (locals are lost, the listener restarts at the committed
offset), `Fail` (a step throws before or after the store; the container redelivers
the record or, its attempts used up, skips it), `ReceiveUnknownPositionFails` (the same
for the batch of a receipt without a row), `UpdateFails`, `LosePublish`, `LoseUpdate` and
`LoseAlert` (the send fails after `send()` returned, and `relay()` logs it), and in the
workflow `Crash` and `Raise` (a node before the execution raises).

*History variables* are read by no guard. `stale` and `raced` remember that a handler
stored or announced a row which another handler had stored since it read it; `missed`
remembers that an announcement or a record was lost; `ledger` and `credited` add up
the changes that inventory-service accepted. Properties that are true only for rows
nobody raced on say so with `raced`: the code has no protection against those races,
and the violation runs show what happens then. `approved` and `broken` remember which
workflow runs a person approved and which a crash stopped. `seen`, `disturbed`,
`disordered` and `unsent` are the ranges a read may give, the cache entries a race or a
failure may have spoiled, whether updates were published in another order than stored,
and whether the event of the last change to be published was lost. `pushed` and `repeated`
are the alerts pushed since alert-service started, and those pushed more than once.
`starts` are the offsets the job started afresh at; `frames` and `asked` what a monitor
has been shown and has handed over; `trained` the file as finished trainings would have it.

### Assumptions of the model

* One instance of each service, so one consumer thread per group and topic.
* A consumer's position is kept per key and `Commit` commits all keys together. Keys
  of one partition share an offset in Kafka; independent cursors allow more
  interleavings of different keys. The properties of these services are about one key
  each. alert-service's window mixes all keys, so there partitions are modelled as such.
* `scm.alerts` keeps all its records: its retention of seven days is left out, and an
  instance that starts reads from the first.
* An event's id is its place `<<key, index>>` in the topic: every publish draws a
  fresh UUID.
* What a plan contains is left out but for the number of its actions; an edit may change
  that number. Alerts of unsupported types are not published in the model.
* `existsById` on the processed-event record and the following read of the stock row
  are one step: the single listener thread is the only writer of such records. They live
  for 30 days, which is not modelled: the topics keep Kafka's default retention, a
  shorter one, so no event is left to be redelivered by then.
* The check of a linked order in `ShipmentService.create` is one step with storing the
  shipment; an order can be cancelled at any time after it, and the model allows that.
* ETAs, quantities and prices of orders in events, JSON and logging are left out; the
  delay detector has ETAs of its own.
* Times are small integers: of frames, of events and timers. A replenishment policy is
  kept in tenths, the precision of its file; in the code the policy is evaluated before
  it is rounded, which may tip an order by one unit between report and later use.
* An alert raised over REST is told from the job's by its type.
* The catalog's suppliers never change; their two caches are left out.

## 3. The runs

Model checking is exhaustive within the bounds. Deadlock is not checked: the system
may rest when all bounded requests, events and faults are used.

| Run | Instance | Checks |
|---|---|---|
| `order_service` | 1 order, 1 shipment, 1 client, 3 requests, 2 shipment events, 1 fault | `TypeOK`, `ClosingIsFinal`, `LastAnnouncementIsStored`, `DeliveryClosesOrder` |
| `inventory_service` | 2 orders (one for a position without a row), 1 position, 1 client and the feed, 2 changes, 2 order events, 1 fault, `IntMax = 3` | `TypeOK`, `StockIsLedger`, `LastUpdateIsStored`, `ReceiptIsProcessed` |
| `shipment_service` | 1 shipment, 1 client and the route, 2 requests, 2 inspections, 1 fault | `TypeOK`, `LastAnnouncementIsStored`, `AlertsFollowQuarantine`, `DamageIsAlerted` |
| `delivery_saga` | the three services, 1 order, 1 shipment, 3 shipment requests, 2 faults | `SagaIsGoodsReceipt`, `DeliveredIsBooked` |
| `exception_workflow` | 1 alert published twice, the consumer and 1 client, 3 requests, plans of 2 actions, 1 fault | `TypeOK`, `ExecutedAsApproved`, `OutcomeIsTrue`, `FinishedStaysFinished`, `RunsSettle` |
| `cold_chain` | 1 product, 1 inspection and 1 other reader, 2 updates, 1 range and none, 3 findings, 1 fault (Redis command, lost send, update that fails once stored, restart) | `TypeOK`, `ReadsAreCurrent`, `PublishedIsStored`, `NarrowerIsStricter`, `AlertedIsQuarantined` |
| `alert_pipeline` | 7 histories of a position and a shipment with 1 restore of the job; 2 histories with 3 records by hand (keyed, keyless or unreadable), 2 partitions and 2 redeliveries or restarts of the view; clock up to 1 unless a timer is set for later, a window of 2 | `TypeOK`, `AlertsAreDue`, `CaughtUpShowsNewest`, `PushedAgainOnlyWhenFull`, `EveryReasonIsAlerted` |
| `dock_doors` | 1 door, 2 monitors started, 8 frames, debounce 1, limit 1 | `TypeOK`, `OneMonitorPerDoor`, `ReportIsRight`, `MonitorAgreesWithReport`, `AlertsMatchReport`, `StopTakesEffect` |
| `replenishment` | 3 requests, one of them at the MCP server, 2 positions, 2 settings, 1 change, 1 crash, demand 0 to 2 on 4 days | `TypeOK`, `AnswersAreCurrent`, `FileKeepsTraining`, `TwinAgrees`, `RequestsEnd` |
| `order_race` | 1 order, 2 requests, 1 event, no fault | `ReceiptAnnouncedOnce`, violated |
| `clean_inspection` | 1 shipment, 2 requests, 1 inspection, no fault | `CleanInspectionOnlyRecordsNotes`, violated |
| `double_decision` | 1 alert, 2 clients, 3 requests, no fault | `DecidedOnce`, violated |

**Why the bounds are enough for the interesting cases.** Rows are independent: no
handler touches two orders, positions or shipments, so one row shows every race on it.
One client and the listener are two writers, and a client that has finished starts
again. Three order requests are a creation and two updates around a delivery; two
events are a delivery and its predecessor or successor; one fault is a crash or a
failure at every step, and the redelivery after it meets everything else. In the saga
two faults let one service fail while it recovers, or two services in turn; three
shipment requests are a booking, a delivery and a second announcement of it. With
`IntMax = 3`, a stock of 1 and quantities of 2, sums wrap in both directions. Workflow runs are independent as well;
two actions let a crash or an error fall between them, and the consumer and one client
are two callers that start, retry and decide.

In `cold_chain` a reader and an update race in every way, two updates publish and refresh
in either order, and the one fault is a failed command of each kind, a lost send of an
update or of the broadcast, an update that fails once it is stored, or a restart; the
findings combine a hot and a cold spot, and a display with an indicator. The logs of
`alert_pipeline` are a position that falls, recovers and falls again, and shipments that
are postponed, delivered, delayed, damaged, lose their ETA or are booked after it, each set
back once. No property of the job depends on what alert-service does, nor one of its view
on what the alerts are about, so trouble comes to one of the two at a time
(`OneInTrouble`): in the other two histories up to four records overflow a window of 2, in each
split over two partitions and each order of reading, and two troubles are a redelivery of
an alert that has left the window and a restart or another redelivery after it.

In `dock_doors` eight frames at a gap of 1 with debounce 1 are enough for an opening, its end and the next, with a passer-by in each state; the second
monitor starts after the first was stopped, whose thread may still run. The limit on all
monitors together does not bite with two of them: it is proved instead. The 81 demand
paths of `replenishment` cover lead times 0 and 2, orders in transit, lost sales and
rounding at the half.

**Fairness.** A thread that has started a handler runs on, and the container keeps
polling, so weak fairness holds for the steps of a started handler, for a consumer with
a record to read, and for the commit. The Flink job keeps reading, its timers fire and
time goes on. A monitor's thread runs on, and OpenCV's calls return, by their own time-out
if need be. Calls of replenishment requests end, training is finite and an asyncio lock
is granted in order. In the workflow it holds for the steps of a call
under way, whose awaits all end, by a time-out if need be. `Spec` has none; `FairSpec` adds it. Nobody has to send a
request, and faults have no fairness. No property needs more: a lost announcement or a
skipped record is an excuse written out in the property (`missed`), because the code
has no repair for it.

### Disagreements with the documentation

* `order_race`: `onShipmentEvent` is documented as idempotent by the order's state.
  A REST update to RECEIVED and a delivery event that both read the open order both
  pass `isClosed()` and each announce ORDER_RECEIVED, under ids of their own, so
  inventory-service books the goods twice.
* `clean_inspection`: a clean inspection is to record its notes only, but it saves
  the whole row it read and so reverts a status update made in between, silently.
* `double_decision`: `decide()` awaits the run's state, checks it, and awaits the graph.
  Two decisions that both read the run before either went on both pass, although a
  decided run is to answer 409. The approved action takes effect twice, even when one
  of the two decisions was a rejection.

Met while modelling, without a run of their own because the runs above excuse them or
because they are about data:

* `CatalogService` says that a change refreshes the product's entry and drops the list, and
  calls the time-to-live "only a safety net". A read that loaded the product before the
  update was stored, and caches it after the update's refresh, puts the old range back:
  without any failure, only the time-to-live ends it. The same holds for two updates
  refreshed in the other order. `ReadsAreCurrent` excuses such entries (`disturbed`).
* An update that fails between its save and its return has changed the product, but
  neither the caches nor the topic hear of it, and the caller is told it failed.
* alert-service says that it keeps the most recent alerts and rebuilds that view when it
  starts. It reads three partitions in any order and ranks alerts by when it reads them, so
  with more alerts retained than the window holds, those of the partition read last push out
  later ones of the others. What remains true is `CaughtUpShowsNewest`.
* Redelivered alerts are not to be pushed again, but only those in the window are
  recognised. One that 200 later ones have pushed out before its offset was committed (a
  poll brings up to 500) is shown and pushed again: `PushedAgainOnlyWhenFull` says no more.
* Two `setTemperatureRange` requests may publish in the other order than they saved, and
  the broadcast at a start may publish what it read before an update: read models then
  keep the old range until the next start (`disordered`).
* `knowledge_base/cold_chain_sop.md` has a triggered indicator on frozen goods as
  critical and cold spots treated as hot ones; the verdict gives an indicator the weight
  of two signs, "major", and does not count the area of cold spots.
* A policy file that was cut short by a crash, or by the other process writing at the
  time, makes every later request fail: `_load` raises, nobody repairs the file. The lock
  is per process while `docker-compose.yml` gives scm-ai and scm-mcp one `ai-data` volume.
* Before the Flink job's first checkpoint a restart begins at `latest()`: events in
  between are not looked at. A restored timer may fire for a shipment whose delivery had
  been read before. `AlertsAreDue` and `EveryReasonIsAlerted` say what remains true.
* `_monitors` keeps every monitor ever started, and the status "failed" is never set.
* `recommendations` reads stock and then orders: a receipt in between is in neither or in
  both, and the recommended quantity off by it.

The same pattern makes `InventoryService.adjust` lose an update against the feed or the
listener; `StockIsLedger` excludes such positions through `raced`. No document
promises otherwise there, so it is no run.

## 4. What is proved

TLAPS checks these for every value of the constants: any orders, positions, shipments,
clients, alerts, doors, clips, readers, findings, settings, policies, demand paths and
logs, and every bound. The assumptions are those the modules state of their constants.
Every invariant and every action property that a passing run checks is a theorem;
`ClosedStaysClosed` is proved only, since a closed row that moved on would be announced
and break `ClosingIsFinal` in the run.

| Theorem | Says | Assumes |
|---|---|---|
| `OrderService_proofs!TypeInvariant` | `Spec => []TypeOK` | `OrderConstants` |
| `OrderService_proofs!Invariant` | `Spec => []OrderInv` | |
| `OrderService_proofs!ClosingFinality` | `Spec => []ClosingIsFinal` | |
| `OrderService_proofs!AnnouncementAgreement` | `Spec => []LastAnnouncementIsStored` | |
| `OrderService_proofs!ClosedRowsStay` | `Spec => ClosedStaysClosed` | |
| `InventoryService_proofs!TypeInvariant` | `Spec => []TypeOK` | `InventoryConstants` |
| `InventoryService_proofs!Invariant` | `Spec => []StockInv` | |
| `InventoryService_proofs!StockAccounting` | `Spec => []StockIsLedger` | |
| `InventoryService_proofs!UpdateAgreement` | `Spec => []LastUpdateIsStored` | |
| `ShipmentService_proofs!TypeInvariant` | `Spec => []TypeOK` | `ShipmentConstants` |
| `ShipmentService_proofs!Invariant` | `Spec => []ShipmentInv` | |
| `ShipmentService_proofs!AnnouncementAgreement` | `Spec => []LastAnnouncementIsStored` | |
| `ShipmentService_proofs!QuarantineComesFirst` | `Spec => []AlertsFollowQuarantine` | |
| `ExceptionWorkflow_proofs!TypeInvariant` | `Spec => []TypeOK` | `WorkflowConstants` |
| `ExceptionWorkflow_proofs!Invariant` | `Spec => []WorkflowInv` | |
| `ExceptionWorkflow_proofs!ApprovalComesFirst` | `Spec => []ExecutedAsApproved` | |
| `ExceptionWorkflow_proofs!TruthfulOutcome` | `Spec => []OutcomeIsTrue` | |
| `ExceptionWorkflow_proofs!FinishedRunsStay` | `Spec => FinishedStaysFinished` | |
| `ColdChain_proofs!TypeInvariant` | `Spec => []TypeOK` | `CatalogConstants`, `ColdChainConstants` |
| `ColdChain_proofs!Invariant` | `Spec => []ColdInv` | |
| `ColdChain_proofs!CurrentReads` | `Spec => []ReadsAreCurrent` | |
| `ColdChain_proofs!TopicAgreement` | `Spec => []PublishedIsStored` | |
| `ColdChain_proofs!QuarantineBeforeAlert` | `Spec => []AlertedIsQuarantined` | |
| `ColdChain_proofs!StricterWhenNarrower` | `Spec => []NarrowerIsStricter` | |
| `AlertPipeline_proofs!TypeInvariant` | `Spec => []TypeOK` | `PipelineConstants` |
| `AlertPipeline_proofs!Invariant` | `Spec => []PipelineInv` | |
| `AlertPipeline_proofs!AlertsHaveReasons` | `Spec => []AlertsAreDue` | |
| `AlertPipeline_proofs!NewestAreShown` | `Spec => []CaughtUpShowsNewest` | |
| `AlertPipeline_proofs!PushedOnceUntilFull` | `Spec => []PushedAgainOnlyWhenFull` | |
| `DockDoors_proofs!TypeInvariant` | `Spec => []TypeOK` | `DockDoorConstants`, `DetectorConstants` |
| `DockDoors_proofs!DoorsAreWatchedOnce` | `Spec => []OneMonitorPerDoor` | |
| `DockDoors_proofs!ReportOfClip` | the report on any clip lists exactly its openings, each once and in order | |
| `DockDoors_proofs!ReportsAreRight` | `Spec => []ReportIsRight` | |
| `DockDoors_proofs!MonitorsAgreeWithReports` | `Spec => []MonitorAgreesWithReport` | |
| `DockDoors_proofs!AlertsMatchReports` | `Spec => []AlertsMatchReport` | |
| `Replenishment_proofs!TypeCorrect` | `Spec => []TypeOK` | `ReplenishmentConstants` |
| `Replenishment_proofs!AnswersAlwaysCurrent` | `Spec => []AnswersAreCurrent` | |
| `Replenishment_proofs!FileAlwaysKeepsTraining` | `Spec => []FileKeepsTraining` | |
| `Replenishment_proofs!SimulatorsAgree` | on every path of demand, for all settings and every policy within `MaxOrder`, `EnvRun = TwinRun` | |
| `Replenishment_proofs!TwinAlwaysAgrees` | `Spec => []TwinAgrees` | |

*Order-service.* `ClosingIsFinal` alone is not inductive: nothing in it says that the
handler which is about to announce is the only one, or that what it announces is what
is stored. `OrderInv` adds, for orders nobody raced on: a handler in "read" that is not
stale works on an open order; a handler in "saved" that is not stale has just stored the
order's status, and no other handler can announce the order without being stale; no closing status
is in the topic while the stored order is open. Overtaking is the crux: whoever stores
makes all others on that row stale, and a stale handler puts its order into `raced` when
it next stores or announces.

*Inventory-service.* `StockIsLedger` needs to know of a handler in "read" that is not
stale that the quantity it will store is the ledger's plus its delta. For that,
`StockInv` says that `to = stock + delta` holds in the integers, not only modulo 2^32:
lemma `AcceptedSumIsExact` shows that a sum of a stored quantity and an int which wraps
is negative and is refused. It also says that an event is credited only if it is
recorded as processed, and that the event of a listener which has still to store is not
recorded, which is what the check and the batch of both rows give.

*Shipment-service.* The properties speak of the topics and the table; `ShipmentInv` adds
what handlers know and owe. The Camel thread handles the record at its position; an
up-to-date handler that is about to announce knows the stored status; a stored status
that is not announced yet is in the hands of a handler that has stored its row, or owed
by a flagged inspection the route still has to handle, perhaps once more. An alert in hand
is counted with those sent, against the quarantines announced.

*Exception workflow.* `ExecutedAsApproved` is about counts, but to preserve it one must
know that a caller in "execute" is alone and has done exactly the actions it thinks.
`WorkflowInv` says, for a run without a race or a crash: it has one caller at most, which
knows where the run is, and what took effect fits that place; between callers the run
rests before its execution or at its end, because no node from the execution on raises.
`FinishedStaysFinished` also holds for runs a crash stopped, and so has a part of its
own (`Closed`): a run nobody raced on has one caller at most, and none once it is done.

*Cold chain.* For an entry that is not disturbed one update at most is under way, the
entry shows what is stored or what that update replaces, and each slow load carries what
is stored. An update that fails once it is stored disturbs both entries, since it refreshes
neither. While nothing was published out of order, whoever is about to publish carries
what is stored, so the last to do so leaves it on the topic, unless its send is lost or it
fails before (`unsent`); a later update or start that publishes ends that excuse. `NarrowerIsStricter` is
about the verdict alone, but needs its parts in turn: each degree a photo gives is among
finitely many, so the worst exists (`LargestExists`); a narrower range keeps every spot and every
display and moves none closer (`NarrowerKeeps`); and the area of hot spots, a sum folded
over a set, grows with the set, by induction over its subsets, where it does not matter
which spot is added last. `ColdChainConstants` says what the code's lists give: finitely
many spots and displays, and areas that are not negative.

*Alert pipeline.* An alert was given at most once per life of the job, and in this life
only if the job is past what it is about; a restart starts a new life.

Of alert-service's view the invariant (`ViewInv`) goes by what was pushed since the start,
which redeliveries do not undo. Of each partition, all readable records up to its position
were pushed, and none before one that was pushed is missing (`PushedInOrder`). The window
is full or shows all that was pushed; and an alert in it that was pushed once has all
pushed later ones of its partition before it (`ShownInOrder`): a new one goes to the front,
and the last to come in is the last to go. An alert pushed twice is the exception, because it
stands where its second time put it. Once all is read, what was pushed is all that is
readable. An alert that is pushed again was not in the window, which is then full of others:
hence more were pushed than it holds. Nothing here depends on the number of partitions or on the window's size, so the
run's 2 and 2 stand for the code's 3 and 200.

*Dock doors.* Only a monitor that was told to stop shows as stopped, because the thread
writes "stopped" last and after seeing the event; hence `start_monitor`, which goes by the
status alone, never counts too few. The number of unstopped monitors is then bounded by
the number it counted.

The report is defined frame by frame and the openings by what the whole clip shows, so
they meet in an invariant of the scan (`RightOf`): the pending change began where the last
run of disagreeing frames does, the state is that of the last change that lasted, and the
intervals so far are the openings that have ended, in order. It is shown for the empty
clip and kept by one more frame, hence holds for every clip by induction over its frames.
A live monitor reads the same frames without knowing the clip: `Watched` says that it is
where the scan of its frames is (`Follows`), and counts its alerts against the intervals that
came near the limit (`Alerts`). From that and `ReportOfClip` the three properties follow.

*Replenishment.* `TypeInv` adds to `TypeOK` that who is between load and save heads its
process's lock queue; so within a process one request at most is there, but two processes
may be. `AnswerInv` therefore speaks of a request's own hands and not of the file: they
hold, for each position it is done with, the policy of the settings it fetched, and what
it fetched is among what `seen` remembers. `FileInv` is about histories in which no two processes trained
at once: then the rest of a trainer's hands is what the finished trainings left in the file.

`SimulatorsAgree` relates two programs that keep different data: the environment a set of
orders with their days of arrival, the twin a row of columns that moves by one place a
day. `Mirrors` says that column k holds the sum of the orders that arrive on the k-th day
from now, and the first column also what was placed with a lead time of 0 the day before. One day keeps it, because the orders due are the first column, a column's sum
gains the order placed today or nothing, and both positions are the sum of all columns;
the lemmas on `SumFunction` (one more index, a union of parts, equal values) are by
induction over the finite set that is summed, and the theorem by induction over days.

*How inductions are done.* The library's induction theorems take an operator, which the
installed provers cannot instantiate. The sets that would be inducted over are therefore
concrete, and the argument is by a least counterexample: the naturals and the strict
subsets of a finite set are well-founded (`NatLessThanWellFounded`,
`FS_StrictSubsetOrderingWellFounded`), and `WFMin` gives the least element of the set of
those for which the claim fails. That a recursive function satisfies its defining equation is shown
in the same way.

Only model-checked: the liveness properties (`DeliveryClosesOrder`, `ReceiptIsProcessed`,
`DamageIsAlerted`, `DeliveredIsBooked`, `RunsSettle`, `EveryReasonIsAlerted`,
`StopTakesEffect`, `RequestsEnd`), because fairness and `ENABLED` are beyond this prover;
and the refinement `SagaIsGoodsReceipt`, which is between three instances whose own
invariants would have to be carried through the composition, and which holds only where
REST clients leave statuses to the events and no stock overflows, as its run has it.

## 5. What is not modelled

Queries, DTOs, JSON, validation annotations and security configuration; the gateway (it
routes, and its dashboard only reads); model calls, embeddings and image analysis, whose
results are inputs: findings of a photo, frames of a camera, plans of a run; the chat
agent, RAG and the MCP server's read-only tools, which keep no state others depend on; the
UI, seeders and pipelines. `DemandSpikeDetector` is a sum over a library window whose
boundaries are wall-clock time. The SSE connections of alert-service have no state beyond
the list of open ones. The product read model of inventory-service is the last record of
the compacted *products* topic. Nothing promises
a workflow run for every alert: one in hand when the service dies, before its first
checkpoint, may be lost, and no property excludes that. The compensation of a lost
announcement is not modelled because the code has none.

## 6. Plan

Modelled, checked and, as far as section 4 says, proved: everything above. What would
still add something, in this order:

1. Proofs: the step of the refinement `SagaIsGoodsReceipt`.
2. `DemandSpikeDetector` with its sliding window, once its boundaries matter to a property.
3. A second instance of a service: consumer groups that rebalance while handlers run.
