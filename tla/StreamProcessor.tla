--------------------------- MODULE StreamProcessor ---------------------------
(***************************************************************************)
(* The Flink job, for one stock position and one shipment: it reads their  *)
(* events and writes alerts.  The low-stock detector alerts on an edge;    *)
(* the delay detector when a carrier reports a delay, or from a            *)
(* processing-time timer at the ETA.  The job restarts from its last       *)
(* checkpoint, which holds the offsets with the detectors' state, and      *)
(* reads again what came after; before the first one it starts afresh with *)
(* what is published from then on.  Alerts the sink has not sent are lost  *)
(* with the process.                                                       *)
(*                                                                         *)
(* The events are there from the start: one that is not read yet need not  *)
(* have been published yet.                                                *)
(***************************************************************************)
EXTENDS Integers, Sequences, FiniteSets

CONSTANTS
  Logs,         \* what is published of the position and the shipment
  Grace,        \* SHIPMENT_GRACE_MINUTES
  Partitions,   \* of scm.alerts
  MaxTime,      \* bound: the clock, unless a timer is set for later
  MaxRestores   \* bound: crashes of the job

Statuses == {"CREATED", "IN_TRANSIT", "DELAYED", "DELIVERED", "DAMAGED"}
OPEN == {"CREATED", "IN_TRANSIT"}
NoEta == -1
NoTimer == -1

\* What an update says of the position: at its reorder point or below, or above.
StockEvents == {"low", "fine"}
ShipmentEvents == [status : Statuses, eta : Nat \cup {NoEta}]

VARIABLES
  stock, shipment,  \* the two logs of events
  clock,
  job,              \* offsets and detectors' state
  saved,            \* the last checkpoint, if there is one
  buffer,           \* alerts the sink has not sent
  sent, partition,  \* scm.alerts in the order of sending, and the partition of each
  restores,         \* crashes so far
  starts            \* history: the offsets it started afresh at

jobVars == <<stock, shipment, clock, job, saved, buffer, restores, starts>>

Fresh(s, t) == [stock |-> s, shipment |-> t, alerted |-> FALSE, timer |-> NoTimer]

Init ==
  /\ \E logs \in Logs : stock = logs.stock /\ shipment = logs.shipment
  /\ clock = 0
  /\ job = Fresh(0, 0) /\ saved = {}
  /\ buffer = <<>> /\ sent = <<>>
  /\ restores = 0 /\ starts = {Fresh(0, 0)}

\* An alert, by its type and the event it is about.  Its id is its place on
\* scm.alerts: a fresh one each time.
Alert(type, event) == [type |-> type, event |-> event]
Collect(alerts) == buffer' = buffer \o alerts

-----------------------------------------------------------------------------

LowStock_Storm(alerted, low) ==
  IF low THEN <<Alert("LOW_STOCK", job.stock + 1)>> ELSE <<>>
LowStock(alerted, low) ==
  IF low /\ ~ alerted THEN <<Alert("LOW_STOCK", job.stock + 1)>> ELSE <<>>

DetectLowStock ==
  LET low == stock[job.stock + 1] = "low" IN
  /\ job.stock < Len(stock)
  /\ job' = [job EXCEPT !.stock = @ + 1, !.alerted = low]
  /\ Collect(LowStock(job.alerted, low))
  /\ UNCHANGED <<stock, shipment, clock, saved, sent, partition, restores, starts>>

LaterOf(a, b) == IF a > b THEN a ELSE b

\* Every event cancels the timer; one of an open shipment with an ETA sets it.
Timer_NotCancelled(e) ==
  IF e.status \in OPEN /\ e.eta # NoEta THEN LaterOf(e.eta + Grace, clock + 1) ELSE job.timer
Timer(e) ==
  IF e.status \in OPEN /\ e.eta # NoEta THEN LaterOf(e.eta + Grace, clock + 1) ELSE NoTimer

DetectDelay ==
  LET e == shipment[job.shipment + 1] IN
  /\ job.shipment < Len(shipment)
  /\ job' = [job EXCEPT !.shipment = @ + 1, !.timer = Timer(e)]
  /\ Collect(IF e.status = "DELAYED" THEN <<Alert("REPORTED", job.shipment + 1)>> ELSE <<>>)
  /\ UNCHANGED <<stock, shipment, clock, saved, sent, partition, restores, starts>>

OnTimer ==
  /\ job.timer # NoTimer /\ job.timer <= clock
  /\ job' = [job EXCEPT !.timer = NoTimer]
  /\ Collect(<<Alert("OVERDUE", job.shipment)>>)
  /\ UNCHANGED <<stock, shipment, clock, saved, sent, partition, restores, starts>>

-----------------------------------------------------------------------------
(* The sink and checkpoints.                                               *)

\* Records have no key: the producer puts each into a partition of its choice.
Send ==
  /\ buffer # <<>>
  /\ sent' = Append(sent, Head(buffer)) /\ buffer' = Tail(buffer)
  /\ \E p \in Partitions : partition' = Append(partition, p)
  /\ UNCHANGED <<stock, shipment, clock, job, saved, restores, starts>>

\* AT_LEAST_ONCE: a checkpoint completes when all alerts up to it are sent.
Flushed_Not == TRUE
Flushed == buffer = <<>>
Checkpoint ==
  /\ Flushed
  /\ saved # {job}
  /\ saved' = {job}
  /\ UNCHANGED <<stock, shipment, clock, job, buffer, sent, partition, restores, starts>>

\* OffsetsInitializer.latest() applies as long as there is no checkpoint.
Restore ==
  /\ restores < MaxRestores /\ restores' = restores + 1
  /\ buffer' = <<>>
  /\ \/ job' \in saved /\ UNCHANGED starts
     \/ /\ saved = {}
        /\ \E s \in job.stock..Len(stock), t \in job.shipment..Len(shipment) : job' = Fresh(s, t)
        /\ starts' = starts \cup {job'}
  /\ UNCHANGED <<stock, shipment, clock, saved, sent, partition>>

Tick ==
  /\ clock < LaterOf(MaxTime, job.timer)
  /\ clock' = clock + 1
  /\ UNCHANGED <<stock, shipment, job, saved, buffer, sent, partition, restores, starts>>

Next ==
  DetectLowStock \/ DetectDelay \/ OnTimer \/ Send \/ Checkpoint \/ Restore \/ Tick

\* The job keeps running and time goes on.
JobFairness ==
  WF_jobVars(DetectLowStock) /\ WF_jobVars(DetectDelay) /\ WF_jobVars(OnTimer)
    /\ WF_<<jobVars, sent>>(Send) /\ WF_jobVars(Tick)

-----------------------------------------------------------------------------
(* Properties.                                                             *)

\* The job's own alerts on the topic.
Types == {"LOW_STOCK", "REPORTED", "OVERDUE"}
Log == {a \in {sent[i] : i \in DOMAIN sent} : a.type \in Types}
Times(a, alerts) == Cardinality({i \in DOMAIN alerts : alerts[i] = a})

\* The falls that a job started afresh at one of these offsets sees, the reports
\* of the carrier, and the ETAs that have passed.
Falls(from) ==
  {k \in DOMAIN stock : /\ stock[k] = "low"
                        /\ \E f \in from : k = f.stock + 1 \/ (k > f.stock + 1 /\ stock[k - 1] # "low")}
Reports(from) ==
  {k \in DOMAIN shipment : shipment[k].status = "DELAYED" /\ \E f \in from : k > f.shipment}
Open(k) == shipment[k].status \in OPEN /\ shipment[k].eta # NoEta
Overdue == {k \in DOMAIN shipment : Open(k) /\ clock >= shipment[k].eta + Grace}

Certain(from) ==
  {Alert("LOW_STOCK", k) : k \in Falls(from)} \cup {Alert("REPORTED", k) : k \in Reports(from)}

\* The shape of the job's state.
TypeOK ==
  /\ \A state \in {job} \cup saved :
       /\ state.stock \in 0..Len(stock) /\ state.shipment \in 0..Len(shipment)
       /\ state.stock <= job.stock /\ state.shipment <= job.shipment
       /\ state.timer # NoTimer => state.shipment > 0 /\ Open(state.shipment)
  /\ restores \in 0..MaxRestores

\* Every alert has its reason: a fall to the reorder point, a report of the
\* carrier, or an open shipment past its ETA, of which the job has not read
\* later news (or has gone back to before it).  No reason is alerted more often
\* than once and once more per restart.
AlertsAreDue ==
  \A a \in Log \cup {buffer[i] : i \in DOMAIN buffer} :
    /\ a \in Certain(starts) \cup {Alert("OVERDUE", k) : k \in Overdue}
    /\ Times(a, sent \o buffer) <= 1 + restores

\* What the job sees from its last fresh start on: of the ETAs, the one that is
\* the last news of the shipment.
LastStart == {f \in starts : \A g \in starts : g.stock <= f.stock /\ g.shipment <= f.shipment}
LastEta(from) ==
  {k \in DOMAIN shipment : k = Len(shipment) /\ Open(k) /\ \E f \in from : k > f.shipment}

\* Every fall, every report and the ETA that passes with no news after it are
\* alerted in the end, whenever the job crashes.
EveryReasonIsAlerted ==
  <>[](Certain(LastStart) \cup {Alert("OVERDUE", k) : k \in LastEta(LastStart)} \subseteq Log)

=============================================================================
