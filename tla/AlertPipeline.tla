---------------------------- MODULE AlertPipeline ----------------------------
(***************************************************************************)
(* The stream processor and alert-service, joined by scm.alerts.           *)
(***************************************************************************)
EXTENDS Integers, Sequences

CONSTANTS
  Logs, Grace, MaxTime, MaxRestores,
  MAX_ALERTS, Partitions, Raised, Unreadable, PartitionsFor, MaxRaised, MaxTrouble

VARIABLES
  stock, shipment, clock, job, saved, buffer, sent, partition, restores, starts,
  position, committed, recent, raised, trouble, pushed, repeated

Job == INSTANCE StreamProcessor
View == INSTANCE AlertService

\* An alert raised by hand is told from the job's by its type.
ASSUME PipelineConstants ==
  /\ Logs \subseteq [stock : Seq(Job!StockEvents), shipment : Seq(Job!ShipmentEvents)]
  /\ {Grace, MaxTime, MaxRestores, MaxRaised, MaxTrouble} \subseteq Nat
  /\ MAX_ALERTS \in Nat \ {0}
  /\ \A a \in Raised : a.type \notin Job!Types
  /\ Unreadable \subseteq Raised
  /\ PartitionsFor \in [Raised -> SUBSET Partitions]

jobVars == <<stock, shipment, clock, job, saved, buffer, restores, starts>>
viewVars == <<position, committed, recent, raised, trouble, pushed, repeated>>
vars == <<jobVars, viewVars, sent, partition>>

Init == Job!Init /\ View!Init

Next ==
  \/ Job!Next /\ UNCHANGED viewVars
  \/ View!Next /\ UNCHANGED jobVars

Spec == Init /\ [][Next]_vars
FairSpec == Spec /\ Job!JobFairness

-----------------------------------------------------------------------------
(* Properties.                                                             *)

\* The shape of both components' state.
TypeOK == Job!TypeOK /\ View!TypeOK

\* Alerts on scm.alerts, except those raised over REST, have their reason.
AlertsAreDue == Job!AlertsAreDue

\* What the job reads of falls, delays and passed ETAs comes to scm.alerts.
EveryReasonIsAlerted == Job!EveryReasonIsAlerted

\* alert-service, when it has read them all, shows as many as it can, and of a
\* partition the newest.
CaughtUpShowsNewest == View!CaughtUpShowsNewest

\* It recognises redelivered alerts until more came in than it can show.
PushedAgainOnlyWhenFull == View!PushedAgainOnlyWhenFull

=============================================================================
