---------------------------- MODULE AlertService ----------------------------
(***************************************************************************)
(* alert-service: the newest alerts in memory, pushed to the UIs as they   *)
(* come, and alerts that people or other services raise over REST, which   *)
(* take the topic like all others.  scm.alerts has several partitions:     *)
(* alerts of one partition are read in the order they were sent in, those  *)
(* of different ones in any order.  Each start reads all of them from the  *)
(* beginning.                                                              *)
(***************************************************************************)
EXTENDS Integers, Sequences, SequencesExt

CONSTANTS
  MAX_ALERTS,
  Partitions,     \* of scm.alerts
  Raised,         \* alerts raised over REST, and records that are no alert
  Unreadable,     \* the latter
  PartitionsFor,  \* the partition an entity's key takes an alert to, or all without a key
  MaxRaised,      \* bound: how many of Raised are sent
  MaxTrouble      \* bound: restarts and redeliveries

VARIABLES
  sent, partition,      \* scm.alerts in the order of sending, and the partition of each
  position, committed,  \* of each partition: the place in sent of the last alert handled
  recent,               \* alerts by their place in sent, newest first
  raised, trouble,      \* so far
  pushed, repeated      \* history: alerts pushed to UIs since the start, and more than once

viewVars == <<position, committed, recent, raised, trouble, pushed, repeated>>

\* Where a start begins: a fresh group id per instance, with earliest offsets.
StartOffset_Latest == Len(sent)
StartOffset == 0
AtStart == [p \in Partitions |-> StartOffset]

Init ==
  /\ partition = <<>>
  /\ position = AtStart /\ committed = AtStart
  /\ recent = <<>>
  /\ raised = 0 /\ trouble = 0
  /\ pushed = {} /\ repeated = {}

\* POST /api/alerts; or somebody writes a record that is no alert.
Raise(a) ==
  /\ raised < MaxRaised /\ raised' = raised + 1
  /\ sent' = Append(sent, a)
  /\ \E p \in PartitionsFor[a] : partition' = Append(partition, p)
  /\ UNCHANGED <<position, committed, recent, trouble, pushed, repeated>>

Readable == {i \in DOMAIN sent : sent[i] \notin Unreadable}
Unread(p) == {i \in DOMAIN sent : partition[i] = p /\ i > position[p]}

\* addFirst; the last go where there are too many.
Add_OneLess(alert) == LET all == <<alert>> \o recent IN
                      SubSeq(all, 1, IF Len(all) >= MAX_ALERTS THEN MAX_ALERTS - 1 ELSE Len(all))
Add(alert) == LET all == <<alert>> \o recent IN
              SubSeq(all, 1, IF Len(all) > MAX_ALERTS THEN MAX_ALERTS ELSE Len(all))

\* raise: an alert that is in the window has been delivered before.
Show(alert) ==
  \/ /\ alert \in Readable /\ ~ Contains(recent, alert)
     /\ recent' = Add(alert)
     /\ pushed' = pushed \cup {alert}
     /\ repeated' = repeated \cup (pushed \cap {alert})
  \/ /\ alert \notin Readable \/ Contains(recent, alert)
     /\ UNCHANGED <<recent, pushed, repeated>>

\* The next record of some partition.  One that is no alert is skipped once
\* its attempts are used up.
OnAlert(p) ==
  \E next \in Unread(p) :
    /\ \A i \in Unread(p) : next <= i
    /\ position' = [position EXCEPT ![p] = next]
    /\ Show(next)
    /\ UNCHANGED <<sent, partition, committed, raised, trouble>>

Commit ==
  /\ committed # position
  /\ committed' = position
  /\ UNCHANGED <<sent, partition, position, recent, raised, trouble, pushed, repeated>>

Redeliver ==
  /\ committed # position /\ trouble < MaxTrouble
  /\ position' = committed
  /\ trouble' = trouble + 1
  /\ UNCHANGED <<sent, partition, committed, recent, raised, pushed, repeated>>

Restart ==
  /\ trouble < MaxTrouble
  /\ recent' = <<>> /\ pushed' = {} /\ repeated' = {}
  /\ position' = AtStart /\ committed' = AtStart
  /\ trouble' = trouble + 1
  /\ UNCHANGED <<sent, partition, raised>>

Next ==
  \/ \E a \in Raised : Raise(a)
  \/ \E p \in Partitions : OnAlert(p)
  \/ Commit \/ Redeliver \/ Restart

-----------------------------------------------------------------------------
(* Properties.                                                             *)

Shown == {recent[k] : k \in DOMAIN recent}
CaughtUp == \A p \in Partitions : Unread(p) = {}

\* The window holds no alert twice and is never larger than its bound.
TypeOK ==
  /\ \A p \in Partitions : committed[p] <= position[p] /\ position[p] <= Len(sent)
  /\ Len(partition) = Len(sent)
  /\ Len(recent) <= MAX_ALERTS
  /\ IsInjective(recent)

\* A view that has read all partitions is full or shows every alert, whatever
\* was redelivered or could not be read; and with an alert it shows all later
\* ones of its partition, before it.  Excused is an alert that had left the
\* window and was taken for a new one when it was redelivered: it may stand
\* before a later one, or outlive it.
CaughtUpShowsNewest ==
  CaughtUp =>
    /\ Len(recent) = MAX_ALERTS \/ Readable \subseteq Shown
    /\ \A k \in DOMAIN recent, later \in Readable :
         /\ recent[k] \notin repeated
         /\ recent[k] < later /\ partition[later] = partition[recent[k]]
         => \E l \in 1..(k - 1) : recent[l] = later

\* A redelivered alert is recognised and not pushed to the UIs again, as long as
\* there were no more alerts since the start than the window holds.
PushedAgainOnlyWhenFull == repeated # {} => Cardinality(pushed) > MAX_ALERTS

=============================================================================
