------------------------ MODULE AlertPipeline_proofs ------------------------
(***************************************************************************)
(* Proofs about alerts from the stream processor to alert-service, for any *)
(* histories of events, any size of the window, and any bounds.            *)
(*                                                                         *)
(* The job: each alert has been given at most once per life of the job,    *)
(* and in this life only if the job is past what it is about.              *)
(*                                                                         *)
(* The view: alerts of a partition are pushed in their order, so an alert  *)
(* pushed for the first time is the latest of its partition so far, and it *)
(* goes to the front of the window.                                        *)
(***************************************************************************)
EXTENDS AlertPipeline, FiniteSetTheorems, TLAPS

-----------------------------------------------------------------------------
(* The inductive invariant of the job.                                     *)

State == [stock : 0..Len(stock), shipment : 0..Len(shipment), alerted : BOOLEAN, timer : Int]
JobAlert == [type : Job!Types, event : Nat]

\* A timer is that of the last event read.  A detector that would alert next has
\* read the position above its reorder point, or nothing yet.
Sound(s) ==
  /\ s.timer # Job!NoTimer =>
       /\ s.shipment > 0 /\ Job!Open(s.shipment)
       /\ s.timer >= shipment[s.shipment].eta + Grace
  /\ \E f \in starts :
       /\ f.stock <= s.stock /\ f.shipment <= s.shipment
       /\ ~ s.alerted => f.stock = s.stock \/ stock[s.stock] # "low"

JobShape ==
  /\ stock \in Seq(Job!StockEvents) /\ shipment \in Seq(Job!ShipmentEvents)
  /\ clock \in Nat
  /\ job \in State /\ saved \subseteq State /\ starts \subseteq State
  /\ \A s, t \in saved : s = t
  /\ \A s \in saved : s.stock <= job.stock /\ s.shipment <= job.shipment
  /\ restores \in 0..MaxRestores
  /\ buffer \in Seq(JobAlert) /\ sent \in Seq(JobAlert \cup Raised)

\* The job is past what the alert is about.
Past(a) ==
  \/ a.type = "LOW_STOCK" /\ a.event <= job.stock
  \/ a.type = "REPORTED" /\ a.event <= job.shipment
  \/ a.type = "OVERDUE" /\ a.event < job.shipment
  \/ a.type = "OVERDUE" /\ a.event = job.shipment /\ job.timer = Job!NoTimer

Given(a) == Job!Times(a, sent) + Job!Times(a, buffer)

Reason(a) == a \in Job!Certain(starts) \cup {Job!Alert("OVERDUE", k) : k \in Job!Overdue}

Due(a) ==
  /\ Given(a) <= restores + (IF Past(a) THEN 1 ELSE 0)
  /\ Given(a) > 0 => Reason(a)

JobInv ==
  /\ JobShape
  /\ \A s \in {job} \cup saved : Sound(s)
  /\ \A a \in JobAlert : Due(a)

-----------------------------------------------------------------------------
(* The inductive invariant of the view.                                    *)

ViewShape ==
  /\ sent \in Seq(JobAlert \cup Raised)
  /\ partition \in Seq(Partitions) /\ Len(partition) = Len(sent)
  /\ position \in [Partitions -> Nat] /\ committed \in [Partitions -> Nat]
  /\ \A p \in Partitions : committed[p] <= position[p] /\ position[p] <= Len(sent)

\* What has been read of a partition was pushed, and before what is after it.
PushedInOrder ==
  /\ pushed \subseteq View!Readable
  /\ \A i \in View!Readable : i <= position[partition[i]] => i \in pushed
  /\ \A i \in View!Readable, j \in pushed : i < j /\ partition[i] = partition[j] => i \in pushed

\* The window shows what was pushed last: with an alert pushed only once, all
\* that were pushed of its partition and are later.
ShownInOrder ==
  /\ recent \in Seq(Nat) /\ Len(recent) <= MAX_ALERTS
  /\ \A k, l \in 1..Len(recent) : recent[k] = recent[l] => k = l
  /\ \A k \in 1..Len(recent) : recent[k] \in pushed
  /\ Len(recent) = MAX_ALERTS \/ \A i \in pushed : \E k \in 1..Len(recent) : recent[k] = i
  /\ \A k \in 1..Len(recent), later \in pushed :
       recent[k] \notin repeated /\ recent[k] < later /\ partition[later] = partition[recent[k]]
       => \E l \in 1..(k - 1) : recent[l] = later

ViewInv == ViewShape /\ PushedInOrder /\ ShownInOrder

-----------------------------------------------------------------------------
(* How often an alert is in a sequence.                                    *)

Places(a, alerts) == {i \in DOMAIN alerts : alerts[i] = a}

\* Each component's module has the standard Cardinality under a name of its own.
LEMMA SameCardinality == ASSUME NEW S PROVE Job!Cardinality(S) = Cardinality(S)
BY DEF Job!Cardinality, Cardinality

\* As above, for the view.
LEMMA SameSize == ASSUME NEW S PROVE View!Cardinality(S) = Cardinality(S)
BY DEF View!Cardinality, Cardinality

\* An alert is at finitely many places, which Times counts.
LEMMA PlacesFinite ==
  ASSUME NEW S, NEW s \in Seq(S), NEW a
  PROVE  /\ Places(a, s) \in SUBSET (1..Len(s))
         /\ IsFiniteSet(Places(a, s))
         /\ Job!Times(a, s) = Cardinality(Places(a, s))
         /\ Job!Times(a, s) \in Nat
<1>1. Places(a, s) \in SUBSET (1..Len(s))
  BY DEF Places
<1>2. IsFiniteSet(1..Len(s))
  BY FS_Interval
<1>3. IsFiniteSet(Places(a, s))
  BY <1>1, <1>2, FS_Subset
<1>4. QED
  BY <1>1, <1>3, FS_CardinalityType, SameCardinality DEF Places, Job!Times

\* No alert is in an empty sequence.
LEMMA TimesInNothing == ASSUME NEW a PROVE Job!Times(a, <<>>) = 0
<1>1. {i \in DOMAIN <<>> : <<>>[i] = a} = {}
  OBVIOUS
<1>2. QED
  BY <1>1, FS_EmptySet, SameCardinality DEF Job!Times

\* A set of numbers and the same set moved have the same size.
LEMMA ShiftedSize ==
  ASSUME NEW A \in SUBSET Int, IsFiniteSet(A), NEW n \in Int
  PROVE  /\ IsFiniteSet({i + n : i \in A})
         /\ Cardinality({i + n : i \in A}) = Cardinality(A)
<1> DEFINE B == {i + n : i \in A}
           f == [i \in A |-> i + n]
<1>1. f \in Injection(A, B)
  BY DEF Injection, IsInjective
<1>2. f \in Surjection(A, B)
  BY DEF Surjection
<1>3. ExistsBijection(A, B)
  BY <1>1, <1>2 DEF ExistsBijection, Bijection
<1>4. QED
  BY <1>3, FS_Bijection

\* A sequence with one alert more.
LEMMA TimesAppended ==
  ASSUME NEW S, NEW s \in Seq(S), NEW x \in S, NEW a
  PROVE  Job!Times(a, Append(s, x)) = Job!Times(a, s) + (IF x = a THEN 1 ELSE 0)
<1>1. /\ IsFiniteSet(Places(a, s)) /\ Places(a, s) \subseteq 1..Len(s)
      /\ Job!Times(a, s) = Cardinality(Places(a, s)) /\ Job!Times(a, s) \in Nat
  BY PlacesFinite
<1>2. Append(s, x) \in Seq(S)
  OBVIOUS
<1>3. Job!Times(a, Append(s, x)) = Cardinality(Places(a, Append(s, x)))
  BY SameCardinality DEF Places, Job!Times
<1>4. CASE x = a
  <2>1. Places(a, Append(s, x)) = Places(a, s) \cup {Len(s) + 1}
    BY <1>4 DEF Places
  <2>2. Len(s) + 1 \notin Places(a, s)
    BY <1>1
  <2>3. Cardinality(Places(a, s) \cup {Len(s) + 1}) = Cardinality(Places(a, s)) + 1
    BY <1>1, <2>2, FS_AddElement
  <2>4. Cardinality(Places(a, Append(s, x))) = Cardinality(Places(a, s)) + 1
    BY <2>1, <2>3, Zenon
  <2>5. QED
    BY <1>1, <1>3, <1>4, <2>4
<1>5. CASE x # a
  <2>1. Places(a, Append(s, x)) = Places(a, s)
    BY <1>5 DEF Places
  <2>2. QED
    BY <1>1, <1>3, <1>5, <2>1
<1>6. QED
  BY <1>4, <1>5

\* Two sequences, one after the other.
LEMMA TimesTogether ==
  ASSUME NEW S, NEW s \in Seq(S), NEW t \in Seq(S), NEW a
  PROVE  Job!Times(a, s \o t) = Job!Times(a, s) + Job!Times(a, t)
<1> DEFINE moved == {i + Len(s) : i \in Places(a, t)}
<1>1. /\ IsFiniteSet(Places(a, s)) /\ Places(a, s) \subseteq 1..Len(s)
      /\ Job!Times(a, s) = Cardinality(Places(a, s)) /\ Job!Times(a, s) \in Nat
  BY PlacesFinite
<1>2. /\ IsFiniteSet(Places(a, t)) /\ Places(a, t) \subseteq 1..Len(t)
      /\ Job!Times(a, t) = Cardinality(Places(a, t)) /\ Job!Times(a, t) \in Nat
  BY PlacesFinite
<1>3. IsFiniteSet(moved) /\ Cardinality(moved) = Cardinality(Places(a, t))
  <2>1. Places(a, t) \in SUBSET Int /\ Len(s) \in Int
    BY <1>2
  <2>2. QED
    BY <1>2, <2>1, ShiftedSize, Zenon
<1>4. Places(a, s \o t) = Places(a, s) \cup moved
  <2>1. ASSUME NEW i \in Places(a, s \o t) PROVE i \in Places(a, s) \cup moved
    <3>1. CASE i <= Len(s)
      BY <3>1 DEF Places
    <3>2. CASE i > Len(s)
      <4>1. i - Len(s) \in Places(a, t) /\ i = (i - Len(s)) + Len(s)
        BY <3>2 DEF Places
      <4>2. QED
        BY <4>1
    <3>3. QED
      BY <3>1, <3>2 DEF Places
  <2>2. ASSUME NEW i \in Places(a, s) PROVE i \in Places(a, s \o t)
    BY DEF Places
  <2>3. ASSUME NEW i \in Places(a, t) PROVE i + Len(s) \in Places(a, s \o t)
    BY DEF Places
  <2>4. QED
    BY <2>1, <2>2, <2>3
<1>5. Places(a, s) \cap moved = {}
  BY <1>1, <1>2
<1>6. Cardinality(Places(a, s \o t)) = Cardinality(Places(a, s)) + Cardinality(moved)
  <2>1. Cardinality(Places(a, s) \cup moved) =
          Cardinality(Places(a, s)) + Cardinality(moved) - Cardinality(Places(a, s) \cap moved)
    BY <1>1, <1>3, FS_Union
  <2>2. Cardinality(Places(a, s) \cap moved) = 0
    BY <1>5, FS_EmptySet
  <2>3. QED
    BY <1>1, <1>2, <1>3, <1>4, <2>1, <2>2
<1>7. Job!Times(a, s \o t) = Cardinality(Places(a, s \o t))
  BY SameCardinality DEF Places, Job!Times
<1>8. QED
  BY <1>1, <1>2, <1>3, <1>6, <1>7

\* Taking the first alert away.
LEMMA TimesInTail ==
  ASSUME NEW S, NEW s \in Seq(S), s # <<>>, NEW a
  PROVE  Job!Times(a, s) = Job!Times(a, Tail(s)) + (IF Head(s) = a THEN 1 ELSE 0)
<1>1. Tail(s) \in Seq(S) /\ <<Head(s)>> \in Seq(S) /\ Head(s) \in S
  OBVIOUS
<1>2. s = <<Head(s)>> \o Tail(s)
  BY <1>1
<1>3. <<Head(s)>> = Append(<<>>, Head(s)) /\ <<>> \in Seq(S)
  OBVIOUS
<1>4. Job!Times(a, <<Head(s)>>) = IF Head(s) = a THEN 1 ELSE 0
  <2>1. Job!Times(a, Append(<<>>, Head(s))) = Job!Times(a, <<>>) + (IF Head(s) = a THEN 1 ELSE 0)
    BY <1>1, <1>3, TimesAppended
  <2>2. QED
    BY <1>3, <2>1, TimesInNothing
<1>5. Job!Times(a, <<Head(s)>> \o Tail(s)) = Job!Times(a, <<Head(s)>>) + Job!Times(a, Tail(s))
  BY <1>1, TimesTogether
<1>6. Job!Times(a, Tail(s)) \in Nat
  BY <1>1, PlacesFinite
<1>7. Job!Times(a, s) = Job!Times(a, <<Head(s)>>) + Job!Times(a, Tail(s))
  BY <1>2, <1>5, Zenon
<1>8. QED
  BY <1>4, <1>6, <1>7

-----------------------------------------------------------------------------
(* The window.                                                             *)

\* What the proofs use of the constants.
LEMMA Constants ==
  /\ MAX_ALERTS \in Nat /\ MAX_ALERTS > 0
  /\ Grace \in Nat /\ MaxRestores \in Nat
  /\ \A a \in Raised : a.type \notin Job!Types
BY PipelineConstants

\* An alert goes to the front, and the last one goes where there are too many.
LEMMA Added ==
  ASSUME recent \in Seq(Nat), Len(recent) <= MAX_ALERTS, NEW q \in Nat
  PROVE  /\ View!Add(q) \in Seq(Nat)
         /\ Len(View!Add(q)) = IF Len(recent) = MAX_ALERTS THEN MAX_ALERTS ELSE Len(recent) + 1
         /\ \A k \in 1..Len(View!Add(q)) : View!Add(q)[k] = IF k = 1 THEN q ELSE recent[k - 1]
<1> USE Constants
<1> DEFINE all == <<q>> \o recent
           size == IF Len(recent) = MAX_ALERTS THEN MAX_ALERTS ELSE Len(recent) + 1
<1>1. all \in Seq(Nat) /\ Len(all) = Len(recent) + 1 /\ Len(recent) \in Nat
  OBVIOUS
<1>2. \A k \in 1..(Len(recent) + 1) : all[k] = IF k = 1 THEN q ELSE recent[k - 1]
  OBVIOUS
<1>3. size = (IF Len(all) > MAX_ALERTS THEN MAX_ALERTS ELSE Len(all)) /\ size \in 1..Len(all)
  BY <1>1
<1>4. View!Add(q) = SubSeq(all, 1, size)
  BY <1>3 DEF View!Add
<1>5. SubSeq(all, 1, size) \in Seq(Nat) /\ Len(SubSeq(all, 1, size)) = size
  BY <1>1, <1>3
<1>6. \A k \in 1..size : SubSeq(all, 1, size)[k] = all[k]
  BY <1>1, <1>3
<1>7. \A k \in 1..size : k \in 1..(Len(recent) + 1)
  BY <1>1, <1>3
<1>8. QED
  BY <1>2, <1>4, <1>5, <1>6, <1>7

-----------------------------------------------------------------------------
(* The steps of the view.                                                  *)

\* A view that has read nothing is in order.
LEMMA ViewInit == Init => ViewInv
<1> SUFFICES ASSUME Init PROVE ViewInv
  OBVIOUS
<1> USE Constants
<1>1. /\ sent = <<>> /\ partition = <<>> /\ recent = <<>> /\ pushed = {}
      /\ position = [p \in Partitions |-> 0] /\ committed = position
  BY DEF Init, Job!Init, View!Init, View!AtStart, View!StartOffset
<1>2. ViewShape
  BY <1>1 DEF ViewShape
<1>3. View!Readable = {}
  BY <1>1 DEF View!Readable
<1>4. QED
  BY <1>1, <1>2, <1>3 DEF ViewInv, PushedInOrder, ShownInOrder

\* Nothing that the view's invariant is about changes.
LEMMA ViewStays ==
  ASSUME ViewInv, UNCHANGED <<sent, partition, position, committed, recent, pushed, repeated>>
  PROVE  ViewInv'
BY DEF ViewInv, ViewShape, PushedInOrder, ShownInOrder, View!Readable

\* A topic that grows changes nothing for a view that has not read on.
LEMMA TopicGrows ==
  ASSUME ViewInv, NEW a \in JobAlert \cup Raised, NEW p \in Partitions,
         sent' = Append(sent, a), partition' = Append(partition, p),
         UNCHANGED <<position, committed, recent, pushed, repeated>>
  PROVE  ViewInv'
<1>1. ViewShape /\ PushedInOrder /\ ShownInOrder /\ Len(sent) \in Nat
  BY DEF ViewInv, ViewShape
<1>2. ViewShape'
  BY <1>1 DEF ViewShape
<1>3. \A i \in View!Readable : i \in 1..Len(sent) /\ i \in View!Readable' /\ partition'[i] = partition[i]
  BY <1>1 DEF View!Readable, ViewShape
<1>4. \A i \in View!Readable' : i \in View!Readable \/ i = Len(sent) + 1
  BY <1>1 DEF View!Readable, ViewShape
<1>5. PushedInOrder'
  <2>1. pushed' \subseteq View!Readable'
    BY <1>1, <1>3 DEF PushedInOrder
  <2>2. ASSUME NEW i \in View!Readable', i <= position'[partition'[i]] PROVE i \in pushed'
    <3>1. partition'[i] \in Partitions
      BY <1>2 DEF View!Readable, ViewShape
    <3>2. i # Len(sent) + 1
      BY <1>1, <2>2, <3>1 DEF ViewShape
    <3>3. QED
      BY <1>1, <1>3, <1>4, <2>2, <3>2 DEF PushedInOrder
  <2>3. ASSUME NEW i \in View!Readable', NEW j \in pushed', i < j, partition'[i] = partition'[j]
        PROVE  i \in pushed'
    <3>1. j \in View!Readable /\ j \in 1..Len(sent) /\ partition'[j] = partition[j]
      BY <1>1, <1>3 DEF PushedInOrder
    <3>2. i # Len(sent) + 1
      <4>1. j \in 1..Len(sent)
        BY <3>1
      <4>2. QED
        BY <1>1, <2>3, <4>1
    <3>3. i \in View!Readable
      BY <1>4, <3>2
    <3>4. partition'[i] = partition[i]
      BY <1>3, <3>3
    <3>5. QED
      BY <1>1, <2>3, <3>1, <3>3, <3>4 DEF PushedInOrder
  <2>4. QED
    BY <2>1, <2>2, <2>3 DEF PushedInOrder
<1>6. \A i \in pushed : partition'[i] = partition[i]
  BY <1>1, <1>3 DEF PushedInOrder
<1>7. \A k \in 1..Len(recent) : partition'[recent[k]] = partition[recent[k]]
  BY <1>1, <1>6 DEF ShownInOrder
<1>8. ShownInOrder'
  <2>1. recent' = recent /\ pushed' = pushed /\ repeated' = repeated
    OBVIOUS
  <2>2. /\ recent' \in Seq(Nat) /\ Len(recent') <= MAX_ALERTS
        /\ \A k, l \in 1..Len(recent') : recent'[k] = recent'[l] => k = l
        /\ \A k \in 1..Len(recent') : recent'[k] \in pushed'
        /\ Len(recent') = MAX_ALERTS \/ \A i \in pushed' : \E k \in 1..Len(recent') : recent'[k] = i
    BY <1>1, <2>1 DEF ShownInOrder
  <2>3. ASSUME NEW k \in 1..Len(recent'), NEW later \in pushed',
               recent'[k] \notin repeated', recent'[k] < later,
               partition'[later] = partition'[recent'[k]]
        PROVE  \E l \in 1..(k - 1) : recent'[l] = later
    <3>1. k \in 1..Len(recent) /\ later \in pushed
      BY <2>1, <2>3
    <3>2. recent[k] \notin repeated /\ recent[k] < later
      BY <2>1, <2>3
    <3>3. partition[later] = partition[recent[k]]
      BY <1>6, <1>7, <2>1, <2>3, <3>1
    <3>4. PICK l \in 1..(k - 1) : recent[l] = later
      BY <1>1, <3>1, <3>2, <3>3 DEF ShownInOrder
    <3>5. QED
      BY <2>1, <3>4
  <2>4. \A k \in 1..Len(recent'), later \in pushed' :
          recent'[k] \notin repeated' /\ recent'[k] < later
          /\ partition'[later] = partition'[recent'[k]]
          => \E l \in 1..(k - 1) : recent'[l] = later
    BY <2>3
  <2>5. QED
    BY <2>2, <2>4, Zenon DEF ShownInOrder
<1>9. QED
  BY <1>2, <1>5, <1>8 DEF ViewInv

\* The alert read next is the first of its partition that is not read yet.
LEMMA NextOfPartition ==
  ASSUME ViewInv, NEW p \in Partitions, NEW next \in View!Unread(p),
         \A i \in View!Unread(p) : next <= i
  PROVE  /\ next \in 1..Len(sent) /\ partition[next] = p /\ next > position[p]
         /\ \A i \in View!Readable : partition[i] = p /\ i < next => i \in pushed
<1>1. /\ next \in 1..Len(sent) /\ partition[next] = p /\ next > position[p]
      /\ Len(sent) \in Nat /\ position[p] \in Nat
  BY DEF ViewInv, ViewShape, View!Unread
<1>2. ASSUME NEW i \in View!Readable, partition[i] = p, i < next PROVE i \in pushed
  <2>1. i \in DOMAIN sent /\ i \in Nat
    BY DEF View!Readable, ViewInv, ViewShape
  <2>2. i \notin View!Unread(p)
    BY <1>1, <1>2, <2>1
  <2>3. i <= position[partition[i]]
    BY <1>1, <1>2, <2>1, <2>2 DEF View!Unread
  <2>4. QED
    BY <2>3 DEF ViewInv, PushedInOrder
<1>3. QED
  BY <1>1, <1>2

\* An alert that is not in the window is pushed and shown first.
LEMMA ShownFirst ==
  ASSUME ViewInv, NEW q \in View!Readable, ~ View!Contains(recent, q),
         \A i \in View!Readable : partition[i] = partition[q] /\ i < q => i \in pushed,
         recent' = View!Add(q), pushed' = pushed \cup {q},
         repeated' = repeated \cup (pushed \cap {q}), UNCHANGED <<sent, partition>>
  PROVE  ShownInOrder'
<1> USE Constants
<1>1. ShownInOrder /\ PushedInOrder /\ q \in Nat /\ Len(recent) \in Nat
  BY DEF ViewInv, ViewShape, ShownInOrder, View!Readable
<1>2. /\ recent' \in Seq(Nat)
      /\ Len(recent') = IF Len(recent) = MAX_ALERTS THEN MAX_ALERTS ELSE Len(recent) + 1
      /\ \A k \in 1..Len(recent') : recent'[k] = IF k = 1 THEN q ELSE recent[k - 1]
  BY <1>1, Added DEF ShownInOrder
<1>3. \A k \in 1..Len(recent) : recent[k] # q
  BY DEF View!Contains
<1>4. \A k \in 1..Len(recent') : k # 1 => k - 1 \in 1..Len(recent)
  BY <1>1, <1>2 DEF ShownInOrder
<1>5. Len(recent') <= MAX_ALERTS /\ 1 \in 1..Len(recent') /\ Len(recent') \in Nat
  BY <1>1, <1>2 DEF ShownInOrder
<1>6. ASSUME NEW k \in 1..Len(recent'), NEW l \in 1..Len(recent'), recent'[k] = recent'[l] PROVE k = l
  <2>1. CASE k = 1 \/ l = 1
    BY <1>2, <1>3, <1>4, <1>6, <2>1
  <2>2. CASE k # 1 /\ l # 1
    <3>1. recent[k - 1] = recent[l - 1] /\ k - 1 \in 1..Len(recent) /\ l - 1 \in 1..Len(recent)
      BY <1>2, <1>4, <1>6, <2>2
    <3>2. k - 1 = l - 1
      BY <1>1, <3>1 DEF ShownInOrder
    <3>3. QED
      BY <3>2
  <2>3. QED
    BY <2>1, <2>2
<1>7. \A k \in 1..Len(recent') : recent'[k] \in pushed'
  BY <1>1, <1>2, <1>4 DEF ShownInOrder
<1>8. ASSUME Len(recent') # MAX_ALERTS, NEW i \in pushed'
      PROVE  \E k \in 1..Len(recent') : recent'[k] = i
  <2>1. CASE i = q
    BY <1>2, <1>5, <2>1
  <2>2. CASE i \in pushed
    <3>1. Len(recent) # MAX_ALERTS /\ Len(recent') = Len(recent) + 1
      BY <1>2, <1>8
    <3>2. PICK k \in 1..Len(recent) : recent[k] = i
      BY <1>1, <2>2, <3>1 DEF ShownInOrder
    <3>3. k + 1 \in 1..Len(recent') /\ recent'[k + 1] = i
      BY <1>1, <1>2, <3>1, <3>2
    <3>4. QED
      BY <3>3
  <2>3. QED
    BY <2>1, <2>2
<1>9. ASSUME NEW k \in 1..Len(recent'), NEW later \in pushed', recent'[k] \notin repeated',
             recent'[k] < later, partition'[later] = partition'[recent'[k]]
      PROVE  \E l \in 1..(k - 1) : recent'[l] = later
  <2>1. CASE k = 1
    <3>1. recent'[k] = q /\ q \notin pushed /\ later # q
      BY <1>1, <1>2, <1>9, <2>1
    <3>2. later \in pushed /\ partition[q] = partition[later] /\ q < later
      BY <1>9, <3>1
    <3>3. q \in pushed
      BY <1>1, <3>2 DEF PushedInOrder
    <3>4. QED
      BY <3>1, <3>3
  <2>2. CASE k # 1
    <3>1. recent'[k] = recent[k - 1] /\ k - 1 \in 1..Len(recent)
      BY <1>2, <1>4, <2>2
    <3>2. CASE later = q
      <4>1. 1 \in 1..(k - 1) /\ recent'[1] = later
        BY <1>2, <1>5, <2>2, <3>2
      <4>2. QED
        BY <4>1
    <3>3. CASE later # q
      <4>1. /\ later \in pushed /\ recent[k - 1] \notin repeated /\ recent[k - 1] < later
            /\ partition[later] = partition[recent[k - 1]]
        BY <1>9, <3>1, <3>3
      <4>2. PICK l \in 1..((k - 1) - 1) : recent[l] = later
        BY <1>1, <3>1, <4>1 DEF ShownInOrder
      <4>3. l + 1 \in 1..(k - 1) /\ l + 1 \in 1..Len(recent') /\ (l + 1) - 1 = l /\ l + 1 # 1
        BY <1>5, <2>2
      <4>4. recent'[l + 1] = later
        BY <1>2, <4>2, <4>3
      <4>5. QED
        BY <4>3, <4>4
    <3>4. QED
      BY <3>2, <3>3
  <2>3. QED
    BY <2>1, <2>2
<1>10. QED
  BY <1>2, <1>5, <1>6, <1>7, <1>8, <1>9 DEF ShownInOrder

\* The view reads on in some partition.
LEMMA ReadOn ==
  ASSUME ViewInv, NEW p \in Partitions, View!OnAlert(p)
  PROVE  ViewInv'
<1>1. PICK next \in View!Unread(p) :
        /\ \A i \in View!Unread(p) : next <= i
        /\ position' = [position EXCEPT ![p] = next]
        /\ View!Show(next)
        /\ UNCHANGED <<sent, partition, committed, raised, trouble>>
  BY DEF View!OnAlert
<1>2. /\ next \in 1..Len(sent) /\ partition[next] = p /\ next > position[p]
      /\ \A i \in View!Readable : partition[i] = p /\ i < next => i \in pushed
  BY <1>1, NextOfPartition
<1>3. ViewShape /\ PushedInOrder /\ ShownInOrder /\ Len(sent) \in Nat
  BY DEF ViewInv, ViewShape
<1>4. ViewShape'
  <2>1. position' \in [Partitions -> Nat] /\ \A q \in Partitions : position'[q] = IF q = p THEN next ELSE position[q]
    BY <1>1, <1>2, <1>3 DEF ViewShape
  <2>2. QED
    BY <1>1, <1>2, <1>3, <2>1 DEF ViewShape
<1>5. View!Readable' = View!Readable /\ UNCHANGED partition
  BY <1>1 DEF View!Readable
<1>6. next \in View!Readable => next \in pushed'
  BY <1>1, <1>3 DEF View!Show, View!Contains, ShownInOrder
<1>7. pushed \subseteq pushed' /\ pushed' \subseteq pushed \cup ({next} \cap View!Readable)
  BY <1>1 DEF View!Show
<1>8. PushedInOrder'
  <2>1. pushed' \subseteq View!Readable'
    BY <1>3, <1>5, <1>7 DEF PushedInOrder
  <2>2. ASSUME NEW i \in View!Readable, i <= position'[partition[i]] PROVE i \in pushed'
    <3>1. i \in Nat /\ partition[i] \in Partitions
      BY <1>3 DEF View!Readable, ViewShape
    <3>2. CASE partition[i] = p
      <4>1. i <= next
        BY <1>1, <1>3, <2>2, <3>2 DEF ViewShape
      <4>2. QED
        BY <1>2, <1>6, <1>7, <3>1, <3>2, <4>1
    <3>3. CASE partition[i] # p
      BY <1>1, <1>3, <1>7, <2>2, <3>1, <3>3 DEF ViewShape, PushedInOrder
    <3>4. QED
      BY <3>2, <3>3
  <2>3. ASSUME NEW i \in View!Readable, NEW j \in pushed', i < j, partition[i] = partition[j]
        PROVE  i \in pushed'
    <3>1. CASE j = next
      BY <1>2, <1>7, <2>3, <3>1
    <3>2. CASE j \in pushed
      BY <1>3, <1>7, <2>3, <3>2 DEF PushedInOrder
    <3>3. QED
      BY <1>7, <3>1, <3>2
  <2>4. QED
    BY <1>5, <2>1, <2>2, <2>3 DEF PushedInOrder
<1>9. ShownInOrder'
  <2>1. CASE /\ next \in View!Readable /\ ~ View!Contains(recent, next)
             /\ recent' = View!Add(next)
             /\ pushed' = pushed \cup {next}
             /\ repeated' = repeated \cup (pushed \cap {next})
    BY <1>1, <1>2, <2>1, ShownFirst
  <2>2. CASE UNCHANGED <<recent, pushed, repeated>>
    BY <1>3, <1>5, <2>2 DEF ShownInOrder
  <2>3. QED
    BY <1>1, <2>1, <2>2 DEF View!Show
<1>10. QED
  BY <1>4, <1>8, <1>9 DEF ViewInv

\* Commits and redeliveries move the places only; a restart begins anew.
LEMMA ViewMoves ==
  ASSUME ViewInv, View!Commit \/ View!Redeliver \/ View!Restart
  PROVE  ViewInv'
<1> USE Constants
<1>1. ViewShape /\ PushedInOrder /\ ShownInOrder /\ Len(sent) \in Nat
  BY DEF ViewInv, ViewShape
<1>2. UNCHANGED <<sent, partition>> /\ View!Readable' = View!Readable
  BY DEF View!Commit, View!Redeliver, View!Restart, View!Readable
<1>3. \A i \in View!Readable : i \in Nat /\ i >= 1 /\ partition[i] \in Partitions
  BY <1>1 DEF View!Readable, ViewShape
<1>4. CASE View!Restart
  <2>1. position' = [p \in Partitions |-> 0] /\ committed' = position' /\ recent' = <<>> /\ pushed' = {}
    BY <1>4 DEF View!Restart, View!AtStart, View!StartOffset
  <2>2. ViewShape'
    BY <1>1, <1>2, <2>1 DEF ViewShape
  <2>3. PushedInOrder'
    BY <1>2, <1>3, <2>1 DEF PushedInOrder
  <2>4. ShownInOrder'
    BY <2>1 DEF ShownInOrder
  <2>5. QED
    BY <2>2, <2>3, <2>4 DEF ViewInv
<1>5. CASE View!Commit \/ View!Redeliver
  <2>1. /\ UNCHANGED <<recent, pushed, repeated>>
        /\ \/ position' = position /\ committed' = position
           \/ position' = committed /\ committed' = committed
    BY <1>5 DEF View!Commit, View!Redeliver
  <2>2. ViewShape' /\ \A p \in Partitions : position'[p] <= position[p]
    BY <1>1, <1>2, <2>1 DEF ViewShape
  <2>3. \A i \in View!Readable : i <= position'[partition[i]] => i <= position[partition[i]]
    <3>1. \A p \in Partitions : position[p] \in Nat /\ position'[p] \in Nat
      BY <1>1, <2>2 DEF ViewShape
    <3>2. QED
      BY <1>3, <2>2, <3>1
  <2>4. PushedInOrder'
    BY <1>1, <1>2, <2>1, <2>3 DEF PushedInOrder
  <2>5. ShownInOrder'
    BY <1>1, <1>2, <2>1 DEF ShownInOrder
  <2>6. QED
    BY <2>2, <2>4, <2>5 DEF ViewInv
<1>6. QED
  BY <1>4, <1>5

\* Every step of alert-service keeps the window as it should be.
LEMMA ViewNext ==
  ASSUME ViewInv, View!Next
  PROVE  ViewInv'
<1>1. ASSUME NEW a \in Raised, View!Raise(a) PROVE ViewInv'
  <2>1. PICK p \in PartitionsFor[a] : partition' = Append(partition, p)
    BY <1>1 DEF View!Raise
  <2>2. p \in Partitions /\ a \in JobAlert \cup Raised
    BY PipelineConstants
  <2>3. QED
    BY <1>1, <2>1, <2>2, TopicGrows DEF View!Raise
<1>2. ASSUME NEW p \in Partitions, View!OnAlert(p) PROVE ViewInv'
  BY <1>2, ReadOn
<1>3. CASE View!Commit \/ View!Redeliver \/ View!Restart
  BY <1>3, ViewMoves
<1>4. QED
  BY <1>1, <1>2, <1>3 DEF View!Next

-----------------------------------------------------------------------------
(* The steps of the job: what they keep of alerts and of positions read.   *)

\* Counts are numbers.
LEMMA GivenType ==
  ASSUME JobInv, NEW a
  PROVE  Job!Times(a, sent) \in Nat /\ Job!Times(a, buffer) \in Nat /\ Given(a) \in Nat
<1>1. sent \in Seq(JobAlert \cup Raised) /\ buffer \in Seq(JobAlert)
  BY DEF JobInv, JobShape
<1>2. Job!Times(a, sent) \in Nat
  BY <1>1, PlacesFinite
<1>3. Job!Times(a, buffer) \in Nat
  BY <1>1, PlacesFinite
<1>4. QED
  BY <1>2, <1>3 DEF Given

\* History and time only add reasons.
LEMMA ReasonStays ==
  ASSUME JobInv, UNCHANGED <<stock, shipment>>, starts \subseteq starts',
         clock' \in Nat, clock' >= clock, NEW a, Reason(a)
  PROVE  Reason(a)'
<1> USE Constants
<1>1. clock \in Nat /\ shipment \in Seq(Job!ShipmentEvents)
  BY DEF JobInv, JobShape
<1>2. \A k : k \in Job!Falls(starts) => k \in Job!Falls(starts)'
  BY DEF Job!Falls
<1>3. \A k : k \in Job!Reports(starts) => k \in Job!Reports(starts)'
  BY DEF Job!Reports
<1>4. \A k : k \in Job!Overdue => k \in Job!Overdue'
  <2> SUFFICES ASSUME NEW k \in Job!Overdue PROVE k \in Job!Overdue'
    OBVIOUS
  <2>1. k \in DOMAIN shipment /\ Job!Open(k) /\ clock >= shipment[k].eta + Grace
    BY DEF Job!Overdue
  <2>2. shipment[k].eta \in Int
    <3>1. shipment[k] \in Job!ShipmentEvents
      BY <1>1, <2>1
    <3>2. shipment[k].eta \in Nat \cup {-1}
      BY <3>1 DEF Job!ShipmentEvents, Job!NoEta
    <3>3. QED
      BY <3>2
  <2>3. clock' >= shipment[k].eta + Grace
    BY <1>1, <2>1, <2>2
  <2>4. QED
    BY <2>1, <2>3 DEF Job!Overdue, Job!Open
<1>5. QED
  BY <1>2, <1>3, <1>4 DEF Reason, Job!Certain

\* A step that gives no alert, and goes back over none.
LEMMA StillDue ==
  ASSUME JobInv, UNCHANGED <<stock, shipment>>, starts \subseteq starts',
         clock' \in Nat, clock' >= clock, NEW a \in JobAlert, restores' = restores,
         Given(a)' = Given(a), Past(a) => Past(a)'
  PROVE  Due(a)'
<1>1. Due(a) /\ Given(a) \in Nat /\ restores \in Nat
  BY GivenType, Constants DEF JobInv, JobShape
<1>2. Given(a)' <= restores' + (IF Past(a)' THEN 1 ELSE 0)
  BY <1>1 DEF Due
<1>3. Given(a)' > 0 => Reason(a)'
  BY <1>1, ReasonStays DEF Due
<1>4. QED
  BY <1>2, <1>3 DEF Due

\* A step that gives one, and has just gone past what it is about.
LEMMA NewlyDue ==
  ASSUME JobInv, UNCHANGED <<stock, shipment>>, starts \subseteq starts',
         clock' \in Nat, clock' >= clock, restores' = restores,
         NEW x \in JobAlert, ~ Past(x), Past(x)', Reason(x)',
         NEW a \in JobAlert, Given(a)' = Given(a) + (IF x = a THEN 1 ELSE 0), Past(a) => Past(a)'
  PROVE  Due(a)'
<1>1. CASE x # a
  <2>1. Given(a)' = Given(a)
    BY <1>1, GivenType
  <2>2. QED
    BY <2>1, StillDue
<1>2. CASE x = a
  <2>1. Due(a) /\ Given(a) \in Nat /\ restores \in Nat
    BY GivenType, Constants DEF JobInv, JobShape
  <2>2. Given(a)' <= restores' + (IF Past(a)' THEN 1 ELSE 0)
    BY <1>2, <2>1 DEF Due
  <2>3. QED
    BY <1>2, <2>2 DEF Due
<1>3. QED
  BY <1>1, <1>2

\* What was sound of a state stays so, as the history of starts grows.
LEMMA SoundStays ==
  ASSUME UNCHANGED <<stock, shipment>>, starts \subseteq starts', NEW s, Sound(s)
  PROVE  Sound(s)'
BY DEF Sound, Job!Open

\* What a detector collects, none or one, goes to the end of the buffer.
LEMMA Collected ==
  ASSUME JobInv, sent' = sent, NEW x \in JobAlert,
         Job!Collect(<<x>>)
  PROVE  /\ buffer' \in Seq(JobAlert)
         /\ \A a : Given(a)' = Given(a) + (IF x = a THEN 1 ELSE 0)
<1>1. buffer \in Seq(JobAlert) /\ <<x>> \in Seq(JobAlert) /\ buffer' = buffer \o <<x>>
  BY DEF JobInv, JobShape, Job!Collect
<1>2. buffer' \in Seq(JobAlert) /\ buffer' = Append(buffer, x)
  BY <1>1
<1>3. ASSUME NEW a PROVE Given(a)' = Given(a) + (IF x = a THEN 1 ELSE 0)
  <2>1. Job!Times(a, Append(buffer, x)) = Job!Times(a, buffer) + (IF x = a THEN 1 ELSE 0)
    BY <1>1, TimesAppended
  <2>2. Given(a)' = Job!Times(a, sent) + Job!Times(a, Append(buffer, x))
    BY <1>2 DEF Given, Job!Times
  <2>3. QED
    BY <2>1, <2>2, GivenType DEF Given
<1>4. QED
  BY <1>2, <1>3

\* Collecting nothing changes no count.
LEMMA CollectedNothing ==
  ASSUME JobInv, sent' = sent, Job!Collect(<<>>)
  PROVE  buffer' \in Seq(JobAlert) /\ \A a : Given(a)' = Given(a)
<1>1. buffer' = buffer /\ buffer \in Seq(JobAlert)
  BY DEF JobInv, JobShape, Job!Collect
<1>2. QED
  BY <1>1 DEF Given, Job!Times

\* A job that has read nothing has given nothing.
LEMMA JobInit == Init => JobInv
<1> SUFFICES ASSUME Init PROVE JobInv
  OBVIOUS
<1> USE Constants
<1>1. /\ clock = 0 /\ saved = {} /\ buffer = <<>> /\ sent = <<>> /\ restores = 0
      /\ job = [stock |-> 0, shipment |-> 0, alerted |-> FALSE, timer |-> -1]
      /\ starts = {job}
  BY DEF Init, Job!Init, Job!Fresh, Job!NoTimer
<1>2. stock \in Seq(Job!StockEvents) /\ shipment \in Seq(Job!ShipmentEvents)
  BY PipelineConstants DEF Init, Job!Init
<1>3. job \in State
  BY <1>1, <1>2 DEF State
<1>4. JobShape
  BY <1>1, <1>2, <1>3 DEF JobShape
<1>5. Sound(job)
  BY <1>1 DEF Sound, Job!NoTimer
<1>6. ASSUME NEW a \in JobAlert PROVE Due(a)
  <2>1. Job!Times(a, sent) = 0 /\ Job!Times(a, buffer) = 0
    BY <1>1, TimesInNothing
  <2>2. Given(a) = 0
    BY <2>1 DEF Given
  <2>3. QED
    BY <1>1, <2>2 DEF Due
<1>7. QED
  BY <1>1, <1>4, <1>5, <1>6 DEF JobInv

-----------------------------------------------------------------------------
(* The steps of the job, one by one.                                       *)

\* An event of the position: an alert is a fall of which the job has seen the edge.
LEMMA LowStockStep ==
  ASSUME JobInv, Job!DetectLowStock
  PROVE  JobInv'
<1> USE Constants
<1> DEFINE low == stock[job.stock + 1] = "low"
           x == Job!Alert("LOW_STOCK", job.stock + 1)
<1>1. JobShape /\ Sound(job) /\ \A s \in saved : Sound(s)
  BY DEF JobInv
<1>2. /\ UNCHANGED <<stock, shipment, clock, saved, sent, restores, starts>>
      /\ job.stock < Len(stock) /\ job' = [job EXCEPT !.stock = @ + 1, !.alerted = low]
  BY DEF Job!DetectLowStock
<1>3. /\ stock \in Seq(Job!StockEvents) /\ Len(stock) \in Nat
      /\ job.stock \in Nat /\ job.shipment \in 0..Len(shipment) /\ job.timer \in Int /\ job.alerted \in BOOLEAN
  BY <1>1 DEF JobShape, State
<1>4. /\ job'.stock = job.stock + 1 /\ job'.shipment = job.shipment
      /\ job'.timer = job.timer /\ job'.alerted = low /\ job' \in State
  <2>1. job \in [stock : 0..Len(stock), shipment : 0..Len(shipment), alerted : BOOLEAN, timer : Int]
    BY <1>1 DEF JobShape, State
  <2>2. job' = [stock |-> job.stock + 1, shipment |-> job.shipment, alerted |-> low, timer |-> job.timer]
    BY <1>2, <2>1
  <2>3. low \in BOOLEAN /\ job.stock + 1 \in 0..Len(stock)
    BY <1>2, <1>3
  <2>4. QED
    BY <1>3, <2>2, <2>3 DEF State
<1>5. job' \in State' /\ State' = State
  BY <1>2, <1>4 DEF State
<1>6. Sound(job)'
  <2>1. PICK f \in starts : f.stock <= job.stock /\ f.shipment <= job.shipment
    BY <1>1 DEF Sound
  <2>2. f.stock \in Nat
    BY <1>1 DEF JobShape, State
  <2>3. f.stock <= job'.stock /\ f.shipment <= job'.shipment
    BY <1>3, <1>4, <2>1, <2>2
  <2>4. ~ job'.alerted => stock[job'.stock] # "low"
    BY <1>4
  <2>5. \E g \in starts :
          /\ g.stock <= job'.stock /\ g.shipment <= job'.shipment
          /\ ~ job'.alerted => g.stock = job'.stock \/ stock[job'.stock] # "low"
    BY <2>3, <2>4
  <2>6. job'.timer # Job!NoTimer =>
          /\ job'.shipment > 0 /\ Job!Open(job'.shipment)
          /\ job'.timer >= shipment[job'.shipment].eta + Grace
    BY <1>1, <1>4 DEF Sound
  <2>7. QED
    BY <1>2, <2>5, <2>6 DEF Sound, Job!Open
<1>7. \A s \in saved' : Sound(s)'
  BY <1>1, <1>2, SoundStays
<1>8. ASSUME NEW a \in JobAlert, Past(a) PROVE Past(a)'
  BY <1>2, <1>3, <1>4, <1>8 DEF Past, JobAlert
<1>9. clock' \in Nat /\ clock' >= clock /\ starts \subseteq starts' /\ restores' = restores
  BY <1>1, <1>2 DEF JobShape
<1>10. buffer' \in Seq(JobAlert) /\ \A a \in JobAlert : Due(a)'
  <2>1. CASE low /\ ~ job.alerted
    <3>1. Job!Collect(<<x>>)
      BY <2>1 DEF Job!DetectLowStock, Job!LowStock
    <3>2. x = [type |-> "LOW_STOCK", event |-> job.stock + 1] /\ x \in JobAlert
      BY <1>3 DEF Job!Alert, JobAlert, Job!Types
    <3>3. PICK n \in Nat : n = job.stock + 1
      BY <1>3
    <3>4. PICK y \in JobAlert : y = x
      BY <3>2
    <3>5. buffer' \in Seq(JobAlert) /\ \A a : Given(a)' = Given(a) + (IF y = a THEN 1 ELSE 0)
      BY <1>2, <3>1, <3>4, Collected
    <3>6. ~ Past(y) /\ Past(y)'
      BY <1>3, <1>4, <3>2, <3>4 DEF Past
    <3>7. Reason(y)'
      <4>1. PICK f \in starts : /\ f.stock <= job.stock
                                /\ f.stock = job.stock \/ stock[job.stock] # "low"
        BY <1>1, <2>1 DEF Sound
      <4>2. f.stock \in Nat
        BY <1>1 DEF JobShape, State
      <4>3. n \in DOMAIN stock /\ stock[n] = "low" /\ job.stock = n - 1
        BY <1>2, <1>3, <2>1, <3>3
      <4>4. n = f.stock + 1 \/ (n > f.stock + 1 /\ stock[n - 1] # "low")
        BY <1>3, <4>1, <4>2, <4>3
      <4>5. n \in Job!Falls(starts)
        BY <4>3, <4>4 DEF Job!Falls
      <4>6. y = Job!Alert("LOW_STOCK", n)
        BY <3>3, <3>4
      <4>7. Reason(y)
        BY <4>5, <4>6 DEF Reason, Job!Certain
      <4>8. QED
        BY <1>2, <1>9, <4>7, ReasonStays
    <3>8. QED
      BY <1>2, <1>8, <1>9, <3>5, <3>6, <3>7, NewlyDue
  <2>2. CASE ~ (low /\ ~ job.alerted)
    <3>1. Job!Collect(<<>>)
      BY <2>2 DEF Job!DetectLowStock, Job!LowStock
    <3>2. buffer' \in Seq(JobAlert) /\ \A a : Given(a)' = Given(a)
      BY <1>2, <3>1, CollectedNothing
    <3>3. QED
      BY <1>2, <1>8, <1>9, <3>2, StillDue
  <2>3. QED
    BY <2>1, <2>2
<1>11. JobShape'
  <2>1. \A s \in saved' : s.stock <= job'.stock /\ s.shipment <= job'.shipment
    <3>1. ASSUME NEW s \in saved PROVE s.stock \in Nat /\ s.stock <= job.stock /\ s.shipment <= job.shipment
      BY <1>1 DEF JobShape, State
    <3>2. QED
      BY <1>2, <1>3, <1>4, <3>1
  <2>2. QED
    BY <1>1, <1>2, <1>5, <1>10, <2>1 DEF JobShape
<1>12. QED
  BY <1>6, <1>7, <1>10, <1>11 DEF JobInv

\* An event of the shipment: the timer is set for it or gone.
LEMMA DelayStep ==
  ASSUME JobInv, Job!DetectDelay
  PROVE  JobInv'
<1> USE Constants
<1> DEFINE e == shipment[job.shipment + 1]
           x == Job!Alert("REPORTED", job.shipment + 1)
<1>1. JobShape /\ Sound(job) /\ \A s \in saved : Sound(s)
  BY DEF JobInv
<1>2. /\ UNCHANGED <<stock, shipment, clock, saved, sent, restores, starts>>
      /\ job.shipment < Len(shipment)
      /\ job' = [job EXCEPT !.shipment = @ + 1, !.timer = Job!Timer(e)]
  BY DEF Job!DetectDelay
<1>3. /\ shipment \in Seq(Job!ShipmentEvents) /\ Len(shipment) \in Nat /\ clock \in Nat
      /\ job.stock \in 0..Len(stock) /\ job.shipment \in Nat /\ job.timer \in Int /\ job.alerted \in BOOLEAN
  BY <1>1 DEF JobShape, State
<1>4. e \in Job!ShipmentEvents /\ e.eta \in Int
  <2>1. e \in Job!ShipmentEvents
    BY <1>2, <1>3
  <2>2. e.eta \in Nat \cup {-1}
    BY <2>1 DEF Job!ShipmentEvents, Job!NoEta
  <2>3. QED
    BY <2>1, <2>2
<1>5. /\ Job!Timer(e) \in Int
      /\ Job!Timer(e) # Job!NoTimer =>
           e.status \in Job!OPEN /\ e.eta # Job!NoEta /\ Job!Timer(e) >= e.eta + Grace
  BY <1>3, <1>4 DEF Job!Timer, Job!LaterOf, Job!NoTimer
<1>6. /\ job'.stock = job.stock /\ job'.shipment = job.shipment + 1
      /\ job'.timer = Job!Timer(e) /\ job'.alerted = job.alerted /\ job' \in State
  <2>1. job \in [stock : 0..Len(stock), shipment : 0..Len(shipment), alerted : BOOLEAN, timer : Int]
    BY <1>1 DEF JobShape, State
  <2>2. job' = [stock |-> job.stock, shipment |-> job.shipment + 1, alerted |-> job.alerted,
                timer |-> Job!Timer(e)]
    BY <1>2, <2>1
  <2>3. job.shipment + 1 \in 0..Len(shipment)
    BY <1>2, <1>3
  <2>4. QED
    BY <1>3, <1>5, <2>2, <2>3 DEF State
<1>7. State' = State
  BY <1>2 DEF State
<1>8. Sound(job)'
  <2>1. PICK f \in starts : /\ f.stock <= job.stock /\ f.shipment <= job.shipment
                            /\ ~ job.alerted => f.stock = job.stock \/ stock[job.stock] # "low"
    BY <1>1 DEF Sound
  <2>2. f.shipment \in Nat
    BY <1>1 DEF JobShape, State
  <2>3. \E g \in starts :
          /\ g.stock <= job'.stock /\ g.shipment <= job'.shipment
          /\ ~ job'.alerted => g.stock = job'.stock \/ stock[job'.stock] # "low"
    BY <1>3, <1>6, <2>1, <2>2
  <2>4. job'.timer # Job!NoTimer =>
          /\ job'.shipment > 0 /\ Job!Open(job'.shipment)
          /\ job'.timer >= shipment[job'.shipment].eta + Grace
    BY <1>3, <1>5, <1>6 DEF Job!Open
  <2>5. QED
    BY <1>2, <2>3, <2>4 DEF Sound, Job!Open
<1>9. \A s \in saved' : Sound(s)'
  BY <1>1, <1>2, SoundStays
<1>10. ASSUME NEW a \in JobAlert, Past(a) PROVE Past(a)'
  BY <1>3, <1>6, <1>10 DEF Past, JobAlert
<1>11. clock' \in Nat /\ clock' >= clock /\ starts \subseteq starts' /\ restores' = restores
  BY <1>1, <1>2 DEF JobShape
<1>12. buffer' \in Seq(JobAlert) /\ \A a \in JobAlert : Due(a)'
  <2>1. CASE e.status = "DELAYED"
    <3>1. Job!Collect(<<x>>)
      BY <2>1 DEF Job!DetectDelay
    <3>2. x = [type |-> "REPORTED", event |-> job.shipment + 1] /\ x \in JobAlert
      BY <1>3 DEF Job!Alert, JobAlert, Job!Types
    <3>3. PICK n \in Nat : n = job.shipment + 1
      BY <1>3
    <3>4. PICK y \in JobAlert : y = x
      BY <3>2
    <3>5. buffer' \in Seq(JobAlert) /\ \A a : Given(a)' = Given(a) + (IF y = a THEN 1 ELSE 0)
      BY <1>2, <3>1, <3>4, Collected
    <3>6. ~ Past(y) /\ Past(y)'
      BY <1>3, <1>6, <3>2, <3>4 DEF Past
    <3>7. Reason(y)'
      <4>1. PICK f \in starts : f.shipment <= job.shipment
        BY <1>1 DEF Sound
      <4>2. f.shipment \in Nat
        BY <1>1 DEF JobShape, State
      <4>3. n \in DOMAIN shipment /\ shipment[n].status = "DELAYED" /\ n > f.shipment
        BY <1>2, <1>3, <2>1, <3>3, <4>1, <4>2
      <4>4. n \in Job!Reports(starts)
        BY <4>3 DEF Job!Reports
      <4>5. y = Job!Alert("REPORTED", n)
        BY <3>3, <3>4
      <4>6. Reason(y)
        BY <4>4, <4>5 DEF Reason, Job!Certain
      <4>7. QED
        BY <1>2, <1>11, <4>6, ReasonStays
    <3>8. QED
      BY <1>2, <1>10, <1>11, <3>5, <3>6, <3>7, NewlyDue
  <2>2. CASE e.status # "DELAYED"
    <3>1. Job!Collect(<<>>)
      BY <2>2 DEF Job!DetectDelay
    <3>2. buffer' \in Seq(JobAlert) /\ \A a : Given(a)' = Given(a)
      BY <1>2, <3>1, CollectedNothing
    <3>3. QED
      BY <1>2, <1>10, <1>11, <3>2, StillDue
  <2>3. QED
    BY <2>1, <2>2
<1>13. JobShape'
  <2>1. \A s \in saved' : s.stock <= job'.stock /\ s.shipment <= job'.shipment
    <3>1. ASSUME NEW s \in saved PROVE s.shipment \in Nat /\ s.stock <= job.stock /\ s.shipment <= job.shipment
      BY <1>1 DEF JobShape, State
    <3>2. QED
      BY <1>2, <1>3, <1>6, <3>1
  <2>2. QED
    BY <1>1, <1>2, <1>6, <1>7, <1>12, <2>1 DEF JobShape
<1>14. QED
  BY <1>8, <1>9, <1>12, <1>13 DEF JobInv

\* The timer is that of the last event read, and is gone once it has fired.
LEMMA TimerStep ==
  ASSUME JobInv, Job!OnTimer
  PROVE  JobInv'
<1> USE Constants
<1>1. JobShape /\ Sound(job) /\ \A s \in saved : Sound(s)
  BY DEF JobInv
<1>2. /\ UNCHANGED <<stock, shipment, clock, saved, sent, restores, starts>>
      /\ job.timer # Job!NoTimer /\ job.timer <= clock
      /\ job' = [job EXCEPT !.timer = Job!NoTimer]
      /\ Job!Collect(<<Job!Alert("OVERDUE", job.shipment)>>)
  BY DEF Job!OnTimer
<1>3. /\ shipment \in Seq(Job!ShipmentEvents) /\ Len(shipment) \in Nat /\ clock \in Nat
      /\ job.stock \in 0..Len(stock) /\ job.shipment \in 0..Len(shipment)
      /\ job.timer \in Int /\ job.alerted \in BOOLEAN
  BY <1>1 DEF JobShape, State
<1>4. /\ job'.stock = job.stock /\ job'.shipment = job.shipment
      /\ job'.timer = Job!NoTimer /\ job'.alerted = job.alerted /\ job' \in State
  <2>1. job \in [stock : 0..Len(stock), shipment : 0..Len(shipment), alerted : BOOLEAN, timer : Int]
    BY <1>1 DEF JobShape, State
  <2>2. job' = [stock |-> job.stock, shipment |-> job.shipment, alerted |-> job.alerted, timer |-> -1]
    BY <1>2, <2>1 DEF Job!NoTimer
  <2>3. QED
    BY <1>3, <2>2 DEF State, Job!NoTimer
<1>5. State' = State
  BY <1>2 DEF State
<1>6. Sound(job)'
  BY <1>1, <1>2, <1>4 DEF Sound
<1>7. \A s \in saved' : Sound(s)'
  BY <1>1, <1>2, SoundStays
<1>8. ASSUME NEW a \in JobAlert, Past(a) PROVE Past(a)'
  BY <1>4, <1>8 DEF Past
<1>9. clock' \in Nat /\ clock' >= clock /\ starts \subseteq starts' /\ restores' = restores
  BY <1>1, <1>2 DEF JobShape
<1>10. PICK n \in Nat : n = job.shipment
  BY <1>3
<1>11. PICK y \in JobAlert : y = Job!Alert("OVERDUE", n) /\ y = [type |-> "OVERDUE", event |-> n]
  BY DEF Job!Alert, JobAlert, Job!Types
<1>12. buffer' \in Seq(JobAlert) /\ \A a : Given(a)' = Given(a) + (IF y = a THEN 1 ELSE 0)
  BY <1>2, <1>10, <1>11, Collected
<1>13. ~ Past(y) /\ Past(y)'
  BY <1>2, <1>3, <1>4, <1>10, <1>11 DEF Past
<1>14. Reason(y)'
  <2>1. n > 0 /\ Job!Open(n) /\ job.timer >= shipment[n].eta + Grace
    BY <1>1, <1>2, <1>10 DEF Sound
  <2>2. n \in DOMAIN shipment
    BY <1>3, <1>10, <2>1
  <2>3. shipment[n].eta \in Int
    <3>1. shipment[n] \in Job!ShipmentEvents
      BY <1>3, <2>2
    <3>2. shipment[n].eta \in Nat \cup {-1}
      BY <3>1 DEF Job!ShipmentEvents, Job!NoEta
    <3>3. QED
      BY <3>2
  <2>4. clock >= shipment[n].eta + Grace
    BY <1>2, <1>3, <2>1, <2>3
  <2>5. Reason(y)
    BY <1>11, <2>1, <2>2, <2>4 DEF Reason, Job!Overdue
  <2>6. QED
    BY <1>2, <1>9, <2>5, ReasonStays
<1>15. \A a \in JobAlert : Due(a)'
  BY <1>2, <1>8, <1>9, <1>12, <1>13, <1>14, NewlyDue
<1>16. JobShape'
  BY <1>1, <1>2, <1>4, <1>5, <1>12 DEF JobShape
<1>17. QED
  BY <1>6, <1>7, <1>15, <1>16 DEF JobInv

\* The sink moves an alert from the buffer to the topic.
LEMMA SendStep ==
  ASSUME JobInv, Job!Send
  PROVE  JobInv'
<1> USE Constants
<1>1. JobShape /\ \A s \in {job} \cup saved : Sound(s)
  BY DEF JobInv
<1>2. /\ UNCHANGED <<stock, shipment, clock, job, saved, restores, starts>>
      /\ buffer # <<>> /\ sent' = Append(sent, Head(buffer)) /\ buffer' = Tail(buffer)
  BY DEF Job!Send
<1>3. sent \in Seq(JobAlert \cup Raised) /\ buffer \in Seq(JobAlert) /\ Head(buffer) \in JobAlert
  BY <1>1, <1>2 DEF JobShape
<1>4. sent' \in Seq(JobAlert \cup Raised) /\ buffer' \in Seq(JobAlert)
  BY <1>2, <1>3
<1>5. ASSUME NEW a PROVE Given(a)' = Given(a)
  <2>1. Job!Times(a, Append(sent, Head(buffer))) = Job!Times(a, sent) + (IF Head(buffer) = a THEN 1 ELSE 0)
    BY <1>3, TimesAppended
  <2>2. Job!Times(a, buffer) = Job!Times(a, Tail(buffer)) + (IF Head(buffer) = a THEN 1 ELSE 0)
    BY <1>2, <1>3, TimesInTail
  <2>3. Job!Times(a, Tail(buffer)) \in Nat
    BY <1>2, <1>4, PlacesFinite
  <2>4. Given(a)' = Job!Times(a, Append(sent, Head(buffer))) + Job!Times(a, Tail(buffer))
    BY <1>2 DEF Given, Job!Times
  <2>5. QED
    BY <2>1, <2>2, <2>3, <2>4, GivenType DEF Given
<1>6. \A a \in JobAlert : Due(a)'
  <2>1. \A a : Past(a) => Past(a)'
    BY <1>2 DEF Past
  <2>2. clock' \in Nat /\ clock' >= clock
    BY <1>1, <1>2 DEF JobShape
  <2>3. QED
    BY <1>2, <1>5, <2>1, <2>2, StillDue
<1>7. \A s \in {job'} \cup saved' : Sound(s)'
  BY <1>1, <1>2 DEF Sound, Job!Open
<1>8. JobShape'
  BY <1>1, <1>2, <1>4 DEF JobShape, State
<1>9. QED
  BY <1>6, <1>7, <1>8 DEF JobInv

\* A checkpoint is a state of the job, and so as sound as that.
LEMMA CheckpointStep ==
  ASSUME JobInv, Job!Checkpoint
  PROVE  JobInv'
<1> USE Constants
<1>1. JobShape /\ \A s \in {job} \cup saved : Sound(s)
  BY DEF JobInv
<1>2. UNCHANGED <<stock, shipment, clock, job, buffer, sent, restores, starts>> /\ saved' = {job}
  BY DEF Job!Checkpoint
<1>3. \A a \in JobAlert : Due(a)'
  <2>1. \A a : Past(a) => Past(a)'
    BY <1>2 DEF Past
  <2>2. \A a : Given(a)' = Given(a)
    BY <1>2 DEF Given, Job!Times
  <2>3. clock' \in Nat /\ clock' >= clock
    BY <1>1, <1>2 DEF JobShape
  <2>4. QED
    BY <1>2, <2>1, <2>2, <2>3, StillDue
<1>4. \A s \in {job'} \cup saved' : Sound(s)'
  BY <1>1, <1>2 DEF Sound, Job!Open
<1>5. JobShape'
  BY <1>1, <1>2 DEF JobShape, State
<1>6. QED
  BY <1>3, <1>4, <1>5 DEF JobInv

\* Time passes.
LEMMA TickStep ==
  ASSUME JobInv, Job!Tick
  PROVE  JobInv'
<1> USE Constants
<1>1. JobShape /\ \A s \in {job} \cup saved : Sound(s)
  BY DEF JobInv
<1>2. UNCHANGED <<stock, shipment, job, saved, buffer, sent, restores, starts>> /\ clock' = clock + 1
  BY DEF Job!Tick
<1>3. clock' \in Nat /\ clock' >= clock
  BY <1>1, <1>2 DEF JobShape
<1>4. \A a \in JobAlert : Due(a)'
  <2>1. \A a : Past(a) => Past(a)'
    BY <1>2 DEF Past
  <2>2. \A a : Given(a)' = Given(a)
    BY <1>2 DEF Given, Job!Times
  <2>3. QED
    BY <1>2, <1>3, <2>1, <2>2, StillDue
<1>5. \A s \in {job'} \cup saved' : Sound(s)'
  BY <1>1, <1>2 DEF Sound, Job!Open
<1>6. JobShape'
  BY <1>1, <1>2, <1>3 DEF JobShape, State
<1>7. QED
  BY <1>4, <1>5, <1>6 DEF JobInv

\* A new life of the job: nothing given in it so far, and one more in the count.
LEMMA RestoreStep ==
  ASSUME JobInv, Job!Restore
  PROVE  JobInv'
<1> USE Constants
<1>1. JobShape /\ \A s \in {job} \cup saved : Sound(s)
  BY DEF JobInv
<1>2. /\ UNCHANGED <<stock, shipment, clock, saved, sent>>
      /\ restores < MaxRestores /\ restores' = restores + 1 /\ buffer' = <<>>
      /\ \/ job' \in saved /\ UNCHANGED starts
         \/ /\ saved = {} /\ starts' = starts \cup {job'}
            /\ \E s \in job.stock..Len(stock), t \in job.shipment..Len(shipment) : job' = Job!Fresh(s, t)
  BY DEF Job!Restore
<1>3. State' = State
  BY <1>2 DEF State
<1>4. clock' \in Nat /\ clock' >= clock /\ starts \subseteq starts'
  BY <1>1, <1>2 DEF JobShape
<1>5. \A s : Sound(s) => Sound(s)'
  BY <1>2, <1>4, SoundStays
<1>6. /\ job' \in State /\ Sound(job)' /\ starts' \subseteq State
      /\ \A s \in saved' : s.stock <= job'.stock /\ s.shipment <= job'.shipment
  <2>1. CASE job' \in saved /\ UNCHANGED starts
    <3>1. job' \in State /\ starts' \subseteq State
      BY <1>1, <2>1 DEF JobShape
    <3>2. PICK s \in saved : s = job'
      BY <2>1
    <3>3. Sound(s)'
      BY <1>1, <1>5
    <3>4. Sound(job)'
      BY <3>2, <3>3 DEF Sound
    <3>5. \A t \in saved' : t = job'
      BY <1>1, <1>2, <2>1 DEF JobShape
    <3>6. job'.stock \in Int /\ job'.shipment \in Int
      BY <3>1 DEF State
    <3>7. QED
      BY <3>1, <3>4, <3>5, <3>6
  <2>2. CASE /\ saved = {} /\ starts' = starts \cup {job'}
             /\ \E s \in job.stock..Len(stock), t \in job.shipment..Len(shipment) : job' = Job!Fresh(s, t)
    <3>1. PICK s \in job.stock..Len(stock), t \in job.shipment..Len(shipment) : job' = Job!Fresh(s, t)
      BY <2>2
    <3>2. job.stock \in Nat /\ job.shipment \in Nat
      BY <1>1 DEF JobShape, State
    <3>3. s \in 0..Len(stock) /\ t \in 0..Len(shipment)
      BY <3>2
    <3>4. job' = [stock |-> s, shipment |-> t, alerted |-> FALSE, timer |-> -1]
      BY <3>1 DEF Job!Fresh, Job!NoTimer
    <3>5. job' \in State
      BY <3>3, <3>4 DEF State
    <3>6. starts' \subseteq State
      BY <1>1, <2>2, <3>5 DEF JobShape
    <3>7. Sound(job)'
      BY <2>2, <3>3, <3>4 DEF Sound, Job!NoTimer
    <3>8. QED
      BY <1>2, <2>2, <3>5, <3>6, <3>7
  <2>3. QED
    BY <1>2, <2>1, <2>2
<1>7. ASSUME NEW a \in JobAlert PROVE Due(a)'
  <2>1. Job!Times(a, <<>>) = 0
    BY TimesInNothing
  <2>2. Given(a)' = Job!Times(a, sent) + Job!Times(a, <<>>)
    BY <1>2 DEF Given, Job!Times
  <2>3. Given(a)' \in Nat /\ Given(a)' <= Given(a)
    BY <2>1, <2>2, GivenType DEF Given
  <2>4. Due(a) /\ Given(a) \in Nat /\ restores \in Nat
    BY GivenType DEF JobInv, JobShape
  <2>5. Given(a)' <= restores'
    BY <1>2, <2>3, <2>4 DEF Due
  <2>6. Given(a)' > 0 => Reason(a)'
    BY <1>2, <1>4, <2>3, <2>4, ReasonStays DEF Due
  <2>7. restores' \in Nat
    BY <1>2, <2>4
  <2>8. QED
    BY <2>3, <2>5, <2>6, <2>7 DEF Due
<1>8. \A s \in {job'} \cup saved' : Sound(s)'
  BY <1>1, <1>2, <1>5, <1>6
<1>9. JobShape'
  <2>1. restores' \in 0..MaxRestores /\ buffer' \in Seq(JobAlert)
    BY <1>1, <1>2 DEF JobShape
  <2>2. QED
    BY <1>1, <1>2, <1>3, <1>4, <1>6, <2>1 DEF JobShape
<1>10. QED
  BY <1>7, <1>8, <1>9 DEF JobInv

\* What others raise is none of the job's alerts.
LEMMA JobIgnoresView ==
  ASSUME JobInv, UNCHANGED jobVars,
         sent' = sent \/ \E x \in Raised : sent' = Append(sent, x)
  PROVE  JobInv'
<1> USE Constants
<1>1. JobShape /\ \A s \in {job} \cup saved : Sound(s)
  BY DEF JobInv
<1>2. UNCHANGED <<stock, shipment, clock, job, saved, buffer, restores, starts>>
  BY DEF jobVars
<1>3. sent \in Seq(JobAlert \cup Raised) /\ sent' \in Seq(JobAlert \cup Raised)
  BY <1>1 DEF JobShape
<1>4. ASSUME NEW a \in JobAlert PROVE Given(a)' = Given(a)
  <2>1. CASE sent' = sent
    BY <1>2, <2>1 DEF Given, Job!Times
  <2>2. CASE \E x \in Raised : sent' = Append(sent, x)
    <3>1. PICK x \in Raised : sent' = Append(sent, x)
      BY <2>2
    <3>2. x # a
      BY DEF JobAlert
    <3>3. Job!Times(a, Append(sent, x)) = Job!Times(a, sent) + (IF x = a THEN 1 ELSE 0)
      BY <1>3, TimesAppended
    <3>4. Given(a)' = Job!Times(a, Append(sent, x)) + Job!Times(a, buffer)
      BY <1>2, <3>1 DEF Given, Job!Times
    <3>5. QED
      BY <3>2, <3>3, <3>4, GivenType DEF Given
  <2>3. QED
    BY <2>1, <2>2
<1>5. \A a \in JobAlert : Due(a)'
  <2>1. \A a : Past(a) => Past(a)'
    BY <1>2 DEF Past
  <2>2. clock' \in Nat /\ clock' >= clock
    BY <1>1, <1>2 DEF JobShape
  <2>3. QED
    BY <1>2, <1>4, <2>1, <2>2, StillDue
<1>6. \A s \in {job'} \cup saved' : Sound(s)'
  BY <1>1, <1>2 DEF Sound, Job!Open
<1>7. JobShape'
  BY <1>1, <1>2, <1>3 DEF JobShape, State
<1>8. QED
  BY <1>5, <1>6, <1>7 DEF JobInv

-----------------------------------------------------------------------------
(* The pipeline.                                                           *)

PipelineInv == JobInv /\ ViewInv

\* A step of either component keeps the invariants of both.
LEMMA NextInv == PipelineInv /\ [Next]_vars => PipelineInv'
<1> SUFFICES ASSUME PipelineInv, [Next]_vars PROVE PipelineInv'
  OBVIOUS
<1>1. JobInv /\ ViewInv /\ sent \in Seq(JobAlert \cup Raised) /\ buffer \in Seq(JobAlert)
  BY DEF PipelineInv, JobInv, JobShape
<1>2. CASE Job!Next /\ UNCHANGED viewVars
  <2>1. JobInv'
    BY <1>1, <1>2, LowStockStep, DelayStep, TimerStep, SendStep, CheckpointStep, RestoreStep, TickStep
    DEF Job!Next
  <2>2. UNCHANGED <<position, committed, recent, pushed, repeated>>
    BY <1>2 DEF viewVars
  <2>3. CASE Job!Send
    <3>1. PICK p \in Partitions : partition' = Append(partition, p)
      BY <2>3 DEF Job!Send
    <3>2. sent' = Append(sent, Head(buffer)) /\ Head(buffer) \in JobAlert \cup Raised
      BY <1>1, <2>3 DEF Job!Send
    <3>3. QED
      BY <1>1, <2>1, <2>2, <3>1, <3>2, TopicGrows DEF PipelineInv
  <2>4. CASE ~ Job!Send
    <3>1. UNCHANGED <<sent, partition>>
      BY <1>2, <2>4 DEF Job!Next, Job!DetectLowStock, Job!DetectDelay, Job!OnTimer, Job!Checkpoint,
                        Job!Restore, Job!Tick
    <3>2. QED
      BY <1>1, <2>1, <2>2, <3>1, ViewStays DEF PipelineInv
  <2>5. QED
    BY <2>3, <2>4
<1>3. CASE View!Next /\ UNCHANGED jobVars
  <2>1. sent' = sent \/ \E x \in Raised : sent' = Append(sent, x)
    BY <1>3 DEF View!Next, View!Raise, View!OnAlert, View!Commit, View!Redeliver, View!Restart
  <2>2. JobInv'
    BY <1>1, <1>3, <2>1, JobIgnoresView
  <2>3. QED
    BY <1>1, <1>3, <2>2, ViewNext DEF PipelineInv
<1>4. CASE UNCHANGED vars
  <2>1. UNCHANGED jobVars /\ UNCHANGED <<sent, partition, position, committed, recent, pushed, repeated>>
    BY <1>4 DEF vars, jobVars, viewVars
  <2>2. JobInv'
    BY <1>1, <2>1, JobIgnoresView
  <2>3. ViewInv'
    BY <1>1, <2>1, ViewStays
  <2>4. QED
    BY <2>2, <2>3 DEF PipelineInv
<1>5. QED
  BY <1>2, <1>3, <1>4 DEF Next

\* Each alert has its reason and is given once per life of the job; and what is
\* pushed and shown of a partition is in order, throughout.
THEOREM Invariant == Spec => []PipelineInv
<1>1. Init => PipelineInv
  BY JobInit, ViewInit DEF PipelineInv
<1>2. QED
  BY <1>1, NextInv, PTL DEF Spec

\* The offsets, timers and places of both components keep their shape, and no
\* alert is in the window twice.
THEOREM TypeInvariant == Spec => []TypeOK
<1>1. PipelineInv => TypeOK
  <2> SUFFICES ASSUME PipelineInv PROVE TypeOK
    OBVIOUS
  <2> USE Constants
  <2>1. Job!TypeOK
    <3>1. \A s \in {job} \cup saved : Sound(s)
      BY DEF PipelineInv, JobInv
    <3>2. \A s \in {job} \cup saved :
            s.stock \in 0..Len(stock) /\ s.shipment \in 0..Len(shipment)
              /\ s.stock <= job.stock /\ s.shipment <= job.shipment
      BY DEF PipelineInv, JobInv, JobShape, State
    <3>3. restores \in 0..MaxRestores
      BY DEF PipelineInv, JobInv, JobShape
    <3>4. QED
      BY <3>1, <3>2, <3>3 DEF Job!TypeOK, Sound
  <2>2. View!TypeOK
    <3>1. ViewShape /\ ShownInOrder
      BY DEF PipelineInv, ViewInv
    <3>2. View!IsInjective(recent)
      BY <3>1 DEF View!IsInjective, ShownInOrder
    <3>3. QED
      BY <3>1, <3>2 DEF View!TypeOK, ViewShape, ShownInOrder
  <2>3. QED
    BY <2>1, <2>2 DEF TypeOK
<1>2. QED
  BY <1>1, Invariant, PTL

\* Every alert of the job has its reason, and is given once and once more per
\* restart at most.
THEOREM AlertsHaveReasons == Spec => []AlertsAreDue
<1>1. PipelineInv => AlertsAreDue
  <2> SUFFICES ASSUME PipelineInv,
                      NEW a \in Job!Log \cup {buffer[i] : i \in DOMAIN buffer}
               PROVE  /\ a \in Job!Certain(starts) \cup {Job!Alert("OVERDUE", k) : k \in Job!Overdue}
                      /\ Job!Times(a, sent \o buffer) <= 1 + restores
    BY DEF AlertsAreDue, Job!AlertsAreDue
  <2> USE Constants
  <2>1. JobInv /\ sent \in Seq(JobAlert \cup Raised) /\ buffer \in Seq(JobAlert) /\ restores \in Nat
    BY DEF PipelineInv, JobInv, JobShape
  <2>2. Job!Times(a, sent \o buffer) = Given(a)
    <3>1. buffer \in Seq(JobAlert \cup Raised)
      BY <2>1
    <3>2. QED
      BY <2>1, <3>1, TimesTogether DEF Given
  <2>3. a \in JobAlert
    BY <2>1 DEF Job!Log
  <2>4. Given(a) > 0
    <3>1. CASE a \in Job!Log
      <4>1. Places(a, sent) # {}
        BY <3>1 DEF Job!Log, Places
      <4>2. Job!Times(a, sent) > 0
        BY <2>1, <4>1, PlacesFinite, FS_EmptySet
      <4>3. QED
        BY <2>1, <4>2, GivenType DEF Given
    <3>2. CASE a \in {buffer[i] : i \in DOMAIN buffer}
      <4>1. Places(a, buffer) # {}
        BY <3>2 DEF Places
      <4>2. Job!Times(a, buffer) > 0
        BY <2>1, <4>1, PlacesFinite, FS_EmptySet
      <4>3. QED
        BY <2>1, <4>2, GivenType DEF Given
    <3>3. QED
      BY <3>1, <3>2
  <2>5. Due(a) /\ Given(a) \in Nat
    BY <2>1, <2>3, GivenType DEF JobInv
  <2>6. QED
    BY <2>1, <2>2, <2>4, <2>5 DEF Due, Reason
<1>2. QED
  BY <1>1, Invariant, PTL

\* A view that has read all partitions shows all it can, and with an alert it
\* has not pushed twice every later one of its partition before it: for any
\* partitions and a window of any size.
THEOREM NewestAreShown == Spec => []CaughtUpShowsNewest
<1>1. PipelineInv => CaughtUpShowsNewest
  <2> SUFFICES ASSUME PipelineInv, View!CaughtUp
               PROVE  /\ Len(recent) = MAX_ALERTS \/ View!Readable \subseteq View!Shown
                      /\ \A k \in DOMAIN recent, later \in View!Readable :
                           /\ recent[k] \notin repeated
                           /\ recent[k] < later /\ partition[later] = partition[recent[k]]
                           => \E l \in 1..(k - 1) : recent[l] = later
    BY DEF CaughtUpShowsNewest, View!CaughtUpShowsNewest
  <2>1. ViewShape /\ PushedInOrder /\ ShownInOrder
    BY DEF PipelineInv, ViewInv
  <2>2. ASSUME NEW i \in View!Readable PROVE i \in pushed
    <3>1. i \in DOMAIN sent /\ i \in Nat /\ partition[i] \in Partitions
      BY <2>1 DEF View!Readable, ViewShape
    <3>2. i \notin View!Unread(partition[i])
      BY <3>1 DEF View!CaughtUp
    <3>3. i <= position[partition[i]]
      BY <2>1, <3>1, <3>2 DEF View!Unread, ViewShape
    <3>4. QED
      BY <2>1, <3>3 DEF PushedInOrder
  <2>3. DOMAIN recent = 1..Len(recent)
    BY <2>1 DEF ShownInOrder
  <2>4. Len(recent) = MAX_ALERTS \/ View!Readable \subseteq View!Shown
    BY <2>1, <2>2, <2>3 DEF ShownInOrder, View!Shown
  <2>5. ASSUME NEW k \in DOMAIN recent, NEW later \in View!Readable, recent[k] \notin repeated,
               recent[k] < later, partition[later] = partition[recent[k]]
        PROVE  \E l \in 1..(k - 1) : recent[l] = later
    BY <2>1, <2>2, <2>3, <2>5 DEF ShownInOrder
  <2>6. QED
    BY <2>4, <2>5
<1>2. QED
  BY <1>1, Invariant, PTL

\* A step that pushes an alert again finds more alerts pushed than the window
\* holds: the window is full of others.
LEMMA PushedAgainStep ==
  ASSUME ViewInv, NEW q \in View!Readable, ~ View!Contains(recent, q), q \in pushed
  PROVE  IsFiniteSet(pushed) /\ Cardinality(pushed) > MAX_ALERTS
<1> DEFINE shown == [k \in 1..Len(recent) |-> recent[k]]
           others == pushed \ {q}
<1> USE Constants
<1>1. ShownInOrder /\ pushed \subseteq 1..Len(sent) /\ Len(sent) \in Nat /\ Len(recent) \in Nat
  BY DEF ViewInv, ViewShape, PushedInOrder, ShownInOrder, View!Readable
<1>2. IsFiniteSet(pushed)
  <2>1. IsFiniteSet(1..Len(sent))
    BY <1>1, FS_Interval
  <2>2. QED
    BY <1>1, <2>1, FS_Subset
<1>3. \A k \in 1..Len(recent) : recent[k] # q
  BY DEF View!Contains
<1>4. Len(recent) = MAX_ALERTS
  BY <1>1, <1>3 DEF ShownInOrder
<1>5. shown \in Injection(1..Len(recent), others)
  BY <1>1, <1>3 DEF ShownInOrder, Injection, IsInjective
<1>6. /\ IsFiniteSet(others) /\ Cardinality(others) = Cardinality(pushed) - 1
  BY <1>2, FS_RemoveElement
<1>7. Cardinality(1..Len(recent)) <= Cardinality(others)
  BY <1>5, <1>6, FS_Injection
<1>8. Cardinality(1..Len(recent)) = MAX_ALERTS
  BY <1>1, <1>4, FS_Interval
<1>9. QED
  BY <1>2, <1>6, <1>7, <1>8, FS_CardinalityType

\* No step pushes an alert again while the window holds all there were.
LEMMA PushedAgainNext ==
  PipelineInv /\ PushedAgainOnlyWhenFull /\ [Next]_vars => PushedAgainOnlyWhenFull'
<1> SUFFICES ASSUME PipelineInv, PushedAgainOnlyWhenFull, [Next]_vars, repeated' # {}
             PROVE  Cardinality(pushed') > MAX_ALERTS
  BY SameSize DEF PushedAgainOnlyWhenFull, View!PushedAgainOnlyWhenFull
<1> USE Constants
<1>1. ViewInv /\ (repeated # {} => Cardinality(pushed) > MAX_ALERTS)
  BY SameSize DEF PipelineInv, PushedAgainOnlyWhenFull, View!PushedAgainOnlyWhenFull
<1>2. CASE UNCHANGED <<pushed, repeated>>
  BY <1>1, <1>2
<1>3. ASSUME NEW q \in View!Readable, ~ View!Contains(recent, q),
             pushed' = pushed \cup {q}, repeated' = repeated \cup (pushed \cap {q})
      PROVE  Cardinality(pushed') > MAX_ALERTS
  <2>1. CASE q \in pushed
    <3>1. pushed' = pushed
      BY <1>3, <2>1
    <3>2. Cardinality(pushed) > MAX_ALERTS
      BY <1>1, <1>3, <2>1, PushedAgainStep
    <3>3. QED
      BY <3>1, <3>2
  <2>2. CASE q \notin pushed
    <3>1. repeated # {}
      BY <1>3, <2>2
    <3>2. pushed \subseteq 1..Len(sent) /\ Len(sent) \in Nat
      BY <1>1 DEF ViewInv, ViewShape, PushedInOrder, View!Readable
    <3>3. IsFiniteSet(pushed)
      <4>1. IsFiniteSet(1..Len(sent))
        BY <3>2, FS_Interval
      <4>2. QED
        BY <3>2, <4>1, FS_Subset
    <3>4. Cardinality(pushed) \in Nat /\ Cardinality(pushed \cup {q}) = Cardinality(pushed) + 1
      BY <2>2, <3>3, FS_AddElement, FS_CardinalityType
    <3>5. QED
      BY <1>1, <1>3, <3>1, <3>4
  <2>3. QED
    BY <2>1, <2>2
<1>4. CASE Job!Next /\ UNCHANGED viewVars
  BY <1>2, <1>4 DEF viewVars
<1>5. CASE View!Next
  <2>1. CASE \E p \in Partitions : View!OnAlert(p)
    <3>1. PICK q : View!Show(q)
      BY <2>1 DEF View!OnAlert
    <3>2. QED
      BY <1>2, <1>3, <3>1 DEF View!Show
  <2>2. CASE ~ \E p \in Partitions : View!OnAlert(p)
    BY <1>2, <1>5, <2>2 DEF View!Next, View!Raise, View!Commit, View!Redeliver, View!Restart
  <2>3. QED
    BY <2>1, <2>2
<1>6. CASE UNCHANGED vars
  BY <1>2, <1>6 DEF vars, viewVars
<1>7. QED
  BY <1>4, <1>5, <1>6 DEF Next

\* A redelivered alert is pushed again only if more alerts were pushed since the
\* start than the window holds, for a window of any size, any partitions and any
\* redeliveries.
THEOREM PushedOnceUntilFull == Spec => []PushedAgainOnlyWhenFull
<1>1. Init => PushedAgainOnlyWhenFull
  BY DEF Init, View!Init, PushedAgainOnlyWhenFull, View!PushedAgainOnlyWhenFull
<1>2. QED
  BY <1>1, Invariant, PushedAgainNext, PTL DEF Spec

=============================================================================
