--------------------------- MODULE MCAlertPipeline ---------------------------
(* Alerts of one position and one shipment, on a small instance. *)
EXTENDS AlertPipeline

CONSTANT p1

News(status, eta) == [status |-> status, eta |-> eta]
Booked == News("CREATED", 1)

\* A position that falls, recovers and falls again; a shipment that is put off,
\* delivered, delayed and on its way again, found damaged, or loses its ETA; and
\* a position that stays low beside a shipment whose ETA had passed when it was
\* booked.
SomeLogs ==
  {[stock |-> <<"low", "fine", "low">>, shipment |-> <<>>],
   [stock |-> <<"low", "low">>, shipment |-> <<News("CREATED", 0)>>]}
  \cup [stock : {<<>>},
        shipment : {<<Booked, News("IN_TRANSIT", 2)>>, <<Booked, News("DELIVERED", 1)>>,
                    <<Booked, News("DELAYED", 1), News("IN_TRANSIT", 2)>>,
                    <<News("DELAYED", 2), News("DAMAGED", 2)>>, <<Booked, News("IN_TRANSIT", -1)>>}]

\* An alert about an entity, whose key takes it to the first partition; one about
\* no entity; and a record that is no alert.
Keyed == [type |-> "RAISED", event |-> 1]
Keyless == [type |-> "RAISED", event |-> 0]
Broken == [type |-> "BROKEN", event |-> 0]
ByHand == {Keyed, Keyless, Broken}
NoAlert == {Broken}
SomePartitionsFor == [a \in ByHand |-> IF a = Keyed THEN {p1} ELSE Partitions]

\* No news of anything; or a position that falls once.
FewLogs ==
  {[stock |-> <<>>, shipment |-> <<>>], [stock |-> <<"low">>, shipment |-> <<>>]}

AllLogs == SomeLogs \cup FewLogs

\* Bound: with FewLogs nothing happens to the job but to alert-service, whose
\* alerts are in two partitions; with SomeLogs it is the other way round.
OneInTrouble ==
  IF [stock |-> stock, shipment |-> shipment] \in FewLogs
  THEN UNCHANGED <<saved, restores>>
  ELSE UNCHANGED <<raised, trouble>> /\ \A i \in DOMAIN partition' : partition'[i] = p1

\* Only steps without fairness are bounded, and the choice of a partition.
MCSpec == Init /\ [][Next /\ OneInTrouble]_vars /\ Job!JobFairness

=============================================================================
