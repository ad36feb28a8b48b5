------------------------------- MODULE Kafka -------------------------------
(***************************************************************************)
(* The event backbone as the services use it.  A topic is a function from  *)
(* keys (order number, tracking number, ...) to the log of the records     *)
(* sent with that key: records of one key share a partition and keep their *)
(* order, records of different keys promise nothing about theirs.          *)
(*                                                                         *)
(* A record is in its log once send() has taken it; what it still needs to *)
(* reach the broker is part of the reader's delay.  A send that fails, or  *)
(* dies with the process while it is buffered, never entered the log.      *)
(*                                                                         *)
(* A consumer group reads a log through a cursor: position[k] records of   *)
(* key k have been handled, committed[k] is where a restarted consumer     *)
(* resumes.  Every publish draws a fresh UUID, so the place <<k, i>> of a  *)
(* record in the log stands for its eventId.                               *)
(***************************************************************************)
EXTENDS Naturals, Sequences, FiniteSets

EmptyTopic(Keys) == [k \in Keys |-> <<>>]

\* The topic after the broker has appended one more record for key k.
Published(topic, k, event) == [topic EXCEPT ![k] = Append(@, event)]

\* A consumer at `position` has a record of key k left to handle: this one.
HasNext(topic, position, k) == position[k] < Len(topic[k])
NextRecord(topic, position, k) == topic[k][position[k] + 1]
Advanced(position, k) == [position EXCEPT ![k] = @ + 1]

\* The ids of all records sent so far.
Records(topic) == UNION {{<<k, i>> : i \in DOMAIN topic[k]} : k \in DOMAIN topic}

AtStart(Keys) == [k \in Keys |-> 0]

=============================================================================
