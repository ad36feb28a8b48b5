------------------------------ MODULE Handlers ------------------------------
(***************************************************************************)
(* The threads of a service: HTTP request threads, a Kafka listener, a     *)
(* Camel route.  Each runs one handler at a time, and every handler is a   *)
(* read-modify-write of one Cassandra row with no version check, followed  *)
(* by a publish:                                                           *)
(*                                                                         *)
(*     idle --read--> "read" --save--> "saved" --publish--> idle           *)
(*                                                                         *)
(* task[h] is Idle or a record with at least the fields pc, key (the row   *)
(* it works on) and stale.  The stale flag is history, not code: it says   *)
(* that another handler has stored the same row since this one read or     *)
(* wrote it.  The services keep no such flag, which is why their stale     *)
(* writers go unnoticed; the properties use it to say who may be wrong.    *)
(***************************************************************************)

Idle == [pc |-> "idle"]

WorksOn(task, h, k) == task[h] # Idle /\ task[h].key = k

\* Handler h moves on to `next` after storing row k: whoever else is busy
\* with k now holds an outdated copy or has an outdated event to announce.
Overtake(task, h, k, next) ==
  [g \in DOMAIN task |->
     IF g = h THEN next
     ELSE IF WorksOn(task, g, k) THEN [task[g] EXCEPT !.stale = TRUE]
     ELSE task[g]]

Quiet(task, k) == \A h \in DOMAIN task : ~ WorksOn(task, h, k)

=============================================================================
