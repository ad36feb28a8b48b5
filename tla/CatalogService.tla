--------------------------- MODULE CatalogService ---------------------------
(***************************************************************************)
(* catalog-service for one product, whose only changing part is its        *)
(* storage temperature range.  Reads go through two entries in Redis, the  *)
(* product and the product list; an update stores the product, publishes   *)
(* it and then refreshes the one entry and evicts the other.  Nothing      *)
(* orders these steps against those of another request.  On each start the *)
(* service publishes the whole catalog again.  scm.catalog.events is       *)
(* compacted and read in order: what was published last is what            *)
(* inventory-service's read model comes to.                                *)
(***************************************************************************)
EXTENDS Integers, FiniteSets

CONSTANTS
  Readers,      \* requests that read the product
  Writers,      \* requests that set its range
  Ranges,       \* ranges it is given
  MaxFaults     \* bound: failed Redis commands, updates and sends, and restarts

TemperatureRange == [min: Int, max: Int]
Ambient == [min |-> 0, max |-> 0]       \* no range
\* TemperatureRange.of
Valid(range) == range.min < range.max /\ range.min >= -60 /\ range.max <= 30

ASSUME CatalogConstants ==
  /\ Ranges \subseteq {range \in TemperatureRange : Valid(range)}
  /\ MaxFaults \in Nat

VARIABLES
  db,           \* the range in Cassandra
  cache,        \* the entries in Redis: what each shows, if it is there
  reader, writer,
  startup,      \* broadcastAll: due, read or done
  published,    \* what scm.catalog.events says last
  faults,       \* faults so far
  seen,         \* history: ranges a read may give
  disturbed,    \* history: entries that a race or a failure may have spoiled
  disordered,   \* history: updates, or an update and the broadcast, were published out of order
  unsent        \* history: the event of the last change published was lost

catalogVars == <<db, cache, reader, writer, startup, published, faults,
                 seen, disturbed, disordered, unsent>>

Entries == {"product", "products"}
Idle == [pc |-> "idle"]
Lost == [pc |-> "lost"]     \* its connection broke
ReaderAt(r, pc) == reader[r].pc = pc
WriterAt(w, pc) == writer[w].pc = pc

Loaded(r, k) == ReaderAt(r, "loaded") /\ reader[r].entry = k

\* Updates that are stored and not finished.
Updating == {w \in Writers : WriterAt(w, "saved") \/ WriterAt(w, "published")}

CatalogInit ==
  /\ db \in Ranges
  /\ cache = [k \in Entries |-> {}]
  /\ reader = [r \in Readers |-> Idle]
  /\ writer = [w \in Writers |-> Idle]
  /\ startup = [pc |-> "due"]
  /\ published = Ambient
  /\ faults = 0
  /\ seen = [r \in Readers |-> {}]
  /\ disturbed = {} /\ disordered = FALSE /\ unsent = FALSE

-----------------------------------------------------------------------------
(* @Cacheable.  A command that fails is logged and passed over.            *)

Fails(n) == faults + n <= MaxFaults /\ faults' = faults + n

Reading(r, k, pc, value) ==
  /\ reader' = [reader EXCEPT ![r] = [pc |-> pc, entry |-> k, value |-> value]]
  /\ seen' = [seen EXCEPT ![r] = {db} \cup {writer[w].old : w \in Updating}
                                        \cup (IF k \in disturbed THEN cache[k] ELSE {})]

Hit(r, k) ==
  /\ ReaderAt(r, "idle")
  /\ \E value \in cache[k] : Reading(r, k, "got", value)
  /\ UNCHANGED <<db, cache, writer, startup, published, faults, disturbed, disordered, unsent>>

\* Not there, or not to be had: the database is read.
Miss(r, k) ==
  /\ ReaderAt(r, "idle")
  /\ Fails(IF cache[k] = {} THEN 0 ELSE 1)
  /\ Reading(r, k, "loaded", db)
  /\ UNCHANGED <<db, cache, writer, startup, published, disturbed, disordered, unsent>>

\* What was loaded is cached, whatever has happened to the product since.
PutLoaded(r) ==
  /\ ReaderAt(r, "loaded")
  /\ \/ Fails(0) /\ cache' = [cache EXCEPT ![reader[r].entry] = {reader[r].value}]
     \/ Fails(1) /\ UNCHANGED cache
  /\ reader' = [reader EXCEPT ![r].pc = "got"]
  /\ UNCHANGED <<db, writer, startup, published, seen, disturbed, disordered, unsent>>

\* The answer goes out, or the connection's error is seen.
Return(r) ==
  /\ ReaderAt(r, "got") \/ ReaderAt(r, "lost")
  /\ reader' = [reader EXCEPT ![r] = Idle]
  /\ seen' = [seen EXCEPT ![r] = {}]
  /\ UNCHANGED <<db, cache, writer, startup, published, faults, disturbed, disordered, unsent>>

\* Entries live for scm.cache.ttl.  With an entry goes what spoiled it, unless
\* it may be spoiled again by a slow load or an update under way.
Expire(k) ==
  /\ cache[k] # {}
  /\ cache' = [cache EXCEPT ![k] = {}]
  /\ disturbed' = IF Updating = {} /\ \A r \in Readers : Loaded(r, k) => reader[r].value = db
                  THEN disturbed \ {k} ELSE disturbed
  /\ UNCHANGED <<db, reader, writer, startup, published, faults, seen, disordered, unsent>>

-----------------------------------------------------------------------------
(* setTemperatureRange.                                                    *)

\* Every read under way may see the change; one that has loaded the old range
\* will cache it.
Save(w, range) ==
  LET overtaken == {k \in Entries : \E r \in Readers : Loaded(r, k)} IN
  /\ WriterAt(w, "idle")
  /\ db' = range
  /\ writer' = [writer EXCEPT ![w] = [pc |-> "saved", range |-> range, old |-> db]]
  /\ seen' = [r \in Readers |-> IF ReaderAt(r, "loaded") THEN seen[r] \cup {range} ELSE seen[r]]
  /\ disturbed' = disturbed \cup (IF Updating # {} THEN Entries ELSE overtaken)
  /\ disordered' = (disordered \/ startup.pc = "read" \/ \E v \in Writers : WriterAt(v, "saved"))
  /\ UNCHANGED <<cache, reader, startup, published, faults, unsent>>

Publish(w) ==
  /\ WriterAt(w, "saved")
  /\ published' = writer[w].range /\ unsent' = FALSE
  /\ writer' = [writer EXCEPT ![w].pc = "published"]
  /\ UNCHANGED <<db, cache, reader, startup, faults, seen, disturbed, disordered>>

\* The send fails after send() has returned: relay() only logs it.
LosePublish(w) ==
  /\ WriterAt(w, "saved") /\ Fails(1)
  /\ unsent' = TRUE
  /\ writer' = [writer EXCEPT ![w].pc = "published"]
  /\ UNCHANGED <<db, cache, reader, startup, published, seen, disturbed, disordered>>

\* An exception once the product is stored: save() timed out, view() found no
\* supplier or no database, or send() threw.  The request ends with an error,
\* and nothing is published, refreshed or evicted.
UpdateFails(w) ==
  /\ WriterAt(w, "saved") /\ Fails(1)
  /\ unsent' = TRUE /\ disturbed' = Entries
  /\ writer' = [writer EXCEPT ![w] = [pc |-> "done"]]
  /\ UNCHANGED <<db, cache, reader, startup, published, seen, disordered>>

\* @CachePut and @CacheEvict, once the method has returned.
Refreshed_ListKept(k, range) == IF k = "product" THEN {range} ELSE cache[k]
Refreshed(k, range) == IF k = "product" THEN {range} ELSE {}
Refresh(w) ==
  /\ WriterAt(w, "published")
  /\ \E failed \in SUBSET Entries :
       /\ Fails(Cardinality(failed))
       /\ cache' = [k \in Entries |-> IF k \in failed THEN cache[k] ELSE Refreshed(k, writer[w].range)]
       /\ disturbed' = disturbed \cup failed
  /\ writer' = [writer EXCEPT ![w] = [pc |-> "done"]]
  /\ UNCHANGED <<db, reader, startup, published, seen, disordered, unsent>>

-----------------------------------------------------------------------------
(* broadcastAll, and the service's restart.                                *)

Snapshot_Cached == IF cache["products"] = {} THEN db ELSE CHOOSE v \in cache["products"] : TRUE
Snapshot == db

ReadAll ==
  /\ startup.pc = "due"
  /\ startup' = [pc |-> "read", range |-> Snapshot]
  /\ UNCHANGED <<db, cache, reader, writer, published, faults, seen, disturbed, disordered, unsent>>

PublishAll ==
  /\ startup.pc = "read"
  /\ \/ Fails(0) /\ published' = startup.range /\ unsent' = FALSE
     \/ Fails(1) /\ unsent' = TRUE /\ UNCHANGED published      \* as LosePublish
  /\ startup' = [pc |-> "done"]
  /\ UNCHANGED <<db, cache, reader, writer, seen, disturbed, disordered>>

\* The requests in hand are lost with the process; Redis is not.
Crash ==
  /\ Fails(1)
  /\ reader' = [r \in Readers |-> IF ReaderAt(r, "loaded") THEN Lost ELSE reader[r]]
  /\ writer' = [w \in Writers |-> IF w \in Updating THEN [pc |-> "done"] ELSE writer[w]]
  /\ startup' = [pc |-> "due"]
  /\ disturbed' = disturbed \cup (IF Updating # {} THEN Entries ELSE {})
  /\ seen' = [r \in Readers |-> IF ReaderAt(r, "loaded") THEN {} ELSE seen[r]]
  /\ UNCHANGED <<db, cache, published, disordered, unsent>>

-----------------------------------------------------------------------------

Background ==
  \/ \E w \in Writers : Publish(w) \/ LosePublish(w) \/ UpdateFails(w) \/ Refresh(w)
  \/ \E w \in Writers, range \in Ranges \cup {Ambient} : Save(w, range)
  \/ \E k \in Entries : Expire(k)
  \/ ReadAll \/ PublishAll \/ Crash

-----------------------------------------------------------------------------
(* Properties.                                                             *)

\* The shape of the catalog's state.
CatalogTypeOK ==
  /\ {db, published} \subseteq Ranges \cup {Ambient}
  /\ \A k \in Entries : \E range \in Ranges \cup {Ambient} : cache[k] \in {{}, {range}}
  /\ \A r \in Readers : seen[r] \subseteq Ranges \cup {Ambient}
  /\ disturbed \subseteq Entries /\ {disordered, unsent} \subseteq BOOLEAN
  /\ faults \in 0..MaxFaults

\* A read gives a range the product had while it was read, or the one an update
\* under way is about to replace, unless its entry is spoiled: a slow load
\* overtaken by an update, two updates at a time, an update that fails once it is
\* stored, a failed Redis command or a restart may leave an old one, until its TTL.
ReadsAreCurrent ==
  \A r \in Readers :
    ReaderAt(r, "got") => reader[r].value \in seen[r]

\* What is published last is what is stored, once no update is about to be
\* published and the start-up broadcast is over: a send that was lost, a restart
\* or an update that failed before its event is made up for by the next update
\* or start that publishes.
PublishedIsStored ==
  /\ ~ disordered /\ ~ unsent
  /\ startup.pc = "done" /\ (\A w \in Writers : ~ WriterAt(w, "saved"))
  => published = db

=============================================================================
