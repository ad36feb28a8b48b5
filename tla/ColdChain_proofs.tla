-------------------------- MODULE ColdChain_proofs --------------------------
(***************************************************************************)
(* Proofs about cold-chain inspections and the catalog they read, for any  *)
(* sets of requests, ranges and findings, and any bounds.                  *)
(*                                                                         *)
(* While an entry of the cache is not disturbed there is one update at     *)
(* most between its save and its refresh; the entry shows what is stored   *)
(* or what that update replaces, and every slow load carries what is       *)
(* stored.  While nothing was published out of order, whoever is about to  *)
(* publish carries what is stored, and unless the last send was lost the   *)
(* topic says so.                                                          *)
(*                                                                         *)
(* A verdict takes the worst of finitely many degrees and the area of hot  *)
(* spots.  A narrower range keeps every spot and every display and moves   *)
(* none closer, so both only grow: the area by induction over the subsets  *)
(* of the spots, where it does not matter which is added last.             *)
(***************************************************************************)
EXTENDS ColdChain, FiniteSetTheorems, WellFoundedInduction, TLAPS

-----------------------------------------------------------------------------
(* The inductive invariant.                                                *)

Stored == Ranges \cup {Ambient}

ReaderTask == {Idle, Lost} \cup [pc : {"loaded", "got"}, entry : Entries, value : Stored]
WriterTask == {Idle, [pc |-> "done"]} \cup [pc : {"saved", "published"}, range : Stored, old : Stored]
StartupTask == {[pc |-> "due"], [pc |-> "done"]} \cup [pc : {"read"}, range : Stored]

Judged == [pc : {"assess"}, kind : {"profile", "shipment"}, range : {r \in TemperatureRange : Valid(r)}]
Inspection ==
  {Idle, Ended, [pc |-> "product"]} \cup Judged
    \cup [pc : {"assess"}, kind : {"damage"}, range : {Ambient}]
    \cup [pc : {"report", "alert"}, bad : BOOLEAN]

CatalogShape ==
  /\ db \in Stored /\ published \in Stored
  /\ cache \in [Entries -> SUBSET Stored]
  /\ \A k \in Entries : \E range \in Stored : cache[k] \in {{}, {range}}
  /\ reader \in [Readers -> ReaderTask]
  /\ writer \in [Writers -> WriterTask]
  /\ startup \in StartupTask
  /\ seen \in [Readers -> SUBSET Stored]
  /\ disturbed \subseteq Entries /\ disordered \in BOOLEAN /\ unsent \in BOOLEAN
  /\ faults \in 0..MaxFaults

ColdShape ==
  /\ kafka \in BOOLEAN
  /\ insp \in [Inspections -> Inspection]
  /\ events \in [Inspections -> 0..1]
  /\ quarantined \subseteq Inspections /\ alerted \subseteq Inspections

\* A read has loaded or got one of the ranges it may give.
ReadsSeen ==
  \A r \in Readers : ReaderAt(r, "loaded") \/ ReaderAt(r, "got") => reader[r].value \in seen[r]

\* An entry that is not disturbed: one update at most is under way.
Calm(k) ==
  /\ \A w \in Updating : writer[w].range = db /\ \A v \in Updating : v = w
  /\ \A value \in cache[k] : value = db \/ \E w \in Updating : value = writer[w].old
  /\ \A r \in Readers : Loaded(r, k) => reader[r].value = db

\* Whoever is to publish has what is stored, and the last to do so had, unless
\* its send was lost.
InSequence ==
  /\ startup.pc = "read" => startup.range = db
  /\ \A w \in Writers : WriterAt(w, "saved") =>
       writer[w].range = db /\ \A v \in Writers : WriterAt(v, "saved") => v = w
  /\ startup.pc = "done" /\ (\A w \in Writers : ~ WriterAt(w, "saved")) => unsent \/ published = db

\* What was done of an inspection's report.
ReportsInOrder ==
  /\ \A i \in Inspections : At(i, "alert") => i \in quarantined
  /\ alerted \subseteq quarantined
  /\ kafka => quarantined = {}
  /\ ~ kafka => \A i \in Inspections : events[i] = 0
  /\ \A i \in Inspections : events[i] > 0 => At(i, "ended")

ColdInv ==
  /\ CatalogShape /\ ReadsSeen
  /\ \A k \in Entries \ disturbed : Calm(k)
  /\ ~ disordered => InSequence
  /\ ColdShape /\ ReportsInOrder

-----------------------------------------------------------------------------
(* Steps of the catalog and steps of an inspection.                        *)

ReaderStep(r) == (\E k \in Entries : Hit(r, k) \/ Miss(r, k)) \/ PutLoaded(r) \/ Return(r)
CatalogStep == (\E r \in Readers : ReaderStep(r)) \/ Background \/ UNCHANGED catalogVars

ColdStep(i) ==
  \/ Inspect(i, "damage", Ambient)
  \/ \E p \in DOMAIN Profiles : Inspect(i, "profile", Profiles[p])
  \/ InspectShipment(i) \/ UseRange(i) \/ Assess(i)
  \/ ReportEvent(i) \/ ReportDirectly(i) \/ RaiseAlert(i) \/ CallFails(i)

\* A step is one of the catalog, with at most one inspection taking part.
LEMMA StepParts ==
  ASSUME [Next]_vars
  PROVE  CatalogStep /\ (UNCHANGED coldVars \/ \E i \in Inspections : ColdStep(i))
<1>1. CASE \E i \in Inspections : Inspect(i, "damage", Ambient)
  BY <1>1 DEF Inspect, CatalogStep, ColdStep
<1>2. CASE \E i \in Inspections, p \in DOMAIN Profiles : Inspect(i, "profile", Profiles[p])
  BY <1>2 DEF Inspect, CatalogStep, ColdStep
<1>3. ASSUME NEW i \in Inspections, InspectShipment(i) \/ InspectionStep(i)
      PROVE  CatalogStep /\ (UNCHANGED coldVars \/ ColdStep(i))
  <2>1. i \in Readers /\ "product" \in Entries
    BY ColdChainConstants DEF Entries
  <2>2. CASE GetProduct(i)
    BY <2>1, <2>2 DEF GetProduct, CatalogStep, ReaderStep
  <2>3. CASE UseRange(i)
    BY <2>1, <2>3 DEF UseRange, CatalogStep, ReaderStep, ColdStep
  <2>4. CASE \/ InspectShipment(i) \/ Assess(i) \/ ReportEvent(i) \/ ReportDirectly(i)
             \/ RaiseAlert(i) \/ CallFails(i)
    BY <2>4 DEF InspectShipment, Assess, ReportEvent, ReportDirectly, RaiseAlert, CallFails,
                CatalogStep, ColdStep
  <2>5. QED
    BY <1>3, <2>2, <2>3, <2>4 DEF InspectionStep
<1>4. CASE \/ \E r \in Readers \ Inspections, k \in Entries :
                (Hit(r, k) \/ Miss(r, k) \/ Return(r)) /\ UNCHANGED coldVars
           \/ \E r \in Readers : PutLoaded(r) /\ UNCHANGED coldVars
  BY <1>4 DEF CatalogStep, ReaderStep
<1>5. CASE Background /\ UNCHANGED coldVars
  BY <1>5 DEF CatalogStep
<1>6. CASE UNCHANGED vars
  BY <1>6 DEF vars, CatalogStep
<1>7. QED
  BY <1>1, <1>2, <1>3, <1>4, <1>5, <1>6 DEF Next

-----------------------------------------------------------------------------
(* The catalog's shape.                                                    *)

\* The fields of readers and writers at work.
LEMMA ReaderFacts ==
  ASSUME CatalogShape, NEW r \in Readers, reader[r].pc \in {"loaded", "got"}
  PROVE  reader[r] \in [pc : {"loaded", "got"}, entry : Entries, value : Stored]
BY DEF CatalogShape, ReaderTask, Idle, Lost

\* An update under way has the range it stores and the one it replaces.
LEMMA WriterFacts ==
  ASSUME CatalogShape, NEW w \in Writers, writer[w].pc \in {"saved", "published"}
  PROVE  writer[w] \in [pc : {"saved", "published"}, range : Stored, old : Stored]
BY DEF CatalogShape, WriterTask, Idle

\* So has each that is stored and not finished.
LEMMA UpdatingFacts ==
  ASSUME CatalogShape, NEW w \in Updating
  PROVE  w \in Writers /\ writer[w].range \in Stored /\ writer[w].old \in Stored
BY WriterFacts DEF Updating, WriterAt

\* A reader has read something from entry k.
LEMMA ReadingFacts ==
  ASSUME CatalogShape, NEW r \in Readers, NEW k \in Entries, NEW pc \in {"loaded", "got"},
         NEW value \in Stored, Reading(r, k, pc, value)
  PROVE  /\ reader' \in [Readers -> ReaderTask] /\ seen' \in [Readers -> SUBSET Stored]
         /\ \A q \in Readers \ {r} : reader'[q] = reader[q] /\ seen'[q] = seen[q]
         /\ reader'[r].pc = pc /\ reader'[r].entry = k /\ reader'[r].value = value
         /\ seen'[r] = {db} \cup {writer[w].old : w \in Updating}
                            \cup (IF k \in disturbed THEN cache[k] ELSE {})
<1>1. [pc |-> pc, entry |-> k, value |-> value] \in ReaderTask
  BY DEF ReaderTask
<1>2. reader' \in [Readers -> ReaderTask]
      /\ reader'[r] = [pc |-> pc, entry |-> k, value |-> value]
      /\ \A q \in Readers \ {r} : reader'[q] = reader[q]
  BY <1>1 DEF Reading, CatalogShape
<1>3. PICK s : s = {db} \cup {writer[w].old : w \in Updating}
                        \cup (IF k \in disturbed THEN cache[k] ELSE {})
  OBVIOUS
<1>4. s \subseteq Stored
  <2>1. {writer[w].old : w \in Updating} \subseteq Stored
    BY UpdatingFacts
  <2>2. db \in Stored /\ cache[k] \subseteq Stored
    BY DEF CatalogShape
  <2>3. QED
    BY <1>3, <2>1, <2>2
<1>5. seen' = [seen EXCEPT ![r] = s]
  BY <1>3 DEF Reading
<1>6. seen' \in [Readers -> SUBSET Stored] /\ seen'[r] = s
      /\ \A q \in Readers \ {r} : seen'[q] = seen[q]
  BY <1>4, <1>5 DEF CatalogShape
<1>7. QED
  BY <1>2, <1>3, <1>6

\* The parts of a step of the catalog.
LEMMA HitFacts ==
  ASSUME CatalogShape, NEW r \in Readers, NEW k \in Entries, Hit(r, k)
  PROVE  /\ ReaderAt(r, "idle")
         /\ \E value \in cache[k] \cap Stored : Reading(r, k, "got", value)
         /\ UNCHANGED <<db, cache, writer, startup, published, faults, disturbed, disordered, unsent>>
BY DEF Hit, CatalogShape

\* A read that misses loads what is stored.
LEMMA MissFacts ==
  ASSUME CatalogShape, NEW r \in Readers, NEW k \in Entries, Miss(r, k)
  PROVE  /\ ReaderAt(r, "idle") /\ Reading(r, k, "loaded", db) /\ db \in Stored
         /\ faults' \in 0..MaxFaults
         /\ UNCHANGED <<db, cache, writer, startup, published, disturbed, disordered, unsent>>
<1>1. faults' \in 0..MaxFaults
  BY CatalogConstants DEF Miss, Fails, CatalogShape
<1>2. QED
  BY <1>1 DEF Miss, CatalogShape

\* What was loaded is cached, or its command fails.
LEMMA PutLoadedFacts ==
  ASSUME CatalogShape, NEW r \in Readers, PutLoaded(r)
  PROVE  /\ ReaderAt(r, "loaded") /\ reader[r].entry \in Entries /\ reader[r].value \in Stored
         /\ cache' = cache \/ cache' = [cache EXCEPT ![reader[r].entry] = {reader[r].value}]
         /\ faults' \in 0..MaxFaults
         /\ reader' \in [Readers -> ReaderTask]
         /\ \A q \in Readers \ {r} : reader'[q] = reader[q]
         /\ reader'[r].pc = "got" /\ reader'[r].value = reader[r].value
         /\ UNCHANGED <<db, writer, startup, published, seen, disturbed, disordered, unsent>>
<1>1. reader[r] \in [pc : {"loaded", "got"}, entry : Entries, value : Stored] /\ ReaderAt(r, "loaded")
  BY ReaderFacts DEF PutLoaded, ReaderAt
<1>2. faults' \in 0..MaxFaults /\ (cache' = cache \/ cache' = [cache EXCEPT ![reader[r].entry] = {reader[r].value}])
  BY CatalogConstants DEF PutLoaded, Fails, CatalogShape
<1>3. PICK task : task = [reader[r] EXCEPT !.pc = "got"]
  OBVIOUS
<1>4. task \in ReaderTask /\ task.pc = "got" /\ task.value = reader[r].value
  BY <1>1, <1>3 DEF ReaderTask
<1>5. reader' = [reader EXCEPT ![r] = task]
  BY <1>3 DEF PutLoaded
<1>6. reader' \in [Readers -> ReaderTask] /\ reader'[r] = task
      /\ \A q \in Readers \ {r} : reader'[q] = reader[q]
  BY <1>4, <1>5 DEF CatalogShape
<1>7. UNCHANGED <<db, writer, startup, published, seen, disturbed, disordered, unsent>>
  BY DEF PutLoaded
<1>8. QED
  BY <1>1, <1>2, <1>4, <1>6, <1>7

\* A read ends.
LEMMA ReturnFacts ==
  ASSUME CatalogShape, NEW r \in Readers, Return(r)
  PROVE  /\ reader' \in [Readers -> ReaderTask] /\ seen' \in [Readers -> SUBSET Stored]
         /\ reader'[r] = Idle /\ reader'[r].pc = "idle"
         /\ \A q \in Readers \ {r} : reader'[q] = reader[q] /\ seen'[q] = seen[q]
         /\ UNCHANGED <<db, cache, writer, startup, published, faults, disturbed, disordered, unsent>>
BY DEF Return, CatalogShape, ReaderTask, Idle

\* An update stores its range and disturbs what it overtakes.
LEMMA SaveFacts ==
  ASSUME CatalogShape, NEW w \in Writers, NEW range \in Stored, Save(w, range)
  PROVE  /\ WriterAt(w, "idle") /\ db' = range
         /\ writer' \in [Writers -> WriterTask]
         /\ \A v \in Writers \ {w} : writer'[v] = writer[v]
         /\ writer'[w].pc = "saved" /\ writer'[w].range = range /\ writer'[w].old = db
         /\ seen' \in [Readers -> SUBSET Stored] /\ \A r \in Readers : seen[r] \subseteq seen'[r]
         /\ disturbed \subseteq disturbed' /\ disturbed' \subseteq Entries
         /\ Updating # {} => disturbed' = Entries
         /\ \A k \in Entries, r \in Readers : Loaded(r, k) => k \in disturbed'
         /\ disordered' = (disordered \/ startup.pc = "read" \/ \E v \in Writers : WriterAt(v, "saved"))
         /\ disordered' \in BOOLEAN
         /\ UNCHANGED <<cache, reader, startup, published, faults, unsent>>
<1>1. [pc |-> "saved", range |-> range, old |-> db] \in WriterTask
  BY DEF WriterTask, CatalogShape
<1>2. writer' \in [Writers -> WriterTask] /\ writer'[w] = [pc |-> "saved", range |-> range, old |-> db]
      /\ \A v \in Writers \ {w} : writer'[v] = writer[v]
  BY <1>1 DEF Save, CatalogShape
<1>3. seen' \in [Readers -> SUBSET Stored] /\ \A r \in Readers : seen[r] \subseteq seen'[r]
  BY DEF Save, CatalogShape
<1>4. /\ disturbed \subseteq disturbed' /\ disturbed' \subseteq Entries
      /\ Updating # {} => disturbed' = Entries
      /\ \A k \in Entries, r \in Readers : Loaded(r, k) => k \in disturbed'
  BY DEF Save, CatalogShape
<1>5. /\ disordered' = (disordered \/ startup.pc = "read" \/ \E v \in Writers : WriterAt(v, "saved"))
      /\ disordered' \in BOOLEAN
  BY DEF Save
<1>6. WriterAt(w, "idle") /\ db' = range /\ UNCHANGED <<cache, reader, startup, published, faults, unsent>>
  BY DEF Save
<1>7. QED
  BY <1>2, <1>3, <1>4, <1>5, <1>6

\* An update publishes its range.
LEMMA PublishFacts ==
  ASSUME CatalogShape, NEW w \in Writers, Publish(w)
  PROVE  /\ WriterAt(w, "saved") /\ writer[w].range \in Stored /\ published' = writer[w].range
         /\ unsent' = FALSE
         /\ writer' \in [Writers -> WriterTask]
         /\ \A v \in Writers \ {w} : writer'[v] = writer[v]
         /\ writer'[w].pc = "published" /\ writer'[w].range = writer[w].range
         /\ writer'[w].old = writer[w].old
         /\ UNCHANGED <<db, cache, reader, startup, faults, seen, disturbed, disordered>>
<1>1. /\ writer[w] \in [pc : {"saved", "published"}, range : Stored, old : Stored]
      /\ WriterAt(w, "saved")
  BY WriterFacts DEF Publish, WriterAt
<1>2. PICK task : task = [writer[w] EXCEPT !.pc = "published"]
  OBVIOUS
<1>3. /\ task \in WriterTask /\ task.pc = "published" /\ task.range = writer[w].range
      /\ task.old = writer[w].old
  BY <1>1, <1>2 DEF WriterTask
<1>4. writer' = [writer EXCEPT ![w] = task]
  BY <1>2 DEF Publish
<1>5. writer' \in [Writers -> WriterTask] /\ writer'[w] = task
      /\ \A v \in Writers \ {w} : writer'[v] = writer[v]
  BY <1>3, <1>4 DEF CatalogShape
<1>6. QED
  BY <1>1, <1>3, <1>5 DEF Publish

\* Its send is lost: only the writer goes on.
LEMMA LosePublishFacts ==
  ASSUME CatalogShape, NEW w \in Writers, LosePublish(w)
  PROVE  /\ WriterAt(w, "saved") /\ unsent' = TRUE /\ faults' \in 0..MaxFaults
         /\ writer' \in [Writers -> WriterTask]
         /\ \A v \in Writers \ {w} : writer'[v] = writer[v]
         /\ writer'[w].pc = "published" /\ writer'[w].range = writer[w].range
         /\ writer'[w].old = writer[w].old
         /\ UNCHANGED <<db, cache, reader, startup, published, seen, disturbed, disordered>>
<1>1. /\ writer[w] \in [pc : {"saved", "published"}, range : Stored, old : Stored]
      /\ WriterAt(w, "saved")
  BY WriterFacts DEF LosePublish, WriterAt
<1>2. PICK task : task = [writer[w] EXCEPT !.pc = "published"]
  OBVIOUS
<1>3. /\ task \in WriterTask /\ task.pc = "published" /\ task.range = writer[w].range
      /\ task.old = writer[w].old
  BY <1>1, <1>2 DEF WriterTask
<1>4. writer' = [writer EXCEPT ![w] = task]
  BY <1>2 DEF LosePublish
<1>5. writer' \in [Writers -> WriterTask] /\ writer'[w] = task
      /\ \A v \in Writers \ {w} : writer'[v] = writer[v]
  BY <1>3, <1>4 DEF CatalogShape
<1>6. faults' \in 0..MaxFaults
  BY CatalogConstants DEF LosePublish, Fails, CatalogShape
<1>7. QED
  BY <1>1, <1>3, <1>5, <1>6 DEF LosePublish

\* An update that fails once it is stored disturbs both entries.
LEMMA UpdateFailsFacts ==
  ASSUME CatalogShape, NEW w \in Writers, UpdateFails(w)
  PROVE  /\ WriterAt(w, "saved") /\ unsent' = TRUE /\ disturbed' = Entries
         /\ faults' \in 0..MaxFaults
         /\ writer' \in [Writers -> WriterTask] /\ writer'[w].pc = "done"
         /\ \A v \in Writers \ {w} : writer'[v] = writer[v]
         /\ UNCHANGED <<db, cache, reader, startup, published, seen, disordered>>
<1>1. faults' \in 0..MaxFaults
  BY CatalogConstants DEF UpdateFails, Fails, CatalogShape
<1>2. writer' \in [Writers -> WriterTask] /\ writer'[w].pc = "done"
      /\ \A v \in Writers \ {w} : writer'[v] = writer[v]
  BY DEF UpdateFails, CatalogShape, WriterTask
<1>3. QED
  BY <1>1, <1>2 DEF UpdateFails

\* An update refreshes the entries whose command does not fail.
LEMMA RefreshFacts ==
  ASSUME CatalogShape, NEW w \in Writers, Refresh(w)
  PROVE  /\ WriterAt(w, "published") /\ writer[w].range \in Stored
         /\ writer' \in [Writers -> WriterTask] /\ writer'[w].pc = "done"
         /\ \A v \in Writers \ {w} : writer'[v] = writer[v]
         /\ faults' \in 0..MaxFaults
         /\ disturbed \subseteq disturbed' /\ disturbed' \subseteq Entries
         /\ cache' \in [Entries -> SUBSET Stored]
         /\ \A k \in Entries : cache'[k] \in {cache[k], {}, {writer[w].range}}
         /\ \A k \in Entries \ disturbed' : cache'[k] \in {{}, {writer[w].range}}
         /\ UNCHANGED <<db, reader, startup, published, seen, disordered, unsent>>
<1>1. WriterAt(w, "published") /\ writer[w].range \in Stored
  BY WriterFacts DEF Refresh, WriterAt
<1>2. PICK failed \in SUBSET Entries :
        /\ Fails(Cardinality(failed))
        /\ cache' = [k \in Entries |-> IF k \in failed THEN cache[k] ELSE Refreshed(k, writer[w].range)]
        /\ disturbed' = disturbed \cup failed
  BY DEF Refresh
<1>3. Cardinality(failed) \in Nat
  <2>1. IsFiniteSet({} \cup {"product"})
    BY FS_EmptySet, FS_AddElement
  <2>2. IsFiniteSet(({} \cup {"product"}) \cup {"products"})
    BY <2>1, FS_AddElement
  <2>3. Entries = ({} \cup {"product"}) \cup {"products"}
    BY DEF Entries
  <2>4. IsFiniteSet(Entries)
    BY <2>2, <2>3
  <2>5. IsFiniteSet(failed)
    BY <2>4, FS_Subset
  <2>6. QED
    BY <2>5, FS_CardinalityType
<1>4. faults' \in 0..MaxFaults
  BY <1>2, <1>3, CatalogConstants DEF Fails, CatalogShape
<1>5. writer' \in [Writers -> WriterTask] /\ writer'[w].pc = "done"
      /\ \A v \in Writers \ {w} : writer'[v] = writer[v]
  BY DEF Refresh, CatalogShape, WriterTask
<1>6. ASSUME NEW k \in Entries
      PROVE  /\ cache'[k] \in {cache[k], {}, {writer[w].range}}
             /\ k \notin disturbed' => cache'[k] \in {{}, {writer[w].range}}
  BY <1>2 DEF Refreshed
<1>7. cache' \in [Entries -> SUBSET Stored]
  <2>1. \A k \in Entries : cache'[k] \in SUBSET Stored
    BY <1>1, <1>6 DEF CatalogShape
  <2>2. cache' = [k \in Entries |-> cache'[k]]
    BY <1>2
  <2>3. QED
    BY <2>1, <2>2
<1>8. disturbed \subseteq disturbed' /\ disturbed' \subseteq Entries
  BY <1>2 DEF CatalogShape
<1>9. QED
  BY <1>1, <1>4, <1>5, <1>6, <1>7, <1>8 DEF Refresh

\* The start-up broadcast publishes what it has read, or its send is lost.
LEMMA PublishAllFacts ==
  ASSUME CatalogShape, PublishAll
  PROVE  /\ startup.pc = "read" /\ startup.range \in Stored /\ startup' = [pc |-> "done"]
         /\ faults' \in 0..MaxFaults
         /\ \/ unsent' = FALSE /\ published' = startup.range
            \/ unsent' = TRUE /\ published' = published
         /\ UNCHANGED <<db, cache, reader, writer, seen, disturbed, disordered>>
<1>1. startup.pc = "read" /\ startup.range \in Stored
  BY DEF PublishAll, CatalogShape, StartupTask
<1>2. faults' \in 0..MaxFaults
  BY CatalogConstants DEF PublishAll, Fails, CatalogShape
<1>3. QED
  BY <1>1, <1>2 DEF PublishAll

\* A restart ends what was under way.
LEMMA CrashFacts ==
  ASSUME CatalogShape, Crash
  PROVE  /\ reader' \in [Readers -> ReaderTask] /\ seen' \in [Readers -> SUBSET Stored]
         /\ \A r \in Readers : /\ reader'[r].pc # "loaded"
                               /\ reader'[r].pc = "got" => reader'[r] = reader[r] /\ seen'[r] = seen[r]
         /\ writer' \in [Writers -> WriterTask]
         /\ \A w \in Writers : writer'[w].pc \notin {"saved", "published"}
         /\ Updating # {} => disturbed' = Entries
         /\ disturbed \subseteq disturbed' /\ disturbed' \subseteq Entries
         /\ startup' = [pc |-> "due"] /\ faults' \in 0..MaxFaults
         /\ UNCHANGED <<db, cache, published, disordered, unsent>>
<1>1. faults' \in 0..MaxFaults
  BY CatalogConstants DEF Crash, Fails, CatalogShape
<1>2. /\ reader' \in [Readers -> ReaderTask]
      /\ \A r \in Readers : /\ reader'[r].pc # "loaded"
                            /\ reader'[r].pc = "got" => reader'[r] = reader[r] /\ ~ ReaderAt(r, "loaded")
  BY DEF Crash, CatalogShape, ReaderTask, ReaderAt, Lost
<1>3. writer' \in [Writers -> WriterTask] /\ \A w \in Writers : writer'[w].pc \notin {"saved", "published"}
  BY DEF Crash, CatalogShape, WriterTask, WriterAt, Updating
<1>4. /\ seen' \in [Readers -> SUBSET Stored]
      /\ \A r \in Readers : ~ ReaderAt(r, "loaded") => seen'[r] = seen[r]
  BY DEF Crash, CatalogShape
<1>5. /\ Updating # {} => disturbed' = Entries
      /\ disturbed \subseteq disturbed' /\ disturbed' \subseteq Entries
  BY DEF Crash, CatalogShape
<1>6. startup' = [pc |-> "due"] /\ UNCHANGED <<db, cache, published, disordered, unsent>>
  BY DEF Crash
<1>7. QED
  BY <1>1, <1>2, <1>3, <1>4, <1>5, <1>6

\* What is cached is of one range at most.
OneRange == \A k \in Entries : \E range \in Stored : cache[k] \in {{}, {range}}

\* The steps of the catalog keep its shape.
LEMMA CatalogStepShape == ASSUME CatalogShape, CatalogStep PROVE CatalogShape'
<1>0. OneRange
  BY DEF CatalogShape, OneRange
<1>1. ASSUME NEW r \in Readers, NEW k \in Entries, Hit(r, k) PROVE CatalogShape'
  <2>1. PICK value \in cache[k] \cap Stored : Reading(r, k, "got", value)
    BY <1>1, HitFacts
  <2>2. reader' \in [Readers -> ReaderTask] /\ seen' \in [Readers -> SUBSET Stored]
    BY <2>1, ReadingFacts
  <2>3. QED
    BY <1>1, <2>2, HitFacts DEF CatalogShape
<1>2. ASSUME NEW r \in Readers, NEW k \in Entries, Miss(r, k) PROVE CatalogShape'
  <2>1. reader' \in [Readers -> ReaderTask] /\ seen' \in [Readers -> SUBSET Stored]
    BY <1>2, MissFacts, ReadingFacts
  <2>2. QED
    BY <1>2, <2>1, MissFacts DEF CatalogShape
<1>3. ASSUME NEW r \in Readers, PutLoaded(r) PROVE CatalogShape'
  <2>1. cache' \in [Entries -> SUBSET Stored] /\ OneRange'
    BY <1>0, <1>3, PutLoadedFacts DEF CatalogShape, OneRange
  <2>2. QED
    BY <1>3, <2>1, PutLoadedFacts DEF CatalogShape, OneRange
<1>4. ASSUME NEW r \in Readers, Return(r) PROVE CatalogShape'
  BY <1>4, ReturnFacts DEF CatalogShape
<1>5. ASSUME NEW w \in Writers, Publish(w) PROVE CatalogShape'
  BY <1>5, PublishFacts DEF CatalogShape
<1>6. ASSUME NEW w \in Writers, LosePublish(w) \/ UpdateFails(w) PROVE CatalogShape'
  BY <1>6, LosePublishFacts, UpdateFailsFacts DEF CatalogShape
<1>7. ASSUME NEW w \in Writers, Refresh(w) PROVE CatalogShape'
  <2>1. cache' \in [Entries -> SUBSET Stored] /\ OneRange'
    BY <1>0, <1>7, RefreshFacts DEF OneRange
  <2>2. QED
    BY <1>7, <2>1, RefreshFacts DEF CatalogShape, OneRange
<1>8. ASSUME NEW w \in Writers, NEW range \in Stored, Save(w, range) PROVE CatalogShape'
  BY <1>8, SaveFacts DEF CatalogShape
<1>9. ASSUME NEW k \in Entries, Expire(k) PROVE CatalogShape'
  <2>1. cache' \in [Entries -> SUBSET Stored] /\ OneRange' /\ disturbed' \subseteq Entries
    BY <1>0, <1>9 DEF Expire, OneRange, CatalogShape
  <2>2. QED
    BY <1>9, <2>1 DEF Expire, CatalogShape, OneRange
<1>10. CASE ReadAll
  BY <1>10 DEF ReadAll, Snapshot, CatalogShape, StartupTask
<1>11. CASE PublishAll
  BY <1>11, PublishAllFacts DEF CatalogShape, StartupTask
<1>12. CASE Crash
  BY <1>12, CrashFacts DEF CatalogShape, StartupTask
<1>13. CASE UNCHANGED catalogVars
  BY <1>13 DEF catalogVars, CatalogShape
<1>14. QED
  BY <1>1, <1>2, <1>3, <1>4, <1>5, <1>6, <1>7, <1>8, <1>9, <1>10, <1>11, <1>12, <1>13
     DEF CatalogStep, ReaderStep, Background, Stored

-----------------------------------------------------------------------------
(* Reads, the cache and the topic.                                         *)

\* They keep reads among the ranges a read may give.
LEMMA CatalogStepReads ==
  ASSUME CatalogShape, ReadsSeen, \A k \in Entries \ disturbed : Calm(k), CatalogStep
  PROVE  ReadsSeen'
<1>1. ASSUME NEW r \in Readers, NEW k \in Entries, Hit(r, k) PROVE ReadsSeen'
  <2>1. PICK value \in cache[k] \cap Stored : Reading(r, k, "got", value)
    BY <1>1, HitFacts
  <2>2. value \in {db} \cup {writer[w].old : w \in Updating}
                       \cup (IF k \in disturbed THEN cache[k] ELSE {})
    BY <2>1 DEF Calm
  <2>3. QED
    BY <2>1, <2>2, ReadingFacts DEF ReadsSeen, ReaderAt
<1>2. ASSUME NEW r \in Readers, NEW k \in Entries, Miss(r, k) PROVE ReadsSeen'
  BY <1>2, MissFacts, ReadingFacts DEF ReadsSeen, ReaderAt
<1>3. ASSUME NEW r \in Readers, PutLoaded(r) PROVE ReadsSeen'
  BY <1>3, PutLoadedFacts DEF ReadsSeen, ReaderAt
<1>4. ASSUME NEW r \in Readers, Return(r) PROVE ReadsSeen'
  BY <1>4, ReturnFacts DEF ReadsSeen, ReaderAt
<1>5. ASSUME NEW w \in Writers, NEW range \in Stored, Save(w, range) PROVE ReadsSeen'
  BY <1>5, SaveFacts DEF ReadsSeen, ReaderAt
<1>6. CASE Crash
  BY <1>6, CrashFacts DEF ReadsSeen, ReaderAt
<1>7. CASE UNCHANGED <<reader, seen>>
  BY <1>7 DEF ReadsSeen, ReaderAt
<1>8. CASE \/ \E w \in Writers : Publish(w) \/ LosePublish(w) \/ UpdateFails(w) \/ Refresh(w)
           \/ \E k \in Entries : Expire(k)
           \/ ReadAll \/ PublishAll \/ UNCHANGED catalogVars
  BY <1>7, <1>8 DEF Publish, LosePublish, UpdateFails, Refresh, Expire, ReadAll, PublishAll, catalogVars
<1>9. QED
  BY <1>1, <1>2, <1>3, <1>4, <1>5, <1>6, <1>8 DEF CatalogStep, ReaderStep, Background, Stored

\* A step that leaves the product, its updates and entry k alone.
LEMMA CalmStays ==
  ASSUME CatalogShape, NEW k \in Entries, Calm(k), UNCHANGED <<db, writer>>,
         cache'[k] \subseteq cache[k] \cup {db},
         \A r \in Readers : Loaded(r, k)' => (Loaded(r, k) /\ reader'[r] = reader[r]) \/ reader'[r].value = db
  PROVE  Calm(k)'
<1>1. Updating' = Updating
  BY DEF Updating, WriterAt
<1>2. QED
  BY <1>1 DEF Calm

\* They keep an entry calm that they do not disturb.
LEMMA CatalogStepCalm ==
  ASSUME CatalogShape, \A k \in Entries \ disturbed : Calm(k), CatalogStep,
         NEW k \in Entries \ disturbed'
  PROVE  Calm(k)'
<1>1. ASSUME NEW r \in Readers, NEW e \in Entries, Hit(r, e) PROVE Calm(k)'
  <2>1. PICK value \in cache[e] \cap Stored : Reading(r, e, "got", value)
    BY <1>1, HitFacts
  <2>2. \A q \in Readers : Loaded(q, k)' => Loaded(q, k) /\ reader'[q] = reader[q]
    BY <2>1, ReadingFacts DEF Loaded, ReaderAt
  <2>3. UNCHANGED <<db, writer, cache, disturbed>>
    BY <1>1, HitFacts
  <2>4. QED
    BY <2>2, <2>3, CalmStays
<1>2. ASSUME NEW r \in Readers, NEW e \in Entries, Miss(r, e) PROVE Calm(k)'
  <2>1. Reading(r, e, "loaded", db) /\ db \in Stored /\ UNCHANGED <<db, writer, cache, disturbed>>
    BY <1>2, MissFacts
  <2>2. \A q \in Readers :
          Loaded(q, k)' => (Loaded(q, k) /\ reader'[q] = reader[q]) \/ reader'[q].value = db
    BY <2>1, ReadingFacts DEF Loaded, ReaderAt
  <2>3. QED
    BY <2>1, <2>2, CalmStays
<1>3. ASSUME NEW r \in Readers, PutLoaded(r) PROVE Calm(k)'
  <2>1. UNCHANGED <<db, writer, disturbed>> /\ Calm(k)
    BY <1>3, PutLoadedFacts
  <2>2. \A q \in Readers : Loaded(q, k)' => Loaded(q, k) /\ reader'[q] = reader[q]
    BY <1>3, PutLoadedFacts DEF Loaded, ReaderAt
  <2>3. cache'[k] \subseteq cache[k] \cup {db}
    <3>1. CASE reader[r].entry = k
      <4>1. Loaded(r, k)
        BY <1>3, <3>1, PutLoadedFacts DEF Loaded
      <4>2. reader[r].value = db
        BY <2>1, <4>1 DEF Calm
      <4>3. QED
        BY <1>3, <4>2, PutLoadedFacts DEF CatalogShape
    <3>2. CASE reader[r].entry # k
      BY <1>3, <3>2, PutLoadedFacts DEF CatalogShape
    <3>3. QED
      BY <3>1, <3>2
  <2>4. QED
    BY <2>1, <2>2, <2>3, CalmStays
<1>4. ASSUME NEW r \in Readers, Return(r) PROVE Calm(k)'
  <2>1. UNCHANGED <<db, writer, cache, disturbed>>
    BY <1>4, ReturnFacts
  <2>2. \A q \in Readers : Loaded(q, k)' => Loaded(q, k) /\ reader'[q] = reader[q]
    BY <1>4, ReturnFacts DEF Loaded, ReaderAt
  <2>3. QED
    BY <2>1, <2>2, CalmStays
<1>5. ASSUME NEW w \in Writers, Publish(w) \/ LosePublish(w) PROVE Calm(k)'
  <2>1. UNCHANGED <<db, cache, reader, disturbed>> /\ Calm(k)
    BY <1>5, PublishFacts, LosePublishFacts
  <2>2. Updating' = Updating /\ \A v \in Updating : writer'[v].range = writer[v].range /\ writer'[v].old = writer[v].old
    BY <1>5, PublishFacts, LosePublishFacts DEF Updating, WriterAt
  <2>3. QED
    BY <2>1, <2>2 DEF Calm, Loaded, ReaderAt
<1>6. ASSUME NEW w \in Writers, UpdateFails(w) PROVE Calm(k)'
  BY <1>6, UpdateFailsFacts
<1>7. ASSUME NEW w \in Writers, Refresh(w) PROVE Calm(k)'
  <2>1. /\ UNCHANGED <<db, reader>> /\ k \notin disturbed /\ Calm(k)
        /\ cache'[k] \in {{}, {writer[w].range}}
    BY <1>7, RefreshFacts
  <2>2. w \in Updating
    BY <1>7, RefreshFacts DEF Updating
  <2>3. writer[w].range = db /\ \A v \in Updating : v = w
    BY <2>1, <2>2 DEF Calm
  <2>4. Updating' = {}
    BY <1>7, <2>3, RefreshFacts DEF Updating, WriterAt
  <2>5. QED
    BY <2>1, <2>3, <2>4 DEF Calm, Loaded, ReaderAt
<1>8. ASSUME NEW w \in Writers, NEW range \in Stored, Save(w, range) PROVE Calm(k)'
  <2>1. /\ UNCHANGED <<cache, reader>> /\ k \notin disturbed /\ Updating = {} /\ Calm(k)
        /\ \A r \in Readers : ~ Loaded(r, k)
    BY <1>8, SaveFacts
  <2>2. Updating' = {w}
    BY <1>8, <2>1, SaveFacts DEF Updating, WriterAt
  <2>3. writer'[w].range = db' /\ writer'[w].old = db
    BY <1>8, SaveFacts
  <2>4. QED
    BY <2>1, <2>2, <2>3 DEF Calm, Loaded, ReaderAt
<1>9. ASSUME NEW e \in Entries, Expire(e) PROVE Calm(k)'
  <2>1. UNCHANGED <<db, writer, reader>> /\ disturbed \subseteq disturbed' \cup {e}
    BY <1>9 DEF Expire
  <2>2. CASE k \in disturbed
    <3>1. /\ k = e /\ Updating = {} /\ cache'[k] = {}
          /\ \A r \in Readers : Loaded(r, k) => reader[r].value = db
      BY <1>9, <2>2 DEF Expire, CatalogShape
    <3>2. Updating' = {}
      BY <2>1, <3>1 DEF Updating, WriterAt
    <3>3. QED
      BY <2>1, <3>1, <3>2 DEF Calm, Loaded, ReaderAt
  <2>3. CASE k \notin disturbed
    <3>1. cache'[k] \subseteq cache[k]
      BY <1>9 DEF Expire, CatalogShape
    <3>2. \A q \in Readers : Loaded(q, k)' => Loaded(q, k) /\ reader'[q] = reader[q]
      BY <2>1 DEF Loaded, ReaderAt
    <3>3. QED
      BY <2>1, <2>3, <3>1, <3>2, CalmStays
  <2>4. QED
    BY <2>2, <2>3
<1>10. CASE Crash
  <2>1. Updating = {} /\ k \notin disturbed /\ Calm(k) /\ UNCHANGED <<db, cache>>
    BY <1>10, CrashFacts
  <2>2. Updating' = {} /\ \A r \in Readers : ~ Loaded(r, k)'
    BY <1>10, CrashFacts DEF Updating, WriterAt, Loaded, ReaderAt
  <2>3. QED
    BY <2>1, <2>2 DEF Calm
<1>11. CASE ReadAll \/ PublishAll \/ UNCHANGED catalogVars
  <2>1. UNCHANGED <<db, writer, cache, reader, disturbed>>
    BY <1>11 DEF ReadAll, PublishAll, catalogVars
  <2>2. QED
    BY <2>1, CalmStays DEF Loaded, ReaderAt
<1>12. QED
  BY <1>1, <1>2, <1>3, <1>4, <1>5, <1>6, <1>7, <1>8, <1>9, <1>10, <1>11
     DEF CatalogStep, ReaderStep, Background, Stored

\* They keep publications in sequence unless they say otherwise.
LEMMA CatalogStepSequence ==
  ASSUME CatalogShape, ~ disordered => InSequence, CatalogStep, ~ disordered'
  PROVE  InSequence'
<1>1. CASE UNCHANGED <<db, writer, startup, published, disordered, unsent>>
  BY <1>1 DEF InSequence, WriterAt
<1>2. ASSUME NEW r \in Readers, ReaderStep(r) PROVE InSequence'
  <2>1. ASSUME NEW k \in Entries, Hit(r, k) \/ Miss(r, k)
        PROVE  UNCHANGED <<db, writer, startup, published, disordered, unsent>>
    BY <2>1, HitFacts, MissFacts
  <2>2. UNCHANGED <<db, writer, startup, published, disordered, unsent>>
    BY <1>2, <2>1, PutLoadedFacts, ReturnFacts DEF ReaderStep
  <2>3. QED
    BY <1>1, <2>2
<1>3. ASSUME NEW w \in Writers, Publish(w) PROVE InSequence'
  <2>1. /\ InSequence /\ WriterAt(w, "saved") /\ writer[w].range = db
        /\ \A v \in Writers : WriterAt(v, "saved") => v = w
    BY <1>3, PublishFacts DEF InSequence
  <2>2. \A v \in Writers : ~ WriterAt(v, "saved")'
    BY <1>3, <2>1, PublishFacts DEF WriterAt
  <2>3. published' = db /\ UNCHANGED <<db, startup>>
    BY <1>3, <2>1, PublishFacts
  <2>4. QED
    BY <2>1, <2>2, <2>3 DEF InSequence
<1>4. ASSUME NEW w \in Writers, LosePublish(w) \/ UpdateFails(w) PROVE InSequence'
  <2>1. UNCHANGED <<db, startup, published, disordered>> /\ InSequence /\ unsent' = TRUE
    BY <1>4, LosePublishFacts, UpdateFailsFacts
  <2>2. \A v \in Writers : WriterAt(v, "saved")' => WriterAt(v, "saved") /\ writer'[v] = writer[v]
    BY <1>4, LosePublishFacts, UpdateFailsFacts DEF WriterAt
  <2>3. QED
    BY <2>1, <2>2 DEF InSequence
<1>5. ASSUME NEW w \in Writers, Refresh(w) PROVE InSequence'
  <2>1. UNCHANGED <<db, startup, published, disordered, unsent>> /\ InSequence
    BY <1>5, RefreshFacts
  <2>2. \A v \in Writers : /\ WriterAt(v, "saved")' <=> WriterAt(v, "saved")
                           /\ WriterAt(v, "saved") => writer'[v] = writer[v]
    BY <1>5, RefreshFacts DEF WriterAt
  <2>3. QED
    BY <2>1, <2>2 DEF InSequence
<1>6. ASSUME NEW w \in Writers, NEW range \in Stored, Save(w, range) PROVE InSequence'
  <2>1. ~ disordered /\ startup.pc # "read" /\ \A v \in Writers : ~ WriterAt(v, "saved")
    BY <1>6, SaveFacts
  <2>2. /\ \A v \in Writers : WriterAt(v, "saved")' => v = w
        /\ WriterAt(w, "saved")' /\ writer'[w].range = db' /\ startup' = startup
    BY <1>6, <2>1, SaveFacts DEF WriterAt
  <2>3. QED
    BY <2>1, <2>2 DEF InSequence
<1>7. CASE ReadAll
  <2>1. UNCHANGED <<db, writer, published, unsent>> /\ InSequence /\ startup'.pc = "read" /\ startup'.range = db
    BY <1>7 DEF ReadAll, Snapshot
  <2>2. QED
    BY <2>1 DEF InSequence, WriterAt
<1>8. CASE PublishAll
  <2>1. /\ UNCHANGED <<db, writer, disordered>> /\ startup' = [pc |-> "done"]
        /\ startup.pc = "read" /\ (unsent' = TRUE \/ published' = startup.range)
    BY <1>8, PublishAllFacts
  <2>2. InSequence /\ startup'.pc = "done"
    BY <2>1
  <2>3. QED
    BY <2>1, <2>2 DEF InSequence, WriterAt
<1>9. CASE Crash
  <2>1. (\A w \in Writers : ~ WriterAt(w, "saved")') /\ startup'.pc = "due"
    BY <1>9, CrashFacts DEF WriterAt
  <2>2. QED
    BY <2>1 DEF InSequence
<1>10. CASE (\E k \in Entries : Expire(k)) \/ UNCHANGED catalogVars
  BY <1>1, <1>10 DEF Expire, catalogVars
<1>11. QED
  BY <1>2, <1>3, <1>4, <1>5, <1>6, <1>7, <1>8, <1>9, <1>10 DEF CatalogStep, Background, Stored

-----------------------------------------------------------------------------
(* Inspections.                                                            *)

\* An ambient product has no range, and every other one a valid one.
LEMMA AmbientIsNoRange == Ambient \notin Ranges /\ Stored \ {Ambient} \subseteq {r \in TemperatureRange : Valid(r)}
BY CatalogConstants DEF Stored, Ambient, Valid

\* An inspection goes on to another task, and nobody else does anything.
LEMMA InspectionMoves ==
  ASSUME ColdShape, NEW i \in Inspections, NEW task \in Inspection, insp' = [insp EXCEPT ![i] = task]
  PROVE  /\ insp' \in [Inspections -> Inspection] /\ insp'[i] = task
         /\ \A j \in Inspections \ {i} : insp'[j] = insp[j]
BY DEF ColdShape

\* The tasks an inspection goes on to.
LEMMA ColdStepTask ==
  ASSUME ColdShape, CatalogShape, NEW i \in Inspections, ColdStep(i)
  PROVE  /\ insp' \in [Inspections -> Inspection]
         /\ \A j \in Inspections \ {i} : insp'[j] = insp[j]
         /\ insp'[i].pc = "alert" => ReportDirectly(i) /\ insp[i].bad
<1>1. ASSUME NEW task \in Inspection, insp' = [insp EXCEPT ![i] = task],
             task.pc = "alert" => ReportDirectly(i) /\ insp[i].bad
      PROVE  /\ insp' \in [Inspections -> Inspection]
             /\ \A j \in Inspections \ {i} : insp'[j] = insp[j]
             /\ insp'[i].pc = "alert" => ReportDirectly(i) /\ insp[i].bad
  BY <1>1, InspectionMoves
<1>2. ASSUME End(i) PROVE /\ insp' \in [Inspections -> Inspection]
                          /\ \A j \in Inspections \ {i} : insp'[j] = insp[j]
                          /\ insp'[i].pc = "alert" => ReportDirectly(i) /\ insp[i].bad
  <2>1. Ended \in Inspection /\ Ended.pc # "alert"
    BY DEF Inspection, Ended
  <2>2. QED
    BY <1>1, <1>2, <2>1 DEF End
<1>3. CASE Inspect(i, "damage", Ambient)
  <2>1. [pc |-> "assess", kind |-> "damage", range |-> Ambient] \in Inspection
    BY DEF Inspection
  <2>2. QED
    BY <1>1, <1>3, <2>1 DEF Inspect
<1>4. ASSUME NEW p \in DOMAIN Profiles, Inspect(i, "profile", Profiles[p])
      PROVE  /\ insp' \in [Inspections -> Inspection]
             /\ \A j \in Inspections \ {i} : insp'[j] = insp[j]
             /\ insp'[i].pc = "alert" => ReportDirectly(i) /\ insp[i].bad
  <2>1. Profiles[p] \in {r \in TemperatureRange : Valid(r)}
    <3>1. p \in {"frozen", "chilled", "cool"}
      BY DEF Profiles
    <3>2. /\ Profiles["frozen"] = [min |-> -30, max |-> -18]
          /\ Profiles["chilled"] = [min |-> 0, max |-> 4]
          /\ Profiles["cool"] = [min |-> 8, max |-> 15]
      BY DEF Profiles
    <3>3. QED
      BY <3>1, <3>2 DEF TemperatureRange, Valid
  <2>2. [pc |-> "assess", kind |-> "profile", range |-> Profiles[p]] \in Inspection
    BY <2>1 DEF Inspection, Judged
  <2>3. QED
    BY <1>1, <1>4, <2>2 DEF Inspect
<1>5. CASE InspectShipment(i)
  <2>1. [pc |-> "product"] \in Inspection
    BY DEF Inspection
  <2>2. QED
    BY <1>1, <1>5, <2>1 DEF InspectShipment
<1>6. CASE UseRange(i)
  <2>1. i \in Readers /\ reader[i].value \in Stored
    BY <1>6, ReaderFacts, ColdChainConstants DEF UseRange, ReaderAt
  <2>2. CASE Usable(reader[i].value)
    <3>1. reader[i].value \in {r \in TemperatureRange : Valid(r)}
      BY <2>1, <2>2, AmbientIsNoRange DEF Usable
    <3>2. [pc |-> "assess", kind |-> "shipment", range |-> reader[i].value] \in Inspection
      BY <3>1 DEF Inspection, Judged
    <3>3. QED
      BY <1>1, <1>6, <2>2, <3>2 DEF UseRange
  <2>3. CASE ~ Usable(reader[i].value)
    BY <1>2, <1>6, <2>3 DEF UseRange
  <2>4. QED
    BY <2>2, <2>3
<1>7. CASE Assess(i)
  <2>1. PICK f \in Findings :
          insp' = [insp EXCEPT ![i] = [pc |-> "report", bad |->
            IF @.kind = "damage" THEN Damaged(f) ELSE Verdict(@.range, f) > 0]]
    BY <1>7 DEF Assess
  <2>2. PICK bad : bad = (IF insp[i].kind = "damage" THEN Damaged(f) ELSE Verdict(insp[i].range, f) > 0)
    OBVIOUS
  <2>3. bad \in BOOLEAN
    <3>1. CASE insp[i].kind = "damage"
      <4>1. bad = (f.labels > 0 \/ f.damaged)
        BY <2>2, <3>1, Zenon DEF Damaged
      <4>2. QED
        BY <4>1, SMT
    <3>2. CASE insp[i].kind # "damage"
      <4>1. PICK verdict : verdict = Verdict(insp[i].range, f)
        OBVIOUS
      <4>2. bad = (verdict > 0)
        BY <2>2, <3>2, <4>1, Zenon
      <4>3. QED
        BY <4>2, SMT
    <3>3. QED
      BY <3>1, <3>2
  <2>4. [pc |-> "report", bad |-> bad] \in Inspection
    BY <2>3 DEF Inspection
  <2>5. insp' = [insp EXCEPT ![i] = [pc |-> "report", bad |-> bad]]
    BY <2>1, <2>2
  <2>6. QED
    BY <1>1, <2>4, <2>5
<1>8. CASE ReportDirectly(i)
  <2>1. CASE Goto(i, "alert") /\ insp[i].bad
    <3>1. insp[i] \in [pc : {"report", "alert"}, bad : BOOLEAN]
      BY <1>8 DEF ReportDirectly, At, ColdShape, Inspection, Judged, Idle, Ended
    <3>2. PICK task : task = [insp[i] EXCEPT !.pc = "alert"]
      OBVIOUS
    <3>3. task \in Inspection
      BY <3>1, <3>2 DEF Inspection
    <3>4. insp' = [insp EXCEPT ![i] = task]
      BY <2>1, <3>2 DEF Goto
    <3>5. QED
      BY <1>1, <1>8, <2>1, <3>3, <3>4
  <2>2. QED
    BY <1>2, <1>8, <2>1 DEF ReportDirectly
<1>9. CASE ReportEvent(i) \/ RaiseAlert(i) \/ CallFails(i)
  BY <1>2, <1>9 DEF ReportEvent, RaiseAlert, CallFails
<1>10. QED
  BY <1>3, <1>4, <1>5, <1>6, <1>7, <1>8, <1>9 DEF ColdStep

\* The steps of an inspection keep its shape, and reports in order.
LEMMA ColdStepShape ==
  ASSUME ColdShape, CatalogShape, ReportsInOrder, NEW i \in Inspections, ColdStep(i)
  PROVE  ColdShape' /\ ReportsInOrder'
<1>1. /\ insp' \in [Inspections -> Inspection]
      /\ \A j \in Inspections \ {i} : insp'[j] = insp[j]
      /\ insp'[i].pc = "alert" => ReportDirectly(i) /\ insp[i].bad
  BY ColdStepTask
<1>2. CASE UNCHANGED Outputs /\ ~ At(i, "ended")
  <2>1. insp'[i].pc = "alert" => i \in quarantined'
    BY <1>1 DEF ReportDirectly
  <2>2. QED
    BY <1>1, <1>2, <2>1 DEF Outputs, ColdShape, ReportsInOrder, At
<1>3. CASE ReportEvent(i)
  <2>1. events[i] = 0
    BY <1>3 DEF ReportEvent, ReportsInOrder, ColdShape, At
  <2>2. events' \in [Inspections -> 0..1] /\ \A j \in Inspections \ {i} : events'[j] = events[j]
    BY <1>3, <2>1 DEF ReportEvent, ColdShape
  <2>3. insp'[i].pc = "ended"
    BY <1>3 DEF ReportEvent, End, Ended, ColdShape
  <2>4. QED
    BY <1>1, <1>3, <2>2, <2>3 DEF ReportEvent, ColdShape, ReportsInOrder, At
<1>4. CASE ReportDirectly(i)
  <2>1. ~ kafka /\ At(i, "report") /\ kafka' = kafka /\ events' = events /\ alerted' = alerted
    BY <1>4 DEF ReportDirectly
  <2>2. /\ quarantined \subseteq quarantined' /\ quarantined' \subseteq Inspections
        /\ insp[i].bad => i \in quarantined'
    BY <1>4 DEF ReportDirectly, ColdShape
  <2>3. events[i] = 0
    BY <2>1 DEF ReportsInOrder
  <2>4. QED
    BY <1>1, <2>1, <2>2, <2>3 DEF ColdShape, ReportsInOrder, At
<1>5. CASE RaiseAlert(i)
  <2>1. i \in quarantined /\ alerted' = alerted \cup {i} /\ UNCHANGED <<kafka, events, quarantined>>
    BY <1>5 DEF RaiseAlert, ReportsInOrder
  <2>2. insp'[i].pc = "ended"
    BY <1>5 DEF RaiseAlert, End, Ended, ColdShape
  <2>3. QED
    BY <1>1, <2>1, <2>2 DEF ColdShape, ReportsInOrder, At
<1>6. CASE \/ Inspect(i, "damage", Ambient)
           \/ \E p \in DOMAIN Profiles : Inspect(i, "profile", Profiles[p])
           \/ InspectShipment(i) \/ UseRange(i) \/ Assess(i) \/ CallFails(i)
  <2>1. UNCHANGED Outputs /\ ~ At(i, "ended")
    BY <1>6 DEF Inspect, InspectShipment, UseRange, Assess, CallFails, At
  <2>2. QED
    BY <1>2, <2>1
<1>7. QED
  BY <1>3, <1>4, <1>5, <1>6 DEF ColdStep

-----------------------------------------------------------------------------
(* Sums over finite sets of spots.                                         *)

\* Induction over the subsets of a finite set, by strict inclusion.
LEMMA SubsetInduction ==
  ASSUME NEW S, IsFiniteSet(S), NEW C,
         \A T \in SUBSET S : (\A U \in SUBSET T : U # T => U \in C) => T \in C
  PROVE  \A T \in SUBSET S : T \in C
<1>1. SUFFICES ASSUME (SUBSET S) \ C # {} PROVE FALSE
  OBVIOUS
<1>2. IsWellFoundedOn(StrictSubsetOrdering(S), SUBSET S)
  BY FS_StrictSubsetOrderingWellFounded, FS_FiniteSubsetsOfFinite
<1>3. PICK x \in (SUBSET S) \ C : \A y \in (SUBSET S) \ C : ~ (<<y, x>> \in StrictSubsetOrdering(S))
  <2> DEFINE D == SUBSET S
             R == StrictSubsetOrdering(S)
             B == D \ C
  <2>1. IsWellFoundedOn(R, D) /\ B \subseteq D /\ B # {}
    BY <1>1, <1>2
  <2> HIDE DEF R, D, B
  <2>2. \E x \in B : \A y \in B : ~ (<<y, x>> \in R)
    BY <2>1, WFMin
  <2>3. QED
    BY <2>2 DEF R, D, B
<1>4. ASSUME NEW U \in SUBSET x, U # x PROVE U \in C
  <2>1. U \in SUBSET S /\ <<U, x>> \in StrictSubsetOrdering(S)
    BY <1>3, <1>4 DEF StrictSubsetOrdering
  <2>2. QED
    BY <1>3, <2>1
<1>5. QED
  BY <1>3, <1>4

AreaOf(S) == MapThenSumSet(LAMBDA s : s.area, S)

Anyone(T) == CHOOSE s \in T : TRUE

\* g gives each subset of S its area, one spot after the other.
Areas(g, S) ==
  g = [T \in SUBSET S |-> IF T = {} THEN 0 ELSE Anyone(T).area + g[T \ {Anyone(T)}]]

\* The area is one of these.
LEMMA AreaIsOne ==
  ASSUME NEW S, \E g : Areas(g, S)
  PROVE \E g : Areas(g, S) /\ AreaOf(S) = g[S]
<1> DEFINE g == CHOOSE g : g = [T \in SUBSET S |-> IF T = {} THEN 0
                          ELSE (CHOOSE x \in T : TRUE).area + g[T \ {CHOOSE x \in T : TRUE}]]
<1>1. AreaOf(S) = g[S]
  BY DEF AreaOf, MapThenSumSet, MapThenFoldSet
<1>2. Areas(g, S)
  BY DEF Areas, Anyone
<1>3. QED
  BY <1>1, <1>2

\* Two of them agree on the sets that both know.
LEMMA AreasAgree ==
  ASSUME NEW S, IsFiniteSet(S), NEW R \in SUBSET S, NEW g, NEW h, Areas(g, S), Areas(h, R)
  PROVE  \A T \in SUBSET R : g[T] = h[T]
<1> DEFINE C == {T \in SUBSET R : g[T] = h[T]}
<1>1. ASSUME NEW T \in SUBSET R, \A U \in SUBSET T : U # T => U \in C PROVE T \in C
  <2>1. CASE T = {}
    BY <2>1 DEF Areas
  <2>2. CASE T # {}
    <3>1. Anyone(T) \in T
      BY <2>2 DEF Anyone
    <3>2. T \ {Anyone(T)} \in C
      BY <1>1, <3>1
    <3>3. T \in SUBSET S
      OBVIOUS
    <3>4. g[T] = Anyone(T).area + g[T \ {Anyone(T)}]
      BY <2>2, <3>3 DEF Areas
    <3>5. h[T] = Anyone(T).area + h[T \ {Anyone(T)}]
      BY <2>2 DEF Areas
    <3>6. QED
      BY <3>2, <3>4, <3>5
  <2>3. QED
    BY <2>1, <2>2
<1>2. IsFiniteSet(R)
  BY FS_Subset
<1>3. \A T \in SUBSET R : T \in C
  <2> HIDE DEF C
  <2>1. QED
    BY <1>1, <1>2, SubsetInduction
<1>4. QED
  BY <1>3

\* For a finite set there is one.
LEMMA AreasExist ==
  ASSUME NEW S, IsFiniteSet(S) PROVE \E g : Areas(g, S)
<1> DEFINE C == {R \in SUBSET S : \E g : Areas(g, R)}
<1>1. ASSUME NEW R \in SUBSET S, \A U \in SUBSET R : U # R => U \in C PROVE R \in C
  <2>0. IsFiniteSet(R)
    BY FS_Subset
  <2>1. CASE R = {}
    <3> DEFINE g == [T \in SUBSET {} |-> 0]
    <3>1. Areas(g, {})
      BY DEF Areas
    <3>2. QED
      BY <2>1, <3>1
  <2>2. CASE R # {}
    <3> DEFINE of == [U \in SUBSET R |-> CHOOSE g : Areas(g, U)]
               h == [T \in SUBSET R |-> IF T = {} THEN 0
                       ELSE Anyone(T).area + of[T \ {Anyone(T)}][T \ {Anyone(T)}]]
    <3>1. ASSUME NEW U \in SUBSET R, U # R PROVE Areas(of[U], U)
      BY <1>1, <3>1
    <3>2. ASSUME NEW U \in SUBSET R, U # R PROVE of[U][U] = h[U]
      <4>1. Areas(of[U], U)
        BY <3>1, <3>2
      <4>2. CASE U = {}
        BY <4>1, <4>2 DEF Areas
      <4>3. CASE U # {}
        <5>1. Anyone(U) \in U
          BY <4>3 DEF Anyone
        <5> DEFINE V == U \ {Anyone(U)}
        <5>2. V \in SUBSET U /\ V \in SUBSET R /\ V # R
          BY <3>2, <5>1
        <5>3. of[U][U] = Anyone(U).area + of[U][V]
          BY <4>1, <4>3 DEF Areas
        <5>4. Areas(of[V], V)
          BY <3>1, <5>2
        <5>5. IsFiniteSet(U)
          BY <2>0, FS_Subset
        <5>6. of[U][V] = of[V][V]
          <6> HIDE DEF of, V
          <6>1. V \in SUBSET V
            OBVIOUS
          <6>2. QED
            BY <4>1, <5>2, <5>4, <5>5, <6>1, AreasAgree
        <5>7. h[U] = Anyone(U).area + of[V][V]
          BY <4>3
        <5>8. QED
          BY <5>3, <5>6, <5>7
      <4>4. QED
        BY <4>2, <4>3
    <3>3. ASSUME NEW T \in SUBSET R
          PROVE  h[T] = IF T = {} THEN 0 ELSE Anyone(T).area + h[T \ {Anyone(T)}]
      <4>1. CASE T = {}
        BY <4>1
      <4>2. CASE T # {}
        <5>1. Anyone(T) \in T
          BY <4>2 DEF Anyone
        <5> DEFINE V == T \ {Anyone(T)}
        <5>2. V \in SUBSET R /\ V # R
          BY <5>1
        <5>3. of[V][V] = h[V]
          <6> HIDE DEF of, h, V
          <6>1. QED
            BY <3>2, <5>2
        <5>4. h[T] = Anyone(T).area + of[V][V]
          BY <4>2
        <5>5. QED
          BY <4>2, <5>3, <5>4
      <4>3. QED
        BY <4>1, <4>2
    <3>4. h = [T \in SUBSET R |-> h[T]]
      OBVIOUS
    <3>5. Areas(h, R)
      <4> HIDE DEF h
      <4>1. QED
        BY <3>3, <3>4 DEF Areas
    <3>6. QED
      BY <3>5
  <2>3. QED
    BY <2>1, <2>2
<1>2. \A R \in SUBSET S : R \in C
  <2> HIDE DEF C
  <2>1. QED
    BY <1>1, SubsetInduction
<1>3. QED
  BY <1>2

\* An area is a number, and that of one spot more is larger by its area.
LEMMA AreaOfMore ==
  ASSUME NEW S \in SUBSET Spot, IsFiniteSet(S), NEW g, Areas(g, S)
  PROVE  \A T \in SUBSET S : g[T] \in Nat /\ \A x \in T : g[T] = x.area + g[T \ {x}]
<1> DEFINE C == {T \in SUBSET S : g[T] \in Nat /\ \A x \in T : g[T] = x.area + g[T \ {x}]}
<1>1. ASSUME NEW T \in SUBSET S, \A U \in SUBSET T : U # T => U \in C PROVE T \in C
  <2>1. CASE T = {}
    BY <2>1 DEF Areas
  <2>2. CASE T # {}
    <3> DEFINE c == Anyone(T)
               V == T \ {c}
    <3>1. c \in T
      BY <2>2 DEF Anyone
    <3>2. g[T] = c.area + g[V]
      BY <2>2 DEF Areas
    <3>3. V \in C
      BY <1>1, <3>1
    <3>4. c.area \in Nat
      BY <3>1 DEF Spot
    <3> HIDE DEF c
    <3>5. g[T] \in Nat
      BY <3>2, <3>3, <3>4
    <3>6. ASSUME NEW x \in T PROVE g[T] = x.area + g[T \ {x}]
      <4>1. CASE x = c
        BY <3>2, <4>1
      <4>2. CASE x # c
        <5> DEFINE W == T \ {x}
                   Z == T \ {x, c}
        <5>1. x \in V /\ c \in W /\ V \ {x} = Z /\ W \ {c} = Z
          BY <3>1, <4>2
        <5>2. g[V] = x.area + g[Z]
          BY <3>3, <5>1
        <5>3. W \in C /\ Z \in C
          BY <1>1, <3>1
        <5>4. g[W] = c.area + g[Z]
          BY <5>1, <5>3
        <5>5. x.area \in Nat /\ g[Z] \in Nat
          BY <5>3 DEF Spot
        <5> HIDE DEF V, W, Z
        <5>6. g[T] = x.area + g[W]
          BY <3>2, <3>4, <5>2, <5>4, <5>5
        <5>7. QED
          BY <5>6 DEF W
      <4>3. QED
        BY <4>1, <4>2
    <3>7. QED
      BY <3>5, <3>6
  <2>3. QED
    BY <2>1, <2>2
<1>2. \A T \in SUBSET S : T \in C
  <2> HIDE DEF C
  <2>1. QED
    BY <1>1, SubsetInduction
<1>3. QED
  BY <1>2

\* More spots have no smaller area.
LEMMA AreaGrows ==
  ASSUME NEW S \in SUBSET Spot, IsFiniteSet(S), NEW R \in SUBSET S
  PROVE  AreaOf(R) \in Nat /\ AreaOf(S) \in Nat /\ AreaOf(R) <= AreaOf(S)
<1>1. PICK g : Areas(g, S) /\ AreaOf(S) = g[S]
  BY AreasExist, AreaIsOne
<1>2. IsFiniteSet(R)
  BY FS_Subset
<1>3. PICK h : Areas(h, R) /\ AreaOf(R) = h[R]
  BY <1>2, AreasExist, AreaIsOne
<1>4. g[R] = h[R]
  <2>1. R \in SUBSET R
    OBVIOUS
  <2>2. QED
    BY <1>1, <1>3, <2>1, AreasAgree
<1>5. \A T \in SUBSET S : g[T] \in Nat /\ \A x \in T : g[T] = x.area + g[T \ {x}]
  BY <1>1, AreaOfMore
<1> DEFINE C == {T \in SUBSET S : R \subseteq T => g[R] <= g[T]}
<1>6. ASSUME NEW T \in SUBSET S, \A U \in SUBSET T : U # T => U \in C PROVE T \in C
  <2>1. CASE R = T
    BY <1>5, <2>1
  <2>2. CASE R # T /\ R \subseteq T
    <3>1. PICK x \in T : x \notin R
      BY <2>2
    <3>2. T \ {x} \in C /\ R \subseteq T \ {x}
      BY <1>6, <2>2, <3>1
    <3>3. g[R] <= g[T \ {x}] /\ g[T] = x.area + g[T \ {x}] /\ T \ {x} \in SUBSET S
      BY <1>5, <3>2
    <3>4. g[R] \in Nat /\ g[T \ {x}] \in Nat /\ x.area \in Nat
      BY <1>5, <3>3 DEF Spot
    <3>5. g[R] <= g[T]
      BY <3>3, <3>4
    <3>6. QED
      BY <3>5
  <2>3. QED
    BY <2>1, <2>2
<1>7. \A T \in SUBSET S : T \in C
  <2> HIDE DEF C
  <2>1. QED
    BY <1>6, SubsetInduction
<1>8. g[R] <= g[S]
  BY <1>7
<1>9. QED
  BY <1>1, <1>3, <1>4, <1>5, <1>8

-----------------------------------------------------------------------------
(* The worst degrees, and the verdict.                                     *)

\* The values of a function on a finite set are finitely many.
LEMMA FiniteImage ==
  ASSUME NEW S, IsFiniteSet(S), NEW h PROVE IsFiniteSet({h[x] : x \in S})
<1> DEFINE f == [x \in S |-> h[x]]
           T == {h[x] : x \in S}
<1>1. f \in Surjection(S, T)
  BY DEF Surjection
<1> HIDE DEF f, T
<1>2. IsFiniteSet(T)
  BY <1>1, FS_Surjection
<1>3. QED
  BY <1>2 DEF T

\* A finite set of integers has a largest one.
LEMMA LargestExists ==
  ASSUME NEW S \in SUBSET Int, IsFiniteSet(S), S # {}
  PROVE  Max(S) \in S /\ \A y \in S : y <= Max(S)
<1> DEFINE C == {T \in SUBSET S : T # {} => \E x \in T : \A y \in T : x >= y}
<1>1. ASSUME NEW T \in SUBSET S, \A U \in SUBSET T : U # T => U \in C PROVE T \in C
  <2>1. CASE \E x \in T : T = {x}
    BY <2>1
  <2>2. CASE T # {} /\ ~ \E x \in T : T = {x}
    <3>1. PICK x \in T : TRUE
      BY <2>2
    <3> DEFINE U == T \ {x}
    <3>2. U \in C /\ U # {}
      BY <1>1, <2>2, <3>1
    <3>3. PICK z \in U : \A y \in U : z >= y
      BY <3>2
    <3>4. \A y \in T : y = x \/ y \in U
      OBVIOUS
    <3>5. z \in T /\ x \in Int /\ z \in Int /\ \A y \in T : y \in Int
      BY <3>3
    <3> HIDE DEF U
    <3>6. CASE z >= x
      BY <3>3, <3>4, <3>5, <3>6
    <3>7. CASE ~ (z >= x)
      <4>1. \A y \in T : x >= y
        BY <3>3, <3>4, <3>5, <3>7
      <4>2. QED
        BY <4>1
    <3>8. QED
      BY <3>6, <3>7
  <2>3. QED
    BY <2>1, <2>2
<1>2. \A T \in SUBSET S : T \in C
  <2> HIDE DEF C
  <2>1. QED
    BY <1>1, SubsetInduction
<1>3. S \in C
  BY <1>2
<1>4. PICK x \in S : \A y \in S : x >= y
  BY <1>3
<1>5. Max(S) \in S /\ \A y \in S : Max(S) >= y
  BY <1>4 DEF Max
<1>6. \A y \in S : y <= Max(S)
  BY <1>5
<1>7. QED
  BY <1>5, <1>6

\* What Excursion takes the worst of.
Degrees(range, f) ==
  {0} \cup {s.peak - range.max : s \in Hot(range, f)}
      \cup {range.min - s.peak : s \in Cold(range, f)}
      \cup UNION {{t - range.max, range.min - t} : t \in Outside(range, f)}

\* They are finitely many.
LEMMA DegreesAreFinite ==
  ASSUME NEW range \in TemperatureRange, NEW f \in Findings
  PROVE  /\ Degrees(range, f) \in SUBSET Int /\ IsFiniteSet(Degrees(range, f)) /\ Degrees(range, f) # {}
         /\ Excursion(range, f) = Max(Degrees(range, f))
<1>1. /\ f.spots \in SUBSET Spot /\ f.displayed \in SUBSET Int
      /\ IsFiniteSet(f.spots) /\ IsFiniteSet(f.displayed)
  BY ColdChainConstants DEF Photo
<1>2. range.min \in Int /\ range.max \in Int
  BY DEF TemperatureRange
<1> DEFINE H == {s.peak - range.max : s \in Hot(range, f)}
           L == {range.min - s.peak : s \in Cold(range, f)}
           A == {t - range.max : t \in Outside(range, f)}
           B == {range.min - t : t \in Outside(range, f)}
<1>3. Degrees(range, f) = ((({0} \cup H) \cup L) \cup A) \cup B
  BY DEF Degrees
<1>4. H \in SUBSET Int /\ L \in SUBSET Int /\ A \in SUBSET Int /\ B \in SUBSET Int
  BY <1>1, <1>2 DEF Hot, Cold, Outside, Spot
<1>5. IsFiniteSet(Hot(range, f)) /\ IsFiniteSet(Cold(range, f)) /\ IsFiniteSet(Outside(range, f))
  BY <1>1, FS_Subset DEF Hot, Cold, Outside
<1>6. IsFiniteSet(H)
  <2> DEFINE h == [s \in Hot(range, f) |-> s.peak - range.max]
  <2>1. H = {h[s] : s \in Hot(range, f)}
    OBVIOUS
  <2> HIDE DEF h, H
  <2>2. QED
    BY <1>5, <2>1, FiniteImage
<1>7. IsFiniteSet(L)
  <2> DEFINE h == [s \in Cold(range, f) |-> range.min - s.peak]
  <2>1. L = {h[s] : s \in Cold(range, f)}
    OBVIOUS
  <2> HIDE DEF h, L
  <2>2. QED
    BY <1>5, <2>1, FiniteImage
<1>8. IsFiniteSet(A)
  <2> DEFINE h == [t \in Outside(range, f) |-> t - range.max]
  <2>1. A = {h[t] : t \in Outside(range, f)}
    OBVIOUS
  <2> HIDE DEF h, A
  <2>2. QED
    BY <1>5, <2>1, FiniteImage
<1>9. IsFiniteSet(B)
  <2> DEFINE h == [t \in Outside(range, f) |-> range.min - t]
  <2>1. B = {h[t] : t \in Outside(range, f)}
    OBVIOUS
  <2> HIDE DEF h, B
  <2>2. QED
    BY <1>5, <2>1, FiniteImage
<1> HIDE DEF H, L, A, B
<1>10. IsFiniteSet({} \cup {0})
  BY FS_EmptySet, FS_AddElement
<1>11. IsFiniteSet(((({0} \cup H) \cup L) \cup A) \cup B)
  BY <1>6, <1>7, <1>8, <1>9, <1>10, FS_Union
<1>12. Excursion(range, f) = Max(Degrees(range, f))
  BY DEF Excursion, Degrees
<1>13. QED
  BY <1>3, <1>4, <1>11, <1>12

Narrower(range, wider) == wider.min <= range.min /\ range.max <= wider.max

\* A narrower range takes no spot and no display away.
LEMMA NarrowerKeeps ==
  ASSUME NEW range \in TemperatureRange, NEW wider \in TemperatureRange, Narrower(range, wider),
         NEW f \in Findings
  PROVE  /\ Hot(wider, f) \in SUBSET Hot(range, f) /\ Hot(range, f) \in SUBSET Spot
         /\ IsFiniteSet(Hot(range, f))
         /\ \A d \in Degrees(wider, f) : \E e \in Degrees(range, f) : d <= e
<1>1. f.spots \in SUBSET Spot /\ f.displayed \in SUBSET Int /\ IsFiniteSet(f.spots) /\ Tolerance \in Int
  BY ColdChainConstants DEF Photo
<1>2. range.min \in Int /\ range.max \in Int /\ wider.min \in Int /\ wider.max \in Int
  BY DEF TemperatureRange
<1>3. \A s \in f.spots : s.peak \in Int
  BY <1>1 DEF Spot
<1>4. Hot(wider, f) \in SUBSET Hot(range, f) /\ Hot(range, f) \in SUBSET Spot
  BY <1>1, <1>2, <1>3 DEF Hot, Narrower
<1>5. Cold(wider, f) \in SUBSET Cold(range, f)
  BY <1>1, <1>2, <1>3 DEF Cold, Narrower
<1>6. Outside(wider, f) \in SUBSET Outside(range, f)
  BY <1>1, <1>2 DEF Outside, Narrower
<1>7. IsFiniteSet(Hot(range, f))
  BY <1>1, FS_Subset DEF Hot
<1>8. ASSUME NEW d \in Degrees(wider, f) PROVE \E e \in Degrees(range, f) : d <= e
  <2>1. CASE d = 0
    BY <2>1 DEF Degrees
  <2>2. ASSUME NEW s \in Hot(wider, f), d = s.peak - wider.max PROVE \E e \in Degrees(range, f) : d <= e
    <3>1. s.peak - range.max \in Degrees(range, f)
      BY <1>4 DEF Degrees
    <3>2. s \in f.spots
      BY DEF Hot
    <3>3. d <= s.peak - range.max
      BY <1>2, <1>3, <2>2, <3>2 DEF Narrower
    <3>4. QED
      BY <3>1, <3>3
  <2>3. ASSUME NEW s \in Cold(wider, f), d = wider.min - s.peak PROVE \E e \in Degrees(range, f) : d <= e
    <3>1. range.min - s.peak \in Degrees(range, f)
      BY <1>5 DEF Degrees
    <3>2. s \in f.spots
      BY DEF Cold
    <3>3. d <= range.min - s.peak
      BY <1>2, <1>3, <2>3, <3>2 DEF Narrower
    <3>4. QED
      BY <3>1, <3>3
  <2>4. ASSUME NEW t \in Outside(wider, f), d \in {t - wider.max, wider.min - t}
        PROVE  \E e \in Degrees(range, f) : d <= e
    <3>1. t - range.max \in Degrees(range, f) /\ range.min - t \in Degrees(range, f)
      BY <1>6 DEF Degrees
    <3>2. t \in Int
      BY <1>1 DEF Outside
    <3>3. d <= t - range.max \/ d <= range.min - t
      BY <1>2, <2>4, <3>2 DEF Narrower
    <3>4. QED
      BY <3>1, <3>3
  <2>5. QED
    BY <2>1, <2>2, <2>3, <2>4 DEF Degrees
<1>9. QED
  BY <1>4, <1>7, <1>8

\* A verdict never gets milder by a narrower range.
LEMMA VerdictGrows ==
  ASSUME NEW range \in TemperatureRange, NEW wider \in TemperatureRange, Narrower(range, wider),
         NEW f \in Findings
  PROVE  Verdict(wider, f) <= Verdict(range, f)
<1>1. /\ Hot(wider, f) \in SUBSET Hot(range, f) /\ Hot(range, f) \in SUBSET Spot
      /\ IsFiniteSet(Hot(range, f))
      /\ \A d \in Degrees(wider, f) : \E e \in Degrees(range, f) : d <= e
  BY NarrowerKeeps
<1>2. HotArea(wider, f) \in Nat /\ HotArea(range, f) \in Nat /\ HotArea(wider, f) <= HotArea(range, f)
  BY <1>1, AreaGrows DEF HotArea, AreaOf
<1>3. ASSUME NEW any \in TemperatureRange
      PROVE  Excursion(any, f) \in Degrees(any, f) /\ \A d \in Degrees(any, f) : d \in Int /\ d <= Excursion(any, f)
  BY DegreesAreFinite, LargestExists
<1>4. Excursion(wider, f) \in Int /\ Excursion(range, f) \in Int /\ Excursion(wider, f) <= Excursion(range, f)
  <2>1. PICK e \in Degrees(range, f) : Excursion(wider, f) <= e
    BY <1>1, <1>3
  <2>2. e \in Int /\ e <= Excursion(range, f) /\ Excursion(wider, f) \in Int /\ Excursion(range, f) \in Int
    BY <1>3
  <2>3. QED
    BY <2>1, <2>2
<1>5. Signs(f) \in Nat
  BY ColdChainConstants DEF Photo, Signs
<1> DEFINE a == HotArea(wider, f)
           b == HotArea(range, f)
           d == Excursion(wider, f)
           e == Excursion(range, f)
           n == Signs(f)
<1>6. a \in Nat /\ b \in Nat /\ a <= b /\ d \in Int /\ e \in Int /\ d <= e /\ n \in Nat
  BY <1>2, <1>4, <1>5
<1>7. /\ Verdict(wider, f) = IF d > 0 \/ n > 0 THEN Severity(a, d, n) ELSE 0
      /\ Verdict(range, f) = IF e > 0 \/ n > 0 THEN Severity(b, e, n) ELSE 0
  BY DEF Verdict
<1> HIDE DEF a, b, d, e, n
<1>8. QED
  BY <1>6, <1>7 DEF Severity

-----------------------------------------------------------------------------
(* The theorems.                                                           *)

\* Nothing is cached, read or published at first.
LEMMA InitInv == Init => ColdInv
<1> SUFFICES ASSUME Init PROVE ColdInv
  OBVIOUS
<1>1. CatalogShape
  <2>1. db \in Stored /\ published \in Stored
    BY DEF Init, CatalogInit, Stored
  <2>2. /\ cache \in [Entries -> SUBSET Stored]
        /\ \A k \in Entries : \E range \in Stored : cache[k] \in {{}, {range}}
    BY <2>1 DEF Init, CatalogInit
  <2>3. /\ reader \in [Readers -> ReaderTask] /\ writer \in [Writers -> WriterTask]
        /\ startup \in StartupTask /\ seen \in [Readers -> SUBSET Stored]
    BY DEF Init, CatalogInit, ReaderTask, WriterTask, StartupTask
  <2>4. disturbed \subseteq Entries /\ disordered \in BOOLEAN /\ faults \in 0..MaxFaults /\ unsent \in BOOLEAN
    <3>1. disturbed = {} /\ disordered = FALSE /\ faults = 0 /\ unsent = FALSE
      BY DEF Init, CatalogInit
    <3>2. MaxFaults \in Nat
      BY CatalogConstants
    <3>3. disturbed \subseteq Entries /\ faults \in 0..MaxFaults
      BY <3>1, <3>2
    <3>4. disordered \in BOOLEAN /\ unsent \in BOOLEAN
      BY <3>1, Zenon
    <3>5. QED
      BY <3>3, <3>4
  <2>5. QED
    BY <2>1, <2>2, <2>3, <2>4 DEF CatalogShape
<1>2. /\ \A r \in Readers : reader[r].pc = "idle"
      /\ \A w \in Writers : writer[w].pc = "idle"
      /\ startup.pc = "due" /\ \A k \in Entries : cache[k] = {}
  BY DEF Init, CatalogInit, Idle
<1>3. ReadsSeen /\ InSequence
  BY <1>2 DEF ReadsSeen, InSequence, ReaderAt, WriterAt
<1>4. \A k \in Entries : Calm(k)
  BY <1>2 DEF Calm, Updating, Loaded, ReaderAt, WriterAt
<1>5. ColdShape
  BY DEF Init, ColdShape, Inspection
<1>6. ReportsInOrder
  BY DEF Init, ReportsInOrder, At, Idle
<1>7. QED
  BY <1>1, <1>3, <1>4, <1>5, <1>6 DEF ColdInv

\* Every step keeps the invariant.
LEMMA NextInv == ColdInv /\ [Next]_vars => ColdInv'
<1> SUFFICES ASSUME ColdInv, [Next]_vars PROVE ColdInv'
  OBVIOUS
<1>1. CatalogStep /\ (UNCHANGED coldVars \/ \E i \in Inspections : ColdStep(i))
  BY StepParts
<1>2. CatalogShape' /\ ReadsSeen'
  BY <1>1, CatalogStepShape, CatalogStepReads DEF ColdInv
<1>3. ASSUME NEW k \in Entries \ disturbed' PROVE Calm(k)'
  BY <1>1, <1>3, CatalogStepCalm DEF ColdInv
<1>4. ASSUME ~ disordered' PROVE InSequence'
  BY <1>1, <1>4, CatalogStepSequence DEF ColdInv
<1>5. ColdShape' /\ ReportsInOrder'
  <2>1. CASE UNCHANGED coldVars
    BY <2>1 DEF ColdInv, coldVars, ColdShape, ReportsInOrder, At
  <2>2. QED
    BY <1>1, <2>1, ColdStepShape DEF ColdInv
<1>6. \A k \in Entries \ disturbed' : Calm(k)'
  BY <1>3
<1>7. QED
  BY <1>2, <1>4, <1>5, <1>6 DEF ColdInv, Entries

\* Caches, publications and reports are in step throughout.
THEOREM Invariant == Spec => []ColdInv
BY InitInv, NextInv, PTL DEF Spec

\* The catalog and the inspections keep their shape, and no goods are judged by
\* the range of an ambient product.
THEOREM TypeInvariant == Spec => []TypeOK
<1>1. ColdInv => TypeOK
  <2> SUFFICES ASSUME ColdInv PROVE TypeOK
    OBVIOUS
  <2>1. CatalogTypeOK
    BY DEF ColdInv, CatalogShape, CatalogTypeOK, Stored
  <2>2. ASSUME NEW i \in Inspections
        PROVE  /\ insp[i].pc \in {"idle", "product", "assess", "report", "alert", "ended"}
               /\ At(i, "assess") => Valid(insp[i].range) \/ insp[i].kind = "damage"
    <3>1. insp[i] \in Inspection
      BY DEF ColdInv, ColdShape
    <3>2. CASE insp[i] \in Judged
      BY <3>2 DEF Judged
    <3>3. CASE insp[i] \notin Judged
      BY <3>1, <3>3 DEF Inspection, Idle, Ended, At
    <3>4. QED
      BY <3>2, <3>3
  <2>3. QED
    BY <2>1, <2>2 DEF ColdInv, ColdShape, TypeOK
<1>2. QED
  BY <1>1, Invariant, PTL

\* A read answers with a range the product had, unless its entry was disturbed.
THEOREM CurrentReads == Spec => []ReadsAreCurrent
<1>1. ColdInv => ReadsAreCurrent
  BY DEF ColdInv, ReadsSeen, ReadsAreCurrent
<1>2. QED
  BY <1>1, Invariant, PTL

\* The topic comes to what is stored, restarts included.
THEOREM TopicAgreement == Spec => []PublishedIsStored
<1>1. ColdInv => PublishedIsStored
  BY DEF ColdInv, InSequence, PublishedIsStored
<1>2. QED
  BY <1>1, Invariant, PTL

\* No alert without a quarantine, and one way of reporting only.
THEOREM QuarantineBeforeAlert == Spec => []AlertedIsQuarantined
<1>1. ColdInv => AlertedIsQuarantined
  BY DEF ColdInv, ReportsInOrder, AlertedIsQuarantined
<1>2. QED
  BY <1>1, Invariant, PTL

\* No goods are judged more mildly than by a wider range would have been.
THEOREM StricterWhenNarrower == Spec => []NarrowerIsStricter
<1>1. ColdInv => NarrowerIsStricter
  <2> SUFFICES ASSUME ColdInv, NEW i \in Inspections, At(i, "assess"),
                      NEW wider \in Ranges, NEW f \in Findings, Narrower(insp[i].range, wider)
               PROVE  Verdict(wider, f) <= Verdict(insp[i].range, f)
    BY DEF NarrowerIsStricter, Narrower
  <2>1. insp[i] \in Inspection /\ insp[i].pc = "assess"
    BY DEF ColdInv, ColdShape, At
  <2>3. insp[i].range \in TemperatureRange
    <3>1. Ambient \in TemperatureRange
      BY DEF Ambient, TemperatureRange
    <3>2. CASE insp[i] \in Judged
      BY <3>2 DEF Judged
    <3>3. CASE insp[i] \in [pc : {"assess"}, kind : {"damage"}, range : {Ambient}]
      BY <3>1, <3>3
    <3>4. QED
      BY <2>1, <3>2, <3>3 DEF Inspection, Idle, Ended
  <2>4. wider \in TemperatureRange
    BY CatalogConstants
  <2>5. QED
    BY <2>3, <2>4, VerdictGrows
<1>2. QED
  BY <1>1, Invariant, PTL

=============================================================================
