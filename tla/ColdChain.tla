------------------------------ MODULE ColdChain ------------------------------
(***************************************************************************)
(* Photo inspections of the AI service: a damage inspection, or a          *)
(* cold-chain inspection against a profile of the request or the range of  *)
(* the shipment's product in the catalog.  A bad result quarantines the    *)
(* shipment, through Kafka or, where Kafka is off, by calling the          *)
(* services.  Each inspection is of a shipment of its own; what is seen in *)
(* a photo is one of a set of findings.                                    *)
(*                                                                         *)
(*   product -> assess -> report -> alert                                  *)
(***************************************************************************)
EXTENDS CatalogService, FiniteSetsExt

CONSTANTS
  Inspections,  \* inspection requests, which read the product as readers
  Findings,     \* what photos show
  Tolerance,    \* thermal_tolerance_c
  MinArea       \* thermal_min_spot_pct

\* A spot of a thermal frame, and what a photo shows: spots, temperatures on
\* displays, an indicator, and how much of the rest the model and the detector saw.
Spot == [peak: Int, area: Nat]
Photo == [spots: SUBSET Spot, displayed: SUBSET Int, triggered: BOOLEAN, flags: Nat, labels: Nat, damaged: BOOLEAN]

ASSUME ColdChainConstants ==
  /\ Inspections \subseteq Readers
  /\ Findings \subseteq Photo
  /\ \A f \in Findings : IsFiniteSet(f.spots) /\ IsFiniteSet(f.displayed)
  /\ Tolerance \in Int

VARIABLES
  kafka,        \* events.enabled()
  insp,
  events,       \* the results on the vision topic
  quarantined,  \* shipments set to DAMAGED by a call
  alerted       \* shipments an alert was raised for by a call

coldVars == <<kafka, insp, events, quarantined, alerted>>
vars == <<catalogVars, coldVars>>

Profiles == [frozen |-> [min |-> -30, max |-> -18], chilled |-> [min |-> 0, max |-> 4],
             cool |-> [min |-> 8, max |-> 15]]

-----------------------------------------------------------------------------
(* The verdict.  Findings of a thermal frame are spots, each with the       *)
(* temperature of its peak and its share of the frame; of a photo, labels   *)
(* the detector found; of the model, displayed temperatures, an indicator   *)
(* and how many of frost, condensation and spoilage it saw.                 *)

Hot(range, f) == {s \in f.spots : s.peak > range.max + Tolerance /\ s.area >= MinArea}
Cold(range, f) == {s \in f.spots : s.peak < range.min - Tolerance /\ s.area >= MinArea}
Outside(range, f) == {t \in f.displayed : t < range.min \/ t > range.max}

\* The worst degrees outside the range, from any source.
Excursion_HotFirst(range, f) ==
  Max({0} \cup (IF Hot(range, f) # {} THEN {s.peak - range.max : s \in Hot(range, f)}
                ELSE {range.min - s.peak : s \in Cold(range, f)})
          \cup UNION {{t - range.max, range.min - t} : t \in Outside(range, f)})
Excursion(range, f) ==
  Max({0} \cup {s.peak - range.max : s \in Hot(range, f)}
          \cup {range.min - s.peak : s \in Cold(range, f)}
          \cup UNION {{t - range.max, range.min - t} : t \in Outside(range, f)})

HotArea(range, f) == MapThenSumSet(LAMBDA s : s.area, Hot(range, f))
Signs(f) == f.labels + (IF f.triggered THEN 2 ELSE 0) + f.flags

\* _severity, as 1 for minor to 3 for critical; 0 is none.
Severity(area, excursion, signs) ==
  IF excursion >= 5 \/ area >= 10 THEN 3
  ELSE IF excursion >= 2 \/ area >= 2 \/ signs >= 2 THEN 2
  ELSE 1

Verdict(range, f) ==
  IF Excursion(range, f) > 0 \/ Signs(f) > 0
  THEN Severity(HotArea(range, f), Excursion(range, f), Signs(f))
  ELSE 0

\* vision.inspect: damaged goods, by the detector or by the model.
Damaged(f) == f.labels > 0 \/ f.damaged

-----------------------------------------------------------------------------

At(i, pc) == insp[i].pc = pc
Ended == [pc |-> "ended"]
Goto(i, pc) == insp' = [insp EXCEPT ![i].pc = pc]
End(i) == insp' = [insp EXCEPT ![i] = Ended]

Init ==
  /\ CatalogInit
  /\ kafka \in BOOLEAN
  /\ insp = [i \in Inspections |-> Idle]
  /\ events = [i \in Inspections |-> 0]
  /\ quarantined = {} /\ alerted = {}

Outputs == <<kafka, events, quarantined, alerted>>

\* POST /ai/vision/inspect, or /ai/vision/cold-chain with a profile.
Inspect(i, kind, range) ==
  /\ At(i, "idle")
  /\ insp' = [insp EXCEPT ![i] = [pc |-> "assess", kind |-> kind, range |-> range]]
  /\ UNCHANGED <<catalogVars, Outputs>>

\* /ai/vision/cold-chain without one: profile_for_shipment looks up the
\* shipment, its order and the product, which may not be found.
InspectShipment(i) ==
  /\ At(i, "idle")
  /\ insp' = [insp EXCEPT ![i] = [pc |-> "product"]]
  /\ UNCHANGED <<catalogVars, Outputs>>

GetProduct(i) ==
  /\ At(i, "product")
  /\ Hit(i, "product") \/ Miss(i, "product")
  /\ UNCHANGED coldVars

\* A product without a range cannot be inspected without a profile.
Usable_Any(range) == TRUE
Usable(range) == range # Ambient
UseRange(i) ==
  /\ At(i, "product") /\ ReaderAt(i, "got") /\ Return(i)
  /\ IF Usable(reader[i].value)
     THEN insp' = [insp EXCEPT ![i] = [pc |-> "assess", kind |-> "shipment", range |-> reader[i].value]]
     ELSE End(i)
  /\ UNCHANGED Outputs

\* inspect, with the model's answer; only what is bad is kept of a result.
Assess(i) ==
  /\ At(i, "assess")
  /\ \E f \in Findings :
       insp' = [insp EXCEPT ![i] = [pc |-> "report", bad |->
         IF @.kind = "damage" THEN Damaged(f) ELSE Verdict(@.range, f) > 0]]
  /\ UNCHANGED <<catalogVars, Outputs>>

\* _report_inspection, _report_cold_chain: every result is published.
ReportEvent(i) ==
  /\ kafka /\ At(i, "report")
  /\ events' = [events EXCEPT ![i] = @ + 1]
  /\ End(i)
  /\ UNCHANGED <<catalogVars, kafka, quarantined, alerted>>

\* Without Kafka: first the status, then the alert, and only for a bad result.
\* The answer of the first call may be lost.
ReportDirectly_AlertFirst(i) ==
  /\ ~ kafka /\ At(i, "report")
  /\ IF insp[i].bad THEN alerted' = alerted \cup {i} /\ (Goto(i, "alert") \/ End(i))
     ELSE End(i) /\ UNCHANGED alerted
  /\ UNCHANGED <<catalogVars, kafka, events, quarantined>>
ReportDirectly(i) ==
  /\ ~ kafka /\ At(i, "report")
  /\ IF insp[i].bad THEN quarantined' = quarantined \cup {i} /\ (Goto(i, "alert") \/ End(i))
     ELSE End(i) /\ UNCHANGED quarantined
  /\ UNCHANGED <<catalogVars, kafka, events, alerted>>

RaiseAlert(i) ==
  /\ At(i, "alert")
  /\ alerted' = alerted \cup {i}
  /\ End(i)
  /\ UNCHANGED <<catalogVars, kafka, events, quarantined>>

\* A call raises: the request ends with an error, and what it has done stays.
CallFails(i) ==
  /\ insp[i].pc \in {"product", "assess", "report", "alert"} /\ reader[i] \in {Idle, Lost}
  /\ End(i)
  /\ UNCHANGED <<catalogVars, Outputs>>

-----------------------------------------------------------------------------

InspectionStep(i) ==
  \/ GetProduct(i) \/ UseRange(i) \/ Assess(i)
  \/ ReportEvent(i) \/ ReportDirectly(i) \/ RaiseAlert(i) \/ CallFails(i)

Next ==
  \/ \E i \in Inspections : Inspect(i, "damage", Ambient)
  \/ \E i \in Inspections, p \in DOMAIN Profiles : Inspect(i, "profile", Profiles[p])
  \/ \E i \in Inspections : InspectShipment(i) \/ InspectionStep(i)
  \/ \E r \in Readers \ Inspections, k \in Entries : (Hit(r, k) \/ Miss(r, k) \/ Return(r)) /\ UNCHANGED coldVars
  \/ \E r \in Readers : PutLoaded(r) /\ UNCHANGED coldVars
  \/ Background /\ UNCHANGED coldVars

Spec == Init /\ [][Next]_vars
-----------------------------------------------------------------------------
(* Properties.                                                             *)

\* The shape of the state; no goods are judged by the range of an ambient product.
TypeOK ==
  /\ CatalogTypeOK
  /\ kafka \in BOOLEAN
  /\ \A i \in Inspections :
       /\ insp[i].pc \in {"idle", "product", "assess", "report", "alert", "ended"}
       /\ At(i, "assess") => Valid(insp[i].range) \/ insp[i].kind = "damage"
  /\ events \in [Inspections -> 0..1]
  /\ quarantined \subseteq Inspections

\* The same findings are never milder for goods with a narrower range: no
\* evidence of one source hides that of another.
NarrowerIsStricter ==
  \A i \in Inspections :
    At(i, "assess") =>
      \A wider \in Ranges, f \in Findings :
        wider.min <= insp[i].range.min /\ insp[i].range.max <= wider.max =>
          Verdict(wider, f) <= Verdict(insp[i].range, f)

\* An alert is raised only for a shipment that was quarantined, and a result
\* takes one of the two ways, whichever calls fail.
AlertedIsQuarantined ==
  /\ alerted \subseteq quarantined
  /\ kafka => quarantined = {}
  /\ ~ kafka => \A i \in Inspections : events[i] = 0

=============================================================================
