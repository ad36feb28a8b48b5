---------------------------- MODULE DoorDetector ----------------------------
(***************************************************************************)
(* The debounced door state of dock_doors.py, and what a recorded clip is  *)
(* reported to contain.  A frame is the time it was taken and whether the  *)
(* door region differs enough from the closed door to look open; how       *)
(* pixels are compared is left out.  Times are from 1; 0 stands for None.  *)
(***************************************************************************)
EXTENDS Naturals, Sequences, FiniteSets

CONSTANTS
  Debounce,     \* dock_door_debounce_s: how long a state must hold
  MaxOpen       \* max_open_s: an opening longer than this is a violation

ASSUME DetectorConstants == Debounce \in Nat \ {0} /\ MaxOpen \in Nat

Frame == [t: Nat, looks: BOOLEAN]
Detector == [open: BOOLEAN, seen: Nat]
ClosedDoor == [open |-> FALSE, seen |-> 0]

\* When the change that the frame at t shows was first seen.
ChangeBegan(det, t) == IF det.seen = 0 THEN t ELSE det.seen

Flips(det, looks, t) == looks # det.open /\ t - ChangeBegan(det, t) >= Debounce

\* DoorDetector.update: a frame that looks like the current state forgets the
\* pending change.
Update_KeepsCandidate(det, looks, t) ==
  IF looks = det.open THEN det
  ELSE IF Flips(det, looks, t) THEN [open |-> looks, seen |-> 0]
  ELSE [det EXCEPT !.seen = ChangeBegan(det, t)]
Update(det, looks, t) ==
  IF looks = det.open THEN [det EXCEPT !.seen = 0]
  ELSE IF Flips(det, looks, t) THEN [open |-> looks, seen |-> 0]
  ELSE [det EXCEPT !.seen = ChangeBegan(det, t)]

-----------------------------------------------------------------------------
(* analyze_frames: the open intervals of a clip.                           *)

OpenInterval == [start: Nat, end: Nat, ongoing: BOOLEAN]
Duration(interval) == interval.end - interval.start
Violates(interval) == Duration(interval) > MaxOpen

Scanned(s, f) ==
  LET det == Update(s.det, f.looks, f.t)
      began == ChangeBegan(s.det, f.t)
  IN
  IF det.open = s.det.open THEN [s EXCEPT !.det = det]
  ELSE IF det.open THEN [s EXCEPT !.det = det, !.openedAt = began]
  ELSE [det |-> det, openedAt |-> 0,
        intervals |-> Append(s.intervals, [start |-> s.openedAt, end |-> began, ongoing |-> FALSE])]

Scan(frames) ==
  LET scan[i \in 0..Len(frames)] ==
        IF i = 0 THEN [det |-> ClosedDoor, openedAt |-> 0, intervals |-> <<>>]
        ELSE Scanned(scan[i - 1], frames[i])
  IN scan[Len(frames)]

\* DoorReport.open_intervals; a door that is open at the end gets an interval
\* up to the last frame.
Report(frames) ==
  LET s == Scan(frames) IN
  IF s.det.open
  THEN Append(s.intervals, [start |-> s.openedAt, end |-> frames[Len(frames)].t, ongoing |-> TRUE])
  ELSE s.intervals

Violations(report) == Cardinality({i \in DOMAIN report : Violates(report[i])})

\* analyze(..., raise_alerts): one alert for the clip, however many violations.
ClipAlerts(report) == IF Violations(report) > 0 THEN 1 ELSE 0

-----------------------------------------------------------------------------
(* What the report should say, by definition.  A change of the picture     *)
(* counts from its first frame if the picture then keeps for the debounce  *)
(* time; the door is open from an open change to the next closed one.      *)

Lasting(frames, looks) ==
  {i \in DOMAIN frames :
     /\ i = 1 \/ frames[i - 1].looks # looks
     /\ \E k \in i..Len(frames) :
          /\ \A n \in i..k : frames[n].looks = looks
          /\ frames[k].t - frames[i].t >= Debounce}

Openings(frames) ==
  LET opens == Lasting(frames, TRUE)
      closes == Lasting(frames, FALSE)
      next(i) == {k \in closes : k > i}
  IN
  {IF next(i) = {} THEN [start |-> frames[i].t, end |-> frames[Len(frames)].t, ongoing |-> TRUE]
   ELSE [start |-> frames[i].t, ongoing |-> FALSE,
         end |-> frames[CHOOSE k \in next(i) : \A n \in next(i) : k <= n].t] :
   i \in {k \in opens : \A j \in opens : j < k => \E n \in closes : j < n /\ n < k}}

=============================================================================
