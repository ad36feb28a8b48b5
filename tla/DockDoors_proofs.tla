-------------------------- MODULE DockDoors_proofs --------------------------
(***************************************************************************)
(* Proofs about the live door monitors and the reports on clips, for any   *)
(* sets of doors and any bounds and limits.                                *)
(*                                                                         *)
(* OneMonitorPerDoor speaks of the stop flags, and start_monitor of the    *)
(* statuses.  What ties them is that only a monitor that was told to stop  *)
(* shows as stopped: of the rest, the limits hold because they are among   *)
(* the monitors that start_monitor counts.  The converse does not hold,    *)
(* and is not needed: a thread that was told to stop may show as running.  *)
(*                                                                         *)
(* The report on a clip is right by induction on its frames: what the scan *)
(* holds after each frame (RightOf) is where the pending change began,     *)
(* which opening is at hand, and which have ended.  A monitor is at every  *)
(* time where the scan of its frames is (Follows), from which its alerts   *)
(* can be counted (Alerts).                                                *)
(***************************************************************************)
EXTENDS DockDoors, FiniteSetTheorems, TLAPS

-----------------------------------------------------------------------------
(* The inductive invariant.                                                *)

\* A monitor that was not told to stop goes on, and shows it.
UnstoppedGoesOn ==
  \A m \in Unstopped : monitor[m].status # "stopped" /\ monitor[m].pc # "ended"

\* Alerts under way are those of monitors that were started.
OnlyMonitorsAlert == \A m \in Monitors : pending[m] > 0 => Exists(m)

DoorInv == TypeOK /\ UnstoppedGoesOn /\ OneMonitorPerDoor /\ OnlyMonitorsAlert

-----------------------------------------------------------------------------
(* The shape of a monitor.                                                 *)

\* A monitor in which openSince is set while the door is open.
Sound(mon) == mon \in Monitor /\ (mon.openSince > 0 <=> mon.doorOpen)

\* A monitor that was started has the fields of one.
LEMMA StartedMonitor == ASSUME TypeOK, NEW m \in Monitors, Exists(m) PROVE Sound(monitor[m])
BY DEF TypeOK, Exists, Sound

\* A record with a monitor's fields is not the mark of a missing one.
LEMMA MonitorIsPresent == ASSUME NEW mon \in Monitor PROVE mon # Absent
BY DEF Monitor, Absent, Status

\* Replacing a monitor by a sound one keeps the shape of all.
LEMMA ReplacedType ==
  ASSUME TypeOK, NEW m \in Monitors, NEW mon, Sound(mon), monitor' = [monitor EXCEPT ![m] = mon]
  PROVE  /\ monitor' \in [Monitors -> Monitor \cup {Absent}]
         /\ \A n \in Monitors : Exists(n)' => (monitor'[n].openSince > 0 <=> monitor'[n].doorOpen)
BY DEF TypeOK, Sound, Exists

\* The detector keeps its shape: the candidate's time is a time.
LEMMA UpdateType ==
  ASSUME NEW det \in Detector, NEW looks \in BOOLEAN, NEW t \in Nat
  PROVE  Update(det, looks, t) \in Detector
BY DEF Update, Flips, ChangeBegan, Detector

\* A monitor whose door is found open is a monitor.
LEMMA OpenedMonitor ==
  ASSUME NEW mon \in Monitor, NEW det \in Detector, NEW since \in Nat, NEW n \in Nat
  PROVE  [mon EXCEPT !.det = det, !.doorOpen = TRUE, !.openSince = since, !.openings = n,
                     !.alerted = FALSE] \in Monitor
BY DEF Monitor

\* What a frame changes in a monitor leaves it sound: times start at 1.
LEMMA ObservedSound ==
  ASSUME NEW mon, Sound(mon), NEW det \in Detector, NEW t \in Nat \ {0}
  PROVE  /\ Sound(Observed(mon, det, t))
         /\ Observed(mon, det, t).door = mon.door
         /\ Observed(mon, det, t).stop = mon.stop
         /\ Observed(mon, det, t).status = mon.status
<1>1. ChangeBegan(mon.det, t) \in Nat /\ ChangeBegan(mon.det, t) > 0
  BY DEF ChangeBegan, Sound, Monitor, Detector
<1>2. mon \in Monitor
  BY DEF Sound
<1>3. CASE det.open = mon.det.open
  BY <1>2, <1>3 DEF Observed, Sound, Monitor
<1>4. CASE det.open # mon.det.open /\ det.open
  <2> DEFINE new == [mon EXCEPT !.det = det, !.doorOpen = TRUE,
                     !.openSince = ChangeBegan(mon.det, t), !.openings = @ + 1, !.alerted = FALSE]
  <2>1. Observed(mon, det, t) = new
    BY <1>4, Zenon DEF Observed
  <2>2. mon.openings + 1 \in Nat
    BY <1>2 DEF Monitor
  <2>3. new \in Monitor
    BY <1>1, <1>2, <2>2, OpenedMonitor
  <2>4. /\ new.doorOpen = TRUE /\ new.openSince = ChangeBegan(mon.det, t)
        /\ new.door = mon.door /\ new.stop = mon.stop /\ new.status = mon.status
    BY <1>1, <1>2 DEF Monitor
  <2> HIDE DEF new
  <2>5. QED
    BY <1>1, <2>1, <2>3, <2>4 DEF Sound
<1>5. CASE det.open # mon.det.open /\ ~ det.open
  <2> DEFINE new == [mon EXCEPT !.det = det, !.doorOpen = FALSE, !.openSince = 0]
  <2>1. Observed(mon, det, t) = new
    BY <1>5 DEF Observed
  <2>2. new \in Monitor
    BY <1>2 DEF Monitor
  <2>3. /\ new.doorOpen = FALSE /\ new.openSince = 0
        /\ new.door = mon.door /\ new.stop = mon.stop /\ new.status = mon.status
    BY <1>2 DEF Monitor
  <2> HIDE DEF new
  <2>4. QED
    BY <2>1, <2>2, <2>3 DEF Sound
<1>6. QED
  BY <1>3, <1>4, <1>5 DEF Detector, Sound, Monitor

-----------------------------------------------------------------------------
(* What a step does to the monitors.                                       *)

\* Monitor m becomes mon: the same door, no order to stop taken back, and it
\* shows as stopped or has ended only if it was told to stop.
Becomes(m, mon) ==
  /\ Exists(m)
  /\ monitor' = [monitor EXCEPT ![m] = mon]
  /\ Sound(mon)
  /\ mon.door = monitor[m].door
  /\ monitor[m].stop => mon.stop
  /\ ~ mon.stop => mon.status # "stopped" /\ mon.pc # "ended"

\* A step of a thread, and an order to stop, turn one monitor into another.
LEMMA GotoBecomes ==
  ASSUME DoorInv, NEW m \in Monitors, Exists(m),
         NEW pc \in {"connect", "opening", "frame", "reading", "ended"}, NEW status \in Status,
         Goto(m, pc, status),
         ~ monitor[m].stop => status # "stopped" /\ pc # "ended"
  PROVE  \E mon : Becomes(m, mon)
<1> DEFINE mon == [monitor[m] EXCEPT !.pc = pc, !.status = status]
<1>1. Sound(monitor[m])
  BY StartedMonitor DEF DoorInv
<1>2. Sound(mon) /\ mon.door = monitor[m].door /\ mon.stop = monitor[m].stop
      /\ mon.status = status /\ mon.pc = pc
  BY <1>1 DEF Sound, Monitor
<1>3. monitor' = [monitor EXCEPT ![m] = mon]
  BY DEF Goto
<1>4. Becomes(m, mon)
  BY <1>2, <1>3 DEF Becomes
<1>5. QED
  BY <1>4

\* The steps of a thread between two frames.
LEMMA ThreadBecomes ==
  ASSUME DoorInv, NEW m \in Monitors, ThreadStep(m)
  PROVE  \E mon : Becomes(m, mon)
<1>1. Exists(m) /\ Sound(monitor[m]) /\ monitor[m].status \in Status
  BY StartedMonitor DEF DoorInv, ThreadStep, Connect, Open, NextFrame, Drop, At, Sound, Monitor
<1>2. ~ monitor[m].stop => monitor[m].status # "stopped"
  BY <1>1 DEF DoorInv, UnstoppedGoesOn, Unstopped
<1>3. CASE Connect(m)
  <2>1. CASE monitor[m].stop
    BY <1>1, <1>3, <2>1, GotoBecomes DEF Connect, AfterStop, Status
  <2>2. CASE ~ monitor[m].stop
    BY <1>1, <1>2, <1>3, <2>2, GotoBecomes DEF Connect
  <2>3. QED
    BY <2>1, <2>2
<1>4. CASE Open(m)
  BY <1>1, <1>4, GotoBecomes DEF Open, Status
<1>5. CASE NextFrame(m)
  BY <1>1, <1>2, <1>5, GotoBecomes DEF NextFrame
<1>6. CASE Drop(m)
  BY <1>1, <1>6, GotoBecomes DEF Drop, Status
<1>7. QED
  BY <1>3, <1>4, <1>5, <1>6 DEF ThreadStep

\* A monitor's clock is a time.
LEMMA NowType == ASSUME TypeOK, NEW m \in Monitors PROVE Now(m) \in Nat
<1>1. frames[m] \in Seq(Frame)
  BY DEF TypeOK
<1>2. CASE frames[m] # <<>>
  <2>1. Len(frames[m]) \in 1..Len(frames[m])
    BY <1>1, <1>2
  <2>2. frames[m][Len(frames[m])] \in Frame
    BY <1>1, <2>1
  <2>3. QED
    BY <1>2, <2>2 DEF Now, Frame
<1>3. QED
  BY <1>2 DEF Now

\* Processing a frame.
LEMMA ReadFrameBecomes ==
  ASSUME DoorInv, NEW m \in Monitors, NEW looks \in BOOLEAN, NEW gap \in 1..MaxGap,
         ReadFrame(m, looks, gap)
  PROVE  /\ \E mon : Becomes(m, mon)
         /\ pending' \in [Monitors -> Nat] /\ asked' \in [Monitors -> Nat]
         /\ frames' \in [Monitors -> Seq(Frame)]
<1> USE DockDoorConstants
<1> DEFINE t == Now(m) + gap
           det == Update(monitor[m].det, looks, t)
           mon == Observed(monitor[m], det, t)
           alert == IF MustAlert(mon, t) THEN 1 ELSE 0
           new == [mon EXCEPT !.pc = "frame", !.alerted = @ \/ alert = 1]
<1>0. TypeOK
  BY DEF DoorInv
<1>1. t \in Nat \ {0}
  BY <1>0, NowType
<1>2. Exists(m) /\ Sound(monitor[m])
  BY <1>0, StartedMonitor DEF ReadFrame, At
<1>3. det \in Detector
  BY <1>1, <1>2, UpdateType DEF Sound, Monitor
<1>4. /\ Sound(mon) /\ mon.door = monitor[m].door /\ mon.stop = monitor[m].stop
      /\ mon.status = monitor[m].status
  <2> HIDE DEF t, det
  <2>1. QED
    BY <1>1, <1>2, <1>3, ObservedSound
<1>5. alert \in {0, 1}
  OBVIOUS
<1>6. /\ monitor' = [monitor EXCEPT ![m] = new]
      /\ pending' = [pending EXCEPT ![m] = @ + alert]
      /\ asked' = [asked EXCEPT ![m] = @ + alert]
      /\ frames' = [frames EXCEPT ![m] = Append(@, [t |-> t, looks |-> looks])]
  BY DEF ReadFrame
<1> HIDE DEF t, det, mon, alert
<1>7. /\ Sound(new) /\ new.door = mon.door /\ new.stop = mon.stop /\ new.status = mon.status
      /\ new.pc = "frame"
  <2>1. mon \in Monitor
    BY <1>4 DEF Sound
  <2>2. (mon.alerted \/ alert = 1) \in BOOLEAN
    OBVIOUS
  <2>3. new = [mon EXCEPT !.pc = "frame", !.alerted = (mon.alerted \/ alert = 1)]
    BY <2>1 DEF Monitor
  <2> DEFINE flag == mon.alerted \/ alert = 1
  <2> HIDE DEF flag
  <2>4. flag \in BOOLEAN /\ new = [mon EXCEPT !.pc = "frame", !.alerted = flag]
    BY <2>2, <2>3 DEF flag
  <2> HIDE DEF new
  <2>5. QED
    BY <1>4, <2>1, <2>4 DEF Sound, Monitor
<1> HIDE DEF new
<1>8. monitor[m].stop \/ monitor[m].status # "stopped"
  BY <1>2 DEF DoorInv, UnstoppedGoesOn, Unstopped
<1>9. Becomes(m, new)
  BY <1>2, <1>4, <1>6, <1>7, <1>8 DEF Becomes
<1>10. pending' \in [Monitors -> Nat] /\ asked' \in [Monitors -> Nat]
  BY <1>0, <1>5, <1>6 DEF TypeOK
<1>11. frames' \in [Monitors -> Seq(Frame)]
  <2>1. [t |-> t, looks |-> looks] \in Frame
    BY <1>1 DEF Frame
  <2>2. QED
    BY <1>0, <1>6, <2>1 DEF TypeOK
<1>12. QED
  BY <1>9, <1>10, <1>11

-----------------------------------------------------------------------------
(* Induction.                                                              *)

\* The initial state satisfies the invariant: no monitor exists.
LEMMA InitInv == Init => DoorInv
<1> SUFFICES ASSUME Init PROVE DoorInv
  OBVIOUS
<1> USE DockDoorConstants
<1>1. \A m \in Monitors : ~ Exists(m)
  BY DEF Init, Exists
<1>2. TypeOK
  <2>1. \A m \in Monitors : <<>> \in Seq(Frame)
    OBVIOUS
  <2>2. QED
    BY <1>1, <2>1 DEF Init, TypeOK
<1>3. Unstopped = {}
  BY <1>1 DEF Unstopped
<1>4. Cardinality(Unstopped) = 0
  BY <1>3, FS_EmptySet
<1>5. QED
  BY <1>2, <1>3, <1>4 DEF Init, DoorInv, UnstoppedGoesOn, OneMonitorPerDoor, OnlyMonitorsAlert

\* There are finitely many monitors.
LEMMA FiniteMonitors == ASSUME NEW S \in SUBSET Monitors PROVE IsFiniteSet(S) /\ Cardinality(S) \in Nat
<1>1. IsFiniteSet(Monitors)
  BY DockDoorConstants, FS_Interval DEF Monitors
<1>2. IsFiniteSet(S)
  BY <1>1, FS_Subset
<1>3. QED
  BY <1>2, FS_CardinalityType

\* With fewer monitors in force, on the same doors, the limits still hold.
LEMMA FewerInForce ==
  ASSUME OneMonitorPerDoor, Unstopped' \subseteq Unstopped,
         \A m \in Unstopped' : monitor'[m].door = monitor[m].door
  PROVE  OneMonitorPerDoor'
<1>1. Unstopped \subseteq Monitors
  BY DEF Unstopped
<1>2. Cardinality(Unstopped') <= Cardinality(Unstopped)
  BY <1>1, FiniteMonitors, FS_Subset
<1>3. Cardinality(Unstopped) \in Nat /\ Cardinality(Unstopped') \in Nat
  BY <1>1, FiniteMonitors
<1>4. Cardinality(Unstopped') <= MaxMonitors
  BY <1>2, <1>3, DockDoorConstants DEF OneMonitorPerDoor
<1>5. \A m, n \in Unstopped' : monitor'[m].door = monitor'[n].door => m = n
  BY DEF OneMonitorPerDoor
<1>6. QED
  BY <1>4, <1>5 DEF OneMonitorPerDoor

\* Turning one monitor into another keeps the invariant.
LEMMA BecomesKeepsInv ==
  ASSUME DoorInv, NEW m \in Monitors, NEW mon, Becomes(m, mon),
         pending' \in [Monitors -> Nat], serving' \in BOOLEAN,
         frames' \in [Monitors -> Seq(Frame)], asked' \in [Monitors -> Nat],
         \A n \in Monitors \ {m} : pending'[n] = pending[n]
  PROVE  DoorInv'
<1>1. TypeOK'
  BY ReplacedType DEF Becomes, TypeOK, DoorInv
<1>2. monitor'[m] = mon /\ \A n \in Monitors \ {m} : monitor'[n] = monitor[n]
  BY DEF Becomes, DoorInv, TypeOK
<1>3. Unstopped' \subseteq Unstopped /\ \A n \in Unstopped' : monitor'[n].door = monitor[n].door
  BY <1>2 DEF Unstopped, Exists, Becomes
<1>4. OneMonitorPerDoor'
  BY <1>3, FewerInForce DEF DoorInv
<1>5. UnstoppedGoesOn'
  BY <1>2, <1>3 DEF UnstoppedGoesOn, Unstopped, Exists, Becomes, DoorInv
<1>6. OnlyMonitorsAlert'
  <2>1. \A n \in Monitors : Exists(n)' <=> Exists(n)
    BY <1>2, MonitorIsPresent DEF Becomes, Sound, Exists
  <2>2. \A n \in Monitors \ {m} : pending'[n] = pending[n]
    OBVIOUS
  <2>3. QED
    BY <2>1, <2>2 DEF OnlyMonitorsAlert, Becomes, DoorInv
<1>7. QED
  BY <1>1, <1>4, <1>5, <1>6 DEF DoorInv

\* Starting a monitor: no other is in force on its door, and fewer than the
\* limit, because start_monitor counts every monitor that is in force.
LEMMA StartKeepsInv ==
  ASSUME DoorInv, NEW m \in Monitors, NEW d \in Doors, Start(m, d)
  PROVE  DoorInv'
<1> DEFINE mon == [door |-> d, status |-> "starting", stop |-> FALSE, pc |-> "connect", det |-> ClosedDoor,
                   doorOpen |-> FALSE, openSince |-> 0, openings |-> 0, alerted |-> FALSE, raised |-> 0]
<1>1. Sound(mon)
  BY DEF Sound, Monitor, Status, ClosedDoor, Detector
<1>2. /\ monitor' = [monitor EXCEPT ![m] = mon]
      /\ ~ Exists(m)
      /\ UNCHANGED <<pending, serving, frames, asked>>
      /\ \A n \in Watching : monitor[n].door # d
      /\ Cardinality(Watching) < MaxMonitors
  BY DEF Start
<1>3. mon.door = d /\ mon.stop = FALSE /\ mon.status = "starting" /\ mon.pc = "connect"
  OBVIOUS
<1> HIDE DEF mon
<1>4. TypeOK'
  BY <1>1, <1>2, ReplacedType DEF TypeOK, DoorInv
<1>5. monitor'[m] = mon /\ \A n \in Monitors \ {m} : monitor'[n] = monitor[n]
  BY <1>2 DEF DoorInv, TypeOK
<1>6. mon # Absent
  BY <1>1, MonitorIsPresent DEF Sound
<1>7. Unstopped' = Unstopped \cup {m}
  BY <1>2, <1>3, <1>5, <1>6 DEF Unstopped, Exists
<1>8. Unstopped \subseteq Watching /\ Watching \subseteq Monitors
  BY DEF Unstopped, Watching, DoorInv, UnstoppedGoesOn
<1>9. Cardinality(Unstopped') <= MaxMonitors
  <2>1. Cardinality(Unstopped) <= Cardinality(Watching)
    BY <1>8, FiniteMonitors, FS_Subset
  <2>2. IsFiniteSet(Unstopped) /\ Cardinality(Unstopped) \in Nat /\ Cardinality(Watching) \in Nat
    BY <1>8, FiniteMonitors
  <2>3. m \notin Unstopped
    BY <1>2 DEF Unstopped
  <2>4. Cardinality(Unstopped \cup {m}) = Cardinality(Unstopped) + 1
    BY <2>2, <2>3, FS_AddElement
  <2>5. QED
    BY <1>2, <1>7, <2>1, <2>2, <2>4, DockDoorConstants
<1>10. \A k, n \in Unstopped' : monitor'[k].door = monitor'[n].door => k = n
  <2>1. \A n \in Unstopped : monitor'[n].door = monitor[n].door /\ monitor[n].door # d
    BY <1>2, <1>5, <1>8 DEF Unstopped
  <2>2. monitor'[m].door = d
    BY <1>3, <1>5
  <2>3. QED
    BY <1>7, <2>1, <2>2 DEF DoorInv, OneMonitorPerDoor
<1>11. UnstoppedGoesOn'
  <2>1. ASSUME NEW n \in Unstopped PROVE monitor'[n] = monitor[n]
    BY <1>2, <1>5, <2>1 DEF Unstopped
  <2>2. QED
    BY <1>3, <1>5, <1>7, <2>1 DEF UnstoppedGoesOn, DoorInv
<1>12. OnlyMonitorsAlert'
  BY <1>2, <1>5, <1>6 DEF OnlyMonitorsAlert, Exists, DoorInv
<1>13. QED
  BY <1>4, <1>9, <1>10, <1>11, <1>12 DEF DoorInv, OneMonitorPerDoor

\* Shutting down tells every monitor to stop, so that none is in force.
LEMMA StopAllKeepsInv == ASSUME DoorInv, StopAll PROVE DoorInv'
<1>1. ASSUME NEW m \in Monitors
      PROVE  /\ Exists(m) => Sound(monitor'[m]) /\ monitor'[m].stop = TRUE
             /\ ~ Exists(m) => monitor'[m] = Absent
  <2>1. CASE Exists(m)
    <3>1. Sound(monitor[m])
      BY <2>1, StartedMonitor DEF DoorInv
    <3>2. monitor'[m] = [monitor[m] EXCEPT !.stop = TRUE]
      BY <2>1 DEF StopAll
    <3>3. QED
      BY <2>1, <3>1, <3>2 DEF Sound, Monitor
  <2>2. CASE ~ Exists(m)
    BY <2>2 DEF StopAll
  <2>3. QED
    BY <2>1, <2>2
<1>2. monitor' \in [Monitors -> Monitor \cup {Absent}]
  <2>1. DOMAIN monitor' = Monitors /\ monitor' = [m \in Monitors |-> monitor'[m]]
    BY DEF StopAll
  <2>2. QED
    BY <1>1, <2>1 DEF Sound
<1>3. \A m \in Monitors : Exists(m)' => (monitor'[m].openSince > 0 <=> monitor'[m].doorOpen)
  BY <1>1 DEF Exists, Sound
<1>4. TypeOK'
  BY <1>2, <1>3 DEF StopAll, DoorInv, TypeOK
<1>5. Unstopped' = {}
  BY <1>1 DEF Unstopped, Exists
<1>6. Cardinality(Unstopped') = 0
  BY <1>5, FS_EmptySet
<1>7. OnlyMonitorsAlert'
  <2>1. \A m \in Monitors : Exists(m) => Exists(m)'
    BY <1>1, MonitorIsPresent DEF Exists, Sound
  <2>2. QED
    BY <2>1 DEF StopAll, OnlyMonitorsAlert, DoorInv
<1>8. QED
  BY <1>4, <1>5, <1>6, <1>7, DockDoorConstants DEF DoorInv, UnstoppedGoesOn, OneMonitorPerDoor

\* stop_monitor and an alert that was raised turn a monitor into another.
LEMMA RequestBecomes ==
  ASSUME DoorInv, NEW m \in Monitors, Stop(m) \/ AlertRaised(m)
  PROVE  \E mon : Becomes(m, mon)
<1>1. Exists(m) /\ Sound(monitor[m])
  BY StartedMonitor DEF DoorInv, OnlyMonitorsAlert, Stop, AlertRaised
<1>2. monitor[m].stop \/ (monitor[m].status # "stopped" /\ monitor[m].pc # "ended")
  BY <1>1 DEF DoorInv, UnstoppedGoesOn, Unstopped
<1>3. CASE Stop(m)
  <2> DEFINE mon == [monitor[m] EXCEPT !.stop = TRUE, !.status = "stopped"]
  <2>1. monitor' = [monitor EXCEPT ![m] = mon]
    BY <1>3 DEF Stop
  <2>2. Sound(mon) /\ mon.door = monitor[m].door /\ mon.stop = TRUE
    BY <1>1 DEF Sound, Monitor, Status
  <2>3. Becomes(m, mon)
    BY <1>1, <2>1, <2>2 DEF Becomes
  <2>4. QED
    BY <2>3
<1>4. CASE AlertRaised(m)
  <2> DEFINE mon == [monitor[m] EXCEPT !.raised = @ + 1]
  <2>1. monitor' = [monitor EXCEPT ![m] = mon]
    BY <1>4 DEF AlertRaised
  <2>2. Sound(mon) /\ mon.door = monitor[m].door /\ mon.stop = monitor[m].stop
        /\ mon.status = monitor[m].status /\ mon.pc = monitor[m].pc
    BY <1>1 DEF Sound, Monitor
  <2>3. Becomes(m, mon)
    BY <1>1, <1>2, <2>1, <2>2 DEF Becomes
  <2>4. QED
    BY <2>3
<1>5. QED
  BY <1>3, <1>4


\* Every step keeps the invariant.
LEMMA NextInv == DoorInv /\ [Next]_vars => DoorInv'
<1> SUFFICES ASSUME DoorInv, [Next]_vars PROVE DoorInv'
  OBVIOUS
<1>0. TypeOK
  BY DEF DoorInv
<1>1. ASSUME NEW m \in Monitors, NEW d \in Doors, Start(m, d) PROVE DoorInv'
  BY <1>1, StartKeepsInv
<1>2. ASSUME NEW m \in Monitors, Stop(m) PROVE DoorInv'
  <2>1. PICK mon : Becomes(m, mon)
    BY <1>2, RequestBecomes
  <2>2. UNCHANGED <<pending, serving, frames, asked>>
    BY <1>2 DEF Stop
  <2>3. QED
    BY <1>0, <2>1, <2>2, BecomesKeepsInv DEF TypeOK
<1>3. CASE StopAll
  BY <1>3, StopAllKeepsInv
<1>4. ASSUME NEW m \in Monitors, ThreadStep(m) PROVE DoorInv'
  <2>1. PICK mon : Becomes(m, mon)
    BY <1>4, ThreadBecomes
  <2>2. UNCHANGED <<pending, serving, frames, asked>>
    BY <1>4 DEF ThreadStep, Connect, Open, NextFrame, Drop
  <2>3. QED
    BY <1>0, <2>1, <2>2, BecomesKeepsInv DEF TypeOK
<1>5. ASSUME NEW m \in Monitors, NEW looks \in BOOLEAN, NEW gap \in 1..MaxGap, ReadFrame(m, looks, gap)
      PROVE  DoorInv'
  <2>1. PICK mon : Becomes(m, mon)
    BY <1>5, ReadFrameBecomes
  <2>2. /\ pending' \in [Monitors -> Nat] /\ asked' \in [Monitors -> Nat]
        /\ frames' \in [Monitors -> Seq(Frame)]
    BY <1>5, ReadFrameBecomes
  <2>3. serving' = serving /\ \A n \in Monitors \ {m} : pending'[n] = pending[n]
    BY <1>0, <1>5 DEF ReadFrame, TypeOK
  <2>4. QED
    BY <1>0, <2>1, <2>2, <2>3, BecomesKeepsInv DEF TypeOK
<1>6. ASSUME NEW m \in Monitors, AlertRaised(m) \/ AlertFails(m)
      PROVE  /\ pending' \in [Monitors -> Nat]
             /\ pending'[m] < pending[m] /\ \A n \in Monitors \ {m} : pending'[n] = pending[n]
  <2>1. pending[m] > 0 /\ pending' = [pending EXCEPT ![m] = @ - 1]
    BY <1>6 DEF AlertRaised, AlertFails
  <2>2. pending \in [Monitors -> Nat] /\ pending[m] - 1 \in Nat
    BY <1>0, <2>1 DEF TypeOK
  <2>3. QED
    BY <2>1, <2>2
<1>7. ASSUME NEW m \in Monitors, AlertRaised(m) PROVE DoorInv'
  <2>1. PICK mon : Becomes(m, mon)
    BY <1>7, RequestBecomes
  <2>2. UNCHANGED <<serving, frames, asked>>
    BY <1>7 DEF AlertRaised
  <2>3. QED
    BY <1>0, <1>6, <1>7, <2>1, <2>2, BecomesKeepsInv DEF TypeOK
<1>8. ASSUME NEW m \in Monitors, AlertFails(m) PROVE DoorInv'
  <2>1. TypeOK' /\ UNCHANGED monitor
    BY <1>0, <1>6, <1>8 DEF AlertFails, TypeOK, Exists
  <2>2. UnstoppedGoesOn' /\ OneMonitorPerDoor'
    BY <2>1 DEF DoorInv, UnstoppedGoesOn, OneMonitorPerDoor, Unstopped, Exists
  <2>3. OnlyMonitorsAlert'
    <3>1. pending[m] > 0
      BY <1>8 DEF AlertFails
    <3>2. QED
      BY <1>6, <1>8, <2>1, <3>1 DEF OnlyMonitorsAlert, Exists, DoorInv
  <2>4. QED
    BY <2>1, <2>2, <2>3 DEF DoorInv
<1>9. CASE UNCHANGED vars
  BY <1>9 DEF vars, DoorInv, TypeOK, UnstoppedGoesOn, OneMonitorPerDoor, OnlyMonitorsAlert, Unstopped, Exists
<1>10. QED
  BY <1>1, <1>2, <1>3, <1>4, <1>5, <1>7, <1>8, <1>9 DEF Next

-----------------------------------------------------------------------------
(* The theorems.                                                           *)

\* The invariant holds throughout.
LEMMA Invariant == Spec => []DoorInv
BY InitInv, NextInv, PTL DEF Spec

\* The state has the shape that TypeOK says: a monitor's openSince is set
\* exactly while its door is open.
THEOREM TypeInvariant == Spec => []TypeOK
<1>1. DoorInv => TypeOK
  BY DEF DoorInv
<1>2. QED
  BY <1>1, Invariant, PTL

\* Of the monitors that were not told to stop there is at most one for a door,
\* and at most the allowed number, whatever the threads do to their status.
THEOREM DoorsAreWatchedOnce == Spec => []OneMonitorPerDoor
<1>1. DoorInv => OneMonitorPerDoor
  BY DEF DoorInv
<1>2. QED
  BY <1>1, Invariant, PTL

-----------------------------------------------------------------------------
(* The scan of a clip, frame by frame.                                     *)

\* Induction on the naturals, for a set: what holds of 0, and of n + 1 when of
\* n, holds of all.
LEMMA SetInduction ==
  ASSUME NEW S, 0 \in S, \A n \in Nat : n \in S => n + 1 \in S
  PROVE  Nat \subseteq S
<1>1. SUFFICES ASSUME Nat \ S # {} PROVE FALSE
  OBVIOUS
<1>2. IsWellFoundedOn(OpToRel(<, Nat), Nat)
  BY NatLessThanWellFounded
<1>3. PICK x \in Nat \ S : \A y \in Nat \ S : ~ (<<y, x>> \in OpToRel(<, Nat))
  <2> HIDE DEF OpToRel
  <2>1. QED
    BY <1>1, <1>2, WFMin
<1>4. \A y \in Nat : y < x => <<y, x>> \in OpToRel(<, Nat)
  BY DEF OpToRel
<1>5. x # 0
  OBVIOUS
<1>6. x - 1 \in Nat /\ x - 1 < x
  BY <1>5
<1>7. x - 1 \in S
  BY <1>3, <1>4, <1>6
<1>8. QED
  BY <1>7, <1>6

ScanStart == [det |-> ClosedDoor, openedAt |-> 0, intervals |-> <<>>]

\* g is the scan of the first n frames, prefix by prefix.
Scans(g, fs, n) == g = [i \in 0..n |-> IF i = 0 THEN ScanStart ELSE Scanned(g[i - 1], fs[i])]

\* Two scans agree on the frames that both have read.
LEMMA ScansAgree ==
  ASSUME NEW fs, NEW p \in Nat, NEW q \in Nat, NEW g, NEW h, Scans(g, fs, p), Scans(h, fs, q)
  PROVE  \A i \in Nat : i <= p /\ i <= q => g[i] = h[i]
<1> DEFINE S == {i \in Nat : i <= p /\ i <= q => g[i] = h[i]}
<1>1. 0 \in S
  BY DEF Scans
<1>2. ASSUME NEW i \in Nat, i \in S PROVE i + 1 \in S
  <2>1. CASE i + 1 <= p /\ i + 1 <= q
    <3>1. g[i] = h[i]
      BY <1>2, <2>1
    <3>2. g[i + 1] = Scanned(g[i], fs[i + 1]) /\ h[i + 1] = Scanned(h[i], fs[i + 1])
      <4>1. i + 1 \in 0..p /\ i + 1 \in 0..q /\ i + 1 # 0 /\ (i + 1) - 1 = i
        BY <2>1
      <4>2. QED
        BY <4>1 DEF Scans
    <3>3. QED
      BY <3>1, <3>2
  <2>2. QED
    BY <2>1
<1>3. Nat \subseteq S
  <2> HIDE DEF S
  <2>1. QED
    BY <1>1, <1>2, SetInduction
<1>4. QED
  BY <1>3

\* A clip of any length has a scan.
LEMMA ScanExists ==
  ASSUME NEW fs, NEW n \in Nat PROVE \E g : Scans(g, fs, n)
<1> DEFINE S == {k \in Nat : \E g : Scans(g, fs, k)}
<1>1. 0 \in S
  <2>1. Scans([i \in 0..0 |-> ScanStart], fs, 0)
    BY DEF Scans
  <2>2. QED
    BY <2>1
<1>2. ASSUME NEW k \in Nat, k \in S PROVE k + 1 \in S
  <2>1. PICK g : Scans(g, fs, k)
    BY <1>2
  <2> DEFINE h == [i \in 0..(k + 1) |-> IF i <= k THEN g[i] ELSE Scanned(g[k], fs[k + 1])]
  <2>2. ASSUME NEW i \in 0..(k + 1)
        PROVE  h[i] = IF i = 0 THEN ScanStart ELSE Scanned(h[i - 1], fs[i])
    <3>1. CASE i = 0
      BY <2>1, <3>1 DEF Scans
    <3>2. CASE i \in 1..k
      <4>1. h[i] = g[i] /\ h[i - 1] = g[i - 1]
        BY <3>2
      <4>2. g[i] = Scanned(g[i - 1], fs[i])
        BY <2>1, <3>2 DEF Scans
      <4>3. QED
        BY <3>2, <4>1, <4>2
    <3>3. CASE i = k + 1
      <4>1. h[i] = Scanned(g[k], fs[k + 1]) /\ h[i - 1] = g[k]
        BY <3>3
      <4>2. QED
        BY <3>3, <4>1
    <3>4. QED
      BY <3>1, <3>2, <3>3
  <2>3. Scans(h, fs, k + 1)
    <3>1. h = [i \in 0..(k + 1) |-> h[i]]
      OBVIOUS
    <3> HIDE DEF h
    <3>2. QED
      BY <2>2, <3>1 DEF Scans
  <2>4. QED
    BY <2>3
<1>3. Nat \subseteq S
  <2> HIDE DEF S
  <2>1. QED
    BY <1>1, <1>2, SetInduction
<1>4. QED
  BY <1>3

\* Scan is the scan of the whole clip.
LEMMA ScanIsOne ==
  ASSUME NEW fs, Len(fs) \in Nat PROVE \E g : Scans(g, fs, Len(fs)) /\ Scan(fs) = g[Len(fs)]
<1> DEFINE g == CHOOSE g : g = [i \in 0..Len(fs) |->
                  IF i = 0 THEN [det |-> ClosedDoor, openedAt |-> 0, intervals |-> <<>>]
                  ELSE Scanned(g[i - 1], fs[i])]
<1>1. Scan(fs) = g[Len(fs)]
  BY DEF Scan
<1>2. \E h : Scans(h, fs, Len(fs))
  BY ScanExists
<1>3. Scans(g, fs, Len(fs))
  BY <1>2 DEF Scans, ScanStart
<1>4. QED
  BY <1>1, <1>3

\* The scan of no frames.
LEMMA ScanOfNone == Scan(<<>>) = ScanStart
<1>1. Len(<<>>) = 0
  OBVIOUS
<1>2. PICK g : Scans(g, <<>>, 0) /\ Scan(<<>>) = g[0]
  BY <1>1, ScanIsOne
<1>3. QED
  BY <1>2 DEF Scans

\* The scan of a longer clip goes on from that of the shorter.
LEMMA ScanOfMore ==
  ASSUME NEW fs \in Seq(Frame), NEW f \in Frame
  PROVE  Scan(Append(fs, f)) = Scanned(Scan(fs), f)
<1> DEFINE n == Len(fs)
           all == Append(fs, f)
<1>2. n \in Nat /\ Len(all) = n + 1 /\ all[n + 1] = f /\ \A i \in 1..n : all[i] = fs[i]
  OBVIOUS
<1>3. PICK g : Scans(g, fs, n) /\ Scan(fs) = g[n]
  BY <1>2, ScanIsOne
<1>4. PICK h : Scans(h, all, n + 1) /\ Scan(all) = h[n + 1]
  <2>1. Len(all) \in Nat
    BY <1>2
  <2> HIDE DEF all
  <2>2. \E h : Scans(h, all, Len(all)) /\ Scan(all) = h[Len(all)]
    BY <2>1, ScanIsOne
  <2>3. QED
    BY <1>2, <2>2
<1> HIDE DEF n, all
<1>5. Scans(g, all, n)
  BY <1>2, <1>3 DEF Scans
<1>6. g[n] = h[n]
  BY <1>2, <1>4, <1>5, ScansAgree
<1>7. h[n + 1] = Scanned(h[n], all[n + 1])
  BY <1>2, <1>4 DEF Scans
<1>8. QED
  BY <1>2, <1>3, <1>4, <1>6, <1>7 DEF all

\* A clip: frames at increasing times, of which the first, being the
\* reference, looks closed.
Clips == {fs \in Seq(Frame) :
            /\ \A i \in DOMAIN fs : fs[i].t > 0
            /\ \A i, j \in DOMAIN fs : i < j => fs[i].t < fs[j].t
            /\ fs # <<>> => ~ fs[1].looks}

\* The last frames of a clip that look alike start at i.
LastRun(fs, i) ==
  /\ i \in DOMAIN fs
  /\ \A n \in i..Len(fs) : fs[n].looks = fs[Len(fs)].looks
  /\ i = 1 \/ fs[i - 1].looks # fs[Len(fs)].looks

Opens(fs) == Lasting(fs, TRUE)
Closes(fs) == Lasting(fs, FALSE)

After(closes, i) == {n \in closes : n > i}
FirstAfter(closes, i) == CHOOSE k \in After(closes, i) : \A n \in After(closes, i) : k <= n

\* The opens that begin an opening: those with a close since the one before.
BeginsOf(opens, closes) == {i \in opens : \A j \in opens : j < i => \E n \in closes : j < n /\ n < i}
Begins(fs) == BeginsOf(Opens(fs), Closes(fs))

\* The openings that have ended, by where they begin.
EndedBegins(fs) == {i \in Begins(fs) : After(Closes(fs), i) # {}}
Ended(fs, i) == [start |-> fs[i].t, end |-> fs[FirstAfter(Closes(fs), i)].t, ongoing |-> FALSE]

-----------------------------------------------------------------------------
(* What the scan of a clip knows of it.                                    *)

\* A scan: the detector, when the door was opened, and the intervals so far.
ScanType(s) == s \in [det: Detector, openedAt: Nat, intervals: Seq(OpenInterval)]

\* The pending change is that to the last frames, and is younger than the
\* debounce time.
PendingIsLastRun(fs, det) ==
  /\ fs = <<>> => det = ClosedDoor
  /\ fs # <<>> =>
       \E i \in DOMAIN fs :
         /\ LastRun(fs, i)
         /\ IF fs[i].looks = det.open THEN det.seen = 0
            ELSE det.seen = fs[i].t /\ fs[Len(fs)].t - fs[i].t < Debounce

\* The door is open from an open after the last close, and closed after a
\* close that follows every open.
StateIsLastChange(fs, s) ==
  IF s.det.open
  THEN \E i \in Begins(fs) :
         /\ s.openedAt = fs[i].t
         /\ \A n \in Closes(fs) : n < i
  ELSE \A i \in Opens(fs) : \E n \in Closes(fs) : i < n

\* The intervals are those openings that ended.
IntervalsAreEnded(fs, s) ==
  {s.intervals[k] : k \in DOMAIN s.intervals} = {Ended(fs, i) : i \in EndedBegins(fs)}

\* ... each after the one before.
InOrder(intervals) ==
  /\ \A k \in DOMAIN intervals : intervals[k].start < intervals[k].end /\ intervals[k].ongoing = FALSE
  /\ \A k, n \in DOMAIN intervals : k < n => intervals[k].end <= intervals[n].start

\* What s knows of the clip is right.
RightOf(fs, s) ==
  /\ ScanType(s)
  /\ PendingIsLastRun(fs, s.det)
  /\ StateIsLastChange(fs, s)
  /\ IntervalsAreEnded(fs, s)
  /\ InOrder(s.intervals)

-----------------------------------------------------------------------------
(* Openings, as places in a clip.                                          *)

\* A set of naturals has a least element.
LEMMA LeastExists ==
  ASSUME NEW S \in SUBSET Nat, S # {} PROVE \E k \in S : \A n \in S : k <= n
<1>1. IsWellFoundedOn(OpToRel(<, Nat), Nat)
  BY NatLessThanWellFounded
<1>2. PICK k \in S : \A n \in S : ~ (<<n, k>> \in OpToRel(<, Nat))
  <2> HIDE DEF OpToRel
  <2>1. QED
    BY <1>1, WFMin
<1>3. \A n \in S : ~ (n < k)
  BY <1>2 DEF OpToRel
<1>4. QED
  BY <1>3

\* The first close after i is one, and no other is before it.
LEMMA FirstAfterIs ==
  ASSUME NEW closes \in SUBSET Nat, NEW i \in Nat, After(closes, i) # {}
  PROVE  /\ FirstAfter(closes, i) \in closes /\ FirstAfter(closes, i) > i
         /\ \A n \in closes : n > i => FirstAfter(closes, i) <= n
<1>1. \E k \in After(closes, i) : \A n \in After(closes, i) : k <= n
  BY LeastExists DEF After
<1>2. /\ FirstAfter(closes, i) \in After(closes, i)
      /\ \A n \in After(closes, i) : FirstAfter(closes, i) <= n
  BY <1>1 DEF FirstAfter
<1>3. QED
  BY <1>2 DEF After

\* A later close does not change which is the first, unless there was none.
LEMMA CloseAdded ==
  ASSUME NEW closes \in SUBSET Nat, NEW x \in Nat, NEW i \in Nat, i < x, \A n \in closes : n <= x
  PROVE  FirstAfter(closes \cup {x}, i) = IF After(closes, i) = {} THEN x ELSE FirstAfter(closes, i)
<1> DEFINE more == closes \cup {x}
<1>1. more \in SUBSET Nat /\ x \in After(more, i)
  BY DEF After
<1>2. /\ FirstAfter(more, i) \in more /\ FirstAfter(more, i) > i
      /\ \A n \in more : n > i => FirstAfter(more, i) <= n
  <2> HIDE DEF more
  <2>1. QED
    BY <1>1, FirstAfterIs
<1> HIDE DEF more
<1>3. ASSUME After(closes, i) = {} PROVE FirstAfter(more, i) = x
  <2>1. \A n \in more : n > i => n = x
    BY <1>3 DEF After, more
  <2>2. QED
    BY <1>2, <2>1
<1>4. ASSUME After(closes, i) # {} PROVE FirstAfter(more, i) = FirstAfter(closes, i)
  <2>1. /\ FirstAfter(closes, i) \in closes /\ FirstAfter(closes, i) > i
        /\ \A n \in closes : n > i => FirstAfter(closes, i) <= n
    BY <1>4, FirstAfterIs
  <2>2. FirstAfter(closes, i) \in more /\ FirstAfter(closes, i) \in Nat /\ FirstAfter(more, i) \in Nat
    BY <1>1, <1>2, <2>1 DEF more
  <2>3. FirstAfter(more, i) <= FirstAfter(closes, i)
    BY <1>2, <2>1, <2>2
  <2>4. FirstAfter(closes, i) <= FirstAfter(more, i)
    BY <1>2, <2>1, <2>2 DEF more
  <2>5. QED
    BY <2>2, <2>3, <2>4
<1>5. FirstAfter(more, i) = IF After(closes, i) = {} THEN x ELSE FirstAfter(closes, i)
  BY <1>3, <1>4
<1>6. QED
  BY <1>5 DEF more

\* A close after every open does not change where openings begin.
LEMMA CloseKeepsBegins ==
  ASSUME NEW opens \in SUBSET Nat, NEW closes \in SUBSET Nat, NEW x \in Nat, \A o \in opens : o < x
  PROVE  BeginsOf(opens, closes \cup {x}) = BeginsOf(opens, closes)
<1>1. ASSUME NEW i \in opens, NEW j
      PROVE  (\E n \in closes \cup {x} : j < n /\ n < i) <=> (\E n \in closes : j < n /\ n < i)
  <2>1. ~ (x < i) /\ \A n \in closes : n \in closes \cup {x}
    OBVIOUS
  <2>2. QED
    BY <2>1
<1>2. QED
  BY <1>1 DEF BeginsOf

\* An open after every other begins an opening if closes have followed those.
LEMMA OpenAdded ==
  ASSUME NEW opens \in SUBSET Nat, NEW closes \in SUBSET Nat, NEW x \in Nat, \A o \in opens : o < x
  PROVE  BeginsOf(opens \cup {x}, closes) =
           BeginsOf(opens, closes) \cup
             (IF \A j \in opens : \E n \in closes : j < n /\ n < x THEN {x} ELSE {})
<1>1. \A i \in opens : i \in BeginsOf(opens \cup {x}, closes) <=> i \in BeginsOf(opens, closes)
  BY DEF BeginsOf
<1>2. x \in BeginsOf(opens \cup {x}, closes) <=> \A j \in opens : \E n \in closes : j < n /\ n < x
  BY DEF BeginsOf
<1>3. x \notin opens
  OBVIOUS
<1>4. BeginsOf(opens \cup {x}, closes) \subseteq opens \cup {x} /\ BeginsOf(opens, closes) \subseteq opens
  BY DEF BeginsOf
<1>5. QED
  BY <1>1, <1>2, <1>3, <1>4

-----------------------------------------------------------------------------
(* One more frame.                                                         *)

\* The parts of a clip with one more frame.
LEMMA OneMore ==
  ASSUME NEW fs \in Seq(Frame), NEW f \in Frame
  PROVE  /\ Len(fs) \in Nat /\ DOMAIN fs = 1..Len(fs)
         /\ Len(Append(fs, f)) = Len(fs) + 1 /\ DOMAIN Append(fs, f) = 1..(Len(fs) + 1)
         /\ Append(fs, f)[Len(fs) + 1] = f
         /\ \A k \in 1..Len(fs) : Append(fs, f)[k] = fs[k] /\ fs[k] \in Frame
OBVIOUS

\* A lasting change begins no later than the last frames that look alike.
LEMMA LastingUpToLastRun ==
  ASSUME NEW fs \in Seq(Frame), NEW i, LastRun(fs, i), NEW looks \in BOOLEAN, NEW x \in Lasting(fs, looks)
  PROVE  /\ x \in 1..Len(fs) /\ i \in 1..Len(fs) /\ x <= i
         /\ looks # fs[Len(fs)].looks => x < i
<1>1. x \in 1..Len(fs) /\ i \in 1..Len(fs) /\ Len(fs) \in Nat
  BY DEF Lasting, LastRun
<1>2. fs[x].looks = looks /\ (x = 1 \/ fs[x - 1].looks # looks)
  BY <1>1 DEF Lasting
<1>3. \A n \in i..Len(fs) : fs[n].looks = fs[Len(fs)].looks
  BY DEF LastRun
<1>4. x <= i
  BY <1>1, <1>2, <1>3
<1>5. looks # fs[Len(fs)].looks => x # i
  BY <1>1, <1>2, <1>3
<1>6. QED
  BY <1>1, <1>4, <1>5

\* One more frame makes a change last if it is that of the last frames, and
\* they now span the debounce time.
LEMMA LastingAppend ==
  ASSUME NEW fs \in Seq(Frame), NEW f \in Frame, NEW i, LastRun(Append(fs, f), i), NEW looks \in BOOLEAN
  PROVE  Lasting(Append(fs, f), looks) =
           Lasting(fs, looks) \cup
             (IF looks = f.looks /\ f.t - Append(fs, f)[i].t >= Debounce THEN {i} ELSE {})
<1> DEFINE all == Append(fs, f)
           n == Len(fs)
<1>1. /\ n \in Nat /\ DOMAIN fs = 1..n
      /\ Len(all) = n + 1 /\ DOMAIN all = 1..(n + 1)
      /\ all[n + 1] = f
      /\ \A k \in 1..n : all[k] = fs[k] /\ fs[k] \in Frame
  BY OneMore
<1>2. LastRun(all, i)
  OBVIOUS
<1> HIDE DEF all, n
<1>3. i \in 1..(n + 1) /\ (i = 1 \/ all[i - 1].looks # f.looks) /\ \A k \in i..(n + 1) : all[k].looks = f.looks
  BY <1>1, <1>2 DEF LastRun
<1>4. ASSUME NEW x \in Lasting(all, looks)
      PROVE  x \in Lasting(fs, looks) \/ (x = i /\ looks = f.looks /\ f.t - all[i].t >= Debounce)
  <2>1. x \in 1..(n + 1) /\ (x = 1 \/ all[x - 1].looks # looks)
    BY <1>1 DEF Lasting
  <2>2. PICK k \in x..(n + 1) : (\A m \in x..k : all[m].looks = looks) /\ all[k].t - all[x].t >= Debounce
    BY <1>1 DEF Lasting
  <2>3. CASE k <= n
    <3>1. x \in 1..n /\ k \in x..n
      BY <1>1, <2>1, <2>2, <2>3
    <3>2. x = 1 \/ fs[x - 1].looks # looks
      BY <1>1, <2>1, <3>1
    <3>3. (\A m \in x..k : fs[m].looks = looks) /\ fs[k].t - fs[x].t >= Debounce
      BY <1>1, <2>2, <3>1
    <3>4. QED
      BY <1>1, <3>1, <3>2, <3>3 DEF Lasting, n
  <2>4. CASE k = n + 1
    <3>1. looks = f.looks
      BY <1>1, <2>1, <2>2, <2>4
    <3>2. ~ (x < i)
      <4>1. SUFFICES ASSUME x < i PROVE FALSE
        OBVIOUS
      <4>2. i - 1 \in x..k /\ i # 1
        BY <1>1, <1>3, <2>1, <2>4, <4>1
      <4>3. QED
        BY <1>3, <2>2, <3>1, <4>2
    <3>3. ~ (i < x)
      <4>1. SUFFICES ASSUME i < x PROVE FALSE
        OBVIOUS
      <4>2. x - 1 \in i..(n + 1) /\ x # 1
        BY <1>1, <1>3, <2>1, <4>1
      <4>3. QED
        BY <1>3, <2>1, <3>1, <4>2
    <3>4. x = i
      BY <1>3, <2>1, <3>2, <3>3, <1>1
    <3>5. QED
      BY <1>1, <2>2, <2>4, <3>1, <3>4
  <2>5. QED
    BY <1>1, <2>1, <2>2, <2>3, <2>4
<1>5. ASSUME NEW x \in Lasting(fs, looks) PROVE x \in Lasting(all, looks)
  <2>1. x \in 1..n /\ (x = 1 \/ fs[x - 1].looks # looks)
    BY <1>1 DEF Lasting
  <2>2. PICK k \in x..n : (\A m \in x..k : fs[m].looks = looks) /\ fs[k].t - fs[x].t >= Debounce
    BY <1>1 DEF Lasting, n
  <2>3. x = 1 \/ all[x - 1].looks # looks
    BY <1>1, <2>1
  <2>4. k \in x..(n + 1) /\ (\A m \in x..k : all[m].looks = looks) /\ all[k].t - all[x].t >= Debounce
    BY <1>1, <2>1, <2>2
  <2>5. QED
    BY <1>1, <2>1, <2>3, <2>4 DEF Lasting
<1>6. ASSUME looks = f.looks, f.t - all[i].t >= Debounce PROVE i \in Lasting(all, looks)
  BY <1>1, <1>3, <1>6 DEF Lasting
<1>7. Lasting(all, looks) =
        Lasting(fs, looks) \cup (IF looks = f.looks /\ f.t - all[i].t >= Debounce THEN {i} ELSE {})
  BY <1>4, <1>5, <1>6
<1>8. QED
  BY <1>7 DEF all

\* One more frame: where the last frames that look alike start, that this is
\* when the pending change began, and that the detector knows it afterwards.
LEMMA PendingAppend ==
  ASSUME NEW fs \in Clips, NEW f \in Frame, Append(fs, f) \in Clips,
         NEW det \in Detector, PendingIsLastRun(fs, det)
  PROVE  /\ PendingIsLastRun(Append(fs, f), Update(det, f.looks, f.t))
         /\ \E i \in 1..(Len(fs) + 1) :
              /\ LastRun(Append(fs, f), i)
              /\ f.looks # det.open => ChangeBegan(det, f.t) = Append(fs, f)[i].t
<1> DEFINE all == Append(fs, f)
           n == Len(fs)
           new == Update(det, f.looks, f.t)
<1>0. fs \in Seq(Frame) /\ all \in Clips
  BY DEF Clips
<1>1. /\ n \in Nat /\ DOMAIN fs = 1..n
      /\ Len(all) = n + 1 /\ DOMAIN all = 1..(n + 1)
      /\ all[n + 1] = f
      /\ \A k \in 1..n : all[k] = fs[k] /\ fs[k] \in Frame
  BY <1>0, OneMore
<1>2. fs = <<>> <=> n = 0
  BY <1>0
<1>3. fs # <<>> => fs[n].looks \in BOOLEAN
  BY <1>1, <1>2 DEF Frame
<1>4. f.t \in Nat /\ f.t > 0 /\ f.looks \in BOOLEAN /\ det.open \in BOOLEAN /\ det.seen \in Nat
  <2>1. (n + 1) \in DOMAIN all /\ all[n + 1] = f
    BY <1>1
  <2> HIDE DEF all, n
  <2>2. f.t > 0
    BY <1>0, <2>1 DEF Clips
  <2>3. QED
    BY <2>2 DEF Frame, Detector
<1> HIDE DEF all, n, new
\* Where the last frames that look alike start.
<1>5. \E i \in 1..(n + 1) :
        /\ LastRun(all, i)
        /\ f.looks # det.open => ChangeBegan(det, f.t) = all[i].t
  <2>1. CASE fs = <<>>
    <3>1. n = 0 /\ all # <<>>
      BY <1>1, <1>2, <2>1
    <3>2. f.looks = FALSE
      BY <1>0, <1>1, <1>4, <3>1 DEF Clips
    <3>3. det.open = FALSE
      BY <2>1 DEF PendingIsLastRun, ClosedDoor
    <3>4. LastRun(all, 1)
      BY <1>1, <3>1 DEF LastRun
    <3>5. 1 \in 1..(n + 1)
      BY <3>1
    <3>6. QED
      BY <3>2, <3>3, <3>4, <3>5
  <2>2. CASE fs # <<>> /\ f.looks = fs[n].looks
    <3>1. PICK i \in 1..n :
            /\ LastRun(fs, i)
            /\ IF fs[i].looks = det.open THEN det.seen = 0
               ELSE det.seen = fs[i].t /\ fs[n].t - fs[i].t < Debounce
      BY <1>1, <2>2 DEF PendingIsLastRun, n
    <3>2. /\ \A k \in i..n : fs[k].looks = f.looks
          /\ i = 1 \/ fs[i - 1].looks # f.looks
      BY <2>2, <3>1 DEF LastRun, n
    <3>3. /\ \A k \in i..(n + 1) : all[k].looks = f.looks
      BY <1>1, <3>1, <3>2
    <3>4. i = 1 \/ all[i - 1].looks # f.looks
      BY <1>1, <3>1, <3>2
    <3>5. LastRun(all, i)
      BY <1>1, <3>1, <3>3, <3>4 DEF LastRun
    <3>6. fs[i].looks = f.looks /\ fs[i].t = all[i].t /\ fs[i].t > 0
      BY <1>1, <3>1, <3>2 DEF Clips
    <3>7. f.looks # det.open => ChangeBegan(det, f.t) = all[i].t
      BY <3>1, <3>6 DEF ChangeBegan
    <3>8. i \in 1..(n + 1)
      BY <1>1, <3>1
    <3>9. QED
      BY <3>5, <3>7, <3>8
  <2>3. CASE fs # <<>> /\ f.looks # fs[n].looks
    <3>1. PICK i \in 1..n :
            /\ LastRun(fs, i)
            /\ IF fs[i].looks = det.open THEN det.seen = 0
               ELSE det.seen = fs[i].t /\ fs[n].t - fs[i].t < Debounce
      BY <1>1, <2>3 DEF PendingIsLastRun, n
    <3>2. fs[i].looks = fs[n].looks
      BY <1>1, <3>1 DEF LastRun, n
    <3>3. LastRun(all, n + 1)
      BY <1>1, <2>3, <3>1 DEF LastRun
    <3>4. f.looks # det.open => det.seen = 0
      BY <1>3, <1>4, <2>3, <3>1, <3>2
    <3>5. f.looks # det.open => ChangeBegan(det, f.t) = all[n + 1].t
      BY <1>1, <3>4 DEF ChangeBegan
    <3>6. QED
      BY <1>1, <3>3, <3>5
  <2>4. QED
    BY <2>1, <2>2, <2>3
<1>6. PICK i \in 1..(n + 1) :
        /\ LastRun(all, i)
        /\ f.looks # det.open => ChangeBegan(det, f.t) = all[i].t
  BY <1>5
<1>7. all[i].looks = f.looks /\ all[i].t \in Nat
  BY <1>1, <1>6 DEF LastRun, Frame
<1>8. IF all[i].looks = new.open THEN new.seen = 0
      ELSE new.seen = all[i].t /\ f.t - all[i].t < Debounce
  <2>1. CASE f.looks = det.open
    <3>1. new.open = det.open /\ new.seen = 0
      BY <2>1 DEF new, Update, Detector
    <3>2. QED
      BY <1>7, <2>1, <3>1
  <2>2. CASE f.looks # det.open /\ Flips(det, f.looks, f.t)
    BY <1>7, <2>2 DEF new, Update
  <2>3. CASE f.looks # det.open /\ ~ Flips(det, f.looks, f.t)
    <3>1. new.open = det.open /\ new.seen = ChangeBegan(det, f.t)
      BY <2>3 DEF new, Update, Detector
    <3>2. f.t - ChangeBegan(det, f.t) < Debounce
      BY <1>4, <1>6, <1>7, <2>3, DetectorConstants DEF Flips
    <3>3. QED
      BY <1>6, <1>7, <2>3, <3>1, <3>2
  <2>4. QED
    BY <2>1, <2>2, <2>3
<1>9. PendingIsLastRun(all, new)
  <2>1. all # <<>>
    BY <1>1
  <2>2. QED
    BY <1>1, <1>6, <1>8, <2>1 DEF PendingIsLastRun
<1>10. QED
  BY <1>5, <1>9 DEF all, n, new

\* What one more frame changes in the scan.
LEMMA ScannedCases ==
  ASSUME NEW s, ScanType(s), NEW f \in Frame
  PROVE  /\ ~ Flips(s.det, f.looks, f.t) =>
               Scanned(s, f) = [s EXCEPT !.det = Update(s.det, f.looks, f.t)]
         /\ Flips(s.det, f.looks, f.t) /\ f.looks =>
               Scanned(s, f) = [s EXCEPT !.det = Update(s.det, f.looks, f.t),
                                         !.openedAt = ChangeBegan(s.det, f.t)]
         /\ Flips(s.det, f.looks, f.t) /\ ~ f.looks =>
               Scanned(s, f) =
                 [det |-> Update(s.det, f.looks, f.t), openedAt |-> 0,
                  intervals |-> Append(s.intervals, [start |-> s.openedAt, end |-> ChangeBegan(s.det, f.t),
                                                     ongoing |-> FALSE])]
         /\ ~ Flips(s.det, f.looks, f.t) => Update(s.det, f.looks, f.t).open = s.det.open
         /\ Flips(s.det, f.looks, f.t) =>
               Update(s.det, f.looks, f.t).open = f.looks /\ f.looks # s.det.open
<1> DEFINE new == Update(s.det, f.looks, f.t)
<1>1. s.det \in Detector /\ s.det.open \in BOOLEAN /\ f.looks \in BOOLEAN
  BY DEF ScanType, Detector, Frame
<1>2. ~ Flips(s.det, f.looks, f.t) => new.open = s.det.open
  BY <1>1 DEF Update, Detector
<1>3. Flips(s.det, f.looks, f.t) => new.open = f.looks /\ f.looks # s.det.open
  BY <1>1 DEF Update, Flips
<1> HIDE DEF new
<1>4. Scanned(s, f) =
        IF new.open = s.det.open THEN [s EXCEPT !.det = new]
        ELSE IF new.open THEN [s EXCEPT !.det = new, !.openedAt = ChangeBegan(s.det, f.t)]
        ELSE [det |-> new, openedAt |-> 0,
              intervals |-> Append(s.intervals, [start |-> s.openedAt, end |-> ChangeBegan(s.det, f.t),
                                                 ongoing |-> FALSE])]
  BY DEF Scanned, new
<1>5. QED
  BY <1>1, <1>2, <1>3, <1>4, Zenon DEF new

\* A clip, one frame more, and where the last frames of it that look alike start.
Step(fs, f, s, i) ==
  /\ fs \in Clips /\ f \in Frame /\ Append(fs, f) \in Clips
  /\ RightOf(fs, s)
  /\ LastRun(Append(fs, f), i)
  /\ f.looks # s.det.open => ChangeBegan(s.det, f.t) = Append(fs, f)[i].t

\* The new frame makes the last frames a lasting change.
Lasts(fs, f, i) == f.t - Append(fs, f)[i].t >= Debounce

\* What one more frame does to the lasting changes.
LEMMA StepFacts ==
  ASSUME NEW fs, NEW f, NEW s, NEW i, Step(fs, f, s, i)
  PROVE  /\ Len(fs) \in Nat /\ i \in 1..(Len(fs) + 1)
         /\ Opens(fs) \subseteq 1..Len(fs) /\ Closes(fs) \subseteq 1..Len(fs)
         /\ \A o \in Opens(fs) : o <= i /\ (~ f.looks => o < i)
         /\ \A c \in Closes(fs) : c <= i /\ (f.looks => c < i)
         /\ Opens(Append(fs, f)) = Opens(fs) \cup (IF f.looks /\ Lasts(fs, f, i) THEN {i} ELSE {})
         /\ Closes(Append(fs, f)) = Closes(fs) \cup (IF ~ f.looks /\ Lasts(fs, f, i) THEN {i} ELSE {})
         /\ Flips(s.det, f.looks, f.t) <=> f.looks # s.det.open /\ Lasts(fs, f, i)
<1> DEFINE all == Append(fs, f)
           n == Len(fs)
<1>0. fs \in Seq(Frame) /\ f \in Frame /\ all \in Seq(Frame) /\ LastRun(all, i)
  BY DEF Step, Clips
<1>1. /\ n \in Nat /\ DOMAIN fs = 1..n
      /\ Len(all) = n + 1 /\ DOMAIN all = 1..(n + 1)
      /\ all[n + 1] = f
      /\ \A k \in 1..n : all[k] = fs[k] /\ fs[k] \in Frame
  BY <1>0, OneMore
<1>2. f.looks \in BOOLEAN
  BY <1>0 DEF Frame
<1>3. ASSUME NEW looks \in BOOLEAN
      PROVE  Lasting(all, looks) =
               Lasting(fs, looks) \cup (IF looks = f.looks /\ f.t - all[i].t >= Debounce THEN {i} ELSE {})
  BY <1>0, LastingAppend
<1> HIDE DEF all
<1>4. ASSUME NEW looks \in BOOLEAN, NEW x \in Lasting(all, looks)
      PROVE  /\ x \in 1..Len(all) /\ i \in 1..Len(all) /\ x <= i
             /\ looks # all[Len(all)].looks => x < i
  BY <1>0, LastingUpToLastRun
<1>5. i \in 1..(n + 1)
  BY <1>0, <1>1 DEF LastRun
<1>6. Opens(fs) \subseteq 1..n /\ Closes(fs) \subseteq 1..n
  BY <1>1 DEF Opens, Closes, Lasting
<1>7. \A o \in Opens(fs) : o <= i /\ (~ f.looks => o < i)
  BY <1>1, <1>2, <1>3, <1>4 DEF Opens
<1>8. \A c \in Closes(fs) : c <= i /\ (f.looks => c < i)
  BY <1>1, <1>2, <1>3, <1>4 DEF Closes
<1>9. Lasts(fs, f, i) <=> f.t - all[i].t >= Debounce
  BY DEF Lasts, all
<1>10. Opens(all) = Opens(fs) \cup (IF f.looks /\ Lasts(fs, f, i) THEN {i} ELSE {})
  <2>1. (TRUE = f.looks) <=> f.looks
    BY <1>2
  <2>2. QED
    BY <1>3, <1>9, <2>1 DEF Opens
<1>11. Closes(all) = Closes(fs) \cup (IF ~ f.looks /\ Lasts(fs, f, i) THEN {i} ELSE {})
  <2>1. (FALSE = f.looks) <=> ~ f.looks
    BY <1>2
  <2>2. QED
    BY <1>3, <1>9, <2>1 DEF Closes
<1>12. Flips(s.det, f.looks, f.t) <=> f.looks # s.det.open /\ Lasts(fs, f, i)
  <2>1. f.looks # s.det.open => ChangeBegan(s.det, f.t) = all[i].t
    BY DEF Step, all
  <2>2. QED
    BY <1>9, <2>1 DEF Flips
<1>13. QED
  BY <1>1, <1>5, <1>6, <1>7, <1>8, <1>10, <1>11, <1>12 DEF all, n

\* Openings that have ended stay as they were.
LEMMA EndedKept ==
  ASSUME NEW fs, NEW f, NEW s, NEW i, Step(fs, f, s, i),
         NEW k \in Opens(fs), After(Closes(fs), k) # {}
  PROVE  After(Closes(Append(fs, f)), k) # {} /\ Ended(Append(fs, f), k) = Ended(fs, k)
<1> DEFINE all == Append(fs, f)
           n == Len(fs)
<1>0. fs \in Seq(Frame) /\ f \in Frame
  BY DEF Step, Clips
<1>1. n \in Nat /\ \A j \in 1..n : all[j] = fs[j]
  BY <1>0, OneMore
<1>2. /\ i \in 1..(n + 1)
      /\ Opens(fs) \subseteq 1..n /\ Closes(fs) \subseteq 1..n
      /\ \A o \in Opens(fs) : o <= i /\ (~ f.looks => o < i)
      /\ \A c \in Closes(fs) : c <= i
      /\ Closes(all) = Closes(fs) \cup (IF ~ f.looks /\ Lasts(fs, f, i) THEN {i} ELSE {})
  BY StepFacts
<1> HIDE DEF all, n
<1>3. Closes(fs) \in SUBSET Nat /\ k \in Nat /\ k \in 1..n /\ i \in Nat
  BY <1>1, <1>2
<1>4. After(Closes(all), k) # {}
  BY <1>2 DEF After
<1>5. FirstAfter(Closes(all), k) = FirstAfter(Closes(fs), k)
  <2>1. CASE ~ f.looks /\ Lasts(fs, f, i)
    <3>1. k < i /\ Closes(all) = Closes(fs) \cup {i}
      BY <1>2, <2>1
    <3>2. FirstAfter(Closes(fs) \cup {i}, k) =
            IF After(Closes(fs), k) = {} THEN i ELSE FirstAfter(Closes(fs), k)
      BY <1>2, <1>3, <3>1, CloseAdded
    <3>3. QED
      BY <3>1, <3>2
  <2>2. CASE ~ (~ f.looks /\ Lasts(fs, f, i))
    <3>1. Closes(all) = Closes(fs)
      BY <1>2, <2>2
    <3>2. QED
      BY <3>1
  <2>3. QED
    BY <2>1, <2>2
<1>6. FirstAfter(Closes(fs), k) \in Closes(fs)
  BY <1>3, FirstAfterIs
<1>7. all[FirstAfter(Closes(fs), k)] = fs[FirstAfter(Closes(fs), k)] /\ all[k] = fs[k]
  BY <1>1, <1>2, <1>3, <1>6
<1>8. Ended(all, k) = Ended(fs, k)
  BY <1>5, <1>7 DEF Ended
<1>9. QED
  BY <1>4, <1>8 DEF all

\* A frame that does not change the state of the detector.
LEMMA RightWithoutFlip ==
  ASSUME NEW fs, NEW f, NEW s, NEW i, Step(fs, f, s, i), ~ Flips(s.det, f.looks, f.t)
  PROVE  /\ StateIsLastChange(Append(fs, f), Scanned(s, f))
         /\ IntervalsAreEnded(Append(fs, f), Scanned(s, f))
         /\ InOrder(Scanned(s, f).intervals)
<1> DEFINE all == Append(fs, f)
           n == Len(fs)
           new == Scanned(s, f)
           O == Opens(fs)
           C == Closes(fs)
<1>0. fs \in Seq(Frame) /\ f \in Frame /\ ScanType(s) /\ f.looks \in BOOLEAN /\ s.det.open \in BOOLEAN
  BY DEF Step, Clips, RightOf, ScanType, Detector, Frame
<1>1. n \in Nat /\ \A j \in 1..n : all[j] = fs[j]
  BY <1>0, OneMore
<1>2. /\ i \in 1..(n + 1)
      /\ O \subseteq 1..n /\ C \subseteq 1..n
      /\ \A o \in O : o <= i /\ (~ f.looks => o < i)
      /\ \A c \in C : c <= i /\ (f.looks => c < i)
      /\ Opens(all) = O \cup (IF f.looks /\ Lasts(fs, f, i) THEN {i} ELSE {})
      /\ Closes(all) = C \cup (IF ~ f.looks /\ Lasts(fs, f, i) THEN {i} ELSE {})
      /\ Flips(s.det, f.looks, f.t) <=> f.looks # s.det.open /\ Lasts(fs, f, i)
  BY StepFacts
<1>3. new.det.open = s.det.open /\ new.openedAt = s.openedAt /\ new.intervals = s.intervals
  <2>1. new = [s EXCEPT !.det = Update(s.det, f.looks, f.t)]
        /\ Update(s.det, f.looks, f.t).open = s.det.open
    BY <1>0, ScannedCases
  <2>2. QED
    BY <1>0, <2>1 DEF ScanType
<1>4. StateIsLastChange(fs, s) /\ IntervalsAreEnded(fs, s) /\ InOrder(s.intervals)
  BY DEF Step, RightOf
<1>5. ASSUME NEW k \in O, After(C, k) # {}
      PROVE  After(Closes(all), k) # {} /\ Ended(all, k) = Ended(fs, k)
  BY <1>5, EndedKept
<1> HIDE DEF all, n, new, O, C
<1>6. O \in SUBSET Nat /\ C \in SUBSET Nat /\ i \in Nat
  BY <1>1, <1>2
<1>7. Begins(fs) = BeginsOf(O, C) /\ Begins(all) = BeginsOf(Opens(all), Closes(all))
      /\ Begins(fs) \subseteq O
  BY DEF Begins, BeginsOf, O, C
\* The same openings begin, and the same have ended.
<1>8. Begins(all) = Begins(fs) /\ \A k \in Begins(fs) : After(Closes(all), k) # {} => After(C, k) # {}
  <2>1. CASE Opens(all) = O /\ Closes(all) = C
    BY <1>7, <2>1
  <2>2. CASE f.looks /\ s.det.open
    <3>1. Closes(all) = C /\ (Opens(all) = O \/ Opens(all) = O \cup {i})
      BY <1>2, <2>2
    <3>2. PICK b \in Begins(fs) : \A c \in C : c < b
      BY <1>4, <2>2 DEF StateIsLastChange, C
    <3>3. b \in O /\ b <= i
      BY <1>2, <1>7, <3>2
    <3>4. CASE i \in O
      <4>1. Opens(all) = O
        BY <3>1, <3>4
      <4>2. QED
        BY <2>1, <3>1, <4>1
    <3>5. CASE i \notin O
      <4>1. \A o \in O : o < i
        BY <1>2, <1>6, <3>5
      <4>2. ~ \A j \in O : \E c \in C : j < c /\ c < i
        BY <1>6, <3>2, <3>3
      <4>3. BeginsOf(O \cup {i}, C) =
              BeginsOf(O, C) \cup (IF \A j \in O : \E c \in C : j < c /\ c < i THEN {i} ELSE {})
        BY <1>6, <4>1, OpenAdded
      <4>4. BeginsOf(O \cup {i}, C) = BeginsOf(O, C)
        BY <4>2, <4>3
      <4>5. QED
        BY <1>7, <3>1, <4>4
    <3>6. QED
      BY <3>4, <3>5
  <2>3. CASE ~ f.looks /\ ~ s.det.open
    <3>1. Opens(all) = O /\ (Closes(all) = C \/ Closes(all) = C \cup {i})
      BY <1>2, <2>3
    <3>2. \A o \in O : o < i
      BY <1>2, <2>3
    <3>3. BeginsOf(O, C \cup {i}) = BeginsOf(O, C)
      BY <1>6, <3>2, CloseKeepsBegins
    <3>4. \A o \in O : After(C, o) # {}
      BY <1>4, <2>3 DEF StateIsLastChange, After, O, C
    <3>5. QED
      BY <1>7, <3>1, <3>3, <3>4
  <2>4. CASE f.looks # s.det.open
    <3>1. ~ Lasts(fs, f, i)
      BY <1>2, <2>4
    <3>2. QED
      BY <1>2, <2>1, <3>1
  <2>5. QED
    BY <1>0, <2>2, <2>3, <2>4
<1>9. StateIsLastChange(all, new)
  <2>1. CASE s.det.open
    <3>1. PICK b \in Begins(fs) : s.openedAt = fs[b].t /\ \A c \in C : c < b
      BY <1>4, <2>1 DEF StateIsLastChange, C
    <3>2. Closes(all) = C
      BY <1>0, <1>2, <2>1
    <3>3. all[b] = fs[b]
      BY <1>1, <1>2, <1>7, <3>1
    <3>4. QED
      BY <1>3, <1>8, <2>1, <3>1, <3>2, <3>3 DEF StateIsLastChange
  <2>2. CASE ~ s.det.open
    <3>1. Opens(all) = O
      BY <1>0, <1>2, <2>2
    <3>2. \A o \in O : \E c \in C : o < c
      BY <1>4, <2>2 DEF StateIsLastChange, O, C
    <3>3. C \subseteq Closes(all)
      BY <1>2
    <3>4. QED
      BY <1>3, <2>2, <3>1, <3>2, <3>3 DEF StateIsLastChange
  <2>3. QED
    BY <2>1, <2>2
<1>10. IntervalsAreEnded(all, new)
  <2>1. EndedBegins(all) = EndedBegins(fs)
    BY <1>5, <1>7, <1>8 DEF EndedBegins, C
  <2>2. \A k \in EndedBegins(fs) : Ended(all, k) = Ended(fs, k)
    BY <1>5, <1>7 DEF EndedBegins, C
  <2>3. {Ended(all, k) : k \in EndedBegins(all)} = {Ended(fs, k) : k \in EndedBegins(fs)}
    BY <2>1, <2>2
  <2>4. QED
    BY <1>3, <1>4, <2>3 DEF IntervalsAreEnded
<1>11. QED
  BY <1>3, <1>4, <1>9, <1>10 DEF all, new

\* The door is found open: an opening begins where the last frames start.
LEMMA RightWhenOpened ==
  ASSUME NEW fs, NEW f, NEW s, NEW i, Step(fs, f, s, i), Flips(s.det, f.looks, f.t), f.looks
  PROVE  /\ StateIsLastChange(Append(fs, f), Scanned(s, f))
         /\ IntervalsAreEnded(Append(fs, f), Scanned(s, f))
         /\ InOrder(Scanned(s, f).intervals)
<1> DEFINE all == Append(fs, f)
           n == Len(fs)
           new == Scanned(s, f)
           O == Opens(fs)
           C == Closes(fs)
<1>0. fs \in Seq(Frame) /\ f \in Frame /\ ScanType(s) /\ f.looks \in BOOLEAN /\ s.det.open \in BOOLEAN
  BY DEF Step, Clips, RightOf, ScanType, Detector, Frame
<1>1. n \in Nat /\ \A j \in 1..n : all[j] = fs[j]
  BY <1>0, OneMore
<1>2. /\ i \in 1..(n + 1)
      /\ O \subseteq 1..n /\ C \subseteq 1..n
      /\ \A o \in O : o <= i /\ (~ f.looks => o < i)
      /\ \A c \in C : c <= i /\ (f.looks => c < i)
      /\ Opens(all) = O \cup (IF f.looks /\ Lasts(fs, f, i) THEN {i} ELSE {})
      /\ Closes(all) = C \cup (IF ~ f.looks /\ Lasts(fs, f, i) THEN {i} ELSE {})
      /\ Flips(s.det, f.looks, f.t) <=> f.looks # s.det.open /\ Lasts(fs, f, i)
  BY StepFacts
<1>3. new.det.open /\ new.openedAt = all[i].t /\ new.intervals = s.intervals
  <2>1. /\ new = [s EXCEPT !.det = Update(s.det, f.looks, f.t), !.openedAt = ChangeBegan(s.det, f.t)]
        /\ Update(s.det, f.looks, f.t).open = f.looks
    BY <1>0, ScannedCases
  <2>2. ChangeBegan(s.det, f.t) = all[i].t
    BY <1>2 DEF Step
  <2>3. QED
    BY <1>0, <2>1, <2>2 DEF ScanType
<1>4. StateIsLastChange(fs, s) /\ IntervalsAreEnded(fs, s) /\ InOrder(s.intervals)
  BY DEF Step, RightOf
<1>5. ASSUME NEW k \in O, After(C, k) # {}
      PROVE  After(Closes(all), k) # {} /\ Ended(all, k) = Ended(fs, k)
  BY <1>5, EndedKept
<1> HIDE DEF all, n, new, O, C
<1>6. O \in SUBSET Nat /\ C \in SUBSET Nat /\ i \in Nat
  BY <1>1, <1>2
<1>7. Begins(fs) = BeginsOf(O, C) /\ Begins(all) = BeginsOf(Opens(all), Closes(all))
      /\ Begins(fs) \subseteq O
  BY DEF Begins, BeginsOf, O, C
<1>8. ~ s.det.open /\ Opens(all) = O \cup {i} /\ Closes(all) = C
  BY <1>2
<1>9. \A o \in O : \E c \in C : o < c /\ c < i
  <2>1. \A o \in O : \E c \in C : o < c
    BY <1>4, <1>8 DEF StateIsLastChange, O, C
  <2>2. QED
    BY <1>2, <2>1
<1>10. \A o \in O : o < i
  BY <1>6, <1>9
<1>11. Begins(all) = Begins(fs) \cup {i}
  <2>1. BeginsOf(O \cup {i}, C) =
          BeginsOf(O, C) \cup (IF \A j \in O : \E c \in C : j < c /\ c < i THEN {i} ELSE {})
    BY <1>6, <1>10, OpenAdded
  <2>2. QED
    BY <1>7, <1>8, <1>9, <2>1
<1>12. After(Closes(all), i) = {}
  <2>1. \A c \in C : ~ (c > i)
    BY <1>2, <1>6, <1>8
  <2>2. QED
    BY <1>8, <2>1 DEF After
<1>13. StateIsLastChange(all, new)
  BY <1>2, <1>3, <1>8, <1>11 DEF StateIsLastChange
<1>14. IntervalsAreEnded(all, new)
  <2>1. EndedBegins(all) = EndedBegins(fs)
    BY <1>8, <1>11, <1>12 DEF EndedBegins, C
  <2>2. \A k \in EndedBegins(fs) : Ended(all, k) = Ended(fs, k)
    BY <1>5, <1>7 DEF EndedBegins, C
  <2>3. {Ended(all, k) : k \in EndedBegins(all)} = {Ended(fs, k) : k \in EndedBegins(fs)}
    BY <2>1, <2>2
  <2>4. QED
    BY <1>3, <1>4, <2>3 DEF IntervalsAreEnded
<1>15. QED
  BY <1>3, <1>4, <1>13, <1>14 DEF all, new

\* The times of a clip are times, and increase.
LEMMA ClipTimes ==
  ASSUME NEW fs \in Clips
  PROVE  /\ DOMAIN fs = 1..Len(fs) /\ Len(fs) \in Nat
         /\ \A i \in DOMAIN fs : fs[i].t \in Nat
         /\ \A i, j \in DOMAIN fs : i < j => fs[i].t < fs[j].t
<1>1. fs \in Seq(Frame) /\ \A i, j \in DOMAIN fs : i < j => fs[i].t < fs[j].t
  BY DEF Clips
<1>2. \A i \in DOMAIN fs : fs[i] \in Frame
  BY <1>1
<1>3. \A i \in DOMAIN fs : fs[i].t \in Nat
  BY <1>2 DEF Frame
<1>4. QED
  BY <1>1, <1>3

\* While the door is open, the intervals ended before it was opened.
LEMMA EndedBeforeOpen ==
  ASSUME NEW fs \in Clips, NEW s, RightOf(fs, s), s.det.open, NEW k \in DOMAIN s.intervals
  PROVE  s.intervals[k].end <= s.openedAt
<1>1. /\ DOMAIN fs = 1..Len(fs) /\ Len(fs) \in Nat
      /\ \A i \in DOMAIN fs : fs[i].t \in Nat
      /\ \A i, j \in DOMAIN fs : i < j => fs[i].t < fs[j].t
  BY ClipTimes
<1>2. Opens(fs) \subseteq DOMAIN fs /\ Closes(fs) \subseteq DOMAIN fs /\ Begins(fs) \subseteq Opens(fs)
  BY DEF Opens, Closes, Lasting, Begins, BeginsOf
<1>3. PICK b \in Begins(fs) : s.openedAt = fs[b].t /\ \A n \in Closes(fs) : n < b
  BY DEF RightOf, StateIsLastChange
<1>4. PICK j \in EndedBegins(fs) : s.intervals[k] = Ended(fs, j)
  <2>1. s.intervals[k] \in {Ended(fs, j) : j \in EndedBegins(fs)}
    BY DEF RightOf, IntervalsAreEnded
  <2>2. QED
    BY <2>1
<1>5. j \in Nat /\ After(Closes(fs), j) # {} /\ Closes(fs) \in SUBSET Nat
  BY <1>1, <1>2 DEF EndedBegins
<1>6. FirstAfter(Closes(fs), j) \in Closes(fs)
  BY <1>5, FirstAfterIs
<1>7. fs[FirstAfter(Closes(fs), j)].t < fs[b].t
  BY <1>1, <1>2, <1>3, <1>6
<1>8. s.intervals[k].end = fs[FirstAfter(Closes(fs), j)].t
  BY <1>4 DEF Ended
<1>9. QED
  BY <1>1, <1>2, <1>3, <1>6, <1>7, <1>8

\* The door is found closed: the opening at hand has ended where the last
\* frames start.
LEMMA RightWhenClosed ==
  ASSUME NEW fs, NEW f, NEW s, NEW i, Step(fs, f, s, i), Flips(s.det, f.looks, f.t), ~ f.looks
  PROVE  /\ StateIsLastChange(Append(fs, f), Scanned(s, f))
         /\ IntervalsAreEnded(Append(fs, f), Scanned(s, f))
         /\ InOrder(Scanned(s, f).intervals)
<1> DEFINE all == Append(fs, f)
           n == Len(fs)
           new == Scanned(s, f)
           O == Opens(fs)
           C == Closes(fs)
           interval == [start |-> s.openedAt, end |-> all[i].t, ongoing |-> FALSE]
<1>0. /\ fs \in Seq(Frame) /\ f \in Frame /\ ScanType(s) /\ f.looks \in BOOLEAN /\ s.det.open \in BOOLEAN
      /\ s.intervals \in Seq(OpenInterval) /\ fs \in Clips /\ all \in Clips
  BY DEF Step, Clips, RightOf, ScanType, Detector, Frame
<1>1. n \in Nat /\ DOMAIN fs = 1..n /\ DOMAIN all = 1..(n + 1) /\ \A j \in 1..n : all[j] = fs[j]
  BY <1>0, OneMore
<1>2. /\ i \in 1..(n + 1)
      /\ O \subseteq 1..n /\ C \subseteq 1..n
      /\ \A o \in O : o <= i /\ (~ f.looks => o < i)
      /\ \A c \in C : c <= i /\ (f.looks => c < i)
      /\ Opens(all) = O \cup (IF f.looks /\ Lasts(fs, f, i) THEN {i} ELSE {})
      /\ Closes(all) = C \cup (IF ~ f.looks /\ Lasts(fs, f, i) THEN {i} ELSE {})
      /\ Flips(s.det, f.looks, f.t) <=> f.looks # s.det.open /\ Lasts(fs, f, i)
  BY StepFacts
<1>3. ~ new.det.open /\ new.intervals = Append(s.intervals, interval)
  <2>1. /\ new = [det |-> Update(s.det, f.looks, f.t), openedAt |-> 0,
                  intervals |-> Append(s.intervals, [start |-> s.openedAt, end |-> ChangeBegan(s.det, f.t),
                                                     ongoing |-> FALSE])]
        /\ Update(s.det, f.looks, f.t).open = f.looks
    BY <1>0, ScannedCases
  <2>2. ChangeBegan(s.det, f.t) = all[i].t
    BY <1>2 DEF Step
  <2> HIDE DEF all
  <2>3. new.det.open = f.looks
    BY <2>1
  <2>4. new.intervals = Append(s.intervals, [start |-> s.openedAt, end |-> ChangeBegan(s.det, f.t),
                                             ongoing |-> FALSE])
    BY <2>1
  <2>5. QED
    BY <2>2, <2>3, <2>4
<1>4. StateIsLastChange(fs, s) /\ IntervalsAreEnded(fs, s) /\ InOrder(s.intervals)
  BY DEF Step, RightOf
<1>5. ASSUME NEW k \in O, After(C, k) # {}
      PROVE  After(Closes(all), k) # {} /\ Ended(all, k) = Ended(fs, k)
  BY <1>5, EndedKept
<1>a. \A j, k \in 1..(n + 1) : j < k => all[j].t < all[k].t
  BY <1>0, <1>1 DEF Clips
<1>b. \A j \in 1..(n + 1) : all[j].t \in Nat
  <2>1. \A j \in 1..(n + 1) : all[j] \in Frame
    BY <1>0, <1>1 DEF Clips
  <2>2. QED
    BY <2>1 DEF Frame
<1>c. /\ interval.start = s.openedAt /\ interval.end = all[i].t /\ interval.ongoing = FALSE
  OBVIOUS
<1>d. interval = [start |-> s.openedAt, end |-> all[i].t, ongoing |-> FALSE]
  OBVIOUS
<1>e. /\ DOMAIN Append(s.intervals, interval) = 1..(Len(s.intervals) + 1)
      /\ Append(s.intervals, interval)[Len(s.intervals) + 1] = interval
      /\ \A k \in 1..Len(s.intervals) : Append(s.intervals, interval)[k] = s.intervals[k]
      /\ Len(s.intervals) \in Nat /\ DOMAIN s.intervals = 1..Len(s.intervals)
      /\ \A k \in 1..Len(s.intervals) : s.intervals[k] \in OpenInterval
  <2> HIDE DEF interval
  <2>1. QED
    BY <1>0
<1> HIDE DEF all, n, new, O, C, interval
<1>6. O \in SUBSET Nat /\ C \in SUBSET Nat /\ i \in Nat
  BY <1>1, <1>2
<1>7. Begins(fs) = BeginsOf(O, C) /\ Begins(all) = BeginsOf(Opens(all), Closes(all))
      /\ Begins(fs) \subseteq O
  BY DEF Begins, BeginsOf, O, C
<1>8. s.det.open /\ Opens(all) = O /\ Closes(all) = C \cup {i} /\ \A o \in O : o < i
  BY <1>0, <1>2
<1>9. Begins(all) = Begins(fs)
  BY <1>6, <1>7, <1>8, CloseKeepsBegins
<1>10. PICK b \in Begins(fs) : s.openedAt = fs[b].t /\ \A c \in C : c < b
  BY <1>4, <1>8 DEF StateIsLastChange, C
<1>11. b \in O /\ b \in 1..n /\ b < i /\ After(C, b) = {} /\ all[b] = fs[b]
  <2>1. b \in O /\ b \in 1..n /\ b < i
    BY <1>2, <1>7, <1>8, <1>10
  <2>2. \A c \in C : ~ (c > b)
    BY <1>6, <1>10, <2>1
  <2>3. After(C, b) = {}
    BY <2>2 DEF After
  <2>4. QED
    BY <1>1, <2>1, <2>3
<1>12. StateIsLastChange(all, new)
  BY <1>3, <1>8 DEF StateIsLastChange
<1>13. \A k \in Begins(fs) : After(C, k) = {} => k = b
  <2>1. ASSUME NEW k \in Begins(fs), After(C, k) = {}, k < b PROVE FALSE
    <3>1. \E c \in C : k < c
      BY <1>7, <1>10, <2>1 DEF BeginsOf
    <3>2. QED
      BY <2>1, <3>1 DEF After
  <2>2. ASSUME NEW k \in Begins(fs), b < k PROVE FALSE
    <3>1. \E c \in C : b < c
      BY <1>7, <1>11, <2>2 DEF BeginsOf
    <3>2. QED
      BY <1>11, <3>1 DEF After
  <2>3. QED
    BY <1>6, <1>7, <1>11, <2>1, <2>2
<1>14. EndedBegins(all) = EndedBegins(fs) \cup {b}
  <2>1. \A k \in Begins(fs) : After(Closes(all), k) # {}
    BY <1>7, <1>8 DEF After
  <2>2. EndedBegins(all) = Begins(fs)
    BY <1>9, <2>1 DEF EndedBegins
  <2>3. QED
    BY <1>13, <2>2 DEF EndedBegins, C
<1>15. Ended(all, b) = interval
  <2>1. FirstAfter(C \cup {i}, b) = IF After(C, b) = {} THEN i ELSE FirstAfter(C, b)
    BY <1>2, <1>6, <1>11, CloseAdded
  <2>2. QED
    BY <1>8, <1>10, <1>11, <2>1, <1>d DEF Ended
<1>16. IntervalsAreEnded(all, new)
  <2>1. {new.intervals[k] : k \in DOMAIN new.intervals} =
          {s.intervals[k] : k \in DOMAIN s.intervals} \cup {interval}
    BY <1>3, <1>e
  <2>2. \A k \in EndedBegins(fs) : Ended(all, k) = Ended(fs, k)
    BY <1>5, <1>7 DEF EndedBegins, C
  <2>3. {Ended(all, k) : k \in EndedBegins(all)} = {Ended(fs, k) : k \in EndedBegins(fs)} \cup {interval}
    BY <1>14, <1>15, <2>2
  <2>4. QED
    BY <1>4, <2>1, <2>3 DEF IntervalsAreEnded
<1>17. \A k \in 1..Len(s.intervals) : s.intervals[k].end <= s.openedAt
  BY <1>0, <1>8, <1>e, EndedBeforeOpen DEF Step
<1>18. s.openedAt < all[i].t
  BY <1>1, <1>2, <1>10, <1>11, <1>a
<1>19. InOrder(new.intervals)
  <2>1. \A k \in 1..(Len(s.intervals) + 1) :
           new.intervals[k] = IF k = Len(s.intervals) + 1 THEN interval ELSE s.intervals[k]
    BY <1>3, <1>e
  <2>2. /\ \A k \in 1..Len(s.intervals) : s.intervals[k].start < s.intervals[k].end
                                           /\ s.intervals[k].ongoing = FALSE
        /\ \A k, m \in 1..Len(s.intervals) : k < m => s.intervals[k].end <= s.intervals[m].start
    BY <1>4, <1>e DEF InOrder
  <2>3. DOMAIN new.intervals = 1..(Len(s.intervals) + 1)
    BY <1>3, <1>e
  <2>4. \A k \in 1..(Len(s.intervals) + 1) :
           new.intervals[k].start < new.intervals[k].end /\ new.intervals[k].ongoing = FALSE
    BY <1>18, <1>c, <1>e, <2>1, <2>2
  <2>5. ASSUME NEW k \in 1..(Len(s.intervals) + 1), NEW m \in 1..(Len(s.intervals) + 1), k < m
        PROVE  new.intervals[k].end <= new.intervals[m].start
    <3>1. k \in 1..Len(s.intervals) /\ new.intervals[k] = s.intervals[k]
      BY <1>e, <2>1, <2>5
    <3>2. CASE m = Len(s.intervals) + 1
      BY <1>17, <1>c, <2>1, <3>1, <3>2
    <3>3. CASE m # Len(s.intervals) + 1
      <4>1. m \in 1..Len(s.intervals) /\ new.intervals[m] = s.intervals[m]
        BY <1>e, <2>1, <3>3
      <4>2. QED
        BY <2>2, <2>5, <3>1, <4>1
    <3>4. QED
      BY <3>2, <3>3
  <2>6. QED
    BY <2>3, <2>4, <2>5 DEF InOrder
<1>20. QED
  BY <1>12, <1>16, <1>19 DEF all, new

\* The scan keeps its shape.
LEMMA ScannedType ==
  ASSUME NEW s, ScanType(s), NEW f \in Frame
  PROVE  ScanType(Scanned(s, f)) /\ Scanned(s, f).det = Update(s.det, f.looks, f.t)
<1> DEFINE det == Update(s.det, f.looks, f.t)
           began == ChangeBegan(s.det, f.t)
           interval == [start |-> s.openedAt, end |-> began, ongoing |-> FALSE]
<1>1. det \in Detector /\ began \in Nat
  BY UpdateType DEF ScanType, Frame, ChangeBegan, Detector
<1>2. interval \in OpenInterval
  BY <1>1 DEF OpenInterval, ScanType
<1>3. s.intervals \in Seq(OpenInterval)
  BY DEF ScanType
<1>4. Append(s.intervals, interval) \in Seq(OpenInterval)
  <2> HIDE DEF interval
  <2>1. QED
    BY <1>2, <1>3
<1> DEFINE a == [s EXCEPT !.det = det]
           b == [s EXCEPT !.det = det, !.openedAt = began]
           c == [det |-> det, openedAt |-> 0, intervals |-> Append(s.intervals, interval)]
<1>5. Scanned(s, f) \in {a, b, c}
  BY DEF Scanned
<1> HIDE DEF det, began, interval
<1>6. ScanType(a) /\ a.det = det
  BY <1>1 DEF ScanType
<1>7. ScanType(b) /\ b.det = det
  BY <1>1 DEF ScanType
<1>8. ScanType(c) /\ c.det = det
  BY <1>1, <1>4 DEF ScanType
<1> HIDE DEF a, b, c
<1>9. QED
  BY <1>5, <1>6, <1>7, <1>8 DEF det

\* What the scan knows of a clip stays right with one more frame.
LEMMA RightAppend ==
  ASSUME NEW fs \in Clips, NEW f \in Frame, Append(fs, f) \in Clips, NEW s, RightOf(fs, s)
  PROVE  RightOf(Append(fs, f), Scanned(s, f))
<1>1. ScanType(s) /\ PendingIsLastRun(fs, s.det) /\ s.det \in Detector
  BY DEF RightOf, ScanType
<1>2. /\ PendingIsLastRun(Append(fs, f), Update(s.det, f.looks, f.t))
      /\ \E i \in 1..(Len(fs) + 1) :
           /\ LastRun(Append(fs, f), i)
           /\ f.looks # s.det.open => ChangeBegan(s.det, f.t) = Append(fs, f)[i].t
  BY <1>1, PendingAppend
<1>3. PICK i : Step(fs, f, s, i)
  BY <1>2 DEF Step
<1>4. ScanType(Scanned(s, f)) /\ Scanned(s, f).det = Update(s.det, f.looks, f.t)
  BY <1>1, ScannedType
<1>5. /\ StateIsLastChange(Append(fs, f), Scanned(s, f))
      /\ IntervalsAreEnded(Append(fs, f), Scanned(s, f))
      /\ InOrder(Scanned(s, f).intervals)
  BY <1>3, RightWithoutFlip, RightWhenOpened, RightWhenClosed
<1>6. QED
  BY <1>2, <1>4, <1>5 DEF RightOf

\* The scan of no frames.
LEMMA RightAtStart == RightOf(<<>>, ScanStart)
<1>1. ScanType(ScanStart)
  BY DEF ScanType, ScanStart, ClosedDoor, Detector
<1>2. Opens(<<>>) = {} /\ Closes(<<>>) = {}
  BY DEF Opens, Closes, Lasting
<1>3. ScanStart.intervals = <<>> /\ DOMAIN <<>> = {} /\ ScanStart.det = ClosedDoor /\ ~ ScanStart.det.open
  BY DEF ScanStart, ClosedDoor
<1>4. EndedBegins(<<>>) = {}
  BY <1>2 DEF EndedBegins, Begins, BeginsOf
<1>5. QED
  BY <1>1, <1>2, <1>3, <1>4 DEF RightOf, PendingIsLastRun, StateIsLastChange, IntervalsAreEnded, InOrder

\* The scan of a clip is right.
LEMMA ScanIsRight == ASSUME NEW fs \in Clips PROVE RightOf(fs, Scan(fs))
<1> DEFINE S == {n \in Nat : \A gs \in Clips : Len(gs) = n => RightOf(gs, Scan(gs))}
<1>1. 0 \in S
  <2>1. ASSUME NEW gs \in Clips, Len(gs) = 0 PROVE RightOf(gs, Scan(gs))
    <3>1. gs = <<>>
      BY <2>1 DEF Clips
    <3>2. Scan(<<>>) = ScanStart
      BY ScanOfNone
    <3>3. QED
      BY <3>1, <3>2, RightAtStart
  <2>2. QED
    BY <2>1
<1>2. ASSUME NEW n \in Nat, n \in S PROVE n + 1 \in S
  <2>1. ASSUME NEW gs \in Clips, Len(gs) = n + 1 PROVE RightOf(gs, Scan(gs))
    <3> DEFINE front == SubSeq(gs, 1, n)
               f == gs[n + 1]
    <3>1. gs \in Seq(Frame)
      BY DEF Clips
    <3>2. /\ front \in Seq(Frame) /\ f \in Frame /\ Len(front) = n /\ \A k \in 1..n : front[k] = gs[k]
          /\ gs = Append(front, f)
      BY <2>1, <3>1
    <3> HIDE DEF front, f
    <3>3. front \in Clips
      <4>1. DOMAIN front = 1..n /\ DOMAIN gs = 1..(n + 1)
        BY <2>1, <3>1, <3>2
      <4>2. \A k \in 1..n : k \in DOMAIN gs
        BY <4>1
      <4>3. \A k \in DOMAIN front : front[k].t > 0
        BY <3>2, <4>1, <4>2 DEF Clips
      <4>4. \A k, m \in DOMAIN front : k < m => front[k].t < front[m].t
        BY <3>2, <4>1, <4>2 DEF Clips
      <4>5. front # <<>> => ~ front[1].looks
        <5>1. SUFFICES ASSUME front # <<>> PROVE ~ front[1].looks
          OBVIOUS
        <5>2. n # 0
          BY <3>2, <5>1
        <5>3. 1 \in 1..n /\ gs # <<>>
          BY <2>1, <5>2, <3>1
        <5>4. QED
          BY <3>2, <5>3 DEF Clips
      <4>6. QED
        BY <3>2, <4>3, <4>4, <4>5 DEF Clips
    <3>4. RightOf(front, Scan(front))
      BY <1>2, <3>2, <3>3
    <3>5. Scan(gs) = Scanned(Scan(front), f)
      BY <3>2, ScanOfMore
    <3>6. QED
      BY <3>2, <3>3, <3>4, <3>5, RightAppend
  <2>2. QED
    BY <2>1
<1>3. Nat \subseteq S
  <2> HIDE DEF S
  <2>1. QED
    BY <1>1, <1>2, SetInduction
<1>4. Len(fs) \in Nat
  BY DEF Clips
<1>5. QED
  BY <1>3, <1>4

-----------------------------------------------------------------------------
(* The report on a clip.                                                   *)

\* The interval of an opening that has not ended.
Ongoing(fs, start) == [start |-> start, end |-> fs[Len(fs)].t, ongoing |-> TRUE]

\* The report is of the intervals, and of the one at hand.
LEMMA ReportIs ==
  ASSUME NEW fs \in Clips
  PROVE  Report(fs) = IF Scan(fs).det.open THEN Append(Scan(fs).intervals, Ongoing(fs, Scan(fs).openedAt))
                      ELSE Scan(fs).intervals
BY DEF Report, Ongoing

\* While the door is open, it was opened at a time before the last frame's.
LEMMA OpenedBefore ==
  ASSUME NEW fs \in Clips, NEW s, RightOf(fs, s), s.det.open
  PROVE  /\ fs # <<>> /\ Len(fs) \in DOMAIN fs
         /\ fs[Len(fs)].t \in Nat /\ s.openedAt \in Nat /\ s.openedAt <= fs[Len(fs)].t
<1>1. /\ DOMAIN fs = 1..Len(fs) /\ Len(fs) \in Nat
      /\ \A i \in DOMAIN fs : fs[i].t \in Nat
      /\ \A i, j \in DOMAIN fs : i < j => fs[i].t < fs[j].t
  BY ClipTimes
<1>2. PICK b \in Begins(fs) : s.openedAt = fs[b].t
  BY DEF RightOf, StateIsLastChange
<1>3. b \in DOMAIN fs
  BY <1>2 DEF Begins, BeginsOf, Opens, Lasting
<1>4. Len(fs) \in DOMAIN fs /\ fs # <<>>
  BY <1>1, <1>3
<1>5. fs[b].t <= fs[Len(fs)].t
  BY <1>1, <1>3, <1>4
<1>6. QED
  BY <1>1, <1>2, <1>3, <1>4, <1>5

\* The openings of a clip are those that ended and the one at hand.
LEMMA OpeningsAre ==
  ASSUME NEW fs \in Clips, NEW s, RightOf(fs, s)
  PROVE  Openings(fs) = {Ended(fs, i) : i \in EndedBegins(fs)} \cup
                          (IF s.det.open THEN {Ongoing(fs, s.openedAt)} ELSE {})
<1> DEFINE Opening(i) == IF After(Closes(fs), i) = {} THEN Ongoing(fs, fs[i].t) ELSE Ended(fs, i)
<1>1. Openings(fs) = {Opening(i) : i \in Begins(fs)}
  BY DEF Openings, Begins, BeginsOf, Opens, Closes, After, FirstAfter, Ongoing, Ended
<1>2. /\ Opens(fs) \in SUBSET Nat /\ Closes(fs) \in SUBSET Nat
      /\ Begins(fs) \subseteq Opens(fs) /\ EndedBegins(fs) = {i \in Begins(fs) : After(Closes(fs), i) # {}}
  <2>1. DOMAIN fs \subseteq Nat
    BY DEF Clips
  <2>2. QED
    BY <2>1 DEF Opens, Closes, Lasting, Begins, BeginsOf, EndedBegins
<1>3. CASE ~ s.det.open
  <2>1. \A i \in Opens(fs) : \E n \in Closes(fs) : i < n
    BY <1>3 DEF RightOf, StateIsLastChange
  <2>2. \A i \in Begins(fs) : After(Closes(fs), i) # {}
    BY <1>2, <2>1 DEF After
  <2>3. EndedBegins(fs) = Begins(fs)
    BY <1>2, <2>2
  <2>4. {Opening(i) : i \in Begins(fs)} = {Ended(fs, i) : i \in EndedBegins(fs)}
    BY <2>2, <2>3
  <2>5. QED
    BY <1>1, <1>3, <2>4
<1>4. CASE s.det.open
  <2>1. PICK b \in Begins(fs) : s.openedAt = fs[b].t /\ \A n \in Closes(fs) : n < b
    BY <1>4 DEF RightOf, StateIsLastChange
  <2>2. After(Closes(fs), b) = {}
    <3>1. \A n \in Closes(fs) : ~ (n > b)
      BY <1>2, <2>1
    <3>2. QED
      BY <3>1 DEF After
  <2>3. \A k \in Begins(fs) : After(Closes(fs), k) = {} => k = b
    <3>1. ASSUME NEW k \in Begins(fs), After(Closes(fs), k) = {}, k < b PROVE FALSE
      <4>1. \E c \in Closes(fs) : k < c
        BY <1>2, <2>1, <3>1 DEF BeginsOf, Begins
      <4>2. QED
        BY <1>2, <3>1, <4>1 DEF After
    <3>2. ASSUME NEW k \in Begins(fs), b < k PROVE FALSE
      <4>1. \E c \in Closes(fs) : b < c
        BY <1>2, <2>1, <3>2 DEF BeginsOf, Begins
      <4>2. QED
        BY <1>2, <2>2, <4>1 DEF After
    <3>3. QED
      BY <1>2, <2>1, <3>1, <3>2
  <2>4. Begins(fs) = EndedBegins(fs) \cup {b} /\ b \notin EndedBegins(fs)
    BY <1>2, <2>1, <2>2, <2>3
  <2>5. Opening(b) = Ongoing(fs, s.openedAt)
    BY <2>1, <2>2
  <2>6. \A i \in EndedBegins(fs) : Opening(i) = Ended(fs, i)
    BY <1>2
  <2> HIDE DEF Opening
  <2>7. {Opening(i) : i \in Begins(fs)} = {Ended(fs, i) : i \in EndedBegins(fs)} \cup {Opening(b)}
    BY <2>4, <2>6
  <2>8. QED
    BY <1>1, <1>4, <2>5, <2>7
<1>5. s.det.open \in BOOLEAN
  BY DEF RightOf, ScanType, Detector
<1>6. QED
  BY <1>3, <1>4, <1>5

\* A sequence without repetitions is as long as its range is large.
LEMMA LengthOfDistinct ==
  ASSUME NEW S, NEW s \in Seq(S), \A i, j \in DOMAIN s : i < j => s[i] # s[j]
  PROVE  Len(s) = Cardinality({s[i] : i \in DOMAIN s})
<1> DEFINE T == {s[i] : i \in DOMAIN s}
<1>1. DOMAIN s = 1..Len(s) /\ Len(s) \in Nat /\ s \in [1..Len(s) -> S]
  OBVIOUS
<1>2. s \in [1..Len(s) -> T]
  BY <1>1
<1>3. \A x \in T : \E i \in 1..Len(s) : s[i] = x
  BY <1>1
<1>4. \A i, j \in 1..Len(s) : s[i] = s[j] => i = j
  BY <1>1
<1> HIDE DEF T
<1>5. s \in Surjection(1..Len(s), T)
  BY <1>2, <1>3 DEF Surjection
<1>6. s \in Injection(1..Len(s), T)
  BY <1>1, <1>2, <1>4 DEF Injection, IsInjective
<1>7. IsFiniteSet(1..Len(s)) /\ Cardinality(1..Len(s)) = Len(s)
  BY <1>1, FS_Interval
<1>8. Cardinality(T) = Cardinality(1..Len(s))
  BY <1>5, <1>6, <1>7, FS_Surjection
<1>9. QED
  BY <1>7, <1>8 DEF T

\* The report has the intervals of a clip's openings, each once and in order.
THEOREM ReportOfClip ==
  ASSUME NEW fs \in Clips
  PROVE  /\ Report(fs) \in Seq(OpenInterval)
         /\ {Report(fs)[i] : i \in DOMAIN Report(fs)} = Openings(fs)
         /\ Len(Report(fs)) = Cardinality(Openings(fs))
         /\ \A i \in 1..(Len(Report(fs)) - 1) : Report(fs)[i].end <= Report(fs)[i + 1].start
<1> DEFINE s == Scan(fs)
           report == Report(fs)
           last == Ongoing(fs, s.openedAt)
           n == Len(s.intervals)
<1>1. RightOf(fs, s)
  BY ScanIsRight
<1>2. /\ s.intervals \in Seq(OpenInterval) /\ s.det.open \in BOOLEAN /\ n \in Nat
      /\ DOMAIN s.intervals = 1..n
      /\ \A k \in 1..n : s.intervals[k] \in OpenInterval
  BY <1>1 DEF RightOf, ScanType, Detector
<1>3. report = IF s.det.open THEN Append(s.intervals, last) ELSE s.intervals
  BY ReportIs
<1>4. s.det.open => last \in OpenInterval
  BY <1>1, OpenedBefore DEF Ongoing, OpenInterval
<1>5. /\ s.det.open => /\ report \in Seq(OpenInterval) /\ Len(report) = n + 1 /\ DOMAIN report = 1..(n + 1)
                       /\ report[n + 1] = last
      /\ ~ s.det.open => report \in Seq(OpenInterval) /\ Len(report) = n /\ DOMAIN report = 1..n
      /\ \A k \in 1..n : report[k] = s.intervals[k]
  <2> HIDE DEF s, report, last
  <2>1. QED
    BY <1>2, <1>3, <1>4 DEF n
<1>6. {report[k] : k \in DOMAIN report} =
        {s.intervals[k] : k \in DOMAIN s.intervals} \cup (IF s.det.open THEN {last} ELSE {})
  <2> HIDE DEF s, report, last, n
  <2>1. CASE s.det.open
    BY <1>2, <1>5, <2>1
  <2>2. CASE ~ s.det.open
    BY <1>2, <1>5, <2>2
  <2>3. QED
    BY <2>1, <2>2
<1>7. {report[k] : k \in DOMAIN report} = Openings(fs)
  <2>1. Openings(fs) = {Ended(fs, i) : i \in EndedBegins(fs)} \cup
                          (IF s.det.open THEN {Ongoing(fs, s.openedAt)} ELSE {})
    BY <1>1, OpeningsAre
  <2>2. {s.intervals[k] : k \in DOMAIN s.intervals} = {Ended(fs, i) : i \in EndedBegins(fs)}
    BY <1>1 DEF RightOf, IntervalsAreEnded
  <2>3. QED
    BY <1>6, <2>1, <2>2
\* Each interval is after the one before, and none is empty but the last.
<1>8. /\ \A k \in 1..n : s.intervals[k].start < s.intervals[k].end
      /\ \A k, m \in 1..n : k < m => s.intervals[k].end <= s.intervals[m].start
  BY <1>1, <1>2 DEF RightOf, InOrder
<1>9. s.det.open => last.start = s.openedAt /\ \A k \in 1..n : s.intervals[k].end <= s.openedAt
  BY <1>1, <1>2, EndedBeforeOpen DEF Ongoing
<1> HIDE DEF s, report, last, n
<1>10. ASSUME NEW k \in DOMAIN report, NEW m \in DOMAIN report, k < m
       PROVE  report[k].start < report[k].end /\ report[k].end <= report[m].start
  <2>1. k \in 1..n /\ report[k] = s.intervals[k]
    BY <1>2, <1>5, <1>10
  <2>2. CASE m \in 1..n
    BY <1>5, <1>8, <1>10, <2>1, <2>2
  <2>3. CASE m \notin 1..n
    <3>1. s.det.open /\ m = n + 1
      BY <1>2, <1>5, <2>3
    <3>2. QED
      BY <1>5, <1>8, <1>9, <2>1, <3>1
  <2>4. QED
    BY <2>2, <2>3
<1>11. report \in Seq(OpenInterval)
  BY <1>2, <1>5
<1>12. \A k \in DOMAIN report : report[k].start \in Nat /\ report[k].end \in Nat
  <2>1. \A k \in DOMAIN report : report[k] \in OpenInterval
    BY <1>11
  <2>2. QED
    BY <2>1 DEF OpenInterval
<1>13. \A k, m \in DOMAIN report : k < m => report[k] # report[m]
  BY <1>10, <1>12
<1>14. Len(report) = Cardinality({report[k] : k \in DOMAIN report})
  BY <1>11, <1>13, LengthOfDistinct
<1>15. \A k \in 1..(Len(report) - 1) : report[k].end <= report[k + 1].start
  BY <1>10, <1>11
<1>16. QED
  BY <1>7, <1>11, <1>14, <1>15 DEF report

-----------------------------------------------------------------------------
(* What a monitor knows of its frames.                                     *)

\* The time of the last frame.
LastTime(fs) == IF fs = <<>> THEN 0 ELSE fs[Len(fs)].t

\* The monitor is where the scan of its frames is.
Follows(mon, s) ==
  /\ mon.det = s.det
  /\ mon.doorOpen = s.det.open
  /\ mon.openings = Len(s.intervals) + (IF s.det.open THEN 1 ELSE 0)
  /\ s.det.open => mon.openSince = s.openedAt

\* Openings that violate the limit, or could have when they were at hand.
Having(intervals, kind) == {k \in DOMAIN intervals : intervals[k] \in kind}
Violating == {v \in OpenInterval : Violates(v)}
NearlyViolating == {v \in OpenInterval : Duration(v) + Debounce > MaxOpen}

\* The alerts asked for are those of the openings that ended and of the one
\* at hand, which is alerted as soon as a frame shows it over the limit.
AlertedNow(mon) == IF mon.doorOpen /\ mon.alerted THEN 1 ELSE 0
Alerts(mon, fs, s, p, a) ==
  /\ Cardinality(Having(s.intervals, Violating)) + AlertedNow(mon) <= a
  /\ a <= Cardinality(Having(s.intervals, NearlyViolating)) + AlertedNow(mon)
  /\ mon.doorOpen => (mon.alerted <=> LastTime(fs) - mon.openSince > MaxOpen)
  /\ mon.raised + p <= a

\* A monitor, its frames, its alerts under way and those it asked for.
Watched(mon, fs, p, a) ==
  /\ fs \in Clips
  /\ mon = Absent => fs = <<>> /\ p = 0 /\ a = 0
  /\ mon # Absent => Follows(mon, Scan(fs)) /\ Alerts(mon, fs, Scan(fs), p, a)

\* One more interval.
LEMMA HavingAppended ==
  ASSUME NEW ints \in Seq(OpenInterval), NEW x \in OpenInterval, NEW kind
  PROVE  /\ Cardinality(Having(ints, kind)) \in Nat
         /\ Cardinality(Having(Append(ints, x), kind)) =
              Cardinality(Having(ints, kind)) + (IF x \in kind THEN 1 ELSE 0)
<1> DEFINE n == Len(ints)
           old == Having(ints, kind)
           new == Having(Append(ints, x), kind)
<1>1. /\ n \in Nat /\ DOMAIN ints = 1..n /\ DOMAIN Append(ints, x) = 1..(n + 1)
      /\ Append(ints, x)[n + 1] = x /\ \A k \in 1..n : Append(ints, x)[k] = ints[k]
  OBVIOUS
<1>2. IsFiniteSet(old) /\ Cardinality(old) \in Nat /\ old \subseteq 1..n
  <2>1. IsFiniteSet(1..n) /\ old \in SUBSET (1..n)
    BY <1>1, FS_Interval DEF Having
  <2>2. IsFiniteSet(old)
    BY <2>1, FS_Subset
  <2>3. QED
    BY <2>1, <2>2, FS_CardinalityType
<1>3. new = old \cup (IF x \in kind THEN {n + 1} ELSE {})
  BY <1>1 DEF Having
<1>4. n + 1 \notin old
  BY <1>1, <1>2
<1>5. Cardinality(old \cup {n + 1}) = Cardinality(old) + 1
  BY <1>2, <1>4, FS_AddElement
<1> HIDE DEF old, new, n
<1>6. Cardinality(new) = Cardinality(old) + (IF x \in kind THEN 1 ELSE 0)
  <2>1. CASE x \in kind
    <3>1. new = old \cup {n + 1}
      BY <1>3, <2>1
    <3>2. QED
      BY <1>5, <2>1, <3>1
  <2>2. CASE x \notin kind
    <3>1. new = old
      BY <1>3, <2>2
    <3>2. QED
      BY <1>2, <2>2, <3>1
  <2>3. QED
    BY <2>1, <2>2
<1>7. QED
  BY <1>2, <1>6 DEF old, new

\* There are no intervals of any kind at the start.
LEMMA HavingNone == ASSUME NEW kind PROVE Cardinality(Having(<<>>, kind)) = 0
<1>1. Having(<<>>, kind) = {}
  BY DEF Having
<1>2. QED
  BY <1>1, FS_EmptySet

\* The detector changes its state exactly when the frame makes it.
LEMMA UpdateCases ==
  ASSUME NEW det \in Detector, NEW f \in Frame
  PROVE  /\ ~ Flips(det, f.looks, f.t) => Update(det, f.looks, f.t).open = det.open
         /\ Flips(det, f.looks, f.t) => Update(det, f.looks, f.t).open = f.looks /\ f.looks # det.open
<1>1. det.open \in BOOLEAN /\ f.looks \in BOOLEAN
  BY DEF Detector, Frame
<1>2. ~ Flips(det, f.looks, f.t) => Update(det, f.looks, f.t).open = det.open
  BY <1>1 DEF Update, Detector
<1>3. Flips(det, f.looks, f.t) => Update(det, f.looks, f.t).open = f.looks /\ f.looks # det.open
  BY <1>1 DEF Update, Flips
<1>4. QED
  BY <1>2, <1>3

\* What a frame changes in a monitor that was as mon is, and becomes o.
Reads(mon, f, o) ==
  /\ o.det = Update(mon.det, f.looks, f.t) /\ o.raised = mon.raised
  /\ ~ Flips(mon.det, f.looks, f.t) =>
       /\ o.doorOpen = mon.doorOpen /\ o.openSince = mon.openSince
       /\ o.openings = mon.openings /\ o.alerted = mon.alerted
  /\ Flips(mon.det, f.looks, f.t) /\ f.looks =>
       /\ o.doorOpen = TRUE /\ o.openSince = ChangeBegan(mon.det, f.t)
       /\ o.openings = mon.openings + 1 /\ o.alerted = FALSE
  /\ Flips(mon.det, f.looks, f.t) /\ ~ f.looks =>
       o.doorOpen = FALSE /\ o.openings = mon.openings

\* This is what _observe changes.
LEMMA ObservedFields ==
  ASSUME NEW mon \in Monitor, NEW f \in Frame
  PROVE  Reads(mon, f, Observed(mon, Update(mon.det, f.looks, f.t), f.t))
<1> DEFINE o == Observed(mon, Update(mon.det, f.looks, f.t), f.t)
<1> DEFINE det == Update(mon.det, f.looks, f.t)
           since == ChangeBegan(mon.det, f.t)
           more == mon.openings + 1
           a == [mon EXCEPT !.det = det]
           b == [mon EXCEPT !.det = det, !.doorOpen = TRUE, !.openSince = since, !.openings = more,
                            !.alerted = FALSE]
           c == [mon EXCEPT !.det = det, !.doorOpen = FALSE, !.openSince = 0]
<1>1. mon.det \in Detector
  BY DEF Monitor
<1>2. /\ ~ Flips(mon.det, f.looks, f.t) => det.open = mon.det.open
      /\ Flips(mon.det, f.looks, f.t) => det.open = f.looks /\ f.looks # mon.det.open
  BY <1>1, UpdateCases
<1>3. o = IF det.open = mon.det.open THEN a ELSE IF det.open THEN b ELSE c
  BY Zenon DEF Observed
<1> HIDE DEF o, det, since, more
<1>4. a.det = det /\ a.raised = mon.raised /\ a.doorOpen = mon.doorOpen /\ a.openSince = mon.openSince
      /\ a.openings = mon.openings /\ a.alerted = mon.alerted
  BY DEF Monitor
<1>5. b.det = det /\ b.raised = mon.raised /\ b.doorOpen = TRUE /\ b.openSince = since
      /\ b.openings = more /\ b.alerted = FALSE
  BY DEF Monitor
<1>6. c.det = det /\ c.raised = mon.raised /\ c.doorOpen = FALSE /\ c.openings = mon.openings
  BY DEF Monitor
<1> HIDE DEF a, b, c
<1>7. ~ Flips(mon.det, f.looks, f.t) => o = a
  BY <1>2, <1>3
<1>8. Flips(mon.det, f.looks, f.t) /\ f.looks => o = b
  BY <1>2, <1>3
<1>9. Flips(mon.det, f.looks, f.t) /\ ~ f.looks => o = c
  BY <1>2, <1>3
<1>10. QED
  BY <1>4, <1>5, <1>6, <1>7, <1>8, <1>9 DEF Reads, o, det, since, more

\* What a frame changes in the scan.
LEMMA ScannedFields ==
  ASSUME NEW s, ScanType(s), NEW f \in Frame, NEW new, new = Scanned(s, f)
  PROVE  /\ new.det = Update(s.det, f.looks, f.t)
         /\ ~ Flips(s.det, f.looks, f.t) => new.openedAt = s.openedAt /\ new.intervals = s.intervals
         /\ Flips(s.det, f.looks, f.t) /\ f.looks =>
              new.openedAt = ChangeBegan(s.det, f.t) /\ new.intervals = s.intervals
         /\ Flips(s.det, f.looks, f.t) /\ ~ f.looks =>
              new.intervals = Append(s.intervals, [start |-> s.openedAt, end |-> ChangeBegan(s.det, f.t),
                                                   ongoing |-> FALSE])
<1> DEFINE det == Update(s.det, f.looks, f.t)
           began == ChangeBegan(s.det, f.t)
           all == Append(s.intervals, [start |-> s.openedAt, end |-> began, ongoing |-> FALSE])
           a == [s EXCEPT !.det = det]
           b == [s EXCEPT !.det = det, !.openedAt = began]
           c == [det |-> det, openedAt |-> 0, intervals |-> all]
<1>1. /\ ~ Flips(s.det, f.looks, f.t) => new = a
      /\ Flips(s.det, f.looks, f.t) /\ f.looks => new = b
      /\ Flips(s.det, f.looks, f.t) /\ ~ f.looks => new = c
  BY ScannedCases
<1> HIDE DEF det, began, all
<1>2. a.det = det /\ a.openedAt = s.openedAt /\ a.intervals = s.intervals
  BY DEF ScanType
<1>3. b.det = det /\ b.openedAt = began /\ b.intervals = s.intervals
  BY DEF ScanType
<1>4. c.det = det /\ c.intervals = all
  OBVIOUS
<1> HIDE DEF a, b, c
<1>5. QED
  BY <1>1, <1>2, <1>3, <1>4, Zenon DEF det, began, all

\* The pending change began at a frame, less than the debounce time ago.
LEMMA PendingIsRecent ==
  ASSUME NEW fs \in Clips, NEW det, PendingIsLastRun(fs, det), det.seen # 0
  PROVE  det.seen \in Nat /\ det.seen <= LastTime(fs) /\ LastTime(fs) - det.seen < Debounce
<1>1. /\ DOMAIN fs = 1..Len(fs) /\ Len(fs) \in Nat
      /\ \A i \in DOMAIN fs : fs[i].t \in Nat
      /\ \A i, j \in DOMAIN fs : i < j => fs[i].t < fs[j].t
  BY ClipTimes
<1>2. fs # <<>>
  BY DEF PendingIsLastRun, ClosedDoor
<1>3. PICK i \in DOMAIN fs : det.seen = fs[i].t /\ fs[Len(fs)].t - fs[i].t < Debounce
  BY <1>2 DEF PendingIsLastRun
<1>4. Len(fs) \in DOMAIN fs
  BY <1>1, <1>3
<1>5. fs[i].t <= fs[Len(fs)].t /\ fs[i].t \in Nat
  BY <1>1, <1>3, <1>4
<1>6. QED
  BY <1>2, <1>3, <1>5 DEF LastTime

\* A frame read leaves the monitor where the scan of its frames is.
LEMMA FollowsFrame ==
  ASSUME NEW mon \in Monitor, NEW s, ScanType(s), NEW f \in Frame, Follows(mon, s),
         NEW o, Reads(mon, f, o)
  PROVE  Follows(o, Scanned(s, f))
<1> DEFINE new == Scanned(s, f)
           x == [start |-> s.openedAt, end |-> ChangeBegan(s.det, f.t), ongoing |-> FALSE]
<1>1. /\ s.det \in Detector /\ s.intervals \in Seq(OpenInterval) /\ s.openedAt \in Nat
      /\ mon.openings \in Nat /\ f.looks \in BOOLEAN
  BY DEF ScanType, Monitor, Frame
<1>2. /\ mon.det = s.det
      /\ mon.doorOpen = s.det.open
      /\ mon.openings = Len(s.intervals) + (IF s.det.open THEN 1 ELSE 0)
      /\ s.det.open => mon.openSince = s.openedAt
  BY DEF Follows
<1>3. /\ o.det = Update(s.det, f.looks, f.t)
      /\ ~ Flips(s.det, f.looks, f.t) =>
           /\ o.doorOpen = mon.doorOpen /\ o.openSince = mon.openSince
           /\ o.openings = mon.openings
      /\ Flips(s.det, f.looks, f.t) /\ f.looks =>
           /\ o.doorOpen = TRUE /\ o.openSince = ChangeBegan(s.det, f.t)
           /\ o.openings = mon.openings + 1
      /\ Flips(s.det, f.looks, f.t) /\ ~ f.looks =>
           o.doorOpen = FALSE /\ o.openings = mon.openings
  <2>1. /\ o.det = Update(mon.det, f.looks, f.t) /\ o.raised = mon.raised
        /\ ~ Flips(mon.det, f.looks, f.t) =>
             /\ o.doorOpen = mon.doorOpen /\ o.openSince = mon.openSince
             /\ o.openings = mon.openings /\ o.alerted = mon.alerted
        /\ Flips(mon.det, f.looks, f.t) /\ f.looks =>
             /\ o.doorOpen = TRUE /\ o.openSince = ChangeBegan(mon.det, f.t)
             /\ o.openings = mon.openings + 1 /\ o.alerted = FALSE
        /\ Flips(mon.det, f.looks, f.t) /\ ~ f.looks =>
             o.doorOpen = FALSE /\ o.openings = mon.openings
    BY DEF Reads
  <2>2. mon.det = s.det
    BY <1>2
  <2>3. QED
    BY <2>1, <2>2, Zenon
<1>4. /\ new.det = Update(s.det, f.looks, f.t)
      /\ ~ Flips(s.det, f.looks, f.t) => new.openedAt = s.openedAt /\ new.intervals = s.intervals
      /\ Flips(s.det, f.looks, f.t) /\ f.looks =>
           new.openedAt = ChangeBegan(s.det, f.t) /\ new.intervals = s.intervals
      /\ Flips(s.det, f.looks, f.t) /\ ~ f.looks => new.intervals = Append(s.intervals, x)
  BY ScannedFields
<1>5. /\ ~ Flips(s.det, f.looks, f.t) => Update(s.det, f.looks, f.t).open = s.det.open
      /\ Flips(s.det, f.looks, f.t) => Update(s.det, f.looks, f.t).open = f.looks /\ f.looks # s.det.open
  BY <1>1, UpdateCases
<1>6. Len(Append(s.intervals, x)) = Len(s.intervals) + 1 /\ Len(s.intervals) \in Nat
  <2> HIDE DEF x
  <2>1. QED
    BY <1>1
<1>d. s.det.open \in BOOLEAN
  BY <1>1 DEF Detector
<1> HIDE DEF new, x
<1>7. CASE ~ Flips(s.det, f.looks, f.t)
  <2>1. new.det.open = s.det.open /\ new.intervals = s.intervals /\ new.openedAt = s.openedAt
    BY <1>4, <1>5, <1>7
  <2>2. QED
    BY <1>2, <1>3, <1>4, <1>7, <2>1 DEF Follows, new
<1>8. CASE Flips(s.det, f.looks, f.t) /\ f.looks
  <2>1. /\ new.det.open = TRUE /\ s.det.open = FALSE
        /\ new.intervals = s.intervals /\ new.openedAt = ChangeBegan(s.det, f.t)
    BY <1>1, <1>4, <1>5, <1>8, <1>d
  <2>a. mon.openings = Len(s.intervals) + 0
    BY <1>2, <2>1
  <2>2. mon.openings = Len(s.intervals)
    BY <1>6, <2>a
  <2>3. QED
    BY <1>3, <1>4, <1>6, <1>8, <2>1, <2>2 DEF Follows, new
<1>9. CASE Flips(s.det, f.looks, f.t) /\ ~ f.looks
  <2>1. new.det.open = FALSE /\ s.det.open = TRUE /\ new.intervals = Append(s.intervals, x)
    BY <1>1, <1>4, <1>5, <1>9, <1>d
  <2>2. mon.openings = Len(s.intervals) + 1
    BY <1>2, <2>1
  <2>3. /\ o.det = new.det /\ o.doorOpen = FALSE
        /\ o.openings = Len(new.intervals) + 0
    BY <1>3, <1>4, <1>6, <1>9, <2>1, <2>2
  <2>4. QED
    BY <2>1, <2>3 DEF Follows, new
<1>10. QED
  BY <1>7, <1>8, <1>9

\* An interval that is longer than the limit violates it, and one that might
\* have been longer nearly does.
LEMMA WhichViolate ==
  ASSUME NEW x \in OpenInterval
  PROVE  /\ x \in Violating <=> x.end - x.start > MaxOpen
         /\ x \in NearlyViolating <=> x.end - x.start + Debounce > MaxOpen
BY DEF Violating, NearlyViolating, Violates, Duration

\* A frame read and the alert it asks for.
LEMMA AlertsFrame ==
  ASSUME NEW mon \in Monitor, NEW fs \in Clips, NEW s, RightOf(fs, s), NEW f \in Frame,
         f.t > LastTime(fs), NEW p \in Nat, NEW a \in Nat,
         Follows(mon, s), Alerts(mon, fs, s, p, a),
         NEW o, Reads(mon, f, o),
         NEW alert, alert = (IF MustAlert(o, f.t) THEN 1 ELSE 0),
         NEW new, new.doorOpen = o.doorOpen, new.openSince = o.openSince, new.raised = o.raised,
         new.alerted = (o.alerted \/ alert = 1)
  PROVE  Alerts(new, Append(fs, f), Scanned(s, f), p + alert, a + alert)
<1> DEFINE sc == Scanned(s, f)
           all == Append(fs, f)
           x == [start |-> s.openedAt, end |-> ChangeBegan(s.det, f.t), ongoing |-> FALSE]
           Vs(ints) == Cardinality(Having(ints, Violating))
           Ns(ints) == Cardinality(Having(ints, NearlyViolating))
<1>1. /\ s.det \in Detector /\ s.intervals \in Seq(OpenInterval) /\ s.openedAt \in Nat /\ ScanType(s)
      /\ mon.openings \in Nat /\ mon.raised \in Nat /\ mon.openSince \in Nat
      /\ mon.doorOpen \in BOOLEAN /\ mon.alerted \in BOOLEAN
      /\ f.looks \in BOOLEAN /\ f.t \in Nat /\ PendingIsLastRun(fs, s.det)
  BY DEF RightOf, ScanType, Monitor, Frame
<1>2. s.det.open \in BOOLEAN /\ s.det.seen \in Nat
  BY <1>1 DEF Detector
<1>3. /\ mon.det = s.det /\ mon.doorOpen = s.det.open
      /\ s.det.open => mon.openSince = s.openedAt
  BY DEF Follows
<1>4. LastTime(all) = f.t /\ LastTime(fs) \in Nat
  <2>1. fs \in Seq(Frame)
    BY DEF Clips
  <2>2. all # <<>> /\ all[Len(all)] = f
    BY <2>1
  <2>3. CASE fs = <<>>
    BY <2>2, <2>3 DEF LastTime
  <2>4. CASE fs # <<>>
    <3>1. Len(fs) \in DOMAIN fs
      BY <2>1, <2>4
    <3>2. QED
      BY <2>2, <2>4, <3>1, ClipTimes DEF LastTime
  <2>5. QED
    BY <2>3, <2>4
<1>5. /\ Vs(s.intervals) + AlertedNow(mon) <= a
      /\ a <= Ns(s.intervals) + AlertedNow(mon)
      /\ mon.doorOpen => (mon.alerted <=> LastTime(fs) - mon.openSince > MaxOpen)
      /\ mon.raised + p <= a
  BY DEF Alerts
<1>6. /\ o.raised = mon.raised
      /\ ~ Flips(s.det, f.looks, f.t) =>
           /\ o.doorOpen = mon.doorOpen /\ o.openSince = mon.openSince /\ o.alerted = mon.alerted
      /\ Flips(s.det, f.looks, f.t) /\ f.looks =>
           /\ o.doorOpen = TRUE /\ o.openSince = ChangeBegan(s.det, f.t) /\ o.alerted = FALSE
      /\ Flips(s.det, f.looks, f.t) /\ ~ f.looks => o.doorOpen = FALSE
  <2>1. /\ o.det = Update(mon.det, f.looks, f.t) /\ o.raised = mon.raised
        /\ ~ Flips(mon.det, f.looks, f.t) =>
             /\ o.doorOpen = mon.doorOpen /\ o.openSince = mon.openSince
             /\ o.openings = mon.openings /\ o.alerted = mon.alerted
        /\ Flips(mon.det, f.looks, f.t) /\ f.looks =>
             /\ o.doorOpen = TRUE /\ o.openSince = ChangeBegan(mon.det, f.t)
             /\ o.openings = mon.openings + 1 /\ o.alerted = FALSE
        /\ Flips(mon.det, f.looks, f.t) /\ ~ f.looks =>
             o.doorOpen = FALSE /\ o.openings = mon.openings
    BY DEF Reads
  <2>2. mon.det = s.det
    BY <1>3
  <2>3. QED
    BY <2>1, <2>2, Zenon
<1>7. /\ ~ Flips(s.det, f.looks, f.t) => sc.intervals = s.intervals
      /\ Flips(s.det, f.looks, f.t) /\ f.looks => sc.intervals = s.intervals
      /\ Flips(s.det, f.looks, f.t) /\ ~ f.looks => sc.intervals = Append(s.intervals, x)
  BY <1>1, ScannedFields
<1>8. Flips(s.det, f.looks, f.t) => f.looks # s.det.open
  BY DEF Flips
<1>9. ChangeBegan(s.det, f.t) \in Nat
  BY <1>1, <1>2 DEF ChangeBegan
<1>10. x \in OpenInterval /\ x.end - x.start = ChangeBegan(s.det, f.t) - s.openedAt
  BY <1>1, <1>9 DEF OpenInterval
<1> HIDE DEF x
<1>11. /\ Vs(s.intervals) \in Nat
       /\ Vs(Append(s.intervals, x)) = Vs(s.intervals) + (IF x \in Violating THEN 1 ELSE 0)
  BY <1>1, <1>10, HavingAppended
<1>12. /\ Ns(s.intervals) \in Nat
       /\ Ns(Append(s.intervals, x)) = Ns(s.intervals) + (IF x \in NearlyViolating THEN 1 ELSE 0)
  BY <1>1, <1>10, HavingAppended
<1>13. /\ x \in Violating <=> ChangeBegan(s.det, f.t) - s.openedAt > MaxOpen
       /\ x \in NearlyViolating <=> ChangeBegan(s.det, f.t) - s.openedAt + Debounce > MaxOpen
  BY <1>10, WhichViolate
<1>14. Debounce \in Nat \ {0} /\ MaxOpen \in Nat
  BY DetectorConstants
<1>15. alert \in {0, 1} /\ (alert = 1 <=> o.doorOpen /\ ~ o.alerted /\ f.t - o.openSince > MaxOpen)
  BY DEF MustAlert
<1> HIDE DEF sc, all, Vs, Ns
<1>16. SUFFICES /\ Vs(sc.intervals) + AlertedNow(new) <= a + alert
                /\ a + alert <= Ns(sc.intervals) + AlertedNow(new)
                /\ new.doorOpen => (new.alerted <=> f.t - new.openSince > MaxOpen)
                /\ new.raised + (p + alert) <= a + alert
  BY <1>4 DEF Alerts, sc, all, Vs, Ns
<1>17. new.raised + (p + alert) <= a + alert
  BY <1>1, <1>5, <1>6, <1>15
<1>18. CASE ~ Flips(s.det, f.looks, f.t) /\ s.det.open
  <2>1. /\ o.doorOpen = TRUE /\ o.openSince = mon.openSince /\ o.alerted = mon.alerted
        /\ mon.doorOpen = TRUE /\ sc.intervals = s.intervals
    BY <1>2, <1>3, <1>6, <1>7, <1>18
  <2>2. mon.alerted => f.t - mon.openSince > MaxOpen
    BY <1>1, <1>4, <1>5, <1>14, <2>1
  <2>3. new.alerted <=> f.t - new.openSince > MaxOpen
    BY <1>1, <1>15, <2>1, <2>2
  <2>4. AlertedNow(new) = AlertedNow(mon) + alert
    BY <1>1, <1>15, <2>1 DEF AlertedNow
  <2>5. AlertedNow(mon) \in {0, 1}
    BY DEF AlertedNow
  <2>6. QED
    BY <1>5, <1>11, <1>12, <1>15, <1>17, <2>1, <2>3, <2>4, <2>5
<1>19. CASE ~ Flips(s.det, f.looks, f.t) /\ ~ s.det.open
  <2>1. o.doorOpen = FALSE /\ mon.doorOpen = FALSE /\ sc.intervals = s.intervals
    BY <1>2, <1>3, <1>6, <1>7, <1>19
  <2>2. AlertedNow(new) = 0 /\ AlertedNow(mon) = 0 /\ alert = 0
    BY <1>15, <2>1 DEF AlertedNow
  <2>3. QED
    BY <1>5, <1>11, <1>12, <1>17, <2>1, <2>2
<1>20. CASE Flips(s.det, f.looks, f.t) /\ f.looks
  <2>1. /\ o.doorOpen = TRUE /\ o.openSince = ChangeBegan(s.det, f.t) /\ o.alerted = FALSE
        /\ mon.doorOpen = FALSE /\ sc.intervals = s.intervals
    BY <1>2, <1>3, <1>6, <1>7, <1>8, <1>20
  <2>2. new.alerted <=> f.t - new.openSince > MaxOpen
    BY <1>15, <2>1
  <2>3. AlertedNow(new) = alert /\ AlertedNow(mon) = 0
    BY <1>15, <2>1 DEF AlertedNow
  <2>4. QED
    BY <1>5, <1>11, <1>12, <1>15, <1>17, <2>1, <2>2, <2>3
<1>21. CASE Flips(s.det, f.looks, f.t) /\ ~ f.looks
  <2>1. /\ o.doorOpen = FALSE /\ mon.doorOpen = TRUE /\ s.det.open = TRUE
        /\ sc.intervals = Append(s.intervals, x) /\ mon.openSince = s.openedAt
    BY <1>1, <1>2, <1>3, <1>6, <1>7, <1>8, <1>21
  <2>2. AlertedNow(new) = 0 /\ alert = 0
    BY <1>15, <2>1 DEF AlertedNow
  <2>3. AlertedNow(mon) = IF LastTime(fs) - s.openedAt > MaxOpen THEN 1 ELSE 0
    BY <1>1, <1>5, <2>1 DEF AlertedNow
  <2>4. s.det.seen # 0 /\ ChangeBegan(s.det, f.t) = s.det.seen
    <3>1. f.t - ChangeBegan(s.det, f.t) >= Debounce
      BY <1>21 DEF Flips
    <3>2. QED
      BY <1>1, <1>14, <3>1 DEF ChangeBegan
  <2>5. s.det.seen <= LastTime(fs) /\ LastTime(fs) - s.det.seen < Debounce
    BY <1>1, <2>4, PendingIsRecent
  <2>6. x \in Violating => AlertedNow(mon) = 1
    BY <1>1, <1>2, <1>4, <1>13, <1>14, <2>3, <2>4, <2>5
  <2>7. AlertedNow(mon) = 1 => x \in NearlyViolating
    BY <1>1, <1>2, <1>4, <1>13, <1>14, <2>3, <2>4, <2>5
  <2>8. AlertedNow(mon) \in {0, 1}
    BY DEF AlertedNow
  <2>9. QED
    BY <1>5, <1>11, <1>12, <1>17, <2>1, <2>2, <2>6, <2>7, <2>8
<1>22. QED
  BY <1>2, <1>18, <1>19, <1>20, <1>21

-----------------------------------------------------------------------------
(* Every step keeps what the monitors know.                                *)

\* What every monitor knows.
AllWatched == \A m \in Monitors : Watched(monitor[m], frames[m], pending[m], asked[m])

\* A step that leaves the monitor's reading of the door alone.
SameReading(mon, new) ==
  /\ mon # Absent /\ new # Absent
  /\ new.det = mon.det /\ new.doorOpen = mon.doorOpen /\ new.openSince = mon.openSince
  /\ new.openings = mon.openings /\ new.alerted = mon.alerted /\ new.raised = mon.raised

\* Such a step keeps what the monitor knows.
LEMMA SameReadingWatched ==
  ASSUME NEW mon, NEW new, NEW fs, NEW p, NEW a, Watched(mon, fs, p, a), SameReading(mon, new)
  PROVE  Watched(new, fs, p, a)
<1>1. fs \in Clips /\ Follows(mon, Scan(fs)) /\ Alerts(mon, fs, Scan(fs), p, a)
  BY DEF Watched, SameReading
<1>2. Follows(new, Scan(fs))
  BY <1>1 DEF Follows, SameReading
<1>3. AlertedNow(new) = AlertedNow(mon)
  BY DEF AlertedNow, SameReading
<1>4. Alerts(new, fs, Scan(fs), p, a)
  BY <1>1, <1>3 DEF Alerts, SameReading
<1>5. QED
  BY <1>1, <1>2, <1>4 DEF Watched, SameReading

\* A new monitor knows of no frames.
LEMMA NewWatched ==
  ASSUME NEW mon, mon # Absent, mon.det = ClosedDoor, mon.doorOpen = FALSE, mon.openSince = 0,
         mon.openings = 0, mon.alerted = FALSE, mon.raised = 0
  PROVE  Watched(mon, <<>>, 0, 0)
<1>1. Scan(<<>>) = ScanStart
  BY ScanOfNone
<1>2. /\ ScanStart.det = ClosedDoor /\ ScanStart.intervals = <<>> /\ ClosedDoor.open = FALSE
      /\ Len(<<>>) = 0
  BY DEF ScanStart, ClosedDoor
<1>3. Follows(mon, ScanStart)
  <2>1. ScanStart.det.open = FALSE /\ Len(ScanStart.intervals) = 0
    BY <1>2
  <2>2. mon.openings = Len(ScanStart.intervals) + 0
    BY <2>1
  <2>3. QED
    BY <1>2, <2>1, <2>2 DEF Follows
<1>4. AlertedNow(mon) = 0
  BY DEF AlertedNow
<1>5. Alerts(mon, <<>>, ScanStart, 0, 0)
  <2>1. /\ Cardinality(Having(<<>>, Violating)) = 0
        /\ Cardinality(Having(<<>>, NearlyViolating)) = 0
    BY HavingNone
  <2>2. QED
    BY <1>2, <1>4, <2>1 DEF Alerts
<1>6. <<>> \in Clips
  <2>1. <<>> \in Seq(Frame) /\ DOMAIN <<>> = {}
    OBVIOUS
  <2>2. QED
    BY <2>1 DEF Clips
<1>7. QED
  BY <1>1, <1>3, <1>5, <1>6 DEF Watched

\* A step of one monitor that leaves its reading alone.
LEMMA ReadingKept ==
  ASSUME TypeOK, AllWatched, NEW m \in Monitors, NEW new, SameReading(monitor[m], new),
         monitor' = [monitor EXCEPT ![m] = new], UNCHANGED <<pending, frames, asked>>
  PROVE  AllWatched'
<1>1. monitor'[m] = new /\ \A n \in Monitors \ {m} : monitor'[n] = monitor[n]
  BY DEF TypeOK
<1>2. ASSUME NEW n \in Monitors PROVE Watched(monitor[n], frames[n], pending[n], asked[n])
  BY DEF AllWatched
<1>3. Watched(new, frames[m], pending[m], asked[m])
  BY <1>2, SameReadingWatched
<1>4. \A n \in Monitors : Watched(monitor'[n], frames[n], pending[n], asked[n])
  BY <1>1, <1>2, <1>3
<1>5. QED
  BY <1>4 DEF AllWatched

\* The thread between two frames, and requests.
LEMMA GotoWatched ==
  ASSUME TypeOK, AllWatched, NEW m \in Monitors, Exists(m), NEW pc, NEW status, Goto(m, pc, status),
         UNCHANGED <<pending, frames, asked>>
  PROVE  AllWatched'
<1> DEFINE new == [monitor[m] EXCEPT !.pc = pc, !.status = status]
<1>1. monitor[m] \in Monitor
  BY StartedMonitor DEF Sound
<1>2. SameReading(monitor[m], new)
  <2>1. new.det = monitor[m].det /\ new.doorOpen = monitor[m].doorOpen
        /\ new.openSince = monitor[m].openSince /\ new.openings = monitor[m].openings
        /\ new.alerted = monitor[m].alerted /\ new.raised = monitor[m].raised
    BY <1>1 DEF Monitor
  <2>2. new # Absent
    <3>1. DOMAIN new = DOMAIN monitor[m] /\ "det" \in DOMAIN monitor[m] /\ "det" \notin DOMAIN Absent
      BY <1>1 DEF Monitor, Absent
    <3>2. QED
      BY <3>1
  <2>3. QED
    BY <2>1, <2>2 DEF SameReading, Exists
<1>3. monitor' = [monitor EXCEPT ![m] = new]
  BY DEF Goto
<1> HIDE DEF new
<1>4. QED
  BY <1>2, <1>3, ReadingKept

\* The steps of a thread between two frames.
LEMMA ThreadWatched ==
  ASSUME TypeOK, AllWatched, NEW m \in Monitors, ThreadStep(m)
  PROVE  AllWatched'
<1>1. Exists(m) /\ UNCHANGED <<pending, frames, asked>>
  BY DEF ThreadStep, Connect, Open, NextFrame, Drop, At
<1>2. \E pc, status : Goto(m, pc, status)
  <2>1. CASE Connect(m)
    BY <2>1 DEF Connect, AfterStop
  <2>2. CASE Open(m)
    BY <2>2 DEF Open
  <2>3. CASE NextFrame(m)
    BY <2>3 DEF NextFrame
  <2>4. CASE Drop(m)
    BY <2>4 DEF Drop
  <2>5. QED
    BY <2>1, <2>2, <2>3, <2>4 DEF ThreadStep
<1>3. QED
  BY <1>1, <1>2, GotoWatched

\* start_monitor.
LEMMA StartWatched ==
  ASSUME TypeOK, AllWatched, NEW m \in Monitors, NEW d \in Doors, Start(m, d)
  PROVE  AllWatched'
<1> DEFINE mon == [door |-> d, status |-> "starting", stop |-> FALSE, pc |-> "connect", det |-> ClosedDoor,
                   doorOpen |-> FALSE, openSince |-> 0, openings |-> 0, alerted |-> FALSE, raised |-> 0]
<1>1. monitor' = [monitor EXCEPT ![m] = mon] /\ monitor[m] = Absent /\ UNCHANGED <<pending, frames, asked>>
  BY DEF Start, Exists
<1>2. /\ mon.det = ClosedDoor /\ mon.doorOpen = FALSE /\ mon.openSince = 0
      /\ mon.openings = 0 /\ mon.alerted = FALSE /\ mon.raised = 0
  OBVIOUS
<1>3. mon # Absent
  <2>1. "det" \in DOMAIN mon /\ "det" \notin DOMAIN Absent
    BY DEF Absent
  <2>2. QED
    BY <2>1
<1> HIDE DEF mon
<1>4. Watched(mon, <<>>, 0, 0)
  BY <1>2, <1>3, NewWatched
<1>5. frames[m] = <<>> /\ pending[m] = 0 /\ asked[m] = 0
  BY <1>1 DEF AllWatched, Watched
<1>6. monitor'[m] = mon /\ \A n \in Monitors \ {m} : monitor'[n] = monitor[n]
  BY <1>1 DEF TypeOK
<1>7. \A n \in Monitors : Watched(monitor'[n], frames[n], pending[n], asked[n])
  BY <1>4, <1>5, <1>6 DEF AllWatched
<1>8. QED
  BY <1>1, <1>7 DEF AllWatched

\* stop_monitor and stop_all.
LEMMA StopWatched ==
  ASSUME TypeOK, AllWatched, NEW m \in Monitors, Stop(m)
  PROVE  AllWatched'
<1> DEFINE new == [monitor[m] EXCEPT !.stop = TRUE, !.status = "stopped"]
<1>1. Exists(m) /\ monitor[m] \in Monitor
  BY StartedMonitor DEF Sound, Stop
<1>2. SameReading(monitor[m], new)
  <2>1. new.det = monitor[m].det /\ new.doorOpen = monitor[m].doorOpen
        /\ new.openSince = monitor[m].openSince /\ new.openings = monitor[m].openings
        /\ new.alerted = monitor[m].alerted /\ new.raised = monitor[m].raised
    BY <1>1 DEF Monitor
  <2>2. new # Absent
    <3>1. DOMAIN new = DOMAIN monitor[m] /\ "det" \in DOMAIN monitor[m] /\ "det" \notin DOMAIN Absent
      BY <1>1 DEF Monitor, Absent
    <3>2. QED
      BY <3>1
  <2>3. QED
    BY <1>1, <2>1, <2>2 DEF SameReading, Exists
<1>3. monitor' = [monitor EXCEPT ![m] = new] /\ UNCHANGED <<pending, frames, asked>>
  BY DEF Stop
<1> HIDE DEF new
<1>4. QED
  BY <1>2, <1>3, ReadingKept

\* stop_all tells every monitor to stop, and changes nothing else of them.
LEMMA StopAllWatched == ASSUME TypeOK, AllWatched, StopAll PROVE AllWatched'
<1>1. UNCHANGED <<pending, frames, asked>>
  BY DEF StopAll
<1>2. ASSUME NEW m \in Monitors PROVE Watched(monitor'[m], frames[m], pending[m], asked[m])
  <2>0. Watched(monitor[m], frames[m], pending[m], asked[m])
    BY DEF AllWatched
  <2>1. CASE ~ Exists(m)
    BY <2>0, <2>1 DEF StopAll, Exists
  <2>2. CASE Exists(m)
    <3> DEFINE new == [monitor[m] EXCEPT !.stop = TRUE]
    <3>1. monitor'[m] = new /\ monitor[m] \in Monitor
      BY <2>2, StartedMonitor DEF StopAll, Sound
    <3>2. new.det = monitor[m].det /\ new.doorOpen = monitor[m].doorOpen
          /\ new.openSince = monitor[m].openSince /\ new.openings = monitor[m].openings
          /\ new.alerted = monitor[m].alerted /\ new.raised = monitor[m].raised
      BY <3>1 DEF Monitor
    <3>3. new # Absent
      <4>1. DOMAIN new = DOMAIN monitor[m] /\ "det" \in DOMAIN monitor[m] /\ "det" \notin DOMAIN Absent
        BY <3>1 DEF Monitor, Absent
      <4>2. QED
        BY <4>1
    <3>4. SameReading(monitor[m], new)
      BY <2>2, <3>2, <3>3 DEF SameReading, Exists
    <3> HIDE DEF new
    <3>5. Watched(new, frames[m], pending[m], asked[m])
      BY <2>0, <3>4, SameReadingWatched
    <3>6. QED
      BY <3>1, <3>5
  <2>3. QED
    BY <2>1, <2>2
<1>3. QED
  BY <1>1, <1>2 DEF AllWatched

\* _alert raises the alert, or fails: no more are asked for.
LEMMA AlertWatched ==
  ASSUME TypeOK, AllWatched, OnlyMonitorsAlert, NEW m \in Monitors, AlertRaised(m) \/ AlertFails(m)
  PROVE  AllWatched'
<1>1. /\ pending[m] > 0 /\ pending[m] \in Nat /\ asked[m] \in Nat
      /\ pending'[m] = pending[m] - 1 /\ \A n \in Monitors \ {m} : pending'[n] = pending[n]
      /\ UNCHANGED <<frames, asked>>
  BY DEF AlertRaised, AlertFails, TypeOK
<1>2. Exists(m) /\ monitor[m] \in Monitor
  BY <1>1, StartedMonitor DEF OnlyMonitorsAlert, Sound
<1>3. \A n \in Monitors \ {m} : monitor'[n] = monitor[n]
  BY DEF AlertRaised, AlertFails, TypeOK
<1>4. /\ monitor'[m].raised \in {monitor[m].raised, monitor[m].raised + 1}
      /\ monitor'[m] # Absent
      /\ monitor'[m].det = monitor[m].det /\ monitor'[m].doorOpen = monitor[m].doorOpen
      /\ monitor'[m].openSince = monitor[m].openSince /\ monitor'[m].openings = monitor[m].openings
      /\ monitor'[m].alerted = monitor[m].alerted
  <2>1. CASE AlertFails(m)
    BY <1>2, <2>1 DEF AlertFails, Exists
  <2>2. CASE AlertRaised(m)
    <3> DEFINE more == monitor[m].raised + 1
               new == [monitor[m] EXCEPT !.raised = more]
    <3>1. monitor'[m] = new
      BY <2>2 DEF AlertRaised, TypeOK
    <3> HIDE DEF more
    <3>2. /\ new.raised = more
          /\ new.det = monitor[m].det /\ new.doorOpen = monitor[m].doorOpen
          /\ new.openSince = monitor[m].openSince /\ new.openings = monitor[m].openings
          /\ new.alerted = monitor[m].alerted
      BY <1>2 DEF Monitor
    <3>3. new # Absent
      <4>1. DOMAIN new = DOMAIN monitor[m] /\ "det" \in DOMAIN monitor[m] /\ "det" \notin DOMAIN Absent
        BY <1>2 DEF Monitor, Absent
      <4>2. QED
        BY <4>1
    <3> HIDE DEF new
    <3>4. QED
      BY <3>1, <3>2, <3>3 DEF more
  <2>3. QED
    BY <2>1, <2>2
<1>5. Follows(monitor[m], Scan(frames[m])) /\ frames[m] \in Clips
      /\ Alerts(monitor[m], frames[m], Scan(frames[m]), pending[m], asked[m])
  BY <1>2 DEF AllWatched, Watched, Exists
<1>6. Follows(monitor'[m], Scan(frames[m]))
  BY <1>4, <1>5 DEF Follows
<1>7. AlertedNow(monitor'[m]) = AlertedNow(monitor[m])
  BY <1>4 DEF AlertedNow
<1>8. monitor[m].raised \in Nat
  BY <1>2 DEF Monitor
<1>9. monitor'[m].raised + pending'[m] <= asked[m]
  <2>1. monitor[m].raised + pending[m] <= asked[m]
    BY <1>5 DEF Alerts
  <2>2. QED
    BY <1>1, <1>4, <1>8, <2>1
<1>10. Alerts(monitor'[m], frames[m], Scan(frames[m]), pending'[m], asked[m])
  BY <1>4, <1>5, <1>7, <1>9 DEF Alerts
<1>11. Watched(monitor'[m], frames[m], pending'[m], asked[m])
  BY <1>4, <1>5, <1>6, <1>10 DEF Watched
<1>12. \A n \in Monitors : Watched(monitor'[n], frames[n], pending'[n], asked[n])
  BY <1>1, <1>3, <1>11 DEF AllWatched
<1>13. QED
  BY <1>1, <1>12 DEF AllWatched

\* The frame that is read makes a longer clip.
LEMMA FrameMakesClip ==
  ASSUME TypeOK, NEW m \in Monitors, frames[m] \in Clips, NEW f \in Frame, f.t > Now(m),
         frames[m] = <<>> => ~ f.looks
  PROVE  /\ Append(frames[m], f) \in Clips
         /\ LastTime(frames[m]) = Now(m)
<1> DEFINE fs == frames[m]
           all == Append(fs, f)
           n == Len(fs)
<1>1. /\ n \in Nat /\ DOMAIN fs = 1..n
      /\ Len(all) = n + 1 /\ DOMAIN all = 1..(n + 1)
      /\ all[n + 1] = f
      /\ \A k \in 1..n : all[k] = fs[k] /\ fs[k] \in Frame
  BY OneMore DEF Clips
<1>2. LastTime(fs) = Now(m) /\ Now(m) \in Nat
  BY NowType DEF LastTime, Now
<1>3. fs = <<>> <=> n = 0
  BY <1>1 DEF Clips
<1>4. /\ \A i \in 1..n : fs[i].t \in Nat
      /\ \A i, j \in 1..n : i < j => fs[i].t < fs[j].t
  BY <1>1, ClipTimes
<1>5. /\ \A i \in 1..n : fs[i].t > 0
      /\ fs # <<>> => ~ fs[1].looks
  BY <1>1 DEF Clips
<1>6. f.t \in Nat /\ f.t > Now(m)
  BY DEF Frame
<1>7. fs # <<>> => Now(m) = fs[n].t
  BY DEF Now
<1>8. (fs = <<>>) => ~ f.looks
  OBVIOUS
<1>9. all \in Seq(Frame)
  BY DEF Clips
<1> HIDE DEF fs, all, n
<1>10. \A i \in 1..n : fs[i].t <= Now(m)
  BY <1>1, <1>2, <1>3, <1>4, <1>7
<1>11. \A i \in 1..(n + 1) : all[i].t > 0
  BY <1>1, <1>2, <1>5, <1>6
<1>12. ASSUME NEW i \in 1..(n + 1), NEW j \in 1..(n + 1), i < j
       PROVE  all[i].t < all[j].t
  <2>1. i \in 1..n /\ all[i] = fs[i]
    BY <1>1, <1>12
  <2>2. CASE j \in 1..n
    BY <1>1, <1>4, <1>12, <2>1, <2>2
  <2>3. CASE j = n + 1
    BY <1>1, <1>2, <1>4, <1>6, <1>10, <2>1, <2>3
  <2>4. QED
    BY <1>1, <2>2, <2>3
<1>13. ~ all[1].looks
  <2>1. CASE fs = <<>>
    BY <1>1, <1>3, <1>8, <2>1
  <2>2. CASE fs # <<>>
    <3>1. 1 \in 1..n
      BY <1>1, <1>3, <2>2
    <3>2. QED
      BY <1>1, <1>5, <2>2, <3>1
  <2>3. QED
    BY <2>1, <2>2
<1>14. all \in Clips
  BY <1>1, <1>9, <1>11, <1>12, <1>13 DEF Clips
<1>15. QED
  BY <1>2, <1>14 DEF fs, all

\* A frame is read and processed.
LEMMA ReadFrameWatched ==
  ASSUME TypeOK, AllWatched, NEW m \in Monitors, NEW looks \in BOOLEAN, NEW gap \in 1..MaxGap,
         ReadFrame(m, looks, gap)
  PROVE  AllWatched'
<1> USE DockDoorConstants
<1> DEFINE t == Now(m) + gap
           f == [t |-> t, looks |-> looks]
           o == Observed(monitor[m], Update(monitor[m].det, looks, t), t)
           alert == IF MustAlert(o, t) THEN 1 ELSE 0
           flag == o.alerted \/ alert = 1
           new == [o EXCEPT !.pc = "frame", !.alerted = flag]
<1>1. Now(m) \in Nat /\ t \in Nat /\ t > Now(m) /\ t \in Nat \ {0}
  BY NowType
<1>2. f \in Frame /\ f.t = t /\ f.looks = looks
  BY <1>1 DEF Frame
<1>3. Exists(m) /\ Sound(monitor[m]) /\ monitor[m] \in Monitor /\ monitor[m].det \in Detector
  BY StartedMonitor DEF ReadFrame, At, Sound, Monitor
<1>4. /\ frames[m] \in Clips /\ Follows(monitor[m], Scan(frames[m]))
      /\ Alerts(monitor[m], frames[m], Scan(frames[m]), pending[m], asked[m])
  BY <1>3 DEF AllWatched, Watched, Exists
<1>5. Append(frames[m], f) \in Clips /\ LastTime(frames[m]) = Now(m)
  <2>1. frames[m] = <<>> => ~ f.looks
    BY <1>2 DEF ReadFrame
  <2> HIDE DEF t, f
  <2>2. f.t > Now(m)
    BY <1>1, <1>2
  <2>3. QED
    BY <1>2, <1>4, <2>1, <2>2, FrameMakesClip
<1>6. Reads(monitor[m], f, o)
  <2>1. o = Observed(monitor[m], Update(monitor[m].det, f.looks, f.t), f.t)
    BY <1>2
  <2> HIDE DEF o, t, f
  <2>2. QED
    BY <1>2, <1>3, <2>1, ObservedFields
<1>7. o \in Monitor
  <2>1. Update(monitor[m].det, looks, t) \in Detector
    <3> HIDE DEF t
    <3>1. QED
      BY <1>1, <1>3, UpdateType
  <2> HIDE DEF t
  <2>2. Sound(o)
    BY <1>1, <1>3, <2>1, ObservedSound
  <2>3. QED
    BY <2>2 DEF Sound
<1>8. /\ monitor' = [monitor EXCEPT ![m] = [o EXCEPT !.pc = "frame", !.alerted = @ \/ alert = 1]]
      /\ pending' = [pending EXCEPT ![m] = @ + alert]
      /\ asked' = [asked EXCEPT ![m] = @ + alert]
      /\ frames' = [frames EXCEPT ![m] = Append(@, f)]
  BY DEF ReadFrame
<1>9. alert = IF MustAlert(o, f.t) THEN 1 ELSE 0
  BY <1>2
<1> HIDE DEF o, alert, f, t
<1>10. [o EXCEPT !.pc = "frame", !.alerted = @ \/ alert = 1] = new
  BY <1>7 DEF Monitor
<1>11. flag = (o.alerted \/ alert = 1) /\ flag \in BOOLEAN
  OBVIOUS
<1> HIDE DEF flag
<1>12. /\ new.det = o.det /\ new.doorOpen = o.doorOpen /\ new.openSince = o.openSince
       /\ new.openings = o.openings /\ new.raised = o.raised /\ new.alerted = flag
  BY <1>7 DEF Monitor
<1>13. new # Absent
  <2>1. DOMAIN new = DOMAIN o /\ "det" \in DOMAIN o /\ "det" \notin DOMAIN Absent
    BY <1>7 DEF Monitor, Absent
  <2>2. QED
    BY <2>1
<1> HIDE DEF new
<1>14. /\ monitor'[m] = new /\ \A n \in Monitors \ {m} : monitor'[n] = monitor[n]
       /\ pending'[m] = pending[m] + alert /\ \A n \in Monitors \ {m} : pending'[n] = pending[n]
       /\ asked'[m] = asked[m] + alert /\ \A n \in Monitors \ {m} : asked'[n] = asked[n]
       /\ frames'[m] = Append(frames[m], f) /\ \A n \in Monitors \ {m} : frames'[n] = frames[n]
  BY <1>8, <1>10 DEF TypeOK
<1> DEFINE s == Scan(frames[m])
<1>15. RightOf(frames[m], s) /\ ScanType(s)
  BY <1>4, ScanIsRight DEF RightOf
<1>16. frames[m] \in Seq(Frame)
  BY DEF TypeOK
<1>17. Scan(Append(frames[m], f)) = Scanned(s, f)
  BY <1>2, <1>16, ScanOfMore
<1>18. pending[m] \in Nat /\ asked[m] \in Nat
  BY DEF TypeOK
<1> HIDE DEF s
<1>19. Follows(o, Scanned(s, f))
  BY <1>2, <1>3, <1>4, <1>6, <1>15, FollowsFrame DEF s
<1>20. Follows(new, Scanned(s, f))
  BY <1>12, <1>19 DEF Follows
<1>21. Alerts(new, Append(frames[m], f), Scanned(s, f), pending[m] + alert, asked[m] + alert)
  <2>1. f.t > LastTime(frames[m])
    BY <1>1, <1>2, <1>5
  <2>2. new.alerted = (o.alerted \/ alert = 1)
    BY <1>11, <1>12
  <2>3. Follows(monitor[m], s) /\ Alerts(monitor[m], frames[m], s, pending[m], asked[m])
    BY <1>4 DEF s
  <2>4. QED
    BY <1>2, <1>3, <1>4, <1>6, <1>9, <1>12, <1>15, <1>18, <2>1, <2>2, <2>3, AlertsFrame
<1>22. Watched(new, Append(frames[m], f), pending[m] + alert, asked[m] + alert)
  BY <1>5, <1>13, <1>17, <1>20, <1>21 DEF Watched
<1>23. \A n \in Monitors : Watched(monitor'[n], frames'[n], pending'[n], asked'[n])
  BY <1>14, <1>22 DEF AllWatched
<1>24. QED
  BY <1>23 DEF AllWatched

-----------------------------------------------------------------------------
(* The theorems about what monitors report.                                *)

\* At the start no monitor exists, and none has read a frame.
LEMMA InitWatched == Init => AllWatched
<1>1. <<>> \in Clips
  <2>1. <<>> \in Seq(Frame) /\ DOMAIN <<>> = {}
    OBVIOUS
  <2>2. QED
    BY <2>1 DEF Clips
<1>2. QED
  BY <1>1 DEF Init, AllWatched, Watched

\* Every step keeps what the monitors know.
LEMMA NextWatched == DoorInv /\ AllWatched /\ [Next]_vars => AllWatched'
<1> SUFFICES ASSUME DoorInv, AllWatched, [Next]_vars PROVE AllWatched'
  OBVIOUS
<1>0. TypeOK /\ OnlyMonitorsAlert
  BY DEF DoorInv
<1>1. ASSUME NEW m \in Monitors, NEW d \in Doors, Start(m, d) PROVE AllWatched'
  BY <1>0, <1>1, StartWatched
<1>2. ASSUME NEW m \in Monitors, Stop(m) PROVE AllWatched'
  BY <1>0, <1>2, StopWatched
<1>3. CASE StopAll
  BY <1>0, <1>3, StopAllWatched
<1>4. ASSUME NEW m \in Monitors, ThreadStep(m) PROVE AllWatched'
  BY <1>0, <1>4, ThreadWatched
<1>5. ASSUME NEW m \in Monitors, NEW looks \in BOOLEAN, NEW gap \in 1..MaxGap, ReadFrame(m, looks, gap)
      PROVE  AllWatched'
  BY <1>0, <1>5, ReadFrameWatched
<1>6. ASSUME NEW m \in Monitors, AlertRaised(m) \/ AlertFails(m) PROVE AllWatched'
  BY <1>0, <1>6, AlertWatched
<1>7. CASE UNCHANGED vars
  BY <1>7 DEF vars, AllWatched
<1>8. QED
  BY <1>1, <1>2, <1>3, <1>4, <1>5, <1>6, <1>7 DEF Next

\* What the monitors know holds throughout.
LEMMA WatchedInvariant == Spec => [](DoorInv /\ AllWatched)
BY InitInv, NextInv, InitWatched, NextWatched, PTL DEF Spec

\* The report on the frames of a monitor has an interval for each opening, and
\* no others, in order: passers-by in either state are ignored.
THEOREM ReportsAreRight == Spec => []ReportIsRight
<1>1. AllWatched => ReportIsRight
  <2>1. SUFFICES ASSUME AllWatched PROVE ReportIsRight
    OBVIOUS
  <2>2. ASSUME NEW m \in Monitors
        PROVE  LET report == Report(frames[m]) IN
               /\ {report[i] : i \in DOMAIN report} = Openings(frames[m])
               /\ Len(report) = Cardinality(Openings(frames[m]))
               /\ \A i \in 1..(Len(report) - 1) : report[i].end <= report[i + 1].start
    <3>1. frames[m] \in Clips
      BY <2>1 DEF AllWatched, Watched
    <3>2. QED
      BY <3>1, ReportOfClip
  <2>3. QED
    BY <2>2 DEF ReportIsRight
<1>2. QED
  BY <1>1, WatchedInvariant, PTL

\* A live monitor agrees with the report on a clip of the frames it has read.
THEOREM MonitorsAgreeWithReports == Spec => []MonitorAgreesWithReport
<1>1. DoorInv /\ AllWatched => MonitorAgreesWithReport
  <2>1. SUFFICES ASSUME DoorInv, AllWatched PROVE MonitorAgreesWithReport
    OBVIOUS
  <2>2. ASSUME NEW m \in Monitors, Exists(m)
        PROVE  LET report == Report(frames[m])
                   last == report[Len(report)]
               IN
               /\ monitor[m].openings = Len(report)
               /\ monitor[m].doorOpen = (report # <<>> /\ last.ongoing)
               /\ monitor[m].doorOpen => monitor[m].openSince = last.start
    <3> DEFINE fs == frames[m]
               s == Scan(fs)
               report == Report(fs)
               n == Len(s.intervals)
               now == Ongoing(fs, s.openedAt)
    <3>1. fs \in Clips /\ Follows(monitor[m], s)
      BY <2>1, <2>2 DEF AllWatched, Watched, Exists
    <3>2. report = IF s.det.open THEN Append(s.intervals, now) ELSE s.intervals
      BY <3>1, ReportIs
    <3>3. /\ s.intervals \in Seq(OpenInterval) /\ s.det.open \in BOOLEAN /\ InOrder(s.intervals)
      BY <3>1, ScanIsRight DEF RightOf, ScanType, Detector
    <3>4. now.ongoing = TRUE /\ now.start = s.openedAt
      BY DEF Ongoing
    <3>5. /\ monitor[m].doorOpen = s.det.open
          /\ monitor[m].openings = n + (IF s.det.open THEN 1 ELSE 0)
          /\ s.det.open => monitor[m].openSince = s.openedAt
      BY <3>1 DEF Follows
    <3> HIDE DEF fs, s, report, now, n
    <3>6. CASE s.det.open
      <4>1. Len(report) = n + 1 /\ report[n + 1] = now /\ report # <<>> /\ n \in Nat
        BY <3>2, <3>3, <3>6 DEF n
      <4>2. monitor[m].openings = n + 1 /\ monitor[m].doorOpen = TRUE /\ monitor[m].openSince = s.openedAt
        BY <3>3, <3>5, <3>6
      <4>3. /\ monitor[m].openings = Len(report)
            /\ monitor[m].doorOpen = (report # <<>> /\ report[Len(report)].ongoing)
            /\ monitor[m].doorOpen => monitor[m].openSince = report[Len(report)].start
        BY <3>4, <4>1, <4>2
      <4>4. QED
        BY <4>3 DEF report, fs
    <3>7. CASE ~ s.det.open
      <4>1. report = s.intervals /\ Len(report) = n /\ n \in Nat
        BY <3>2, <3>3, <3>7 DEF n
      <4>2. monitor[m].openings = n + 0 /\ monitor[m].doorOpen = FALSE
        BY <3>3, <3>5, <3>7
      <4>3. report # <<>> => report[Len(report)].ongoing = FALSE
        <5>1. SUFFICES ASSUME report # <<>> PROVE report[Len(report)].ongoing = FALSE
          OBVIOUS
        <5>2. Len(report) \in DOMAIN s.intervals
          BY <3>3, <4>1, <5>1
        <5>3. QED
          BY <3>3, <4>1, <5>2 DEF InOrder
      <4>4. /\ monitor[m].openings = Len(report)
            /\ monitor[m].doorOpen = (report # <<>> /\ report[Len(report)].ongoing)
            /\ monitor[m].doorOpen => monitor[m].openSince = report[Len(report)].start
        <5>1. monitor[m].openings = Len(report)
          BY <4>1, <4>2
        <5>2. (report # <<>> /\ report[Len(report)].ongoing) = FALSE
          BY <4>3
        <5>3. QED
          BY <4>2, <5>1, <5>2, Zenon
      <4>5. QED
        BY <4>4 DEF report, fs
    <3>8. QED
      BY <3>3, <3>6, <3>7
  <2>3. QED
    BY <2>2 DEF MonitorAgreesWithReport
<1>2. QED
  BY <1>1, WatchedInvariant, PTL

\* What a report says of the limit, in terms of the intervals that ended.
LEMMA ReportCounts ==
  ASSUME NEW fs \in Clips, NEW s, s = Scan(fs)
  PROVE  /\ Violations(Report(fs)) \in Nat
         /\ Violations(Report(fs)) =
              Cardinality(Having(s.intervals, Violating)) +
                (IF s.det.open /\ LastTime(fs) - s.openedAt > MaxOpen THEN 1 ELSE 0)
         /\ Cardinality({i \in DOMAIN Report(fs) : Duration(Report(fs)[i]) + Debounce > MaxOpen}) =
              Cardinality(Having(s.intervals, NearlyViolating)) +
                (IF s.det.open /\ LastTime(fs) - s.openedAt + Debounce > MaxOpen THEN 1 ELSE 0)
         /\ Cardinality(Having(s.intervals, Violating)) \in Nat
         /\ Cardinality(Having(s.intervals, NearlyViolating)) \in Nat
<1> DEFINE now == Ongoing(fs, s.openedAt)
           report == Report(fs)
<1>1. RightOf(fs, s)
  BY ScanIsRight
<1>2. s.intervals \in Seq(OpenInterval) /\ s.det.open \in BOOLEAN
  BY <1>1 DEF RightOf, ScanType, Detector
<1>3. report = IF s.det.open THEN Append(s.intervals, now) ELSE s.intervals
  BY ReportIs
<1>4. s.det.open => now \in OpenInterval /\ now.start = s.openedAt /\ now.end = LastTime(fs)
  BY <1>1, OpenedBefore DEF Ongoing, OpenInterval, LastTime
<1>5. report \in Seq(OpenInterval)
  BY ReportOfClip
<1> HIDE DEF report
<1>6. \A i \in DOMAIN report : report[i] \in OpenInterval
  BY <1>5
<1>7. Violations(report) = Cardinality(Having(report, Violating))
  <2>1. {i \in DOMAIN report : Violates(report[i])} = Having(report, Violating)
    BY <1>6 DEF Having, Violating
  <2>2. QED
    BY <2>1 DEF Violations
<1>8. {i \in DOMAIN report : Duration(report[i]) + Debounce > MaxOpen} = Having(report, NearlyViolating)
  BY <1>6 DEF Having, NearlyViolating
<1> HIDE DEF now
<1>9. CASE s.det.open
  <2>1. report = Append(s.intervals, now) /\ now \in OpenInterval
    BY <1>3, <1>4, <1>9
  <2>2. /\ now \in Violating <=> LastTime(fs) - s.openedAt > MaxOpen
        /\ now \in NearlyViolating <=> LastTime(fs) - s.openedAt + Debounce > MaxOpen
    BY <1>4, <1>9, WhichViolate
  <2>3. /\ Cardinality(Having(s.intervals, Violating)) \in Nat
        /\ Cardinality(Having(Append(s.intervals, now), Violating)) =
             Cardinality(Having(s.intervals, Violating)) + (IF now \in Violating THEN 1 ELSE 0)
    BY <1>2, <2>1, HavingAppended
  <2>4. /\ Cardinality(Having(s.intervals, NearlyViolating)) \in Nat
        /\ Cardinality(Having(Append(s.intervals, now), NearlyViolating)) =
             Cardinality(Having(s.intervals, NearlyViolating)) + (IF now \in NearlyViolating THEN 1 ELSE 0)
    BY <1>2, <2>1, HavingAppended
  <2>5. Violations(report) =
          Cardinality(Having(s.intervals, Violating)) +
            (IF s.det.open /\ LastTime(fs) - s.openedAt > MaxOpen THEN 1 ELSE 0)
    BY <1>7, <1>9, <2>1, <2>2, <2>3
  <2>6. Cardinality({i \in DOMAIN report : Duration(report[i]) + Debounce > MaxOpen}) =
          Cardinality(Having(s.intervals, NearlyViolating)) +
            (IF s.det.open /\ LastTime(fs) - s.openedAt + Debounce > MaxOpen THEN 1 ELSE 0)
    <3>1. Cardinality({i \in DOMAIN report : Duration(report[i]) + Debounce > MaxOpen}) =
            Cardinality(Having(Append(s.intervals, now), NearlyViolating))
      BY <1>8, <2>1
    <3>2. QED
      BY <1>9, <2>2, <2>4, <3>1
  <2>7. Violations(report) \in Nat
    BY <2>3, <2>5
  <2>8. QED
    BY <2>3, <2>4, <2>5, <2>6, <2>7 DEF report
<1>10. CASE ~ s.det.open
  <2>1. report = s.intervals
    BY <1>3, <1>10
  <2>2. /\ Cardinality(Having(s.intervals, Violating)) \in Nat
        /\ Cardinality(Having(s.intervals, NearlyViolating)) \in Nat
    <3> DEFINE x == [start |-> 0, end |-> 0, ongoing |-> FALSE]
    <3>1. x \in OpenInterval
      BY DEF OpenInterval
    <3> HIDE DEF x
    <3>2. QED
      BY <1>2, <3>1, HavingAppended
  <2>3. Violations(report) = Cardinality(Having(s.intervals, Violating)) + 0
    BY <1>7, <2>1, <2>2
  <2>4. Cardinality({i \in DOMAIN report : Duration(report[i]) + Debounce > MaxOpen}) =
          Cardinality(Having(s.intervals, NearlyViolating)) + 0
    <3>1. Cardinality({i \in DOMAIN report : Duration(report[i]) + Debounce > MaxOpen}) =
            Cardinality(Having(s.intervals, NearlyViolating))
      BY <1>8, <2>1
    <3>2. QED
      BY <2>2, <3>1
  <2>5. Violations(report) \in Nat
    BY <2>2, <2>3
  <2>6. QED
    BY <1>10, <2>2, <2>3, <2>4, <2>5 DEF report
<1>11. QED
  BY <1>2, <1>9, <1>10

\* Each opening that a clip would report as a violation is alerted, once, and
\* nothing is alerted that was not near the limit by the debounce time.
THEOREM AlertsMatchReports == Spec => []AlertsMatchReport
<1>1. DoorInv /\ AllWatched => AlertsMatchReport
  <2>1. SUFFICES ASSUME DoorInv, AllWatched PROVE AlertsMatchReport
    OBVIOUS
  <2>2. ASSUME NEW m \in Monitors
        PROVE  LET report == Report(frames[m])
                   near == {i \in DOMAIN report : Duration(report[i]) + Debounce > MaxOpen}
               IN
               /\ Violations(report) <= asked[m] /\ asked[m] <= Cardinality(near)
               /\ ClipAlerts(report) <= asked[m]
               /\ Exists(m) => monitor[m].raised + pending[m] <= asked[m]
    <3> DEFINE fs == frames[m]
               s == Scan(fs)
               report == Report(fs)
               near == {i \in DOMAIN report : Duration(report[i]) + Debounce > MaxOpen}
               a == asked[m]
               Vs == Cardinality(Having(s.intervals, Violating))
               Ns == Cardinality(Having(s.intervals, NearlyViolating))
    <3>1. fs \in Clips /\ a \in Nat
      BY <2>1 DEF AllWatched, Watched, DoorInv, TypeOK
    <3>2. /\ Violations(report) \in Nat
          /\ Violations(report) =
               Vs + (IF s.det.open /\ LastTime(fs) - s.openedAt > MaxOpen THEN 1 ELSE 0)
          /\ Cardinality(near) =
               Ns + (IF s.det.open /\ LastTime(fs) - s.openedAt + Debounce > MaxOpen THEN 1 ELSE 0)
          /\ Vs \in Nat /\ Ns \in Nat
      <4> HIDE DEF fs
      <4>1. QED
        BY <3>1, ReportCounts
    <3>3. ClipAlerts(report) <= Violations(report) /\ ClipAlerts(report) \in Nat
      <4> HIDE DEF report
      <4>1. QED
        BY <3>2 DEF ClipAlerts
    <3>4. s.det.open \in BOOLEAN /\ RightOf(fs, s)
      <4>1. RightOf(fs, s)
        BY <3>1, ScanIsRight
      <4>2. QED
        BY <4>1 DEF RightOf, ScanType, Detector
    <3>5. s.det.open => LastTime(fs) \in Nat /\ s.openedAt \in Nat
      <4> HIDE DEF fs, s
      <4>1. QED
        BY <3>1, <3>4, OpenedBefore DEF LastTime
    <3>6. Debounce \in Nat \ {0} /\ MaxOpen \in Nat
      BY DetectorConstants
    <3>7. CASE Exists(m)
      <4>1. Follows(monitor[m], s) /\ Alerts(monitor[m], fs, s, pending[m], a)
        BY <2>1, <3>7 DEF AllWatched, Watched, Exists
      <4> HIDE DEF fs, s, report, near, a
      <4>2. /\ Vs + AlertedNow(monitor[m]) <= a
            /\ a <= Ns + AlertedNow(monitor[m])
            /\ monitor[m].doorOpen => (monitor[m].alerted <=> LastTime(fs) - monitor[m].openSince > MaxOpen)
            /\ monitor[m].raised + pending[m] <= a
            /\ monitor[m].doorOpen = s.det.open
            /\ s.det.open => monitor[m].openSince = s.openedAt
        BY <4>1 DEF Alerts, Follows
      <4> HIDE DEF Vs, Ns
      <4>3. AlertedNow(monitor[m]) =
              IF s.det.open /\ LastTime(fs) - s.openedAt > MaxOpen THEN 1 ELSE 0
        BY <3>4, <4>2 DEF AlertedNow
      <4>4. Violations(report) <= a
        BY <3>2, <4>2, <4>3
      <4>5. a <= Cardinality(near)
        BY <3>1, <3>2, <3>5, <3>6, <4>2, <4>3
      <4>6. ClipAlerts(report) <= a
        BY <3>1, <3>2, <3>3, <4>4
      <4>7. QED
        BY <4>2, <4>4, <4>5, <4>6 DEF near, report, fs, a
    <3>8. CASE ~ Exists(m)
      <4>1. fs = <<>> /\ a = 0
        BY <2>1, <3>8 DEF AllWatched, Watched, Exists
      <4>2. s = ScanStart
        BY <4>1, ScanOfNone
      <4>3. ScanStart.det.open = FALSE /\ ScanStart.intervals = <<>>
        BY DEF ScanStart, ClosedDoor
      <4>4. Vs = 0 /\ Ns = 0
        BY <4>2, <4>3, HavingNone
      <4> HIDE DEF fs, s, report, near, a, Vs, Ns
      <4>5. Violations(report) = 0 /\ Cardinality(near) = 0
        BY <3>2, <4>2, <4>3, <4>4
      <4>6. QED
        BY <3>2, <3>3, <3>8, <4>1, <4>5 DEF near, report, fs, a
    <3>9. QED
      BY <3>7, <3>8
  <2>3. QED
    BY <2>2 DEF AlertsMatchReport
<1>2. QED
  BY <1>1, WatchedInvariant, PTL

=============================================================================
