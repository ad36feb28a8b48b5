------------------------------ MODULE DockDoors ------------------------------
(***************************************************************************)
(* The live door monitors of the AI service: a thread per monitor reads a  *)
(* camera, reconnects when the stream drops, and hands an alert to the     *)
(* event loop when its door is open too long.  Requests start and stop     *)
(* monitors from the event loop while the threads block in OpenCV; both    *)
(* sides write the monitor's status, without a lock.                       *)
(*                                                                         *)
(*          .----------------- stream drops ------------------.            *)
(*          v                                                 |            *)
(*   --> connect --> opening --opened--> frame --> reading ---'            *)
(*          |  ^--not opened--'            ^----processed-'                *)
(*          `--stop requested--> ended                                     *)
(***************************************************************************)
EXTENDS DoorDetector

CONSTANTS
  Doors,        \* door ids
  MaxStarts,    \* bound: monitors started in a behaviour
  MaxMonitors,  \* dock_door_max_monitors
  MaxFrames,    \* bound: frames read in a behaviour
  MaxGap        \* bound: time between frames

ASSUME DockDoorConstants ==
  /\ {MaxStarts, MaxMonitors, MaxFrames} \subseteq Nat
  /\ MaxGap \in Nat \ {0}

\* A monitor's id is the order it was started in.
Monitors == 1..MaxStarts

VARIABLES
  monitor,      \* _monitors: every monitor ever started
  pending,      \* _alert coroutines under way
  serving,      \* the service takes requests
  frames,       \* history: the frames each monitor has processed, its own clock
  asked         \* history: alerts a monitor's thread handed to the event loop

vars == <<monitor, pending, serving, frames, asked>>

Status == {"starting", "running", "reconnecting", "stopped"}
Absent == [status |-> "absent"]
Monitor == [door: Doors, status: Status, stop: BOOLEAN,
            pc: {"connect", "opening", "frame", "reading", "ended"}, det: Detector,
            doorOpen: BOOLEAN, openSince: Nat, openings: Nat, alerted: BOOLEAN, raised: Nat]

Exists(m) == monitor[m] # Absent
At(m, pc) == Exists(m) /\ monitor[m].pc = pc

\* The monitors that start_monitor counts as watching.
Watching_Running == {m \in Monitors : Exists(m) /\ monitor[m].status \in {"starting", "running"}}
Watching == {m \in Monitors : Exists(m) /\ monitor[m].status # "stopped"}

Init ==
  /\ monitor = [m \in Monitors |-> Absent]
  /\ pending = [m \in Monitors |-> 0]
  /\ serving = TRUE
  /\ frames = [m \in Monitors |-> <<>>]
  /\ asked = [m \in Monitors |-> 0]

-----------------------------------------------------------------------------
(* Requests, on the event loop.                                            *)

Start(m, d) ==
  /\ serving
  /\ ~ Exists(m) /\ \A n \in 1..(m - 1) : Exists(n)
  /\ \A n \in Watching : monitor[n].door # d
  /\ Cardinality(Watching) < MaxMonitors
  /\ monitor' = [monitor EXCEPT ![m] =
       [door |-> d, status |-> "starting", stop |-> FALSE, pc |-> "connect", det |-> ClosedDoor,
        doorOpen |-> FALSE, openSince |-> 0, openings |-> 0, alerted |-> FALSE, raised |-> 0]]
  /\ UNCHANGED <<pending, serving, frames, asked>>

\* stop_monitor does not wait for the thread.
Stop(m) ==
  /\ serving
  /\ Exists(m)
  /\ monitor' = [monitor EXCEPT ![m].stop = TRUE, ![m].status = "stopped"]
  /\ UNCHANGED <<pending, serving, frames, asked>>

\* The service shuts down: stop_all.
StopAll ==
  /\ serving
  /\ serving' = FALSE
  /\ monitor' = [m \in Monitors |-> IF Exists(m) THEN [monitor[m] EXCEPT !.stop = TRUE] ELSE Absent]
  /\ UNCHANGED <<pending, frames, asked>>

-----------------------------------------------------------------------------
(* The thread, _run.  It may be stopped while it blocks in "opening" and   *)
(* "reading", and sees that at "connect" and "frame" only.                 *)

Goto(m, pc, status) == monitor' = [monitor EXCEPT ![m].pc = pc, ![m].status = status]

AfterStop_Reconnects(m) == Goto(m, "opening", monitor[m].status)
AfterStop(m) == Goto(m, "ended", "stopped")

Connect(m) ==
  /\ At(m, "connect")
  /\ IF monitor[m].stop THEN AfterStop(m) ELSE Goto(m, "opening", monitor[m].status)
  /\ UNCHANGED <<pending, serving, frames, asked>>

\* The stream opens, or not; the wait for the next attempt ends early on a stop.
Open(m) ==
  /\ At(m, "opening")
  /\ Goto(m, "frame", "running") \/ Goto(m, "connect", "reconnecting")
  /\ UNCHANGED <<pending, serving, frames, asked>>

NextFrame(m) ==
  /\ At(m, "frame")
  /\ Goto(m, IF monitor[m].stop THEN "connect" ELSE "reading", monitor[m].status)
  /\ UNCHANGED <<pending, serving, frames, asked>>

\* The stream ends, or a frame cannot be decoded.
Drop(m) ==
  /\ At(m, "reading")
  /\ Goto(m, "connect", "reconnecting")
  /\ UNCHANGED <<pending, serving, frames, asked>>

\* What the detector's answer to a frame changes in the monitor.
Observed_Confirmed(mon, det, t) ==
  IF det.open = mon.det.open THEN [mon EXCEPT !.det = det]
  ELSE IF det.open
  THEN [mon EXCEPT !.det = det, !.doorOpen = TRUE, !.openSince = t, !.openings = @ + 1, !.alerted = FALSE]
  ELSE [mon EXCEPT !.det = det, !.doorOpen = FALSE, !.openSince = 0]
Observed_AlertedOnce(mon, det, t) ==
  IF det.open = mon.det.open THEN [mon EXCEPT !.det = det]
  ELSE IF det.open
  THEN [mon EXCEPT !.det = det, !.doorOpen = TRUE, !.openSince = ChangeBegan(mon.det, t), !.openings = @ + 1]
  ELSE [mon EXCEPT !.det = det, !.doorOpen = FALSE, !.openSince = 0]
Observed_SinceKept(mon, det, t) ==
  IF det.open = mon.det.open THEN [mon EXCEPT !.det = det]
  ELSE IF det.open
  THEN [mon EXCEPT !.det = det, !.doorOpen = TRUE, !.openSince = ChangeBegan(mon.det, t),
                   !.openings = @ + 1, !.alerted = FALSE]
  ELSE [mon EXCEPT !.det = det, !.doorOpen = FALSE]
Observed(mon, det, t) ==
  IF det.open = mon.det.open THEN [mon EXCEPT !.det = det]
  ELSE IF det.open
  THEN [mon EXCEPT !.det = det, !.doorOpen = TRUE, !.openSince = ChangeBegan(mon.det, t),
                   !.openings = @ + 1, !.alerted = FALSE]
  ELSE [mon EXCEPT !.det = det, !.doorOpen = FALSE, !.openSince = 0]

\* The opening in hand is marked as alerted before anything is sent.
MustAlert(mon, t) == mon.doorOpen /\ ~ mon.alerted /\ t - mon.openSince > MaxOpen

\* Monitors never compare their times.
Now(m) == IF frames[m] = <<>> THEN 0 ELSE frames[m][Len(frames[m])].t

\* A frame is read and processed.  The first one becomes the reference and so
\* looks closed.
ReadFrame(m, looks, gap) ==
  LET t == Now(m) + gap
      mon == Observed(monitor[m], Update(monitor[m].det, looks, t), t)
      alert == IF MustAlert(mon, t) THEN 1 ELSE 0
  IN
  /\ At(m, "reading")
  /\ frames[m] = <<>> => ~ looks
  /\ monitor' = [monitor EXCEPT ![m] = [mon EXCEPT !.pc = "frame", !.alerted = @ \/ alert = 1]]
  /\ pending' = [pending EXCEPT ![m] = @ + alert]
  /\ asked' = [asked EXCEPT ![m] = @ + alert]
  /\ frames' = [frames EXCEPT ![m] = Append(@, [t |-> t, looks |-> looks])]
  /\ UNCHANGED serving

FramesRead == Cardinality({place \in Monitors \X (1..MaxFrames) : place[2] <= Len(frames[place[1]])})

-----------------------------------------------------------------------------
(* _alert, on the event loop.                                              *)

AlertRaised(m) ==
  /\ pending[m] > 0
  /\ pending' = [pending EXCEPT ![m] = @ - 1]
  /\ monitor' = [monitor EXCEPT ![m].raised = @ + 1]
  /\ UNCHANGED <<serving, frames, asked>>

\* The call raises: it is logged and not tried again.
AlertFails(m) ==
  /\ pending[m] > 0
  /\ pending' = [pending EXCEPT ![m] = @ - 1]
  /\ UNCHANGED <<monitor, serving, frames, asked>>

-----------------------------------------------------------------------------

ThreadStep(m) == Connect(m) \/ Open(m) \/ NextFrame(m) \/ Drop(m)

Next ==
  \/ \E m \in Monitors, d \in Doors : Start(m, d)
  \/ \E m \in Monitors : Stop(m)
  \/ StopAll
  \/ \E m \in Monitors : ThreadStep(m)
  \/ \E m \in Monitors, looks \in BOOLEAN, gap \in 1..MaxGap :
       FramesRead < MaxFrames /\ ReadFrame(m, looks, gap)
  \/ \E m \in Monitors : AlertRaised(m) \/ AlertFails(m)

\* A thread that runs goes on, and OpenCV's calls return: a frame, or in the
\* end its own time-out.
Fairness ==
  \A m \in Monitors :
    WF_vars(ThreadStep(m) \/ \E looks \in BOOLEAN, gap \in 1..MaxGap : ReadFrame(m, looks, gap))

Spec == Init /\ [][Next]_vars
FairSpec == Spec /\ Fairness

-----------------------------------------------------------------------------
(* Properties.                                                             *)

\* The shape of the state.
TypeOK ==
  /\ monitor \in [Monitors -> Monitor \cup {Absent}]
  /\ pending \in [Monitors -> Nat]
  /\ serving \in BOOLEAN
  /\ frames \in [Monitors -> Seq(Frame)]
  /\ asked \in [Monitors -> Nat]
  /\ \A m \in Monitors : Exists(m) => (monitor[m].openSince > 0 <=> monitor[m].doorOpen)

\* A door has at most one monitor that was not told to stop, and all doors
\* together at most MaxMonitors, however threads that were stopped overwrite
\* their status afterwards.  start_monitor goes by the status alone.
Unstopped == {m \in Monitors : Exists(m) /\ ~ monitor[m].stop}
OneMonitorPerDoor ==
  /\ \A m, n \in Unstopped : monitor[m].door = monitor[n].door => m = n
  /\ Cardinality(Unstopped) <= MaxMonitors

\* The report on a clip has an interval for each time the picture showed an
\* open door for the debounce time, from the first such frame to the first of
\* a lasting closed picture: passers-by in either state are ignored.
ReportIsRight ==
  \A m \in Monitors :
    LET report == Report(frames[m]) IN
    /\ {report[i] : i \in DOMAIN report} = Openings(frames[m])
    /\ Len(report) = Cardinality(Openings(frames[m]))
    /\ \A i \in 1..(Len(report) - 1) : report[i].end <= report[i + 1].start

\* A live monitor tells of its frames what the report on a clip of them would,
\* across dropped streams and after it was stopped.
MonitorAgreesWithReport ==
  \A m \in Monitors :
    Exists(m) =>
      LET report == Report(frames[m])
          last == report[Len(report)]
      IN
      /\ monitor[m].openings = Len(report)
      /\ monitor[m].doorOpen = (report # <<>> /\ last.ongoing)
      /\ monitor[m].doorOpen => monitor[m].openSince = last.start

\* Each opening that a clip would report as a violation is alerted, once.  A
\* monitor may also alert an opening that turns out to be within its limit,
\* by less than the debounce time: it learns late of a door that has closed.
AlertsMatchReport ==
  \A m \in Monitors :
    LET report == Report(frames[m])
        near == {i \in DOMAIN report : Duration(report[i]) + Debounce > MaxOpen}
    IN
    /\ Violations(report) <= asked[m] /\ asked[m] <= Cardinality(near)
    /\ ClipAlerts(report) <= asked[m]
    /\ Exists(m) => monitor[m].raised + pending[m] <= asked[m]

\* A monitor told to stop ends and shows as stopped, although its thread may
\* first overwrite the status that stop_monitor set.
StopTakesEffect ==
  \A m \in Monitors :
    Exists(m) /\ monitor[m].stop ~> At(m, "ended") /\ monitor[m].status = "stopped"

=============================================================================
