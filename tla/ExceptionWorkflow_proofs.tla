---------------------- MODULE ExceptionWorkflow_proofs ----------------------
(***************************************************************************)
(* Proofs about the exception workflows, for any sets of alerts and        *)
(* clients, plans of any length and any bounds.                            *)
(*                                                                         *)
(* A run that nobody raced on and no crash stopped has one caller at most, *)
(* which knows where the run is, and what has taken effect fits that       *)
(* place: nothing before the execution, in it the first actions, once.     *)
(* Between two callers such a run rests before its execution or at its     *)
(* end, since no node from the execution on raises.                        *)
(***************************************************************************)
EXTENDS ExceptionWorkflow, TLAPS

-----------------------------------------------------------------------------
(* The inductive invariant.                                                *)

Undisturbed == Alerts \ (raced \cup broken)
BeforeExecution == {"none", "plan", "approval", "awaiting"}

Working(c, a, pc) == caller[c].pc = pc /\ caller[c].alert = a

Untouched(a) == \A i \in Actions : executed[a][i] = 0
AtMostOnce(a) == \A i \in Actions : executed[a][i] <= IF a \in approved THEN 1 ELSE 0

\* An end tells whether actions were carried out.
EndFits(a, outcome) ==
  /\ outcome # "none"
  /\ AtMostOnce(a)
  /\ outcome \in {"no_action", "rejected"} => Untouched(a)

\* What has taken effect of run a is what a run at this point has done.
Fits(a, point, done) ==
  /\ point.stage \in BeforeExecution => Untouched(a)
  /\ point.stage = "execute" =>
       /\ a \in approved
       /\ \A i \in Actions : executed[a][i] <= IF i <= done THEN 1 ELSE 0
  /\ point.stage = "finish" => EndFits(a, point.outcome)
  /\ point.stage = "done" => EndFits(a, point.status)

Rests(a) ==
  /\ checkpoint[a].stage \notin {"execute", "finish"}
  /\ Fits(a, checkpoint[a], 0)

OneCaller(a) == \A c, g \in Callers : WorksOn(c, a) /\ WorksOn(g, a) => c = g
RestsAlone(a) == (\A c \in Callers : ~ WorksOn(c, a)) => Rests(a)

\* Whoever is about to load the run will not load a finished one.
LoadsOpen(a) ==
  \A c \in Callers : Working(c, a, "loading") =>
    /\ Rests(a)
    /\ checkpoint[a].stage \in (IF caller[c].wish = "fresh" THEN {"none"}
                                ELSE {"plan", "approval", "awaiting"})

RunsInOrder(a) ==
  \A c \in Callers : Working(c, a, "running") =>
    /\ caller[c].at.stage \notin {"none", "done"} /\ checkpoint[a].stage # "done"
    /\ Fits(a, caller[c].at, caller[c].done)
    /\ ~ caller[c].unsaved => checkpoint[a] = caller[c].at

InOrder(a) == OneCaller(a) /\ RestsAlone(a) /\ LoadsOpen(a) /\ RunsInOrder(a)

\* A call looks at a run to start or to decide it.  No action is done before
\* the execution, and one that is done without an error took effect.
CallsFit ==
  \A c \in Callers : caller[c] # Idle =>
    /\ caller[c].pc = "viewed" => caller[c].wish \in {"start", "approve", "reject"}
    /\ caller[c].pc # "running" \/ caller[c].at.stage \in BeforeExecution => caller[c].done = 0
    /\ ~ caller[c].failed =>
         \A i \in Actions : i <= caller[c].done => executed[caller[c].alert][i] > 0

\* A run ends in one way or another, and says completed only if its actions
\* took effect.
TrueOf(a, point) ==
  /\ point.stage = "finish" => point.outcome # "none"
  /\ point.stage = "done" => point.status # "none"
  /\ (point.stage = "finish" /\ point.outcome = "completed")
       \/ (point.stage = "done" /\ point.status = "completed")
     => \A i \in Actions : i <= point.todo => executed[a][i] > 0

EndsAreTrue ==
  /\ \A a \in Alerts : TrueOf(a, checkpoint[a])
  /\ \A c \in Callers : caller[c].pc = "running" => TrueOf(caller[c].alert, caller[c].at)

\* A run that nobody raced on has one caller at most, and none once it is done.
Closed(a) ==
  /\ OneCaller(a)
  /\ \A c \in Callers : WorksOn(c, a) =>
       /\ checkpoint[a].stage # "done"
       /\ caller[c].pc = "running" => caller[c].at.stage # "done"

WorkflowInv ==
  /\ TypeOK
  /\ CallsFit
  /\ EndsAreTrue
  /\ \A a \in Undisturbed : InOrder(a)
  /\ \A a \in Alerts \ raced : Closed(a)

-----------------------------------------------------------------------------
(* Tasks and the steps of a caller.                                        *)

\* Only caller c does anything.
Others(c) == \A g \in Callers \ {c} : caller'[g] = caller[g]

\* Nothing happens to run a itself.
SameRun(a) ==
  /\ checkpoint'[a] = checkpoint[a] /\ executed'[a] = executed[a]
  /\ a \in approved' <=> a \in approved

\* The fields of a busy caller's task.
LEMMA BusyTask ==
  ASSUME NEW task \in Task, task # Idle
  PROVE  /\ task.pc \in {"viewed", "loading", "running"} /\ task.alert \in Alerts
         /\ task.wish \in Wish /\ task.at \in Point /\ task.unsaved \in BOOLEAN
         /\ task.done \in 0..MaxActions /\ task.failed \in BOOLEAN
BY DEF Task

\* A caller inside a call is not idle, and an idle one works on nothing.
LEMMA NotIdle ==
  ASSUME NEW task, task.pc \in {"viewed", "loading", "running"} PROVE task # Idle
BY DEF Idle

\* A caller at rest works on no run.
LEMMA IdleWorksOnNothing ==
  ASSUME NEW c, caller[c] = Idle
  PROVE  \A a : ~ WorksOn(c, a) /\ ~ Working(c, a, "loading") /\ ~ Working(c, a, "running")
BY DEF Idle, WorksOn, Working

\* The points a run starts from.
LEMMA PointTypes ==
  ASSUME NEW p \in Point
  PROVE  NoRun \in Point /\ Restarted(p) \in Point /\ Restarted(p).stage = "plan"
<1>1. NoRun \in Point
  BY WorkflowConstants DEF Point, Stage, Outcome, NoRun
<1>2. p.status \in Outcome /\ "plan" \in Stage
  BY DEF Point, Stage
<1>3. QED
  BY <1>1, <1>2 DEF Point, Restarted

\* A caller's step, seen from all callers.
LEMMA CallerStep ==
  ASSUME NEW c \in Callers, NEW task \in Task, caller \in [Callers -> Task],
         caller' = [caller EXCEPT ![c] = task]
  PROVE  caller' \in [Callers -> Task] /\ caller'[c] = task /\ Others(c)
BY DEF Others

\* A caller takes up a wish and asks for the run; nothing else changes.
LEMMA AskFacts ==
  ASSUME TypeOK, NEW c \in Callers, NEW a \in Alerts, NEW wish \in {"start", "approve", "reject"},
         Ask(c, a, wish)
  PROVE  /\ caller' \in [Callers -> Task] /\ Others(c) /\ caller[c] = Idle
         /\ caller'[c] # Idle /\ caller'[c].pc = "viewed" /\ caller'[c].done = 0
         /\ caller'[c].wish = wish
         /\ UNCHANGED <<checkpoint, inFlight, executed, faults, approved, raced, broken>>
<1> DEFINE task == [pc |-> "viewed", alert |-> a, wish |-> wish, at |-> checkpoint[a],
                    unsaved |-> FALSE, done |-> 0, failed |-> FALSE]
<1>1. checkpoint[a] \in Point /\ 0 \in 0..MaxActions
  BY WorkflowConstants DEF TypeOK
<1>2. task \in Task /\ task.pc = "viewed" /\ task.done = 0 /\ task.wish = wish /\ task # Idle
  BY <1>1 DEF Task, Wish, Idle
<1>3. caller' = [caller EXCEPT ![c] = task]
  BY DEF Ask
<1> HIDE DEF task
<1>4. QED
  BY <1>2, <1>3, CallerStep DEF Ask, TypeOK

\* The graph goes on to another point.
LEMMA GotoFacts ==
  ASSUME TypeOK, NEW c \in Callers, caller[c].pc = "running", NEW point \in Point, Goto(c, point)
  PROVE  /\ caller' \in [Callers -> Task] /\ Others(c)
         /\ caller'[c] # Idle /\ caller'[c].pc = "running" /\ caller'[c].alert = caller[c].alert
         /\ caller'[c].at = point /\ caller'[c].unsaved = TRUE
         /\ caller'[c].done = caller[c].done /\ caller'[c].failed = caller[c].failed
<1> DEFINE task == [caller[c] EXCEPT !.at = point, !.unsaved = TRUE, !.wish = "retry"]
<1>1. caller[c] \in Task /\ caller[c] # Idle
  BY NotIdle DEF TypeOK
<1>2. /\ task \in Task /\ task.pc = "running" /\ task.alert = caller[c].alert
      /\ task.at = point /\ task.unsaved = TRUE
      /\ task.done = caller[c].done /\ task.failed = caller[c].failed
  BY <1>1 DEF Task, Wish
<1>3. caller' = [caller EXCEPT ![c] = task]
  BY DEF Goto, TypeOK
<1> HIDE DEF task
<1>4. task # Idle
  BY <1>2 DEF Idle
<1>5. QED
  BY <1>2, <1>3, <1>4, CallerStep DEF TypeOK

\* The graph stops.
LEMMA StopFacts ==
  ASSUME TypeOK, NEW c \in Callers, caller[c].pc = "running", NEW point \in Point,
         NEW unsaved \in BOOLEAN, Stop(c, point, unsaved)
  PROVE  /\ caller' \in [Callers -> Task] /\ Others(c) /\ caller'[c] = Idle
         /\ caller[c].alert \in Alerts
         /\ checkpoint' \in [Alerts -> Point]
         /\ checkpoint'[caller[c].alert] = IF unsaved THEN point ELSE checkpoint[caller[c].alert]
         /\ \A a \in Alerts \ {caller[c].alert} : checkpoint'[a] = checkpoint[a]
<1>1. caller[c] \in Task /\ caller[c] # Idle /\ caller[c].alert \in Alerts
  BY NotIdle, BusyTask DEF TypeOK
<1>2. Idle \in Task
  BY DEF Task
<1>3. caller' \in [Callers -> Task] /\ Others(c) /\ caller'[c] = Idle
  BY <1>2, CallerStep DEF Stop, TypeOK
<1>4. QED
  BY <1>1, <1>3 DEF Stop, TypeOK

\* One action of the plan is over.
LEMMA ExecuteFacts ==
  ASSUME TypeOK, NEW c \in Callers, ExecuteAction(c)
  PROVE  /\ caller[c].pc = "running" /\ caller[c].at.stage = "execute"
         /\ caller' \in [Callers -> Task] /\ Others(c)
         /\ caller'[c] # Idle /\ caller'[c].pc = "running" /\ caller'[c].alert = caller[c].alert
         /\ caller'[c].at = caller[c].at /\ caller'[c].unsaved = caller[c].unsaved
         /\ caller'[c].done = caller[c].done + 1 /\ caller'[c].done \in Actions
         /\ UNCHANGED <<checkpoint, inFlight, faults, approved, graphOnly>>
         /\ executed' \in [Alerts -> [Actions -> Nat]]
         /\ \A a \in Alerts \ {caller[c].alert} : executed'[a] = executed[a]
         /\ \A i \in Actions \ {caller'[c].done} :
              executed'[caller[c].alert][i] = executed[caller[c].alert][i]
         /\ \/ executed'[caller[c].alert] = executed[caller[c].alert] /\ caller'[c].failed
            \/ executed'[caller[c].alert][caller'[c].done] =
                 executed[caller[c].alert][caller'[c].done] + 1
         /\ ~ caller'[c].failed => ~ caller[c].failed
<1> DEFINE task == caller[c]
           i == task.done + 1
           effect == [executed EXCEPT ![task.alert][i] = @ + 1]
<1>1. task \in Task /\ task # Idle /\ task.pc = "running" /\ task.at.stage = "execute"
  BY NotIdle DEF TypeOK, ExecuteAction, Running
<1>2. task.alert \in Alerts /\ task.done \in 0..MaxActions /\ task.at \in Point /\ task.failed \in BOOLEAN
  BY <1>1, BusyTask
<1>3. i \in Actions
  BY <1>2, WorkflowConstants DEF ExecuteAction, HasAction, Actions, Point
<1>4. PICK ok \in BOOLEAN :
        /\ executed' \in IF ok THEN {effect} ELSE {effect, executed}
        /\ caller' = [caller EXCEPT ![c] = AfterAction(task, ok)]
        /\ inFlight' = IF AfterAction(task, ok) = Idle THEN inFlight \ {task.alert} ELSE inFlight
  BY DEF ExecuteAction
<1>5. /\ AfterAction(task, ok) \in Task /\ AfterAction(task, ok).pc = "running"
      /\ AfterAction(task, ok).alert = task.alert /\ AfterAction(task, ok).at = task.at
      /\ AfterAction(task, ok).unsaved = task.unsaved /\ AfterAction(task, ok).done = i
      /\ (AfterAction(task, ok).failed <=> task.failed \/ ~ ok)
  <2>1. i \in 0..MaxActions
    BY <1>3, WorkflowConstants DEF Actions
  <2> PICK failed \in BOOLEAN : failed = (task.failed \/ ~ ok)
    OBVIOUS
  <2>2. AfterAction(task, ok) = [task EXCEPT !.done = i, !.failed = failed]
    BY <1>1 DEF AfterAction, Task
  <2>3. PICK next : next = AfterAction(task, ok)
    OBVIOUS
  <2>4. /\ next \in Task /\ next.pc = "running" /\ next.alert = task.alert
        /\ next.at = task.at /\ next.unsaved = task.unsaved /\ next.done = i
        /\ next.failed = failed
    BY <1>1, <2>1, <2>2, <2>3 DEF Task
  <2>5. next.failed <=> task.failed \/ ~ ok
    BY <2>4, Zenon
  <2>6. QED
    BY <2>3, <2>4, <2>5, Zenon
<1>6. AfterAction(task, ok) # Idle
  BY <1>5 DEF Idle
<1>7. caller' \in [Callers -> Task] /\ caller'[c] = AfterAction(task, ok) /\ Others(c)
  BY <1>4, <1>5, CallerStep DEF TypeOK
<1>8. /\ effect \in [Alerts -> [Actions -> Nat]]
      /\ \A a \in Alerts \ {task.alert} : effect[a] = executed[a]
      /\ \A j \in Actions \ {i} : effect[task.alert][j] = executed[task.alert][j]
      /\ effect[task.alert][i] = executed[task.alert][i] + 1
  BY <1>2, <1>3 DEF TypeOK
<1>9. executed' = effect \/ (executed' = executed /\ ~ ok)
  BY <1>4
<1>10. /\ executed' \in [Alerts -> [Actions -> Nat]]
       /\ \A a \in Alerts \ {task.alert} : executed'[a] = executed[a]
       /\ \A j \in Actions \ {i} : executed'[task.alert][j] = executed[task.alert][j]
       /\ \/ executed'[task.alert] = executed[task.alert] /\ ~ ok
          \/ executed'[task.alert][i] = executed[task.alert][i] + 1
  <2>1. executed \in [Alerts -> [Actions -> Nat]]
    BY DEF TypeOK
  <2> HIDE DEF effect
  <2>2. QED
    BY <1>8, <1>9, <2>1
<1>11. UNCHANGED <<checkpoint, inFlight, faults, approved, graphOnly>>
  BY <1>4, <1>6 DEF ExecuteAction
<1>12. (caller'[c].failed <=> task.failed \/ ~ ok) /\ caller'[c].done = i
  BY <1>5, <1>7
<1> HIDE DEF effect
<1>13. QED
  BY <1>1, <1>3, <1>5, <1>6, <1>7, <1>10, <1>11, <1>12

\* The fields of a caller's task while its graph runs.
LEMMA RunningTask ==
  ASSUME TypeOK, NEW c \in Callers, caller[c].pc = "running"
  PROVE  /\ caller[c] \in Task /\ caller[c] # Idle
         /\ caller[c].alert \in Alerts /\ caller[c].at \in Point /\ caller[c].unsaved \in BOOLEAN
         /\ caller[c].done \in 0..MaxActions
         /\ caller[c].at.outcome \in Outcome /\ caller[c].at.todo \in 0..MaxActions
BY NotIdle, BusyTask DEF TypeOK, Point

\* Nodes after which the graph goes on: what they leave alone and where they lead.
LEMMA PlanFacts ==
  ASSUME TypeOK, NEW c \in Callers, Plan(c)
  PROVE  /\ caller[c].pc = "running" /\ caller[c].at.stage = "plan"
         /\ UNCHANGED <<checkpoint, inFlight, executed, faults, approved, graphOnly>>
         /\ \E point \in Point :
              /\ Goto(c, point)
              /\ point.stage = "approval" \/ (point.stage = "finish" /\ point.outcome = "no_action")
<1>1. caller[c].pc = "running" /\ caller[c].at.stage = "plan"
  BY DEF Plan, Running
<1>2. caller[c].at \in Point
  BY <1>1, RunningTask
<1>3. CASE \E n \in Actions : Goto(c, [caller[c].at EXCEPT !.stage = "approval", !.todo = n])
  <2>1. PICK n \in Actions : Goto(c, [caller[c].at EXCEPT !.stage = "approval", !.todo = n])
    BY <1>3
  <2>2. n \in 0..MaxActions /\ "approval" \in Stage
    BY WorkflowConstants DEF Actions, Stage
  <2>3. PICK point : point = [caller[c].at EXCEPT !.stage = "approval", !.todo = n]
    OBVIOUS
  <2>4. point \in Point /\ point.stage = "approval"
    BY <1>2, <2>2, <2>3 DEF Point
  <2>5. QED
    BY <1>1, <2>1, <2>3, <2>4 DEF Plan, Goto
<1>4. CASE Goto(c, Ending(caller[c].at, "no_action"))
  <2>1. PICK point : point = Ending(caller[c].at, "no_action")
    OBVIOUS
  <2>2. point \in Point /\ point.stage = "finish" /\ point.outcome = "no_action"
    BY <1>2, <2>1 DEF Ending, Point, Stage, Outcome
  <2>3. QED
    BY <1>1, <1>4, <2>1, <2>2 DEF Plan, Goto
<1>5. QED
  BY <1>3, <1>4 DEF Plan

\* A decision takes the run on from its approval.
LEMMA ResumeFacts ==
  ASSUME TypeOK, NEW c \in Callers, Resume(c)
  PROVE  /\ caller[c].pc = "running" /\ caller[c].at.stage \in {"approval", "awaiting"}
         /\ UNCHANGED <<checkpoint, inFlight, executed, faults, graphOnly>>
         /\ \E point \in Point :
              /\ Goto(c, point)
              /\ \/ point.stage = "execute" /\ approved' = approved \cup {caller[c].alert}
                 \/ point.stage = "finish" /\ point.outcome = "rejected" /\ approved' = approved
<1>1. caller[c].pc = "running" /\ caller[c].at.stage \in {"approval", "awaiting"}
  BY DEF Resume, Running
<1>2. caller[c].at \in Point
  BY <1>1, RunningTask
<1>3. ASSUME NEW n \in 0..MaxActions, Goto(c, [caller[c].at EXCEPT !.stage = "execute", !.todo = n]),
             approved' = approved \cup {caller[c].alert}
      PROVE  \E point \in Point : Goto(c, point) /\ point.stage = "execute"
  <2>1. PICK point : point = [caller[c].at EXCEPT !.stage = "execute", !.todo = n]
    OBVIOUS
  <2>2. point \in Point /\ point.stage = "execute"
    BY <1>2, <2>1 DEF Point, Stage
  <2>3. QED
    BY <1>3, <2>1, <2>2
<1>4. ASSUME Goto(c, Ending(caller[c].at, "rejected"))
      PROVE  \E point \in Point : Goto(c, point) /\ point.stage = "finish" /\ point.outcome = "rejected"
  <2>1. PICK point : point = Ending(caller[c].at, "rejected")
    OBVIOUS
  <2>2. point \in Point /\ point.stage = "finish" /\ point.outcome = "rejected"
    BY <1>2, <2>1 DEF Ending, Point, Stage, Outcome
  <2>3. QED
    BY <1>4, <2>1, <2>2
<1>5. UNCHANGED <<checkpoint, inFlight, executed, faults, graphOnly>>
  BY DEF Resume, Decide, Goto
<1>6. QED
  BY <1>1, <1>3, <1>4, <1>5 DEF Resume, Decide

\* All actions are done: on to the report.
LEMMA ExecutedFacts ==
  ASSUME TypeOK, NEW c \in Callers, Executed(c)
  PROVE  /\ caller[c].pc = "running" /\ caller[c].at.stage = "execute"
         /\ caller[c].at.todo <= caller[c].done
         /\ UNCHANGED <<checkpoint, inFlight, executed, faults, approved, graphOnly>>
         /\ \E point \in Point :
              /\ Goto(c, point) /\ point.stage = "finish" /\ point.todo = caller[c].at.todo
              /\ \/ caller[c].failed /\ point.outcome = "partially_failed"
                 \/ ~ caller[c].failed /\ point.outcome = "completed"
<1>1. caller[c].pc = "running" /\ caller[c].at.stage = "execute"
  BY DEF Executed, Running
<1>2. caller[c].at \in Point /\ caller[c].at.todo <= caller[c].done
  BY <1>1, RunningTask, WorkflowConstants DEF Executed, HasAction
<1>3. PICK outcome : outcome = (IF caller[c].failed THEN "partially_failed" ELSE "completed")
  OBVIOUS
<1>4. outcome \in Outcome
  BY <1>3 DEF Outcome
<1>5. PICK point : point = Ending(caller[c].at, outcome)
  OBVIOUS
<1>6. /\ point \in Point /\ point.stage = "finish" /\ point.outcome = outcome
      /\ point.todo = caller[c].at.todo
  BY <1>2, <1>4, <1>5 DEF Ending, Point, Stage
<1>7. Goto(c, point)
  BY <1>3, <1>5 DEF Executed
<1>8. UNCHANGED <<checkpoint, inFlight, executed, faults, approved, graphOnly>>
  BY <1>7 DEF Executed, Goto
<1>9. \/ caller[c].failed /\ outcome = "partially_failed"
      \/ ~ caller[c].failed /\ outcome = "completed"
  BY <1>3, Zenon
<1>10. QED
  BY <1>1, <1>2, <1>6, <1>7, <1>8, <1>9

\* Nodes after which it stops.
LEMMA ParkFacts ==
  ASSUME TypeOK, NEW c \in Callers, Park(c)
  PROVE  /\ caller[c].pc = "running" /\ caller[c].at.stage \in {"approval", "awaiting"}
         /\ inFlight' = inFlight \ {caller[c].alert}
         /\ UNCHANGED <<executed, faults, approved, graphOnly>>
         /\ \E point \in Point : Stop(c, point, TRUE) /\ point.stage = "awaiting"
<1>1. caller[c].pc = "running" /\ caller[c].at.stage \in {"approval", "awaiting"}
  BY DEF Park, Running
<1>2. PICK point : point = [caller[c].at EXCEPT !.stage = "awaiting"]
  OBVIOUS
<1>3. point \in Point /\ point.stage = "awaiting"
  BY <1>1, <1>2, RunningTask DEF Point, Stage
<1>4. QED
  BY <1>1, <1>2, <1>3 DEF Park, Return

\* The last node ends the run.
LEMMA FinishFacts ==
  ASSUME TypeOK, NEW c \in Callers, Finish(c)
  PROVE  /\ caller[c].pc = "running" /\ caller[c].at.stage = "finish"
         /\ inFlight' = inFlight \ {caller[c].alert}
         /\ UNCHANGED <<executed, faults, approved, graphOnly>>
         /\ \E point \in Point :
              /\ Stop(c, point, TRUE) /\ point.stage = "done" /\ point.todo = caller[c].at.todo
              /\ point.status = caller[c].at.outcome
<1>1. caller[c].pc = "running" /\ caller[c].at.stage = "finish"
  BY DEF Finish, Running
<1>2. PICK point : point = [caller[c].at EXCEPT !.stage = "done", !.status = caller[c].at.outcome]
  OBVIOUS
<1>3. caller[c].at \in Point /\ caller[c].at.outcome \in Outcome
  BY <1>1, RunningTask
<1>4. point \in Point /\ point.stage = "done" /\ point.todo = caller[c].at.todo
      /\ point.status = caller[c].at.outcome
  BY <1>2, <1>3 DEF Point, Stage
<1>5. QED
  BY <1>1, <1>2, <1>4 DEF Finish, Return

\* A graph with nothing to do returns.
LEMMA NothingFacts ==
  ASSUME TypeOK, NEW c \in Callers, Nothing(c)
  PROVE  /\ caller[c].pc = "running" /\ caller[c].at.stage \in {"none", "done"}
         /\ inFlight' = inFlight \ {caller[c].alert}
         /\ UNCHANGED <<executed, faults, approved, graphOnly>>
         /\ Stop(c, caller[c].at, FALSE)
BY DEF Nothing, Return, Running

\* A node before the execution raises, and the call ends.
LEMMA RaiseFacts ==
  ASSUME TypeOK, NEW c \in Callers, Raise(c)
  PROVE  /\ caller[c].pc = "running" /\ caller[c].at.stage \in {"plan", "approval", "awaiting"}
         /\ inFlight' = inFlight \ {caller[c].alert} /\ faults' \in 0..MaxFaults
         /\ UNCHANGED <<executed, approved, graphOnly>>
         /\ Stop(c, caller[c].at, caller[c].unsaved)
BY WorkflowConstants DEF TypeOK, Raise, AfterRaise, Fault

\* A checkpoint written late says where the caller is.
LEMMA FlushFacts ==
  ASSUME TypeOK, NEW c \in Callers, Flush(c)
  PROVE  /\ caller[c].pc = "running" /\ caller' \in [Callers -> Task] /\ Others(c)
         /\ caller'[c] # Idle /\ caller'[c].pc = "running" /\ caller'[c].alert = caller[c].alert
         /\ caller'[c].at = caller[c].at /\ caller'[c].done = caller[c].done
         /\ caller'[c].failed = caller[c].failed
         /\ checkpoint' \in [Alerts -> Point] /\ checkpoint'[caller[c].alert] = caller[c].at
         /\ \A a \in Alerts \ {caller[c].alert} : checkpoint'[a] = checkpoint[a]
         /\ UNCHANGED <<inFlight, executed, faults, approved, graphOnly>>
<1> DEFINE task == [caller[c] EXCEPT !.unsaved = FALSE]
<1>1. caller[c].pc = "running" /\ caller[c] \in Task /\ caller[c] # Idle
      /\ caller[c].alert \in Alerts /\ caller[c].at \in Point
  BY RunningTask DEF Flush
<1>2. /\ task \in Task /\ task.pc = "running" /\ task.alert = caller[c].alert
      /\ task.at = caller[c].at /\ task.done = caller[c].done /\ task.failed = caller[c].failed
  BY <1>1 DEF Task
<1>3. caller' = [caller EXCEPT ![c] = task]
  BY DEF Flush, TypeOK
<1> HIDE DEF task
<1>4. task # Idle
  BY <1>2 DEF Idle
<1>5. caller' \in [Callers -> Task] /\ Others(c) /\ caller'[c] = task
  BY <1>2, <1>3, CallerStep DEF TypeOK
<1>6. /\ checkpoint' \in [Alerts -> Point] /\ checkpoint'[caller[c].alert] = caller[c].at
      /\ \A a \in Alerts \ {caller[c].alert} : checkpoint'[a] = checkpoint[a]
  BY <1>1 DEF Flush, TypeOK
<1>7. QED
  BY <1>1, <1>2, <1>4, <1>5, <1>6 DEF Flush

\* The graph takes up the run from its checkpoint.
LEMMA LoadFacts ==
  ASSUME TypeOK, NEW c \in Callers, Load(c)
  PROVE  /\ caller[c].pc = "loading" /\ caller' \in [Callers -> Task] /\ Others(c)
         /\ caller[c].alert \in Alerts
         /\ caller'[c] # Idle /\ caller'[c].pc = "running" /\ caller'[c].alert = caller[c].alert
         /\ caller'[c].done = caller[c].done /\ caller'[c].failed = caller[c].failed
         /\ \/ /\ caller[c].wish = "fresh" /\ caller'[c].unsaved = TRUE
               /\ caller'[c].at = Restarted(checkpoint[caller[c].alert])
            \/ caller[c].wish # "fresh" /\ caller'[c].at = checkpoint[caller[c].alert]
         /\ UNCHANGED <<checkpoint, inFlight, executed, faults, approved, graphOnly>>
<1> DEFINE point == checkpoint[caller[c].alert]
           task == IF caller[c].wish = "fresh"
                   THEN [caller[c] EXCEPT !.pc = "running", !.at = Restarted(point), !.unsaved = TRUE]
                   ELSE [caller[c] EXCEPT !.pc = "running", !.at = point]
<1>1. caller[c].pc = "loading" /\ caller[c] \in Task /\ caller[c] # Idle /\ caller[c].alert \in Alerts
  BY NotIdle, BusyTask DEF Load, TypeOK
<1>2. point \in Point /\ Restarted(point) \in Point
  BY <1>1, PointTypes DEF TypeOK
<1>3. caller' = [caller EXCEPT ![c] = task]
  BY DEF Load
<1>4. /\ task \in Task /\ task.pc = "running" /\ task.alert = caller[c].alert
      /\ task.done = caller[c].done /\ task.failed = caller[c].failed
      /\ \/ /\ caller[c].wish = "fresh" /\ task.unsaved = TRUE
            /\ task.at = Restarted(checkpoint[caller[c].alert])
         \/ caller[c].wish # "fresh" /\ task.at = checkpoint[caller[c].alert]
  <2> HIDE DEF point
  <2>1. CASE caller[c].wish = "fresh"
    <3> DEFINE next == [caller[c] EXCEPT !.pc = "running", !.at = Restarted(point), !.unsaved = TRUE]
    <3>1. /\ next \in Task /\ next.pc = "running" /\ next.alert = caller[c].alert
          /\ next.done = caller[c].done /\ next.failed = caller[c].failed
          /\ next.unsaved = TRUE /\ next.at = Restarted(point)
      BY <1>1, <1>2 DEF Task
    <3>2. QED
      BY <2>1, <3>1, Zenon DEF point
  <2>2. CASE caller[c].wish # "fresh"
    <3> DEFINE next == [caller[c] EXCEPT !.pc = "running", !.at = point]
    <3>1. /\ next \in Task /\ next.pc = "running" /\ next.alert = caller[c].alert
          /\ next.done = caller[c].done /\ next.failed = caller[c].failed /\ next.at = point
      BY <1>1, <1>2 DEF Task
    <3>2. QED
      BY <2>2, <3>1, Zenon DEF point
  <2>3. QED
    BY <2>1, <2>2
<1> HIDE DEF task
<1>5. task # Idle
  BY <1>4 DEF Idle
<1>6. caller' \in [Callers -> Task] /\ Others(c) /\ caller'[c] = task
  BY <1>3, <1>4, CallerStep DEF TypeOK
<1>7. UNCHANGED <<checkpoint, inFlight, executed, faults, approved, graphOnly>>
  BY DEF Load, graphOnly
<1>8. QED
  BY <1>1, <1>4, <1>5, <1>6, <1>7

\* A caller that has seen enough, or one that goes on to the graph.
LEMMA AnswerFacts ==
  ASSUME TypeOK, NEW c \in Callers, Answer(c)
  PROVE  /\ caller[c].pc = "viewed" /\ caller[c].alert \in Alerts
         /\ caller' \in [Callers -> Task] /\ Others(c) /\ inFlight' \subseteq Alerts
         /\ UNCHANGED <<checkpoint, alertsTopic, position, committed, executed, requests, faults,
                        approved, broken>>
         /\ \/ caller'[c] = Idle /\ raced' = raced
            \/ /\ caller'[c] # Idle /\ caller'[c].pc = "loading" /\ caller'[c].alert = caller[c].alert
               /\ caller'[c].done = caller[c].done /\ caller'[c].failed = caller[c].failed
               /\ caller'[c].wish \in Wanted(caller[c].wish,
                    StatusOf(caller[c].at, caller[c].alert \in inFlight))
               /\ raced' = IF \/ caller[c].at # checkpoint[caller[c].alert]
                              \/ \E g \in Callers : WorksOn(g, caller[c].alert)
                           THEN raced \cup {caller[c].alert} ELSE raced
<1>1. caller[c].pc = "viewed" /\ caller[c] \in Task /\ caller[c] # Idle /\ caller[c].alert \in Alerts
  BY NotIdle, BusyTask DEF Answer, TypeOK
<1>2. UNCHANGED <<checkpoint, alertsTopic, position, committed, executed, requests, faults,
                  approved, broken>>
  BY DEF Answer
<1>3. CASE caller' = [caller EXCEPT ![c] = Idle] /\ UNCHANGED <<inFlight, raced>>
  <2>1. Idle \in Task
    BY DEF Task
  <2>2. caller' \in [Callers -> Task] /\ Others(c) /\ caller'[c] = Idle
    BY <1>3, <2>1, CallerStep DEF TypeOK
  <2>3. QED
    BY <1>1, <1>2, <1>3, <2>2 DEF TypeOK
<1>4. ASSUME NEW w \in Wanted(caller[c].wish, StatusOf(caller[c].at, caller[c].alert \in inFlight)),
             caller' = [caller EXCEPT ![c].pc = "loading", ![c].wish = w],
             inFlight' = inFlight \cup {caller[c].alert}
      PROVE  /\ caller' \in [Callers -> Task] /\ Others(c) /\ inFlight' \subseteq Alerts
             /\ caller'[c] # Idle /\ caller'[c].pc = "loading" /\ caller'[c].alert = caller[c].alert
             /\ caller'[c].done = caller[c].done /\ caller'[c].failed = caller[c].failed
             /\ caller'[c].wish = w
  <2> DEFINE task == [caller[c] EXCEPT !.pc = "loading", !.wish = w]
  <2>1. w \in Wish
    <3>1. caller[c].wish \in Wish
      BY <1>1, BusyTask
    <3>2. \A wish \in Wish : \A status : Wanted(wish, status) \subseteq Wish
      BY DEF Wanted, Wish
    <3>3. QED
      BY <1>4, <3>1, <3>2
  <2>2. /\ task \in Task /\ task.pc = "loading" /\ task.alert = caller[c].alert /\ task.wish = w
        /\ task.done = caller[c].done /\ task.failed = caller[c].failed
    BY <1>1, <2>1 DEF Task
  <2>3. caller' = [caller EXCEPT ![c] = task]
    BY <1>4 DEF TypeOK
  <2> HIDE DEF task
  <2>4. task # Idle
    BY <2>2 DEF Idle
  <2>5. caller' \in [Callers -> Task] /\ Others(c) /\ caller'[c] = task
    BY <2>2, <2>3, CallerStep DEF TypeOK
  <2>6. QED
    BY <1>1, <1>4, <2>2, <2>4, <2>5 DEF TypeOK
<1>5. QED
  BY <1>1, <1>2, <1>3, <1>4 DEF Answer

-----------------------------------------------------------------------------
(* Types.                                                                  *)

\* A step of a graph, or of an answer, whose parts have their types.
LEMMA StepType ==
  ASSUME TypeOK, caller' \in [Callers -> Task], checkpoint' \in [Alerts -> Point],
         inFlight' \subseteq Alerts, executed' \in [Alerts -> [Actions -> Nat]],
         faults' \in 0..MaxFaults, approved' \subseteq Alerts, raced' \subseteq Alerts,
         UNCHANGED <<alertsTopic, position, committed, requests, broken>>
  PROVE  TypeOK'
BY DEF TypeOK

\* The steps of a call keep the shape of the state.
LEMMA ProceedType == ASSUME TypeOK, NEW c \in Callers, Proceed(c) PROVE TypeOK'
<1>1. CASE Answer(c)
  <2>1. raced' \subseteq Alerts
    BY <1>1, AnswerFacts DEF TypeOK
  <2>2. UNCHANGED <<checkpoint, alertsTopic, position, committed, executed, requests, faults,
                    approved, broken>>
    BY <1>1, AnswerFacts
  <2>3. QED
    BY <1>1, <2>1, <2>2, AnswerFacts DEF TypeOK
<1>2. CASE Load(c)
  BY <1>2, LoadFacts, StepType DEF TypeOK, graphOnly
<1>3. CASE Plan(c)
  BY <1>3, PlanFacts, GotoFacts, StepType DEF TypeOK, graphOnly
<1>4. CASE Park(c)
  BY <1>4, ParkFacts, StopFacts, StepType DEF TypeOK, graphOnly
<1>5. CASE Resume(c)
  <2>1. caller[c].alert \in Alerts
    BY <1>5, ResumeFacts, RunningTask
  <2>2. approved' \subseteq Alerts
    BY <1>5, <2>1, ResumeFacts DEF TypeOK
  <2>3. QED
    BY <1>5, <2>2, ResumeFacts, GotoFacts, StepType DEF TypeOK, graphOnly
<1>6. CASE ExecuteAction(c)
  BY <1>6, ExecuteFacts, StepType DEF TypeOK, graphOnly
<1>7. CASE Executed(c)
  BY <1>7, ExecutedFacts, GotoFacts, StepType DEF TypeOK, graphOnly
<1>8. CASE Finish(c)
  BY <1>8, FinishFacts, StopFacts, StepType DEF TypeOK, graphOnly
<1>9. CASE Nothing(c)
  BY <1>9, NothingFacts, RunningTask, StopFacts, StepType DEF TypeOK, graphOnly
<1>10. QED
  BY <1>1, <1>2, <1>3, <1>4, <1>5, <1>6, <1>7, <1>8, <1>9 DEF Proceed

\* So does every step.
LEMMA NextType == TypeOK /\ [Next]_vars => TypeOK'
<1> SUFFICES ASSUME TypeOK, [Next]_vars PROVE TypeOK'
  OBVIOUS
<1>1. ASSUME NEW c \in Clients, NEW a \in Alerts, NEW wish \in {"start", "approve", "reject"},
             Request(c, a, wish)
      PROVE  TypeOK'
  <2>1. requests' \in 0..MaxRequests
    BY <1>1, WorkflowConstants DEF Request, TypeOK
  <2>2. caller' \in [Callers -> Task]
        /\ UNCHANGED <<checkpoint, inFlight, executed, faults, approved, raced, broken>>
    BY <1>1, AskFacts DEF Request, Callers
  <2>3. QED
    BY <1>1, <2>1, <2>2 DEF Request, TypeOK
<1>2. CASE Consume
  <2>1. position' \in Nat /\ alertsTopic[position + 1] \in Alerts
    BY <1>2 DEF Consume, TypeOK
  <2>2. caller' \in [Callers -> Task]
        /\ UNCHANGED <<checkpoint, inFlight, executed, faults, approved, raced, broken>>
    BY <1>2, <2>1, AskFacts DEF Consume, Callers, TypeOK
  <2>3. QED
    BY <1>2, <2>1, <2>2 DEF Consume, TypeOK
<1>3. ASSUME NEW c \in Callers, Proceed(c) PROVE TypeOK'
  BY <1>3, ProceedType
<1>4. ASSUME NEW c \in Callers, Raise(c) PROVE TypeOK'
  BY <1>4, RaiseFacts, RunningTask, StopFacts, StepType DEF TypeOK, graphOnly
<1>5. ASSUME NEW c \in Callers, Flush(c) PROVE TypeOK'
  BY <1>5, FlushFacts, StepType DEF TypeOK, graphOnly
<1>6. CASE AutoCommit
  BY <1>6 DEF AutoCommit, TypeOK
<1>7. CASE Crash
  BY <1>7, WorkflowConstants DEF Crash, Fault, TypeOK, Task
<1>8. ASSUME NEW a \in Alerts, PublishAlert(a) PROVE TypeOK'
  BY <1>8 DEF PublishAlert, TypeOK
<1>9. CASE UNCHANGED vars
  BY <1>9 DEF vars, TypeOK
<1>10. QED
  BY <1>1, <1>2, <1>3, <1>4, <1>5, <1>6, <1>7, <1>8, <1>9 DEF Next

-----------------------------------------------------------------------------
(* Counts and completions.                                                 *)

\* What executed says of an action only grows.
Grows == \A a \in Alerts, i \in Actions : executed[a][i] > 0 => executed'[a][i] > 0

\* Callers that do nothing still count right.
LEMMA StepCounts ==
  ASSUME TypeOK, CallsFit, NEW c \in Callers, Others(c), Grows,
         caller'[c] # Idle =>
           /\ caller'[c].pc = "viewed" => caller'[c].wish \in {"start", "approve", "reject"}
           /\ caller'[c].pc # "running" \/ caller'[c].at.stage \in BeforeExecution => caller'[c].done = 0
           /\ ~ caller'[c].failed =>
                \A i \in Actions : i <= caller'[c].done => executed'[caller'[c].alert][i] > 0
  PROVE  CallsFit'
<1> SUFFICES ASSUME NEW g \in Callers \ {c}, caller'[g] # Idle
             PROVE  /\ caller'[g].pc = "viewed" => caller'[g].wish \in {"start", "approve", "reject"}
                    /\ caller'[g].pc # "running" \/ caller'[g].at.stage \in BeforeExecution
                         => caller'[g].done = 0
                    /\ ~ caller'[g].failed =>
                         \A i \in Actions : i <= caller'[g].done => executed'[caller'[g].alert][i] > 0
  BY DEF CallsFit, BeforeExecution
<1>1. caller'[g] = caller[g] /\ caller[g] \in Task /\ caller[g].alert \in Alerts
  BY BusyTask DEF Others, TypeOK
<1>2. QED
  BY <1>1 DEF CallsFit, Grows

\* Counts that stay have not shrunk.
LEMMA SameExecuted == ASSUME executed' = executed PROVE Grows
BY DEF Grows

\* A caller goes on to another point, or stops.
LEMMA GotoCounts ==
  ASSUME TypeOK, CallsFit, NEW c \in Callers, caller[c].pc = "running", NEW point \in Point,
         Goto(c, point), executed' = executed,
         caller[c].at.stage \in BeforeExecution \/ point.stage \notin BeforeExecution
  PROVE  CallsFit'
<1>1. caller[c] # Idle
  BY NotIdle
<1>2. caller'[c].alert = caller[c].alert /\ caller'[c].failed = caller[c].failed
      /\ caller'[c].pc = "running" /\ caller'[c].at = point /\ caller'[c].done = caller[c].done
      /\ Others(c)
  BY GotoFacts
<1>3. QED
  BY <1>1, <1>2, StepCounts, SameExecuted DEF CallsFit

\* A caller that stops leaves no call to fit.
LEMMA StopCounts ==
  ASSUME TypeOK, CallsFit, NEW c \in Callers, Others(c), caller'[c] = Idle, executed' = executed
  PROVE  CallsFit'
BY StepCounts, SameExecuted

\* The steps of a call keep it in step with what took effect.
LEMMA ProceedCounts ==
  ASSUME TypeOK, CallsFit, NEW c \in Callers, Proceed(c) PROVE CallsFit'
<1>1. CASE Answer(c)
  <2>1. caller[c].pc = "viewed" /\ caller[c] # Idle /\ Others(c) /\ executed' = executed
    BY <1>1, AnswerFacts, NotIdle
  <2>2. CASE caller'[c] = Idle
    BY <2>1, <2>2, StopCounts
  <2>3. CASE caller'[c] # Idle
    <3>1. /\ caller'[c].done = caller[c].done /\ caller'[c].failed = caller[c].failed
          /\ caller'[c].alert = caller[c].alert /\ caller'[c].pc = "loading"
      BY <1>1, <2>3, AnswerFacts
    <3>2. QED
      BY <2>1, <3>1, StepCounts, SameExecuted DEF CallsFit
  <2>4. QED
    BY <2>2, <2>3
<1>2. CASE Load(c)
  <2>1. /\ caller[c].pc = "loading" /\ Others(c) /\ executed' = executed
        /\ caller'[c].done = caller[c].done /\ caller'[c].failed = caller[c].failed
        /\ caller'[c].alert = caller[c].alert /\ caller'[c].pc = "running"
    BY <1>2, LoadFacts
  <2>2. caller[c] # Idle
    BY <2>1, NotIdle
  <2>3. QED
    BY <2>1, <2>2, StepCounts, SameExecuted DEF CallsFit
<1>3. CASE Plan(c)
  BY <1>3, PlanFacts, GotoCounts DEF BeforeExecution
<1>4. CASE Park(c)
  BY <1>4, ParkFacts, StopFacts, StopCounts
<1>5. CASE Resume(c)
  BY <1>5, ResumeFacts, GotoCounts DEF BeforeExecution
<1>6. CASE ExecuteAction(c)
  <2> DEFINE a == caller[c].alert
             i == caller'[c].done
  <2>1. /\ a \in Alerts /\ caller[c] # Idle /\ caller[c].done \in 0..MaxActions
        /\ i \in Actions /\ i = caller[c].done + 1
        /\ caller'[c].alert = a /\ caller'[c].at = caller[c].at /\ caller'[c].at.stage = "execute"
        /\ caller'[c].pc = "running" /\ Others(c)
    BY <1>6, ExecuteFacts, RunningTask
  <2>2. /\ executed \in [Alerts -> [Actions -> Nat]] /\ executed' \in [Alerts -> [Actions -> Nat]]
        /\ \A b \in Alerts \ {a} : executed'[b] = executed[b]
        /\ \A j \in Actions \ {i} : executed'[a][j] = executed[a][j]
        /\ \/ executed'[a] = executed[a] /\ caller'[c].failed
           \/ executed'[a][i] = executed[a][i] + 1
        /\ ~ caller'[c].failed => ~ caller[c].failed
    BY <1>6, ExecuteFacts DEF TypeOK
  <2> HIDE DEF a, i
  <2>3. Grows
    BY <2>1, <2>2 DEF Grows
  <2>4. ASSUME ~ caller'[c].failed, NEW j \in Actions, j <= i PROVE executed'[a][j] > 0
    <3>1. CASE j = i
      BY <2>1, <2>2, <2>4, <3>1
    <3>2. CASE j # i
      <4>1. j <= caller[c].done
        BY <2>1, <2>4, <3>2, WorkflowConstants DEF Actions
      <4>2. executed[a][j] > 0
        BY <2>1, <2>2, <2>4, <4>1 DEF CallsFit, a
      <4>3. QED
        BY <2>2, <3>2, <4>2
    <3>3. QED
      BY <3>1, <3>2
  <2>5. QED
    BY <2>1, <2>3, <2>4, StepCounts DEF a, i, BeforeExecution
<1>7. CASE Executed(c)
  BY <1>7, ExecutedFacts, GotoCounts DEF BeforeExecution
<1>8. CASE Finish(c)
  BY <1>8, FinishFacts, StopFacts, StopCounts
<1>9. CASE Nothing(c)
  BY <1>9, NothingFacts, RunningTask, StopFacts, StopCounts
<1>10. QED
  BY <1>1, <1>2, <1>3, <1>4, <1>5, <1>6, <1>7, <1>8, <1>9 DEF Proceed

\* So does every step.
LEMMA NextCounts == TypeOK /\ CallsFit /\ [Next]_vars => CallsFit'
<1> SUFFICES ASSUME TypeOK, CallsFit, [Next]_vars PROVE CallsFit'
  OBVIOUS
<1>1. ASSUME NEW c \in Callers, NEW a \in Alerts, NEW wish \in {"start", "approve", "reject"},
             Ask(c, a, wish)
      PROVE  CallsFit'
  <2>1. /\ Others(c) /\ executed' = executed
        /\ caller'[c] # Idle /\ caller'[c].pc = "viewed" /\ caller'[c].done = 0
        /\ caller'[c].wish = wish
    BY <1>1, AskFacts
  <2>2. \A i \in Actions : ~ (i <= 0)
    BY DEF Actions
  <2>3. QED
    BY <2>1, <2>2, StepCounts, SameExecuted
<1>2. ASSUME NEW c \in Clients, NEW a \in Alerts, NEW wish \in {"start", "approve", "reject"},
             Request(c, a, wish)
      PROVE  CallsFit'
  BY <1>1, <1>2 DEF Request, Callers
<1>3. CASE Consume
  <2>1. alertsTopic[position + 1] \in Alerts
    BY <1>3 DEF Consume, TypeOK
  <2>2. CASE UNCHANGED <<caller, executed>>
    BY <2>2 DEF CallsFit
  <2>3. QED
    BY <1>1, <1>3, <2>1, <2>2 DEF Consume, Callers
<1>4. ASSUME NEW c \in Callers, Proceed(c) PROVE CallsFit'
  BY <1>4, ProceedCounts
<1>5. ASSUME NEW c \in Callers, Raise(c) PROVE CallsFit'
  BY <1>5, RaiseFacts, RunningTask, StopFacts, StopCounts
<1>6. ASSUME NEW c \in Callers, Flush(c) PROVE CallsFit'
  <2>1. caller[c] # Idle
    BY <1>6, FlushFacts, NotIdle
  <2>2. QED
    BY <1>6, <2>1, FlushFacts, StepCounts, SameExecuted DEF CallsFit
<1>7. CASE Crash
  BY <1>7 DEF Crash, CallsFit
<1>8. CASE AutoCommit \/ (\E a \in Alerts : PublishAlert(a)) \/ UNCHANGED vars
  BY <1>8 DEF AutoCommit, PublishAlert, vars, CallsFit
<1>9. QED
  BY <1>2, <1>3, <1>4, <1>5, <1>6, <1>7, <1>8 DEF Next

\* Stored points stay true, and so do those of callers that do nothing.
LEMMA StepCompletes ==
  ASSUME TypeOK, EndsAreTrue, NEW c \in Callers, Others(c), Grows,
         caller'[c].pc = "running" => TrueOf(caller[c].alert, caller[c].at)',
         \A a \in Alerts : checkpoint'[a] = checkpoint[a] \/ TrueOf(a, checkpoint[a])'
  PROVE  EndsAreTrue'
<1>1. ASSUME NEW a \in Alerts, NEW point \in Point, TrueOf(a, point) PROVE TrueOf(a, point)'
  BY <1>1 DEF TrueOf, Grows
<1>2. ASSUME NEW a \in Alerts PROVE TrueOf(a, checkpoint[a])'
  <2>1. checkpoint[a] \in Point /\ TrueOf(a, checkpoint[a])
    BY DEF TypeOK, EndsAreTrue
  <2>2. QED
    BY <1>1, <2>1 DEF TrueOf
<1>3. ASSUME NEW g \in Callers \ {c}, caller'[g].pc = "running" PROVE TrueOf(caller[g].alert, caller[g].at)'
  <2>1. caller'[g] = caller[g] /\ caller[g].pc = "running"
    BY <1>3 DEF Others
  <2>2. caller[g].alert \in Alerts /\ caller[g].at \in Point /\ TrueOf(caller[g].alert, caller[g].at)
    BY <2>1, RunningTask DEF EndsAreTrue
  <2>3. QED
    BY <1>1, <2>1, <2>2 DEF TrueOf
<1>4. QED
  BY <1>2, <1>3 DEF EndsAreTrue

\* The graph goes on to a point, or stops at one, that is true.
LEMMA GotoCompletes ==
  ASSUME TypeOK, EndsAreTrue, NEW c \in Callers, caller[c].pc = "running", NEW point \in Point,
         Goto(c, point), executed' = executed, TrueOf(caller[c].alert, point)
  PROVE  EndsAreTrue'
<1>1. /\ caller'[c].alert = caller[c].alert /\ caller'[c].at = point /\ Others(c)
      /\ checkpoint' = checkpoint
  BY GotoFacts DEF Goto
<1>2. TrueOf(caller[c].alert, caller[c].at)'
  BY <1>1 DEF TrueOf
<1>3. QED
  BY <1>1, <1>2, StepCompletes, SameExecuted

\* A caller that stops leaves a true checkpoint.
LEMMA StopCompletes ==
  ASSUME TypeOK, EndsAreTrue, NEW c \in Callers, caller[c].pc = "running", NEW point \in Point,
         NEW unsaved \in BOOLEAN, Stop(c, point, unsaved), executed' = executed,
         unsaved => TrueOf(caller[c].alert, point)
  PROVE  EndsAreTrue'
<1>1. /\ caller'[c] = Idle /\ Others(c) /\ caller[c].alert \in Alerts
      /\ checkpoint'[caller[c].alert] = IF unsaved THEN point ELSE checkpoint[caller[c].alert]
      /\ \A a \in Alerts \ {caller[c].alert} : checkpoint'[a] = checkpoint[a]
  BY StopFacts
<1>2. ASSUME NEW a \in Alerts PROVE checkpoint'[a] = checkpoint[a] \/ TrueOf(a, checkpoint[a])'
  BY <1>1 DEF TrueOf
<1>3. caller'[c].pc # "running"
  BY <1>1 DEF Idle
<1>4. QED
  BY <1>1, <1>2, <1>3, StepCompletes, SameExecuted

\* The steps of a call keep ends true.
LEMMA ProceedCompletes ==
  ASSUME TypeOK, CallsFit, EndsAreTrue, NEW c \in Callers, Proceed(c)
  PROVE  EndsAreTrue'
<1>1. CASE Answer(c)
  <2>1. Others(c) /\ executed' = executed /\ checkpoint' = checkpoint
    BY <1>1, AnswerFacts
  <2>2. caller'[c].pc # "running"
    BY <1>1, AnswerFacts DEF Idle
  <2>3. QED
    BY <2>1, <2>2, StepCompletes, SameExecuted
<1>2. CASE Load(c)
  <2>1. /\ Others(c) /\ executed' = executed /\ checkpoint' = checkpoint
        /\ caller[c].alert \in Alerts /\ caller'[c].alert = caller[c].alert
        /\ \/ caller'[c].at = Restarted(checkpoint[caller[c].alert])
           \/ caller'[c].at = checkpoint[caller[c].alert]
    BY <1>2, LoadFacts
  <2>2. Restarted(checkpoint[caller[c].alert]).stage = "plan"
    BY <2>1, PointTypes DEF TypeOK
  <2>3. TrueOf(caller[c].alert, checkpoint[caller[c].alert])
    BY <2>1 DEF EndsAreTrue
  <2>4. TrueOf(caller[c].alert, caller[c].at)'
    BY <2>1, <2>2, <2>3 DEF TrueOf
  <2>5. QED
    BY <2>1, <2>4, StepCompletes, SameExecuted
<1>3. CASE Plan(c)
  <2>1. PICK point \in Point :
          /\ Goto(c, point)
          /\ point.stage = "approval" \/ (point.stage = "finish" /\ point.outcome = "no_action")
    BY <1>3, PlanFacts
  <2>2. TrueOf(caller[c].alert, point)
    BY <2>1 DEF TrueOf
  <2>3. QED
    BY <1>3, <2>1, <2>2, PlanFacts, GotoCompletes
<1>4. CASE Park(c)
  <2>1. PICK point \in Point : Stop(c, point, TRUE) /\ point.stage = "awaiting"
    BY <1>4, ParkFacts
  <2>2. TrueOf(caller[c].alert, point)
    BY <2>1 DEF TrueOf
  <2>3. QED
    BY <1>4, <2>1, <2>2, ParkFacts, StopCompletes
<1>5. CASE Resume(c)
  <2>1. PICK point \in Point :
          /\ Goto(c, point)
          /\ point.stage = "execute" \/ (point.stage = "finish" /\ point.outcome = "rejected")
    BY <1>5, ResumeFacts
  <2>2. TrueOf(caller[c].alert, point)
    BY <2>1 DEF TrueOf
  <2>3. QED
    BY <1>5, <2>1, <2>2, ResumeFacts, GotoCompletes
<1>6. CASE ExecuteAction(c)
  <2>1. /\ Others(c) /\ checkpoint' = checkpoint /\ caller[c].pc = "running"
        /\ caller'[c].alert = caller[c].alert /\ caller'[c].at = caller[c].at
    BY <1>6, ExecuteFacts DEF graphOnly
  <2>2. caller[c].alert \in Alerts /\ TrueOf(caller[c].alert, caller[c].at)
    BY <2>1, RunningTask DEF EndsAreTrue
  <2>3. Grows
    <3>1. ASSUME NEW a \in Alerts, NEW i \in Actions, executed[a][i] > 0 PROVE executed'[a][i] > 0
      <4>1. executed[a][i] \in Nat /\ executed[caller[c].alert][caller'[c].done] \in Nat
        BY <1>6, <2>2, ExecuteFacts DEF TypeOK
      <4>2. CASE a = caller[c].alert /\ i = caller'[c].done
        BY <1>6, <3>1, <4>1, <4>2, ExecuteFacts
      <4>3. CASE a # caller[c].alert \/ i # caller'[c].done
        <5>1. executed'[a][i] = executed[a][i]
          BY <1>6, <4>3, ExecuteFacts
        <5>2. QED
          BY <3>1, <5>1
      <4>4. QED
        BY <4>2, <4>3
    <3>2. QED
      BY <3>1 DEF Grows
  <2>4. TrueOf(caller[c].alert, caller[c].at)'
    BY <2>1, <2>2, <2>3 DEF TrueOf, Grows
  <2>5. QED
    BY <2>1, <2>3, <2>4, StepCompletes
<1>7. CASE Executed(c)
  <2>1. PICK point \in Point :
          /\ Goto(c, point) /\ point.stage = "finish" /\ point.todo = caller[c].at.todo
          /\ \/ caller[c].failed /\ point.outcome = "partially_failed"
             \/ ~ caller[c].failed /\ point.outcome = "completed"
    BY <1>7, ExecutedFacts
  <2>2. /\ caller[c] # Idle /\ caller[c].at.todo <= caller[c].done
        /\ caller[c].at.todo \in 0..MaxActions /\ caller[c].done \in 0..MaxActions
    BY <1>7, ExecutedFacts, RunningTask
  <2>3. ASSUME ~ caller[c].failed, NEW i \in Actions, i <= point.todo
        PROVE  executed[caller[c].alert][i] > 0
    <3>1. i <= caller[c].done
      BY <2>1, <2>2, <2>3 DEF Actions
    <3>2. QED
      BY <2>2, <2>3, <3>1 DEF CallsFit
  <2>4. TrueOf(caller[c].alert, point)
    BY <2>1, <2>3 DEF TrueOf
  <2>5. QED
    BY <1>7, <2>1, <2>4, ExecutedFacts, GotoCompletes
<1>8. CASE Finish(c)
  <2>1. PICK point \in Point :
          /\ Stop(c, point, TRUE) /\ point.stage = "done" /\ point.todo = caller[c].at.todo
          /\ point.status = caller[c].at.outcome
    BY <1>8, FinishFacts
  <2>2. caller[c].pc = "running" /\ caller[c].at.stage = "finish" /\ executed' = executed
    BY <1>8, FinishFacts
  <2>3. TrueOf(caller[c].alert, point)
    BY <2>1, <2>2 DEF EndsAreTrue, TrueOf
  <2>4. QED
    BY <2>1, <2>2, <2>3, StopCompletes
<1>9. CASE Nothing(c)
  BY <1>9, NothingFacts, RunningTask, StopCompletes
<1>10. QED
  BY <1>1, <1>2, <1>3, <1>4, <1>5, <1>6, <1>7, <1>8, <1>9 DEF Proceed

\* So does every step.
LEMMA NextCompletes ==
  TypeOK /\ CallsFit /\ EndsAreTrue /\ [Next]_vars => EndsAreTrue'
<1> SUFFICES ASSUME TypeOK, CallsFit, EndsAreTrue, [Next]_vars PROVE EndsAreTrue'
  OBVIOUS
<1>1. ASSUME NEW c \in Callers, NEW a \in Alerts, NEW wish \in {"start", "approve", "reject"},
             Ask(c, a, wish)
      PROVE  EndsAreTrue'
  <2>1. /\ Others(c) /\ executed' = executed /\ checkpoint' = checkpoint
        /\ caller'[c].pc = "viewed"
    BY <1>1, AskFacts
  <2>2. QED
    BY <2>1, StepCompletes, SameExecuted
<1>2. ASSUME NEW c \in Clients, NEW a \in Alerts, NEW wish \in {"start", "approve", "reject"},
             Request(c, a, wish)
      PROVE  EndsAreTrue'
  BY <1>1, <1>2 DEF Request, Callers
<1>3. CASE UNCHANGED <<caller, executed, checkpoint>>
  BY <1>3 DEF EndsAreTrue, TrueOf
<1>4. CASE Consume
  <2>1. alertsTopic[position + 1] \in Alerts
    BY <1>4 DEF Consume, TypeOK
  <2>2. QED
    BY <1>1, <1>3, <1>4, <2>1 DEF Consume, Callers
<1>5. ASSUME NEW c \in Callers, Proceed(c) PROVE EndsAreTrue'
  BY <1>5, ProceedCompletes
<1>6. ASSUME NEW c \in Callers, Raise(c) PROVE EndsAreTrue'
  <2>1. caller[c].pc = "running" /\ TrueOf(caller[c].alert, caller[c].at)
    BY <1>6, RaiseFacts DEF EndsAreTrue
  <2>2. QED
    BY <1>6, <2>1, RaiseFacts, RunningTask, StopCompletes
<1>7. ASSUME NEW c \in Callers, Flush(c) PROVE EndsAreTrue'
  <2>1. /\ caller[c].pc = "running" /\ Others(c) /\ executed' = executed
        /\ caller'[c].alert = caller[c].alert /\ caller'[c].at = caller[c].at
        /\ checkpoint'[caller[c].alert] = caller[c].at
        /\ \A a \in Alerts \ {caller[c].alert} : checkpoint'[a] = checkpoint[a]
    BY <1>7, FlushFacts
  <2>2. TrueOf(caller[c].alert, caller[c].at)
    BY <2>1 DEF EndsAreTrue
  <2>3. TrueOf(caller[c].alert, caller[c].at)'
    BY <2>1, <2>2 DEF TrueOf
  <2>4. ASSUME NEW a \in Alerts PROVE checkpoint'[a] = checkpoint[a] \/ TrueOf(a, checkpoint[a])'
    BY <2>1, <2>2 DEF TrueOf
  <2>5. QED
    BY <2>1, <2>3, <2>4, StepCompletes, SameExecuted
<1>8. CASE Crash
  <2>1. \A c \in Callers : caller'[c].pc # "running"
    BY <1>8 DEF Crash, Idle
  <2>2. UNCHANGED <<checkpoint, executed>>
    BY <1>8 DEF Crash
  <2>3. QED
    BY <2>1, <2>2 DEF EndsAreTrue, TrueOf
<1>9. CASE AutoCommit \/ (\E a \in Alerts : PublishAlert(a)) \/ UNCHANGED vars
  BY <1>3, <1>9 DEF AutoCommit, PublishAlert, vars
<1>10. QED
  BY <1>2, <1>4, <1>5, <1>6, <1>7, <1>8, <1>9 DEF Next

-----------------------------------------------------------------------------
(* Undisturbed runs are in order.                                          *)

\* Runs that the step has nothing to do with.
LEMMA Elsewhere ==
  ASSUME NEW a \in Alerts, InOrder(a), SameRun(a), NEW c \in Callers, Others(c),
         ~ WorksOn(c, a), ~ WorksOn(c, a)'
  PROVE  InOrder(a)'
<1>1. ASSUME NEW g \in Callers
      PROVE  /\ WorksOn(g, a)' <=> WorksOn(g, a)
             /\ WorksOn(g, a) => caller'[g] = caller[g]
  BY DEF WorksOn, Others
<1>2. Untouched(a)' <=> Untouched(a)
  BY DEF SameRun, Untouched
<1>3. AtMostOnce(a)' <=> AtMostOnce(a)
  BY DEF SameRun, AtMostOnce
<1>4. ASSUME NEW point, NEW done PROVE Fits(a, point, done)' <=> Fits(a, point, done)
  BY <1>2, <1>3 DEF SameRun, Fits, EndFits
<1>5. Rests(a)' <=> Rests(a)
  BY <1>4 DEF Rests, SameRun, Fits, EndFits
<1>6. OneCaller(a)' /\ RestsAlone(a)'
  BY <1>1, <1>5 DEF InOrder, OneCaller, RestsAlone
<1>7. LoadsOpen(a)'
  <2> SUFFICES ASSUME NEW g \in Callers, Working(g, a, "loading")'
               PROVE  /\ Rests(a)'
                      /\ checkpoint'[a].stage \in (IF caller'[g].wish = "fresh" THEN {"none"}
                                                   ELSE {"plan", "approval", "awaiting"})
    BY DEF LoadsOpen
  <2>1. WorksOn(g, a)'
    BY DEF Working, WorksOn
  <2>2. caller'[g] = caller[g] /\ Working(g, a, "loading")
    BY <1>1, <2>1 DEF Working
  <2>3. QED
    BY <1>5, <2>2 DEF InOrder, LoadsOpen, SameRun
<1>8. RunsInOrder(a)'
  <2> SUFFICES ASSUME NEW g \in Callers, Working(g, a, "running")'
               PROVE  /\ caller'[g].at.stage \notin {"none", "done"} /\ checkpoint'[a].stage # "done"
                      /\ Fits(a, caller[g].at, caller[g].done)'
                      /\ ~ caller'[g].unsaved => checkpoint'[a] = caller'[g].at
    BY DEF RunsInOrder
  <2>1. WorksOn(g, a)'
    BY DEF Working, WorksOn
  <2>2. caller'[g] = caller[g] /\ Working(g, a, "running")
    BY <1>1, <2>1 DEF Working
  <2>3. Fits(a, caller[g].at, caller[g].done)
    BY <2>2 DEF InOrder, RunsInOrder
  <2>4. Fits(a, caller[g].at, caller[g].done)'
    BY <1>2, <1>3, <2>2, <2>3 DEF SameRun, Fits, EndFits
  <2>5. QED
    BY <2>2, <2>4 DEF InOrder, RunsInOrder, SameRun
<1>9. QED
  BY <1>6, <1>7, <1>8 DEF InOrder

\* The run's one caller goes on, knowing where the run is.
LEMMA RunsOn ==
  ASSUME NEW c \in Callers, NEW a \in Alerts, OneCaller(a), WorksOn(c, a), Others(c),
         Working(c, a, "running")',
         caller'[c].at.stage \notin {"none", "done"}, Fits(a, caller[c].at, caller[c].done)',
         ~ caller'[c].unsaved => checkpoint'[a] = caller'[c].at,
         checkpoint'[a].stage # "done"
  PROVE  InOrder(a)'
<1>1. \A g \in Callers \ {c} : ~ WorksOn(g, a)'
  BY DEF OneCaller, WorksOn, Others
<1>2. OneCaller(a)' /\ RestsAlone(a)'
  BY <1>1 DEF OneCaller, RestsAlone, WorksOn, Working
<1>3. LoadsOpen(a)' /\ RunsInOrder(a)'
  BY <1>1 DEF LoadsOpen, RunsInOrder, WorksOn, Working
<1>4. QED
  BY <1>2, <1>3 DEF InOrder

\* Or it stops, and leaves the run at rest.
LEMMA ComesToRest ==
  ASSUME NEW c \in Callers, NEW a \in Alerts, OneCaller(a), WorksOn(c, a), Others(c),
         caller'[c] = Idle, Rests(a)'
  PROVE  InOrder(a)'
<1>1. \A g \in Callers : ~ WorksOn(g, a)'
  BY DEF OneCaller, WorksOn, Others, Idle
<1>2. OneCaller(a)' /\ RestsAlone(a)'
  BY <1>1 DEF OneCaller, RestsAlone
<1>3. LoadsOpen(a)' /\ RunsInOrder(a)'
  BY <1>1 DEF LoadsOpen, RunsInOrder, WorksOn, Working
<1>4. QED
  BY <1>2, <1>3 DEF InOrder

\* What is known of the run of a caller whose graph runs.
LEMMA KnowsRun ==
  ASSUME TypeOK, NEW a \in Alerts, InOrder(a), NEW c \in Callers, caller[c].pc = "running",
         caller[c].alert = a
  PROVE  /\ caller[c].at.stage \notin {"none", "done"} /\ checkpoint[a].stage # "done"
         /\ Fits(a, caller[c].at, caller[c].done)
         /\ ~ caller[c].unsaved => checkpoint[a] = caller[c].at
BY DEF InOrder, RunsInOrder, Working

\* A caller that goes on keeps its run in order, where its new place fits.
LEMMA GotoOrder ==
  ASSUME TypeOK, NEW a \in Alerts, InOrder(a), NEW c \in Callers, caller[c].pc = "running",
         NEW point \in Point, Goto(c, point), executed' = executed,
         caller[c].alert # a => (a \in approved' <=> a \in approved),
         caller[c].alert = a => Fits(a, point, caller[c].done)' /\ point.stage \notin {"none", "done"}
  PROVE  InOrder(a)'
<1>1. /\ caller'[c].pc = "running" /\ caller'[c].alert = caller[c].alert /\ caller'[c].at = point
      /\ caller'[c].unsaved = TRUE /\ Others(c) /\ checkpoint' = checkpoint
  BY GotoFacts DEF Goto
<1>2. CASE caller[c].alert # a
  <2>1. SameRun(a) /\ ~ WorksOn(c, a) /\ ~ WorksOn(c, a)'
    BY <1>1, <1>2 DEF SameRun, WorksOn
  <2>2. QED
    BY <1>1, <2>1, Elsewhere
<1>3. CASE caller[c].alert = a
  <2>1. WorksOn(c, a) /\ Working(c, a, "running")' /\ OneCaller(a)
    BY <1>1, <1>3 DEF WorksOn, Working, InOrder
  <2>2. /\ Fits(a, caller[c].at, caller[c].done)' /\ caller'[c].at.stage \notin {"none", "done"}
        /\ checkpoint'[a].stage # "done"
    BY <1>1, <1>3, GotoFacts, KnowsRun DEF Fits
  <2>3. QED
    BY <1>1, <2>1, <2>2, RunsOn
<1>4. QED
  BY <1>2, <1>3

\* A caller that stops leaves its run at rest.
LEMMA StopOrder ==
  ASSUME TypeOK, NEW a \in Alerts, InOrder(a), NEW c \in Callers, caller[c].pc = "running",
         NEW point \in Point, NEW unsaved \in BOOLEAN, Stop(c, point, unsaved),
         UNCHANGED <<executed, approved>>,
         caller[c].alert = a =>
           /\ unsaved \/ checkpoint[a] = point
           /\ point.stage \notin {"execute", "finish"} /\ Fits(a, point, 0)
  PROVE  InOrder(a)'
<1>1. /\ caller'[c] = Idle /\ Others(c) /\ caller[c].alert \in Alerts
      /\ checkpoint'[caller[c].alert] = IF unsaved THEN point ELSE checkpoint[caller[c].alert]
      /\ \A b \in Alerts \ {caller[c].alert} : checkpoint'[b] = checkpoint[b]
  BY StopFacts
<1>2. CASE caller[c].alert # a
  <2>1. SameRun(a) /\ ~ WorksOn(c, a) /\ ~ WorksOn(c, a)'
    BY <1>1, <1>2 DEF SameRun, WorksOn, Idle
  <2>2. QED
    BY <1>1, <2>1, Elsewhere
<1>3. CASE caller[c].alert = a
  <2>1. WorksOn(c, a) /\ OneCaller(a)
    BY <1>3 DEF WorksOn, InOrder
  <2>2. checkpoint'[a] = point
    BY <1>1, <1>3
  <2>3. Rests(a)'
    BY <1>3, <2>2 DEF Rests, Fits, EndFits, Untouched, AtMostOnce
  <2>4. QED
    BY <1>1, <2>1, <2>3, ComesToRest
<1>4. QED
  BY <1>2, <1>3

\* A run of which nothing was executed fits every point before the execution.
LEMMA UntouchedFits ==
  ASSUME NEW a \in Alerts, Untouched(a), NEW point, NEW done,
         point.stage \in BeforeExecution \/ (point.stage = "finish" /\ point.outcome # "none")
  PROVE  Fits(a, point, done)
<1>1. AtMostOnce(a)
  BY DEF Untouched, AtMostOnce
<1>2. QED
  BY <1>1 DEF Fits, EndFits, BeforeExecution

\* The steps of a call keep an undisturbed run in order.
LEMMA ProceedOrder ==
  ASSUME TypeOK, CallsFit, NEW c \in Callers, NEW a \in Alerts, InOrder(a),
         Proceed(c), ~ Answer(c)
  PROVE  InOrder(a)'
<1>1. CASE Load(c)
  <2>1. /\ caller[c].pc = "loading" /\ Others(c) /\ caller'[c].pc = "running"
        /\ caller'[c].alert = caller[c].alert /\ caller'[c].done = caller[c].done
        /\ UNCHANGED <<checkpoint, executed, approved>>
        /\ \/ /\ caller[c].wish = "fresh" /\ caller'[c].unsaved = TRUE
              /\ caller'[c].at = Restarted(checkpoint[caller[c].alert])
           \/ caller[c].wish # "fresh" /\ caller'[c].at = checkpoint[caller[c].alert]
    BY <1>1, LoadFacts
  <2>2. CASE caller[c].alert # a
    <3>1. SameRun(a) /\ ~ WorksOn(c, a) /\ ~ WorksOn(c, a)'
      BY <2>1, <2>2 DEF SameRun, WorksOn
    <3>2. QED
      BY <2>1, <3>1, Elsewhere
  <2>3. CASE caller[c].alert = a
    <3>1. WorksOn(c, a) /\ Working(c, a, "loading") /\ OneCaller(a) /\ Working(c, a, "running")'
      BY <2>1, <2>3 DEF WorksOn, Working, InOrder
    <3>2. /\ Rests(a)
          /\ checkpoint[a].stage \in (IF caller[c].wish = "fresh" THEN {"none"}
                                      ELSE {"plan", "approval", "awaiting"})
      BY <3>1 DEF InOrder, LoadsOpen
    <3>3. Untouched(a)'
      BY <2>1, <3>2 DEF Rests, Fits, BeforeExecution, Untouched
    <3>4. caller'[c].at.stage \in {"plan", "approval", "awaiting"}
      <4>1. Restarted(checkpoint[a]).stage = "plan"
        BY PointTypes DEF TypeOK
      <4>2. QED
        BY <2>1, <2>3, <3>2, <4>1
    <3>5. Fits(a, caller[c].at, caller[c].done)'
      BY <3>3, <3>4 DEF Fits, BeforeExecution
    <3>6. (~ caller'[c].unsaved => checkpoint'[a] = caller'[c].at) /\ checkpoint'[a].stage # "done"
      BY <2>1, <2>3, <3>2
    <3>7. QED
      BY <2>1, <3>1, <3>4, <3>5, <3>6, RunsOn
  <2>4. QED
    BY <2>2, <2>3
<1>2. CASE Plan(c)
  <2>1. PICK point \in Point :
          /\ Goto(c, point)
          /\ point.stage = "approval" \/ (point.stage = "finish" /\ point.outcome = "no_action")
    BY <1>2, PlanFacts
  <2>2. /\ caller[c].pc = "running" /\ caller[c].at.stage = "plan"
        /\ executed' = executed /\ approved' = approved
    BY <1>2, PlanFacts
  <2>3. ASSUME caller[c].alert = a PROVE Fits(a, point, caller[c].done)'
    <3>1. Untouched(a)
      BY <2>2, <2>3, KnowsRun DEF Fits, BeforeExecution
    <3>2. QED
      BY <2>1, <2>2, <3>1 DEF Fits, EndFits, Untouched, AtMostOnce, BeforeExecution
  <2>4. QED
    BY <2>1, <2>2, <2>3, GotoOrder
<1>3. CASE Park(c)
  <2>1. PICK point \in Point : Stop(c, point, TRUE) /\ point.stage = "awaiting"
    BY <1>3, ParkFacts
  <2>2. /\ caller[c].pc = "running" /\ caller[c].at.stage \in {"approval", "awaiting"}
        /\ UNCHANGED <<executed, approved>>
    BY <1>3, ParkFacts
  <2>3. ASSUME caller[c].alert = a PROVE Fits(a, point, 0)
    BY <2>1, <2>2, <2>3, KnowsRun, UntouchedFits DEF Fits, BeforeExecution
  <2>4. QED
    BY <2>1, <2>2, <2>3, StopOrder
<1>4. CASE Resume(c)
  <2>1. PICK point \in Point :
          /\ Goto(c, point)
          /\ \/ point.stage = "execute" /\ approved' = approved \cup {caller[c].alert}
             \/ point.stage = "finish" /\ point.outcome = "rejected" /\ approved' = approved
    BY <1>4, ResumeFacts
  <2>2. /\ caller[c].pc = "running" /\ caller[c].at.stage \in {"approval", "awaiting"}
        /\ caller[c].done = 0 /\ executed' = executed
    BY <1>4, ResumeFacts, RunningTask DEF CallsFit, BeforeExecution
  <2>3. ASSUME caller[c].alert = a PROVE Fits(a, point, caller[c].done)'
    <3>1. Untouched(a)
      BY <2>2, <2>3, KnowsRun DEF Fits, BeforeExecution
    <3>2. \A i \in Actions : ~ (i <= 0)
      BY DEF Actions
    <3>3. caller'[c].done = caller[c].done
      BY <2>1, <2>2, GotoFacts
    <3>4. QED
      BY <2>1, <2>2, <2>3, <3>1, <3>2, <3>3 DEF Fits, EndFits, Untouched, AtMostOnce, BeforeExecution
  <2>4. QED
    BY <2>1, <2>2, <2>3, GotoOrder
<1>5. CASE ExecuteAction(c)
  <2>1. /\ caller[c].pc = "running" /\ caller[c].at.stage = "execute" /\ Others(c)
        /\ caller'[c].pc = "running" /\ caller'[c].alert = caller[c].alert
        /\ caller'[c].at = caller[c].at /\ caller'[c].unsaved = caller[c].unsaved
        /\ caller'[c].done = caller[c].done + 1 /\ caller'[c].done \in Actions
        /\ caller[c].alert \in Alerts /\ caller[c].done \in 0..MaxActions
        /\ UNCHANGED <<checkpoint, approved>>
    BY <1>5, ExecuteFacts, RunningTask
  <2>2. CASE caller[c].alert # a
    <3>1. SameRun(a) /\ ~ WorksOn(c, a) /\ ~ WorksOn(c, a)'
      BY <1>5, <2>1, <2>2, ExecuteFacts DEF SameRun, WorksOn
    <3>2. QED
      BY <2>1, <3>1, Elsewhere
  <2>3. CASE caller[c].alert = a
    <3>1. WorksOn(c, a) /\ OneCaller(a) /\ Working(c, a, "running")'
      BY <2>1, <2>3 DEF WorksOn, Working, InOrder
    <3>2. /\ a \in approved
          /\ \A i \in Actions : executed[a][i] <= IF i <= caller[c].done THEN 1 ELSE 0
      BY <2>1, <2>3, KnowsRun DEF Fits
    <3>3. ASSUME NEW i \in Actions
          PROVE  executed'[a][i] <= IF i <= caller'[c].done THEN 1 ELSE 0
      <4>1. executed[a][i] \in Nat /\ i \in Nat
        <5>1. executed[a][i] \in Nat
          BY DEF TypeOK
        <5>2. i \in Nat
          BY WorkflowConstants DEF Actions
        <5>3. QED
          BY <5>1, <5>2
      <4>2. CASE i = caller'[c].done
        <5>1. executed[a][i] <= 0
          BY <2>1, <3>2, <4>1, <4>2
        <5>2. executed'[a] = executed[a] \/ executed'[a][i] = executed[a][i] + 1
          BY <1>5, <2>3, <4>2, ExecuteFacts
        <5>3. QED
          BY <4>1, <4>2, <5>1, <5>2
      <4>3. CASE i # caller'[c].done
        <5>1. executed'[a][i] = executed[a][i]
          BY <1>5, <2>3, <4>3, ExecuteFacts
        <5>2. QED
          BY <2>1, <3>2, <4>1, <4>3, <5>1
      <4>4. QED
        BY <4>2, <4>3
    <3>4. Fits(a, caller[c].at, caller[c].done)'
      BY <2>1, <3>2, <3>3 DEF Fits, BeforeExecution
    <3>5. (~ caller'[c].unsaved => checkpoint'[a] = caller'[c].at) /\ checkpoint'[a].stage # "done"
      BY <2>1, <2>3, KnowsRun
    <3>6. QED
      BY <2>1, <3>1, <3>4, <3>5, RunsOn
  <2>4. QED
    BY <2>2, <2>3
<1>6. CASE Executed(c)
  <2>1. PICK point \in Point :
          /\ Goto(c, point) /\ point.stage = "finish"
          /\ point.outcome \in {"partially_failed", "completed"}
    BY <1>6, ExecutedFacts
  <2>2. /\ caller[c].pc = "running" /\ caller[c].at.stage = "execute"
        /\ executed' = executed /\ approved' = approved /\ caller[c].done \in 0..MaxActions
    BY <1>6, ExecutedFacts, RunningTask
  <2>3. ASSUME caller[c].alert = a PROVE Fits(a, point, caller[c].done)'
    <3>1. /\ a \in approved
          /\ \A i \in Actions : executed[a][i] <= IF i <= caller[c].done THEN 1 ELSE 0
      BY <2>2, <2>3, KnowsRun DEF Fits
    <3>2. ASSUME NEW i \in Actions PROVE executed[a][i] <= 1
      <4>1. executed[a][i] \in Nat
        BY DEF TypeOK
      <4>2. QED
        BY <3>1, <4>1
    <3>3. QED
      BY <2>1, <2>2, <3>1, <3>2 DEF Fits, EndFits, AtMostOnce, BeforeExecution
  <2>4. QED
    BY <2>1, <2>2, <2>3, GotoOrder
<1>7. CASE Finish(c)
  <2>1. PICK point \in Point :
          /\ Stop(c, point, TRUE) /\ point.stage = "done" /\ point.status = caller[c].at.outcome
    BY <1>7, FinishFacts
  <2>2. /\ caller[c].pc = "running" /\ caller[c].at.stage = "finish" /\ UNCHANGED <<executed, approved>>
    BY <1>7, FinishFacts
  <2>3. ASSUME caller[c].alert = a PROVE Fits(a, point, 0)
    BY <2>1, <2>2, <2>3, KnowsRun DEF Fits, BeforeExecution
  <2>4. QED
    BY <2>1, <2>2, <2>3, StopOrder
<1>8. CASE Nothing(c)
  <2>1. /\ caller[c].pc = "running" /\ caller[c].at.stage \in {"none", "done"}
        /\ UNCHANGED <<executed, approved>> /\ Stop(c, caller[c].at, FALSE)
    BY <1>8, NothingFacts
  <2>2. caller[c].alert # a
    BY <2>1, KnowsRun
  <2>3. QED
    BY <2>1, <2>2, RunningTask, StopOrder
<1>9. QED
  BY <1>1, <1>2, <1>3, <1>4, <1>5, <1>6, <1>7, <1>8 DEF Proceed

\* How start() and decide() go on, by what they saw.
LEMMA WantedFacts ==
  ASSUME NEW wish \in {"start", "approve", "reject"}, NEW point \in Point, NEW executing, NEW w \in Wanted(wish, StatusOf(point, executing)),
         point.stage = "done" => point.status # "none"
  PROVE  /\ w = "fresh" => point.stage = "none"
         /\ w # "fresh" => point.stage \notin {"none", "done"}
<1>1. \/ w = "fresh" /\ StatusOf(point, executing) = "none"
      \/ w # "fresh" /\ StatusOf(point, executing) \in {"failed", "awaiting_approval"}
  <2>1. PICK status : status = StatusOf(point, executing)
    OBVIOUS
  <2>2. w \in Wanted(wish, status)
    BY <2>1
  <2>3. \/ w = "fresh" /\ status = "none"
        \/ w = "retry" /\ status = "failed"
        \/ w = wish /\ wish # "start" /\ status = "awaiting_approval"
    BY <2>2 DEF Wanted
  <2>4. QED
    BY <2>1, <2>3
<1>2. StatusOf(point, executing) = "none" => point.stage = "none"
  BY DEF StatusOf, Point, Outcome
<1>3. StatusOf(point, executing) \in {"failed", "awaiting_approval"} => point.stage \notin {"none", "done"}
  BY DEF StatusOf, Point, Outcome
<1>4. QED
  BY <1>1, <1>2, <1>3

\* A fresh run is of an alert that has none; any other wish is about an open run.
LEMMA OpensOpen ==
  ASSUME TypeOK, CallsFit, NEW c \in Callers, caller[c].pc = "viewed", NEW a \in Alerts,
         caller[c].at = checkpoint[a],
         caller'[c].wish \in Wanted(caller[c].wish, StatusOf(caller[c].at, a \in inFlight)),
         checkpoint[a].stage = "done" => checkpoint[a].status # "none"
  PROVE  /\ caller'[c].wish = "fresh" => checkpoint[a].stage = "none"
         /\ caller'[c].wish # "fresh" => checkpoint[a].stage \notin {"none", "done"}
<1>1. caller[c] # Idle
  BY NotIdle
<1>2. caller[c].wish \in {"start", "approve", "reject"}
  BY <1>1 DEF CallsFit
<1>3. PICK w : w = caller'[c].wish
  OBVIOUS
<1>4. PICK executing : executing = (a \in inFlight)
  OBVIOUS
<1>5. w \in Wanted(caller[c].wish, StatusOf(checkpoint[a], executing))
  BY <1>3, <1>4, Zenon
<1>6. QED
  BY <1>2, <1>3, <1>5, WantedFacts DEF TypeOK

\* An answer that goes on to the graph does so on a run at rest, as it is.
LEMMA AnswerOrder ==
  ASSUME TypeOK, CallsFit, NEW c \in Callers, Answer(c), NEW a \in Alerts \ raced', InOrder(a)
  PROVE  InOrder(a)'
<1>1. /\ caller[c].pc = "viewed" /\ Others(c) /\ SameRun(a) /\ UNCHANGED <<checkpoint, executed, approved>>
      /\ ~ WorksOn(c, a)
  BY AnswerFacts DEF SameRun, WorksOn
<1>2. CASE ~ WorksOn(c, a)'
  BY <1>1, <1>2, Elsewhere
<1>3. CASE WorksOn(c, a)'
  <2>1. /\ caller'[c].alert = a /\ caller[c].alert = a /\ caller'[c].pc = "loading"
        /\ caller'[c].wish \in Wanted(caller[c].wish, StatusOf(caller[c].at, a \in inFlight))
        /\ caller[c].at = checkpoint[a] /\ \A g \in Callers : ~ WorksOn(g, a)
    <3>1. caller'[c] # Idle
      BY <1>3 DEF WorksOn, Idle
    <3>2. caller'[c].alert = a
      BY <1>3 DEF WorksOn
    <3>3. QED
      BY <3>1, <3>2, AnswerFacts
  <2>2. Rests(a)
    BY <2>1 DEF InOrder, RestsAlone
  <2>3. Rests(a)'
    BY <1>1, <2>2 DEF Rests, Fits, EndFits, Untouched, AtMostOnce
  <2>4. \A g \in Callers \ {c} : ~ WorksOn(g, a)'
    BY <1>1, <2>1 DEF Others, WorksOn
  <2>5. checkpoint'[a].stage \in (IF caller'[c].wish = "fresh" THEN {"none"}
                                  ELSE {"plan", "approval", "awaiting"})
    <3>1. checkpoint[a] \in Point /\ checkpoint[a].stage \in Stage
      BY DEF TypeOK, Point
    <3>2. checkpoint[a].stage = "done" => checkpoint[a].status # "none"
      BY <2>2 DEF Rests, Fits, EndFits
    <3>3. /\ caller'[c].wish = "fresh" => checkpoint[a].stage = "none"
          /\ caller'[c].wish # "fresh" => checkpoint[a].stage \notin {"none", "done"}
      BY <1>1, <2>1, <3>2, OpensOpen
    <3>4. QED
      BY <1>1, <2>2, <3>1, <3>3 DEF Rests, Stage
  <2>6. OneCaller(a)' /\ RestsAlone(a)'
    BY <1>3, <2>4 DEF OneCaller, RestsAlone
  <2>7. LoadsOpen(a)' /\ RunsInOrder(a)'
    BY <2>1, <2>3, <2>4, <2>5 DEF LoadsOpen, RunsInOrder, Working, WorksOn
  <2>8. QED
    BY <2>6, <2>7 DEF InOrder
<1>4. QED
  BY <1>2, <1>3

\* Runs that were raced on or broken stay so.
LEMMA HistoryGrows ==
  ASSUME TypeOK, [Next]_vars
  PROVE  raced \subseteq raced' /\ Undisturbed' \subseteq Undisturbed
<1>1. ASSUME NEW c \in Callers, Answer(c) PROVE raced \subseteq raced' /\ broken' = broken
  BY <1>1, AnswerFacts
<1>2. ASSUME NEW c \in Callers, Proceed(c), ~ Answer(c) PROVE UNCHANGED <<raced, broken>>
  BY <1>2, LoadFacts, PlanFacts, ParkFacts, ResumeFacts, ExecuteFacts, ExecutedFacts, FinishFacts,
     NothingFacts DEF Proceed, graphOnly
<1>3. ASSUME NEW c \in Callers, Raise(c) \/ Flush(c) PROVE UNCHANGED <<raced, broken>>
  BY <1>3 DEF Raise, Flush, graphOnly
<1>4. ASSUME NEW c \in Clients, NEW a \in Alerts, NEW wish \in {"start", "approve", "reject"},
             Request(c, a, wish)
      PROVE  UNCHANGED <<raced, broken>>
  BY <1>4 DEF Request, Ask
<1>5. ASSUME Consume PROVE UNCHANGED <<raced, broken>>
  BY <1>5 DEF Consume, Ask
<1>6. ASSUME Crash PROVE raced' = raced /\ broken \subseteq broken'
  BY <1>6 DEF Crash
<1>7. ASSUME AutoCommit \/ (\E a \in Alerts : PublishAlert(a)) \/ UNCHANGED vars
      PROVE  UNCHANGED <<raced, broken>>
  BY <1>7 DEF AutoCommit, PublishAlert, vars
<1>8. raced \subseteq raced' /\ broken \subseteq broken'
  BY <1>1, <1>2, <1>3, <1>4, <1>5, <1>6, <1>7 DEF Next
<1>9. QED
  BY <1>8 DEF Undisturbed

\* Every step keeps an undisturbed run in order.
LEMMA NextOrder ==
  ASSUME TypeOK, CallsFit, NEW a \in Undisturbed', InOrder(a), [Next]_vars PROVE InOrder(a)'
<1>0. a \in Alerts /\ a \notin raced' /\ a \notin broken'
  BY DEF Undisturbed
<1>1. ASSUME NEW c \in Callers, NEW b \in Alerts, NEW wish \in {"start", "approve", "reject"},
             Ask(c, b, wish)
      PROVE  InOrder(a)'
  <2>1. /\ Others(c) /\ SameRun(a) /\ ~ WorksOn(c, a) /\ ~ WorksOn(c, a)'
    BY <1>1, AskFacts DEF SameRun, WorksOn, Idle
  <2>2. QED
    BY <1>0, <2>1, Elsewhere
<1>2. ASSUME NEW c \in Clients, NEW b \in Alerts, NEW wish \in {"start", "approve", "reject"},
             Request(c, b, wish)
      PROVE  InOrder(a)'
  BY <1>1, <1>2 DEF Request, Callers
<1>3. CASE UNCHANGED <<checkpoint, caller, executed, approved>>
  BY <1>3 DEF InOrder, OneCaller, RestsAlone, LoadsOpen, RunsInOrder, WorksOn, Working, Rests, Fits,
              EndFits, Untouched, AtMostOnce
<1>4. CASE Consume
  <2>1. alertsTopic[position + 1] \in Alerts
    BY <1>4 DEF Consume, TypeOK
  <2>2. QED
    BY <1>1, <1>3, <1>4, <2>1 DEF Consume, Callers
<1>5. ASSUME NEW c \in Callers, Proceed(c) PROVE InOrder(a)'
  <2>1. CASE Answer(c)
    BY <1>0, <2>1, AnswerOrder
  <2>2. CASE ~ Answer(c)
    BY <1>0, <1>5, <2>2, ProceedOrder
  <2>3. QED
    BY <2>1, <2>2
<1>6. ASSUME NEW c \in Callers, Raise(c) PROVE InOrder(a)'
  <2>1. /\ caller[c].pc = "running" /\ caller[c].at.stage \in {"plan", "approval", "awaiting"}
        /\ UNCHANGED <<executed, approved>> /\ Stop(c, caller[c].at, caller[c].unsaved)
    BY <1>6, RaiseFacts
  <2>2. ASSUME caller[c].alert = a
        PROVE  /\ caller[c].unsaved \/ checkpoint[a] = caller[c].at
               /\ Fits(a, caller[c].at, 0)
    BY <1>0, <2>1, <2>2, KnowsRun, UntouchedFits DEF Fits, BeforeExecution
  <2>3. QED
    BY <1>0, <2>1, <2>2, RunningTask, StopOrder
<1>7. ASSUME NEW c \in Callers, Flush(c) PROVE InOrder(a)'
  <2>1. /\ caller[c].pc = "running" /\ Others(c)
        /\ caller'[c].pc = "running" /\ caller'[c].alert = caller[c].alert
        /\ caller'[c].at = caller[c].at /\ caller'[c].done = caller[c].done
        /\ checkpoint'[caller[c].alert] = caller[c].at
        /\ \A b \in Alerts \ {caller[c].alert} : checkpoint'[b] = checkpoint[b]
        /\ UNCHANGED <<executed, approved>>
    BY <1>7, FlushFacts
  <2>2. CASE caller[c].alert # a
    <3>1. SameRun(a) /\ ~ WorksOn(c, a) /\ ~ WorksOn(c, a)'
      BY <1>0, <2>1, <2>2 DEF SameRun, WorksOn
    <3>2. QED
      BY <1>0, <2>1, <3>1, Elsewhere
  <2>3. CASE caller[c].alert = a
    <3>1. WorksOn(c, a) /\ OneCaller(a) /\ Working(c, a, "running")'
      BY <2>1, <2>3 DEF WorksOn, Working, InOrder
    <3>2. caller[c].at.stage \notin {"none", "done"} /\ Fits(a, caller[c].at, caller[c].done)
      BY <1>0, <2>1, <2>3, KnowsRun
    <3>3. Fits(a, caller[c].at, caller[c].done)'
      BY <2>1, <3>2 DEF Fits, EndFits, Untouched, AtMostOnce
    <3>4. QED
      BY <1>0, <2>1, <2>3, <3>1, <3>2, <3>3, RunsOn
  <2>4. QED
    BY <2>2, <2>3
<1>8. CASE Crash
  <2>1. \A c \in Callers : ~ WorksOn(c, a)
    BY <1>0, <1>8 DEF Crash
  <2>2. \A c \in Callers : ~ WorksOn(c, a)'
    BY <1>8 DEF Crash, WorksOn, Idle
  <2>3. Rests(a)'
    BY <1>8, <2>1 DEF InOrder, RestsAlone, Crash, Rests, Fits, EndFits, Untouched, AtMostOnce
  <2>4. QED
    BY <2>2, <2>3 DEF InOrder, OneCaller, RestsAlone, LoadsOpen, RunsInOrder, WorksOn, Working
<1>9. CASE AutoCommit \/ (\E b \in Alerts : PublishAlert(b)) \/ UNCHANGED vars
  BY <1>3, <1>9 DEF AutoCommit, PublishAlert, vars
<1>10. QED
  BY <1>2, <1>4, <1>5, <1>6, <1>7, <1>8, <1>9 DEF Next

-----------------------------------------------------------------------------
(* Runs that nobody raced on stay closed.                                  *)

\* Callers that do nothing keep the run closed, with c at this point or gone.
LEMMA StepClosed ==
  ASSUME NEW a \in Alerts, Closed(a), NEW c \in Callers, Others(c),
         WorksOn(c, a)' => WorksOn(c, a) /\ caller'[c].at.stage # "done",
         checkpoint'[a] = checkpoint[a]
           \/ (WorksOn(c, a) /\ WorksOn(c, a)' /\ checkpoint'[a].stage # "done")
           \/ (WorksOn(c, a) /\ ~ WorksOn(c, a)')
  PROVE  Closed(a)'
<1>1. ASSUME NEW g \in Callers, WorksOn(g, a)' PROVE WorksOn(g, a)
  BY <1>1 DEF WorksOn, Others
<1>2. OneCaller(a)'
  BY <1>1 DEF Closed, OneCaller
<1>3. ASSUME NEW g \in Callers, WorksOn(g, a)', g # c
      PROVE  /\ checkpoint'[a].stage # "done"
             /\ caller'[g].pc = "running" => caller'[g].at.stage # "done"
  <2>1. caller'[g] = caller[g] /\ WorksOn(g, a) /\ ~ WorksOn(c, a)
    BY <1>1, <1>3 DEF Others, Closed, OneCaller
  <2>2. QED
    BY <2>1 DEF Closed
<1>4. ASSUME WorksOn(c, a)' PROVE checkpoint'[a].stage # "done" /\ caller'[c].at.stage # "done"
  BY <1>4 DEF Closed
<1>5. QED
  BY <1>2, <1>3, <1>4 DEF Closed

\* A caller that goes on, but not to the end, keeps its run closed to others.
LEMMA GotoClosed ==
  ASSUME TypeOK, NEW a \in Alerts, Closed(a), NEW c \in Callers, caller[c].pc = "running",
         NEW point \in Point, Goto(c, point), point.stage # "done"
  PROVE  Closed(a)'
<1>1. /\ caller'[c].alert = caller[c].alert /\ caller'[c].at = point /\ Others(c)
      /\ checkpoint' = checkpoint
  BY GotoFacts DEF Goto
<1>2. WorksOn(c, a)' => WorksOn(c, a)
  BY <1>1 DEF WorksOn
<1>3. QED
  BY <1>1, <1>2, StepClosed

\* A caller that stops leaves its run to nobody.
LEMMA StopClosed ==
  ASSUME TypeOK, NEW a \in Alerts, Closed(a), NEW c \in Callers, caller[c].pc = "running",
         NEW point \in Point, NEW unsaved \in BOOLEAN, Stop(c, point, unsaved)
  PROVE  Closed(a)'
<1>1. /\ caller'[c] = Idle /\ Others(c)
      /\ \A b \in Alerts \ {caller[c].alert} : checkpoint'[b] = checkpoint[b]
  BY StopFacts
<1>2. ~ WorksOn(c, a)' /\ (caller[c].alert = a => WorksOn(c, a))
  BY <1>1 DEF WorksOn, Idle
<1>3. QED
  BY <1>1, <1>2, StepClosed

\* An answer that goes on to the graph does so on a run that is not done.
LEMMA AnswerClosed ==
  ASSUME TypeOK, CallsFit, EndsAreTrue, NEW c \in Callers, Answer(c), NEW a \in Alerts \ raced',
         Closed(a)
  PROVE  Closed(a)'
<1>1. caller[c].pc = "viewed" /\ Others(c) /\ checkpoint' = checkpoint /\ ~ WorksOn(c, a)
  BY AnswerFacts DEF WorksOn
<1>2. CASE ~ WorksOn(c, a)'
  BY <1>1, <1>2, StepClosed
<1>3. CASE WorksOn(c, a)'
  <2>1. /\ caller'[c].pc = "loading"
        /\ caller'[c].wish \in Wanted(caller[c].wish, StatusOf(caller[c].at, a \in inFlight))
        /\ caller[c].at = checkpoint[a] /\ \A g \in Callers : ~ WorksOn(g, a)
    <3>1. caller'[c] # Idle /\ caller'[c].alert = a
      BY <1>3 DEF WorksOn, Idle
    <3>2. QED
      BY <3>1, AnswerFacts
  <2>2. \A g \in Callers \ {c} : ~ WorksOn(g, a)'
    BY <1>1, <2>1 DEF Others, WorksOn
  <2>3. checkpoint[a].stage # "done"
    BY <1>1, <2>1, OpensOpen DEF EndsAreTrue, TrueOf, TypeOK
  <2>4. QED
    BY <1>1, <1>3, <2>1, <2>2, <2>3 DEF Closed, OneCaller
<1>4. QED
  BY <1>2, <1>3

\* Every step keeps a run that nobody raced on closed.
LEMMA NextClosed ==
  ASSUME TypeOK, CallsFit, EndsAreTrue, NEW a \in Alerts \ raced', Closed(a), [Next]_vars
  PROVE  Closed(a)'
<1>1. ASSUME NEW c \in Callers, NEW b \in Alerts, NEW wish \in {"start", "approve", "reject"},
             Ask(c, b, wish)
      PROVE  Closed(a)'
  <2>1. Others(c) /\ checkpoint' = checkpoint /\ ~ WorksOn(c, a)'
    BY <1>1, AskFacts DEF WorksOn
  <2>2. QED
    BY <2>1, StepClosed
<1>2. ASSUME NEW c \in Clients, NEW b \in Alerts, NEW wish \in {"start", "approve", "reject"},
             Request(c, b, wish)
      PROVE  Closed(a)'
  BY <1>1, <1>2 DEF Request, Callers
<1>3. CASE UNCHANGED <<checkpoint, caller>>
  BY <1>3 DEF Closed, OneCaller, WorksOn
<1>4. CASE Consume
  <2>1. alertsTopic[position + 1] \in Alerts
    BY <1>4 DEF Consume, TypeOK
  <2>2. QED
    BY <1>1, <1>3, <1>4, <2>1 DEF Consume, Callers
<1>5. ASSUME NEW c \in Callers, Answer(c) PROVE Closed(a)'
  BY <1>5, AnswerClosed
<1>6. ASSUME NEW c \in Callers, Load(c) PROVE Closed(a)'
  <2>1. /\ caller[c].pc = "loading" /\ Others(c) /\ checkpoint' = checkpoint
        /\ caller'[c].alert = caller[c].alert /\ caller[c].alert \in Alerts
        /\ \/ caller'[c].at = Restarted(checkpoint[caller[c].alert])
           \/ caller'[c].at = checkpoint[caller[c].alert]
    BY <1>6, LoadFacts
  <2>2. Restarted(checkpoint[caller[c].alert]).stage = "plan"
    BY <2>1, PointTypes DEF TypeOK
  <2>3. WorksOn(c, a)' => WorksOn(c, a) /\ caller'[c].at.stage # "done"
    BY <2>1, <2>2 DEF WorksOn, Closed
  <2>4. QED
    BY <2>1, <2>3, StepClosed
<1>7. ASSUME NEW c \in Callers, Plan(c) PROVE Closed(a)'
  BY <1>7, PlanFacts, GotoClosed
<1>8. ASSUME NEW c \in Callers, Park(c) PROVE Closed(a)'
  BY <1>8, ParkFacts, StopClosed
<1>9. ASSUME NEW c \in Callers, Resume(c) PROVE Closed(a)'
  BY <1>9, ResumeFacts, GotoClosed
<1>10. ASSUME NEW c \in Callers, ExecuteAction(c) PROVE Closed(a)'
  <2>1. /\ caller[c].pc = "running" /\ caller[c].at.stage = "execute" /\ Others(c)
        /\ checkpoint' = checkpoint /\ caller'[c].alert = caller[c].alert
        /\ caller'[c].at = caller[c].at
    BY <1>10, ExecuteFacts
  <2>2. WorksOn(c, a)' => WorksOn(c, a)
    BY <2>1 DEF WorksOn
  <2>3. QED
    BY <2>1, <2>2, StepClosed
<1>11. ASSUME NEW c \in Callers, Executed(c) PROVE Closed(a)'
  BY <1>11, ExecutedFacts, GotoClosed
<1>12. ASSUME NEW c \in Callers, Finish(c) PROVE Closed(a)'
  BY <1>12, FinishFacts, StopClosed
<1>13. ASSUME NEW c \in Callers, Nothing(c) PROVE Closed(a)'
  BY <1>13, NothingFacts, RunningTask, StopClosed
<1>14. ASSUME NEW c \in Callers, Raise(c) PROVE Closed(a)'
  BY <1>14, RaiseFacts, RunningTask, StopClosed
<1>15. ASSUME NEW c \in Callers, Flush(c) PROVE Closed(a)'
  <2>1. /\ caller[c].pc = "running" /\ Others(c) /\ caller'[c].pc = "running"
        /\ caller'[c].alert = caller[c].alert /\ caller'[c].at = caller[c].at
        /\ checkpoint'[caller[c].alert] = caller[c].at
        /\ \A b \in Alerts \ {caller[c].alert} : checkpoint'[b] = checkpoint[b]
    BY <1>15, FlushFacts
  <2>2. CASE caller[c].alert # a
    BY <2>1, <2>2, StepClosed DEF WorksOn
  <2>3. CASE caller[c].alert = a
    <3>1. WorksOn(c, a) /\ WorksOn(c, a)' /\ caller[c].at.stage # "done"
      BY <2>1, <2>3 DEF WorksOn, Closed
    <3>2. QED
      BY <2>1, <2>3, <3>1, StepClosed
  <2>4. QED
    BY <2>2, <2>3
<1>16. CASE Crash
  <2>1. \A c \in Callers : ~ WorksOn(c, a)'
    BY <1>16 DEF Crash, WorksOn, Idle
  <2>2. QED
    BY <2>1 DEF Closed, OneCaller
<1>17. CASE AutoCommit \/ (\E b \in Alerts : PublishAlert(b)) \/ UNCHANGED vars
  BY <1>3, <1>17 DEF AutoCommit, PublishAlert, vars
<1>18. QED
  BY <1>2, <1>4, <1>5, <1>6, <1>7, <1>8, <1>9, <1>10, <1>11, <1>12, <1>13, <1>14, <1>15, <1>16, <1>17
     DEF Next, Proceed

-----------------------------------------------------------------------------
(* The theorems.                                                           *)

\* No run has started at first.
LEMMA InitInv == Init => WorkflowInv
<1> SUFFICES ASSUME Init PROVE WorkflowInv
  OBVIOUS
<1>1. TypeOK
  <2>1. NoRun \in Point
    BY WorkflowConstants DEF Point, Stage, Outcome, NoRun
  <2>2. QED
    BY <2>1, WorkflowConstants DEF Init, TypeOK, Task
<1>2. \A c \in Callers : caller[c] = Idle
  BY DEF Init
<1>3. CallsFit
  BY <1>2 DEF CallsFit
<1>4. EndsAreTrue
  BY <1>2 DEF Init, EndsAreTrue, TrueOf, NoRun, Idle
<1>5. ASSUME NEW a \in Alerts PROVE InOrder(a)
  <2>1. Rests(a)
    BY DEF Init, Rests, Fits, Untouched, NoRun
  <2>2. QED
    BY <1>2, <2>1, IdleWorksOnNothing
       DEF InOrder, OneCaller, RestsAlone, LoadsOpen, RunsInOrder
<1>6. ASSUME NEW a \in Alerts PROVE Closed(a)
  BY <1>2, IdleWorksOnNothing DEF Closed, OneCaller
<1>7. QED
  BY <1>1, <1>3, <1>4, <1>5, <1>6 DEF WorkflowInv, Undisturbed

\* Every step keeps the invariant.
LEMMA NextInv == WorkflowInv /\ [Next]_vars => WorkflowInv'
<1> SUFFICES ASSUME WorkflowInv, [Next]_vars PROVE WorkflowInv'
  OBVIOUS
<1>1. TypeOK /\ CallsFit /\ EndsAreTrue
  BY DEF WorkflowInv
<1>2. TypeOK' /\ CallsFit' /\ EndsAreTrue'
  BY <1>1, NextType, NextCounts, NextCompletes
<1>3. ASSUME NEW a \in Undisturbed' PROVE InOrder(a)'
  <2>1. InOrder(a)
    BY <1>1, HistoryGrows DEF WorkflowInv
  <2>2. QED
    BY <1>1, <2>1, NextOrder
<1>4. ASSUME NEW a \in Alerts \ raced' PROVE Closed(a)'
  <2>1. Closed(a) /\ EndsAreTrue
    BY HistoryGrows DEF WorkflowInv
  <2>2. QED
    BY <1>1, <2>1, NextClosed
<1>5. QED
  BY <1>2, <1>3, <1>4 DEF WorkflowInv

\* Every run that nobody raced on and no crash stopped is in order throughout,
\* and no run claims a completion that did not happen.
THEOREM Invariant == Spec => []WorkflowInv
BY InitInv, NextInv, PTL DEF Spec

\* The checkpoints, calls and counts of the workflow keep their shape.
THEOREM TypeInvariant == Spec => []TypeOK
<1>1. WorkflowInv => TypeOK
  BY DEF WorkflowInv
<1>2. QED
  BY <1>1, Invariant, PTL

\* Actions take effect after an approval only, and once.
THEOREM ApprovalComesFirst == Spec => []ExecutedAsApproved
<1>1. WorkflowInv => ExecutedAsApproved
  <2> SUFFICES ASSUME WorkflowInv, NEW a \in Undisturbed PROVE AtMostOnce(a)
    BY DEF ExecutedAsApproved, AtMostOnce, Undisturbed
  <2>1. InOrder(a) /\ a \in Alerts /\ TypeOK
    BY DEF WorkflowInv, Undisturbed
  <2>2. ASSUME Untouched(a) PROVE AtMostOnce(a)
    BY <2>2 DEF Untouched, AtMostOnce
  <2>3. ASSUME NEW point \in Point, NEW done, Fits(a, point, done) PROVE AtMostOnce(a)
    <3>1. CASE point.stage = "execute"
      <4>1. ASSUME NEW i \in Actions PROVE executed[a][i] <= 1
        <5>1. executed[a][i] \in Nat
          BY <2>1 DEF TypeOK
        <5>2. executed[a][i] <= IF i <= done THEN 1 ELSE 0
          BY <2>3, <3>1 DEF Fits
        <5>3. QED
          BY <5>1, <5>2
      <4>2. QED
        BY <2>3, <3>1, <4>1 DEF Fits, AtMostOnce
    <3>2. CASE point.stage # "execute"
      <4>1. point.stage \in BeforeExecution \cup {"finish", "done"}
        BY <3>2 DEF Point, Stage, BeforeExecution
      <4>2. QED
        BY <2>2, <2>3, <4>1 DEF Fits, EndFits
    <3>3. QED
      BY <3>1, <3>2
  <2>4. CASE \A c \in Callers : ~ WorksOn(c, a)
    BY <2>1, <2>3, <2>4 DEF InOrder, RestsAlone, Rests, TypeOK
  <2>5. ASSUME NEW c \in Callers, WorksOn(c, a) PROVE AtMostOnce(a)
    <3>1. CASE caller[c].pc = "loading"
      BY <2>1, <2>3, <2>5, <3>1 DEF InOrder, LoadsOpen, Working, WorksOn, Rests, TypeOK
    <3>2. CASE caller[c].pc = "running"
      BY <2>1, <2>3, <2>5, <3>2, KnowsRun, RunningTask DEF WorksOn
    <3>3. QED
      BY <2>5, <3>1, <3>2 DEF WorksOn
  <2>6. QED
    BY <2>4, <2>5
<1>2. QED
  BY <1>1, Invariant, PTL

\* A finished run tells the truth about its actions.
THEOREM TruthfulOutcome == Spec => []OutcomeIsTrue
<1>1. WorkflowInv => OutcomeIsTrue
  <2> SUFFICES ASSUME WorkflowInv, NEW a \in Alerts, checkpoint[a].stage = "done"
               PROVE  /\ Status(a) = "completed" => \A i \in 1..checkpoint[a].todo : executed[a][i] > 0
                      /\ Status(a) \in {"no_action", "rejected"} /\ a \notin raced \cup broken =>
                           \A i \in Actions : executed[a][i] = 0
    BY DEF OutcomeIsTrue
  <2>1. checkpoint[a] \in Point /\ checkpoint[a].status \in Outcome /\ checkpoint[a].todo \in 0..MaxActions
    BY DEF WorkflowInv, TypeOK, Point
  <2>2. Status(a) \in {"completed", "no_action", "rejected"} => Status(a) = checkpoint[a].status
    BY <2>1 DEF Status, StatusOf
  <2>3. ASSUME Status(a) = "completed", NEW i \in 1..checkpoint[a].todo PROVE executed[a][i] > 0
    <3>1. i \in Actions /\ i <= checkpoint[a].todo
      BY <2>1, WorkflowConstants DEF Actions
    <3>2. QED
      BY <2>2, <2>3, <3>1 DEF WorkflowInv, EndsAreTrue, TrueOf
  <2>4. ASSUME Status(a) \in {"no_action", "rejected"}, a \notin raced \cup broken
        PROVE  Untouched(a)
    <3>1. InOrder(a) /\ TypeOK
      BY <2>4 DEF WorkflowInv, Undisturbed
    <3>2. ASSUME NEW point, point.stage = "done", point.status \in {"no_action", "rejected"}, NEW done,
                 Fits(a, point, done)
          PROVE  Untouched(a)
      BY <3>2 DEF Fits, EndFits
    <3>3. ASSUME NEW c \in Callers PROVE ~ WorksOn(c, a)
      <4>1. caller[c].alert = a => caller[c].pc # "running"
        BY <3>1, KnowsRun
      <4>2. ~ Working(c, a, "loading")
        BY <3>1 DEF InOrder, LoadsOpen
      <4>3. QED
        BY <4>1, <4>2 DEF WorksOn, Working
    <3>4. Fits(a, checkpoint[a], 0)
      BY <3>1, <3>3 DEF InOrder, RestsAlone, Rests
    <3>5. QED
      BY <2>2, <2>4, <3>2, <3>4
  <2>5. QED
    BY <2>3, <2>4 DEF Untouched
<1>2. QED
  BY <1>1, Invariant, PTL

\* A finished run is left as it is.
THEOREM FinishedRunsStay == Spec => FinishedStaysFinished
<1>1. WorkflowInv /\ [Next]_vars =>
        [\A a \in Alerts \ raced' :
           checkpoint[a].stage = "done" => checkpoint'[a] = checkpoint[a]]_vars
  <2> SUFFICES ASSUME WorkflowInv, [Next]_vars, NEW a \in Alerts \ raced',
                      checkpoint[a].stage = "done"
               PROVE  checkpoint'[a] = checkpoint[a]
    OBVIOUS
  <2>1. TypeOK /\ \A c \in Callers : ~ WorksOn(c, a)
    BY HistoryGrows DEF WorkflowInv, Closed
  <2>2. \A c \in Callers : caller[c].pc = "running" => caller[c].alert # a
    BY <2>1 DEF WorksOn
  <2>3. ASSUME NEW c \in Callers, Proceed(c) PROVE checkpoint'[a] = checkpoint[a]
    <3>1. CASE Answer(c) \/ Load(c) \/ Plan(c) \/ Resume(c) \/ ExecuteAction(c) \/ Executed(c)
      BY <2>1, <3>1, AnswerFacts, LoadFacts, PlanFacts, ResumeFacts, ExecuteFacts, ExecutedFacts
    <3>2. CASE Park(c)
      BY <2>1, <2>2, <3>2, ParkFacts, StopFacts
    <3>3. CASE Finish(c)
      BY <2>1, <2>2, <3>3, FinishFacts, StopFacts
    <3>4. CASE Nothing(c)
      <4>1. caller[c].pc = "running" /\ Stop(c, caller[c].at, FALSE)
        BY <2>1, <3>4, NothingFacts
      <4>2. QED
        BY <4>1 DEF Stop
    <3>5. QED
      BY <2>3, <3>1, <3>2, <3>3, <3>4 DEF Proceed
  <2>4. ASSUME NEW c \in Callers, Raise(c) PROVE checkpoint'[a] = checkpoint[a]
    BY <2>1, <2>2, <2>4, RaiseFacts, RunningTask, StopFacts
  <2>5. ASSUME NEW c \in Callers, Flush(c) PROVE checkpoint'[a] = checkpoint[a]
    BY <2>1, <2>2, <2>5, FlushFacts
  <2>6. ASSUME \/ \E c \in Clients, b \in Alerts, wish \in {"start", "approve", "reject"} :
                    Request(c, b, wish)
               \/ Consume \/ AutoCommit \/ Crash \/ \E b \in Alerts : PublishAlert(b)
               \/ UNCHANGED vars
        PROVE  checkpoint' = checkpoint
    BY <2>6 DEF Request, Consume, Ask, AutoCommit, Crash, PublishAlert, vars
  <2>7. QED
    BY <2>3, <2>4, <2>5, <2>6 DEF Next
<1>2. QED
  BY <1>1, Invariant, PTL DEF Spec, FinishedStaysFinished

=============================================================================
