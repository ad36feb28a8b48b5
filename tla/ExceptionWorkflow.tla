-------------------------- MODULE ExceptionWorkflow --------------------------
(***************************************************************************)
(* The AI service's exception workflows: one LangGraph run per alert,      *)
(* kept as a checkpoint under the alert's id.  A run drafts a plan, parks  *)
(* until a person decides, and executes the approved actions by calling    *)
(* other services.                                                         *)
(*                                                                         *)
(* start() and decide() look at the run, then invoke the graph on it.  All *)
(* callers share one event loop, so they interleave where they await: on   *)
(* the checkpoint read by view(), the one read by the graph, and in every  *)
(* node.  The nodes before the approval only read other services, and are  *)
(* one stage here.                                                         *)
(*                                                                         *)
(*   plan --actions--> approval --> awaiting --approved--> execute         *)
(*     `---none------------.            `----rejected---.     |            *)
(*                         `----------------------------`--> finish --> done*)
(***************************************************************************)
EXTENDS Naturals, Sequences

CONSTANTS
  Alerts,       \* ids of supported alerts
  Clients,      \* HTTP requests that start or decide
  Consumer,     \* the task that consumes the alerts topic
  MaxActions,   \* bound: actions in a plan
  MaxRequests,  \* bound: HTTP requests in a behaviour
  MaxEvents,    \* bound: alerts published in a behaviour
  MaxFaults     \* bound: crashes and nodes that raise in a behaviour

ASSUME WorkflowConstants ==
  /\ Consumer \notin Clients
  /\ MaxActions \in Nat \ {0}
  /\ {MaxRequests, MaxEvents, MaxFaults} \subseteq Nat

VARIABLES
  checkpoint,   \* the latest stored checkpoint of each run
  inFlight,     \* _in_flight: the runs executing right now
  caller,       \* what each caller is doing
  alertsTopic,  \* the alerts topic, one partition of it
  position,     \* the consumer's next record, counted from 0
  committed,    \* where a restarted consumer resumes
  executed,     \* how often each action of each run took effect
  requests,     \* HTTP requests so far
  faults,       \* faults so far
  approved,     \* history: runs that were approved
  raced,        \* history: runs on which a caller acted by an outdated view, or beside another
  broken        \* history: runs that a crash stopped

vars == <<checkpoint, inFlight, caller, alertsTopic, position, committed, executed, requests,
          faults, approved, raced, broken>>

Callers == Clients \cup {Consumer}
Actions == 1..MaxActions
Outcome == {"none", "no_action", "rejected", "completed", "partially_failed"}
Stage == {"none", "plan", "approval", "awaiting", "execute", "finish", "done"}

\* How far a run has come: the node it enters next, the actions to take, the
\* end it goes to, and the status stored at the end, which stays in the run's
\* values if it is started afresh.
Point == [stage: Stage, todo: 0..MaxActions, outcome: Outcome, status: Outcome]
NoRun == [stage |-> "none", todo |-> 0, outcome |-> "none", status |-> "none"]
Restarted(point) == [NoRun EXCEPT !.stage = "plan", !.status = point.status]
Ending(point, outcome) == [point EXCEPT !.stage = "finish", !.outcome = outcome]

Wish == {"start", "fresh", "retry", "approve", "reject"}
Idle == [pc |-> "idle"]

\* `at` is the snapshot that view() got ("viewed"), then the point of the
\* running graph, which is `unsaved` until its checkpoint is written.
Task == {Idle} \cup
  [pc: {"viewed", "loading", "running"}, alert: Alerts, wish: Wish, at: Point,
   unsaved: BOOLEAN, done: 0..MaxActions, failed: BOOLEAN]

Running(c, stage) == caller[c].pc = "running" /\ caller[c].at.stage = stage
WorksOn(c, a) == caller[c].pc \in {"loading", "running"} /\ caller[c].alert = a

\* view(): what a snapshot says of a run, given whether it executes now.
StatusOf(point, executing) ==
  IF point.stage = "none" THEN "none"
  ELSE IF point.stage = "awaiting" THEN "awaiting_approval"
  ELSE IF point.status # "none" THEN point.status
  ELSE IF executing THEN "running" ELSE "failed"

Status(a) == StatusOf(checkpoint[a], a \in inFlight)

\* How start() and decide() invoke the graph on a run with this status, if they
\* do: a run that is there and has not failed is returned as it is, and only
\* one that awaits approval can be decided.
Wanted_StartAgain(wish, status) ==
  IF wish = "start" THEN (IF status \in {"running", "awaiting_approval"} THEN {} ELSE {"fresh"})
  ELSE (IF status = "awaiting_approval" THEN {wish} ELSE {})
Wanted(wish, status) ==
  CASE wish = "start" /\ status = "none" -> {"fresh"}
    [] wish = "start" /\ status = "failed" -> {"retry"}
    [] wish # "start" /\ status = "awaiting_approval" -> {wish}
    [] OTHER -> {}

Init ==
  /\ checkpoint = [a \in Alerts |-> NoRun]
  /\ inFlight = {}
  /\ caller = [c \in Callers |-> Idle]
  /\ alertsTopic = <<>>
  /\ position = 0
  /\ committed = 0
  /\ executed = [a \in Alerts |-> [i \in Actions |-> 0]]
  /\ requests = 0
  /\ faults = 0
  /\ approved = {}
  /\ raced = {}
  /\ broken = {}

-----------------------------------------------------------------------------
(* view(): read the checkpoint, then, after the await, judge it.           *)

Ask(c, a, wish) ==
  /\ caller[c] = Idle
  /\ caller' = [caller EXCEPT ![c] =
       [pc |-> "viewed", alert |-> a, wish |-> wish, at |-> checkpoint[a],
        unsaved |-> FALSE, done |-> 0, failed |-> FALSE]]
  /\ UNCHANGED <<checkpoint, inFlight, executed, faults, approved, raced, broken>>

Request(c, a, wish) ==
  /\ requests < MaxRequests
  /\ requests' = requests + 1
  /\ Ask(c, a, wish)
  /\ UNCHANGED <<alertsTopic, position, committed>>

\* The consumer takes its next alert; a stale one is only logged.
Consume ==
  /\ caller[Consumer] = Idle
  /\ position < Len(alertsTopic)
  /\ position' = position + 1
  /\ \/ Ask(Consumer, alertsTopic[position + 1], "start")
     \/ UNCHANGED <<checkpoint, inFlight, caller, executed, faults, approved, raced, broken>>
  /\ UNCHANGED <<alertsTopic, committed, requests>>

Answer(c) ==
  LET task == caller[c]
      a == task.alert
      wanted == Wanted(task.wish, StatusOf(task.at, a \in inFlight))
  IN
  /\ task.pc = "viewed"
  /\ \/ /\ wanted = {}
        /\ caller' = [caller EXCEPT ![c] = Idle]
        /\ UNCHANGED <<inFlight, raced>>
     \/ \E w \in wanted :
        /\ caller' = [caller EXCEPT ![c].pc = "loading", ![c].wish = w]
        /\ inFlight' = inFlight \cup {a}
        /\ raced' = IF task.at # checkpoint[a] \/ \E g \in Callers : WorksOn(g, a)
                    THEN raced \cup {a} ELSE raced
  /\ UNCHANGED <<checkpoint, alertsTopic, position, committed, executed, requests, faults, approved, broken>>

-----------------------------------------------------------------------------
(* The graph.  It loads the run, goes from node to node, and lets its      *)
(* checkpoints be written in the background; it returns when they are.     *)

Load(c) ==
  LET task == caller[c] IN
  /\ task.pc = "loading"
  /\ caller' = [caller EXCEPT ![c] =
       IF task.wish = "fresh"
       THEN [task EXCEPT !.pc = "running", !.at = Restarted(checkpoint[task.alert]), !.unsaved = TRUE]
       ELSE [task EXCEPT !.pc = "running", !.at = checkpoint[task.alert]]]
  /\ UNCHANGED <<checkpoint, inFlight, alertsTopic, position, committed, executed, requests, faults,
                 approved, raced, broken>>

\* The graph goes on to another node.  A decision counts for the node that
\* waited for it and no later one.
Goto(c, point) ==
  /\ caller' = [caller EXCEPT ![c].at = point, ![c].unsaved = TRUE, ![c].wish = "retry"]
  /\ UNCHANGED <<checkpoint, inFlight>>

\* Which runs execute once ainvoke() has returned, or raised: _invoke discards
\* its run in either case.
AfterRaise_Kept(a) == inFlight
AfterRaise(a) == inFlight \ {a}

\* The graph stops at `point`, all checkpoints written.
Stop(c, point, unsaved) ==
  LET a == caller[c].alert IN
  /\ checkpoint' = IF unsaved THEN [checkpoint EXCEPT ![a] = point] ELSE checkpoint
  /\ caller' = [caller EXCEPT ![c] = Idle]

Return(c, point, unsaved) == Stop(c, point, unsaved) /\ inFlight' = inFlight \ {caller[c].alert}

Fault == faults < MaxFaults /\ faults' = faults + 1

graphOnly == <<alertsTopic, position, committed, requests, raced, broken>>

\* A checkpoint reaches the database while the next node is already running.
Flush(c) ==
  /\ caller[c].pc = "running"
  /\ caller[c].unsaved
  /\ checkpoint' = [checkpoint EXCEPT ![caller[c].alert] = caller[c].at]
  /\ caller' = [caller EXCEPT ![c].unsaved = FALSE]
  /\ UNCHANGED <<inFlight, executed, faults, approved, graphOnly>>

\* classify to draft_plan: the plan has actions or none.
Plan(c) ==
  /\ Running(c, "plan")
  /\ \/ \E n \in Actions : Goto(c, [caller[c].at EXCEPT !.stage = "approval", !.todo = n])
     \/ Goto(c, Ending(caller[c].at, "no_action"))
  /\ UNCHANGED <<executed, faults, approved, graphOnly>>

\* A node raises: a service is down while context is gathered, or an edited
\* action is malformed.
Raise(c) ==
  LET task == caller[c] IN
  /\ Fault
  /\ task.pc = "running"
  /\ \/ task.at.stage = "plan"
     \/ task.at.stage \in {"approval", "awaiting"} /\ task.wish = "approve"
  /\ Stop(c, task.at, task.unsaved)
  /\ inFlight' = AfterRaise(task.alert)
  /\ UNCHANGED <<executed, approved, graphOnly>>

\* human_approval without a decision: interrupt().
Park(c) ==
  /\ Running(c, "approval") \/ Running(c, "awaiting")
  /\ caller[c].wish \notin {"approve", "reject"}
  /\ Return(c, [caller[c].at EXCEPT !.stage = "awaiting"], TRUE)
  /\ UNCHANGED <<executed, faults, approved, graphOnly>>

\* human_approval with one; an approval may edit the actions.
Decide(c) ==
  LET at == caller[c].at IN
  \/ /\ caller[c].wish = "approve"
     /\ \E n \in 0..MaxActions : Goto(c, [at EXCEPT !.stage = "execute", !.todo = n])
     /\ approved' = approved \cup {caller[c].alert}
  \/ /\ caller[c].wish = "reject"
     /\ Goto(c, Ending(at, "rejected"))
     /\ UNCHANGED approved

Resume(c) ==
  /\ Running(c, "approval") \/ Running(c, "awaiting")
  /\ Decide(c)
  /\ UNCHANGED <<executed, faults, graphOnly>>

\* execute() takes its actions one by one.
HasAction_OneMore(task) == task.done <= task.at.todo
HasAction(task) == task.done < task.at.todo

\* An action is over; execute() notes the error of a call that raised and goes on.
AfterAction_ErrorDropped(task, ok) == [task EXCEPT !.done = @ + 1]
AfterAction_ErrorRaised(task, ok) == IF ok THEN [task EXCEPT !.done = @ + 1] ELSE Idle
AfterAction(task, ok) == [task EXCEPT !.done = @ + 1, !.failed = @ \/ ~ ok]

\* A call takes effect and returns, is refused, or takes effect while its
\* answer is lost (the client's time-out).
ExecuteAction(c) ==
  LET task == caller[c]
      i == task.done + 1
      effect == [executed EXCEPT ![task.alert][i] = @ + 1]
  IN
  /\ Running(c, "execute")
  /\ HasAction(task)
  /\ \E ok \in BOOLEAN :
       /\ executed' \in IF ok THEN {effect} ELSE {effect, executed}
       /\ caller' = [caller EXCEPT ![c] = AfterAction(task, ok)]
       /\ inFlight' = IF AfterAction(task, ok) = Idle THEN inFlight \ {task.alert} ELSE inFlight
  /\ UNCHANGED <<checkpoint, faults, approved, graphOnly>>

Executed(c) ==
  /\ Running(c, "execute")
  /\ ~ HasAction(caller[c])
  /\ Goto(c, Ending(caller[c].at, IF caller[c].failed THEN "partially_failed" ELSE "completed"))
  /\ UNCHANGED <<executed, faults, approved, graphOnly>>

Finish(c) ==
  /\ Running(c, "finish")
  /\ Return(c, [caller[c].at EXCEPT !.stage = "done", !.status = caller[c].at.outcome], TRUE)
  /\ UNCHANGED <<executed, faults, approved, graphOnly>>

\* There is nothing to resume: somebody else has finished the run.
Nothing(c) ==
  /\ Running(c, "done") \/ Running(c, "none")
  /\ Return(c, caller[c].at, FALSE)
  /\ UNCHANGED <<executed, faults, approved, graphOnly>>

-----------------------------------------------------------------------------
(* Around the graph.                                                       *)

\* The client's auto-commit covers every record handed out, the one in hand
\* included.
AutoCommit ==
  /\ committed # position
  /\ committed' = position
  /\ UNCHANGED <<checkpoint, inFlight, caller, alertsTopic, position, executed, requests, faults,
                 approved, raced, broken>>

\* The service dies and comes back with what is in the database.
Crash ==
  /\ Fault
  /\ caller' = [c \in Callers |-> Idle]
  /\ inFlight' = {}
  /\ position' = committed
  /\ broken' = broken \cup {a \in Alerts : \E c \in Callers : WorksOn(c, a)}
  /\ UNCHANGED <<checkpoint, alertsTopic, committed, executed, requests, approved, raced>>

\* The stream processor or shipment-service raises an alert, perhaps again.
PublishAlert(a) ==
  /\ Len(alertsTopic) < MaxEvents
  /\ alertsTopic' = Append(alertsTopic, a)
  /\ UNCHANGED <<checkpoint, inFlight, caller, position, committed, executed, requests, faults,
                 approved, raced, broken>>

\* The steps of a call that is under way.
Proceed(c) ==
  \/ Answer(c) \/ Load(c)
  \/ Plan(c) \/ Park(c) \/ Resume(c) \/ ExecuteAction(c) \/ Executed(c) \/ Finish(c) \/ Nothing(c)

Next ==
  \/ \E c \in Clients, a \in Alerts, wish \in {"start", "approve", "reject"} : Request(c, a, wish)
  \/ Consume
  \/ \E c \in Callers : Proceed(c) \/ Raise(c) \/ Flush(c)
  \/ AutoCommit
  \/ Crash
  \/ \E a \in Alerts : PublishAlert(a)

\* A call under way goes on: every await in it ends, by a time-out if need be.
\* Nobody has to make a request, and faults have no fairness.
Fairness == \A c \in Callers : WF_vars(Proceed(c))

Spec == Init /\ [][Next]_vars
FairSpec == Spec /\ Fairness

-----------------------------------------------------------------------------
(* Properties.                                                             *)

\* The shape of the state; in particular no call goes past the planned actions.
TypeOK ==
  /\ checkpoint \in [Alerts -> Point]
  /\ inFlight \subseteq Alerts
  /\ caller \in [Callers -> Task]
  /\ alertsTopic \in Seq(Alerts)
  /\ position \in Nat /\ committed \in Nat
  /\ executed \in [Alerts -> [Actions -> Nat]]
  /\ requests \in 0..MaxRequests /\ faults \in 0..MaxFaults
  /\ approved \subseteq Alerts /\ raced \subseteq Alerts /\ broken \subseteq Alerts

\* An action takes effect only after a person has approved, and then once,
\* through redelivered alerts, retries of failed runs and calls whose answer
\* was lost.  Excused are runs that two callers worked on at a time, or that a
\* crash stopped: execute is then run again from its first action.
ExecutedAsApproved ==
  \A a \in Alerts \ (raced \cup broken), i \in Actions :
    executed[a][i] <= IF a \in approved THEN 1 ELSE 0

\* What a finished run reports is true: a completed one has carried out all
\* its actions, whatever happened, and a rejected or empty one none, unless
\* two callers raced on it or a crash stopped it.
OutcomeIsTrue ==
  \A a \in Alerts :
    checkpoint[a].stage = "done" =>
      /\ Status(a) = "completed" => \A i \in 1..checkpoint[a].todo : executed[a][i] > 0
      /\ Status(a) \in {"no_action", "rejected"} /\ a \notin raced \cup broken =>
           \A i \in Actions : executed[a][i] = 0

\* A finished run stays as it is: no redelivered alert and no late decision
\* opens it again, unless a caller acted by an outdated view.
FinishedStaysFinished ==
  [][\A a \in Alerts \ raced' :
       checkpoint[a].stage = "done" => checkpoint'[a] = checkpoint[a]]_vars

\* No run is shown as running for ever: it comes to wait for a person, ends, or
\* shows as failed, which start() can repair.  Nothing else would: a run that
\* counts as running is neither started again nor decided.
RunsSettle == \A a \in Alerts : Status(a) = "running" ~> Status(a) # "running"

\* test_workflow_api.py, "already decided": of two decisions on one run the
\* second is refused, so without a crash no action takes effect twice.
DecidedOnce == \A a \in Alerts \ broken, i \in Actions : executed[a][i] <= 1

=============================================================================
