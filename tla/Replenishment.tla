---------------------------- MODULE Replenishment ----------------------------
(***************************************************************************)
(* The replenishment agents: requests that train one agent per inventory   *)
(* position, keep the policies in a file, and recommend order quantities   *)
(* with them.  Two processes run this code on one file, the AI service and *)
(* the MCP server: each has an asyncio lock of its own around load, train  *)
(* and save.  Meanwhile the settings of positions change.                  *)
(*                                                                         *)
(*   recommend: stock -> fetch -> locked -> saving -> answer               *)
(*   train:              fetch -> locked -> saving                         *)
(***************************************************************************)
EXTENDS InventorySim

CONSTANTS
  AiService, McpServer, \* the processes on the policy file
  Requests,     \* request ids
  ServedBy,     \* the process a request comes in at
  Positions,    \* sku@warehouse
  Initial,      \* settings of the positions that have their catalog data at first
  Configs,      \* settings that positions take
  Candidates,   \* policies that training may end with
  Paths,        \* demand paths
  MaxChanges,   \* bound: changes of settings in a behaviour
  MaxCrashes    \* bound: crashes in a behaviour

Processes == {AiService, McpServer}

ASSUME ReplenishmentConstants ==
  /\ ServedBy \in [Requests -> Processes]
  /\ Configs \subseteq Config
  /\ DOMAIN Initial \subseteq Positions /\ \A p \in DOMAIN Initial : Initial[p] \in Configs
  /\ Candidates \subseteq Policy /\ Paths \subseteq Seq(Nat)
  /\ {MaxChanges, MaxCrashes} \subseteq Nat

VARIABLES
  live,         \* inventory-service: each position's settings
  file,         \* rl_policy_file
  queue,        \* _lock: the holder first, then who waits for it
  req,          \* the requests of each process
  changes, crashes,
  seen,         \* history: settings each position had during a recommendation
  trained       \* history: the file as finished trainings would have it, not whole once
                \* both processes were inside their locks, or one died there

vars == <<live, file, queue, req, changes, crashes, seen, trained>>

NoConfig == [lead |-> "no catalog data yet"]
NoPolicies == <<>>

\* A stored policy stands for the settings it was trained for.
Policies == UNION {[ps -> Configs] : ps \in SUBSET Positions}

\* A dict of policies with some of them set anew.
Updated(policies, with) ==
  [p \in DOMAIN policies \cup DOMAIN with |-> IF p \in DOMAIN with THEN with[p] ELSE policies[p]]

\* The file is JSON, or cut short while it is written.
Whole(policies) == [whole |-> TRUE, policies |-> policies]
Torn == [whole |-> FALSE, policies |-> NoPolicies]

Idle == [pc |-> "idle"]
Ended == [pc |-> "ended"]
NothingSeen == [p \in Positions |-> {}]
Request == [kind: {"train", "recommend"},
            pc: {"stock", "fetch", "waiting", "locked", "saving", "answer"},
            stock: SUBSET Positions, items: Policies, policies: Policies, todo: SUBSET Positions]

\* with_catalog_data: what a fetch of the inventory gives.
Inventory == [p \in {q \in Positions : live[q] # NoConfig} |-> live[p]]

Stale_Missing(policies, items) == DOMAIN items \ DOMAIN policies
Stale(policies, items) ==
  {p \in DOMAIN items : p \notin DOMAIN policies \/ policies[p] # items[p]}

At(r, pc) == req[r].pc = pc
HasLock(r) == queue[ServedBy[r]] # <<>> /\ Head(queue[ServedBy[r]]) = r
Holders(proc) == {r \in Requests : ServedBy[r] = proc /\ req[r].pc \in {"locked", "saving"}}
Overlaps(r) == \E proc \in Processes \ {ServedBy[r]} : Holders(proc) # {}
Running(r) == req[r] \notin {Idle, Ended}

\* Requests rs end, answered or not.
End(rs) ==
  /\ req' = [r \in Requests |-> IF r \in rs THEN Ended ELSE req[r]]
  /\ seen' = [r \in Requests |-> IF r \in rs THEN NothingSeen ELSE seen[r]]

Init ==
  /\ live = [p \in Positions |-> IF p \in DOMAIN Initial THEN Initial[p] ELSE NoConfig]
  /\ file = Whole(NoPolicies)
  /\ queue = [proc \in Processes |-> <<>>]
  /\ req = [r \in Requests |-> Idle]
  /\ changes = 0 /\ crashes = 0
  /\ seen = [r \in Requests |-> NothingSeen]
  /\ trained = Whole(NoPolicies)

-----------------------------------------------------------------------------

\* POST /ai/rl/train, GET /ai/rl/recommendations or the MCP server's tool,
\* which only recommends.
Ask(r, kind) ==
  /\ At(r, "idle")
  /\ kind = "train" => ServedBy[r] = AiService
  /\ req' = [req EXCEPT ![r] =
       [kind |-> kind, pc |-> IF kind = "recommend" THEN "stock" ELSE "fetch",
        stock |-> {}, items |-> NoPolicies, policies |-> NoPolicies, todo |-> {}]]
  /\ seen' = [seen EXCEPT ![r] = IF kind = "recommend" THEN [p \in Positions |-> {live[p]}] ELSE @]
  /\ UNCHANGED <<live, file, queue, changes, crashes, trained>>

\* recommendations reads the stock; the orders it reads next only enter the
\* quantities.
ReadStock(r) ==
  /\ At(r, "stock")
  /\ req' = [req EXCEPT ![r].stock = DOMAIN Inventory, ![r].pc = "fetch"]
  /\ UNCHANGED <<live, file, queue, changes, crashes, seen, trained>>

\* train_all reads the inventory, before it waits for the lock.
Fetch(r) ==
  /\ At(r, "fetch")
  /\ req' = [req EXCEPT ![r].items = Inventory, ![r].pc = "waiting"]
  /\ queue' = [queue EXCEPT ![ServedBy[r]] = Append(@, r)]
  /\ UNCHANGED <<live, file, changes, crashes, seen, trained>>

\* A call of another service raises: the request ends.
FetchFails(r) ==
  /\ At(r, "stock") \/ At(r, "fetch")
  /\ End({r})
  /\ UNCHANGED <<live, file, queue, changes, crashes, trained>>

\* Leaving "async with _lock", also by an exception.
Leave_Returned(r, raised) == [queue EXCEPT ![ServedBy[r]] = IF raised THEN @ ELSE Tail(@)]
Leave(r, raised) == [queue EXCEPT ![ServedBy[r]] = Tail(@)]

CanLoad_Waiting(r) == At(r, "waiting")
CanLoad(r) == At(r, "waiting") /\ HasLock(r)

\* _load, and which positions the loop will train.
Load(r) ==
  /\ CanLoad(r)
  /\ file.whole
  /\ req' = [req EXCEPT ![r].pc = "locked", ![r].policies = file.policies,
       ![r].todo = IF req[r].kind = "recommend" THEN Stale(file.policies, req[r].items) ELSE DOMAIN req[r].items]
  /\ trained' = IF Overlaps(r) THEN Torn ELSE trained
  /\ UNCHANGED <<live, file, queue, changes, crashes, seen>>

\* The file is not JSON: json.loads raises.
LoadFails(r) ==
  /\ CanLoad(r)
  /\ ~ file.whole
  /\ End({r})
  /\ queue' = Leave(r, TRUE)
  /\ trained' = IF Overlaps(r) THEN Torn ELSE trained
  /\ UNCHANGED <<live, file, changes, crashes>>

\* train_position, in a thread, for the settings that were fetched.
Train(r) ==
  /\ At(r, "locked")
  /\ req[r].todo # {}
  /\ LET p == CHOOSE q \in req[r].todo : TRUE IN
     req' = [req EXCEPT ![r].policies = Updated(@, [q \in {p} |-> req[r].items[q]]), ![r].todo = @ \ {p}]
  /\ UNCHANGED <<live, file, queue, changes, crashes, seen, trained>>

\* _save empties the file, then writes it.
BeginSave(r) ==
  /\ At(r, "locked")
  /\ req[r].todo = {}
  /\ file' = Torn
  /\ req' = [req EXCEPT ![r].pc = "saving"]
  /\ UNCHANGED <<live, queue, changes, crashes, seen, trained>>

\* Over what another process wrote meanwhile, the end of a longer text may
\* remain.
EndSave(r) ==
  /\ At(r, "saving")
  /\ file' \in {Whole(req[r].policies)} \cup (IF file.whole THEN {Torn} ELSE {})
  /\ IF req[r].kind = "recommend"
     THEN req' = [req EXCEPT ![r].pc = "answer"] /\ UNCHANGED seen
     ELSE End({r})
  /\ queue' = Leave(r, FALSE)
  /\ trained' = IF trained.whole THEN Whole(Updated(trained.policies, req[r].items)) ELSE Torn
  /\ UNCHANGED <<live, changes, crashes>>

\* One recommendation for each position that was in stock.
Answer(r) ==
  /\ At(r, "answer")
  /\ End({r})
  /\ UNCHANGED <<live, file, queue, changes, crashes, trained>>

-----------------------------------------------------------------------------

\* The settings of a position change, or its catalog data arrive.
Change(p, c) ==
  /\ changes < MaxChanges
  /\ changes' = changes + 1
  /\ c # live[p]
  /\ live' = [live EXCEPT ![p] = c]
  /\ seen' = [r \in Requests |-> IF seen[r] = NothingSeen THEN seen[r] ELSE [seen[r] EXCEPT ![p] = @ \cup {c}]]
  /\ UNCHANGED <<file, queue, req, crashes, trained>>

\* A process dies, and with it its requests and its lock.
Crash(proc) ==
  LET mine == {r \in Requests : ServedBy[r] = proc /\ Running(r)} IN
  /\ crashes < MaxCrashes
  /\ crashes' = crashes + 1
  /\ End(mine)
  /\ queue' = [queue EXCEPT ![proc] = <<>>]
  /\ trained' = IF Holders(proc) # {} THEN Torn ELSE trained
  /\ UNCHANGED <<live, file, changes>>

-----------------------------------------------------------------------------

Step(r) ==
  \/ ReadStock(r) \/ Fetch(r) \/ FetchFails(r)
  \/ Load(r) \/ LoadFails(r) \/ Train(r) \/ BeginSave(r) \/ EndSave(r) \/ Answer(r)

Next ==
  \/ \E r \in Requests, kind \in {"train", "recommend"} : Ask(r, kind)
  \/ \E r \in Requests : Step(r)
  \/ \E p \in Positions, c \in Configs : Change(p, c)
  \/ \E proc \in Processes : Crash(proc)

\* Calls of other services end by their time-out, training is finite, and an
\* asyncio lock is granted in order.
Fairness == \A r \in Requests : WF_vars(Step(r))

Spec == Init /\ [][Next]_vars
FairSpec == Spec /\ Fairness

-----------------------------------------------------------------------------
(* Properties.                                                             *)

\* The shape of the state; a lock's queue holds the requests that wait for it
\* and the one inside, each once.
TypeOK ==
  /\ live \in [Positions -> Configs \cup {NoConfig}]
  /\ file \in [whole: BOOLEAN, policies: Policies]
  /\ req \in [Requests -> Request \cup {Idle, Ended}]
  /\ \A proc \in Processes :
       /\ ToSet(queue[proc]) =
            {r \in Requests : ServedBy[r] = proc /\ req[r].pc \in {"waiting", "locked", "saving"}}
       /\ IsInjective(queue[proc])
  /\ trained \in [whole: BOOLEAN, policies: Policies]
  /\ changes \in 0..MaxChanges /\ crashes \in 0..MaxCrashes

\* recommendations answers for every position it found in stock, with a policy
\* trained for settings the position had since the request came in: the second
\* fetch, inside train_all, may only be newer.
AnswersAreCurrent ==
  \A r \in Requests :
    At(r, "answer") =>
      \A p \in req[r].stock :
        p \in DOMAIN req[r].policies /\ req[r].policies[p] \in seen[r][p]

\* As long as the two processes do not train at a time and none dies in its
\* lock, the file holds the last training of every position, and it is
\* unreadable only while it is being written.
FileKeepsTraining ==
  trained.whole => file = IF \E r \in Requests : At(r, "saving") THEN Torn ELSE trained

\* A policy costs in the vectorised simulator, where it is trained, what it
\* costs in the environment, where it is compared with the SOP: same units
\* held, lost and sold and same orders on every demand path.
Agrees == [c \in Configs |->
  \A policy \in Learnable(c, Candidates) \cup {SopPolicy(c)}, path \in Paths :
    EnvRun(c, policy, path) = TwinRun(c, policy, path)]
TwinAgrees == \A r \in Requests : At(r, "locked") => \A p \in req[r].todo : Agrees[req[r].items[p]]

\* Every request is answered or refused: nobody keeps the lock.
RequestsEnd == \A r \in Requests : Running(r) ~> ~ Running(r)

=============================================================================
