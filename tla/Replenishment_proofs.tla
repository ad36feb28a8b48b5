------------------------ MODULE Replenishment_proofs ------------------------
(***************************************************************************)
(* Proofs about the replenishment agents, for any sets of requests,        *)
(* positions and settings and any bounds.                                  *)
(*                                                                         *)
(* A process's lock admits the request at the head of its queue, so within *)
(* a process one request at most is between load and save.  What it works  *)
(* on is then known from what it has done: the policies in its hands are   *)
(* those of the settings it fetched, for the positions it has trained or   *)
(* found trained, and what it loaded for the others.  An answer is current *)
(* whatever the other process does, because it is read off these hands and *)
(* not off the file.  The file keeps every training only while no other    *)
(* process is between load and save, which is what "trained" being whole   *)
(* says.                                                                   *)
(*                                                                         *)
(* The two simulators agree because, day by day, a column of the twin's    *)
(* pipeline holds what the environment's orders bring on that day, however *)
(* short the lead time: by induction over the days of a path, and over the *)
(* sets of orders and columns that are summed.                             *)
(***************************************************************************)
EXTENDS Replenishment, SequenceTheorems, FiniteSetTheorems, WellFoundedInduction, TLAPS

-----------------------------------------------------------------------------
(* The inductive invariants.                                               *)

InLock(r) == At(r, "locked") \/ At(r, "saving")

\* Shapes of what TypeOK says nothing of.
HistoryType ==
  /\ queue \in [Processes -> Seq(Requests)]
  /\ seen \in [Requests -> [Positions -> SUBSET (Configs \cup {NoConfig})]]

\* Who is between load and save heads the queue of its process.
LockHeld == \A r \in Requests : InLock(r) => HasLock(r)

\* A queue holds who waits for the lock or is inside, each once.
Queued(r) == req[r].pc \in {"waiting", "locked", "saving"}
QueuesHold ==
  \A proc \in Processes :
    /\ ToSet(queue[proc]) = {r \in Requests : ServedBy[r] = proc /\ Queued(r)}
    /\ IsInjective(queue[proc])

\* The loop trains positions that were fetched, and saves when it is through;
\* only recommendations read stock and are answered.
Consistent(request) ==
  /\ request.pc = "locked" => request.todo \subseteq DOMAIN request.items
  /\ request.pc \notin {"idle", "locked", "ended"} => request.todo = {}
  /\ request.pc \in {"stock", "answer"} => request.kind = "recommend"
WorkLeft == \A r \in Requests : Consistent(req[r])

TypeInv == TypeOK /\ HistoryType /\ LockHeld /\ WorkLeft

\* The positions for which a request holds the policy of what it fetched.
Done(r) == DOMAIN req[r].items \ req[r].todo
HoldsDone(r) ==
  \A p \in Done(r) : p \in DOMAIN req[r].policies /\ req[r].policies[p] = req[r].items[p]

\* What a recommendation has seen of a position includes what it is now and
\* what it fetched, which covers every position it found in stock.
Recommending(r) == Running(r) /\ req[r].kind = "recommend"
SeenIsCurrent(r) == Recommending(r) => \A p \in Positions : live[p] \in seen[r][p]
StockStays(r) == Recommending(r) => \A p \in req[r].stock : live[p] # NoConfig
FetchedWasSeen(r) ==
  Recommending(r) /\ ~ At(r, "stock") /\ ~ At(r, "fetch") =>
    /\ req[r].stock \subseteq DOMAIN req[r].items
    /\ \A p \in DOMAIN req[r].items : req[r].items[p] \in seen[r][p]
HandsAreDone(r) == InLock(r) \/ At(r, "answer") => HoldsDone(r)

AnswerOf(r) == SeenIsCurrent(r) /\ StockStays(r) /\ FetchedWasSeen(r) /\ HandsAreDone(r)
AnswerInv == \A r \in Requests : AnswerOf(r)

\* While "trained" is whole one request at most is between load and save, in
\* whichever process, and the rest of its hands is what it loaded.
OneTrains == trained.whole => \A r, q \in Requests : InLock(r) /\ InLock(q) => r = q
HandsKeepFile ==
  trained.whole =>
    \A r \in Requests :
      InLock(r) =>
        /\ DOMAIN req[r].policies = Done(r) \cup DOMAIN trained.policies
        /\ \A p \in DOMAIN trained.policies \ Done(r) : req[r].policies[p] = trained.policies[p]

FileInv == FileKeepsTraining /\ OneTrains /\ HandsKeepFile

-----------------------------------------------------------------------------
(* Policies, requests and sequences.                                       *)

\* A position without catalog data has no settings.
LEMMA NoConfigIsNone == NoConfig \notin Configs
<1>1. SUFFICES ASSUME NoConfig \in Config PROVE FALSE
  BY ReplenishmentConstants
<1>2. DOMAIN NoConfig = {"lead", "point", "quantity"}
  BY <1>1 DEF Config
<1>3. DOMAIN NoConfig = {"lead"}
  BY DEF NoConfig
<1>4. QED
  BY <1>2, <1>3

\* Policies are functions from some of the positions to settings.
LEMMA PoliciesAreFunctions ==
  ASSUME NEW f \in Policies
  PROVE  /\ DOMAIN f \subseteq Positions
         /\ f \in [DOMAIN f -> Configs]
         /\ \A p \in DOMAIN f : f[p] \in Configs
BY DEF Policies

\* Any such function is a set of policies.
LEMMA FunctionsArePolicies ==
  ASSUME NEW P \in SUBSET Positions, NEW f \in [P -> Configs]
  PROVE  f \in Policies
BY DEF Policies

\* No policies are policies.
LEMMA NoPoliciesType == NoPolicies \in Policies /\ DOMAIN NoPolicies = {}
<1>1. NoPolicies \in [{} -> Configs]
  BY DEF NoPolicies
<1>2. QED
  BY <1>1, FunctionsArePolicies

\* Policies set anew: the new ones, and the others as they were.
LEMMA UpdatedType ==
  ASSUME NEW f \in Policies, NEW g \in Policies
  PROVE  /\ Updated(f, g) \in Policies
         /\ DOMAIN Updated(f, g) = DOMAIN f \cup DOMAIN g
         /\ \A p \in DOMAIN g : Updated(f, g)[p] = g[p]
         /\ \A p \in DOMAIN f \ DOMAIN g : Updated(f, g)[p] = f[p]
<1>1. DOMAIN f \cup DOMAIN g \subseteq Positions
  BY PoliciesAreFunctions
<1>2. Updated(f, g) \in [DOMAIN f \cup DOMAIN g -> Configs]
  BY PoliciesAreFunctions DEF Updated
<1>3. QED
  BY <1>1, <1>2, FunctionsArePolicies DEF Updated

\* What a fetch gives has the shape of policies.
LEMMA InventoryType ==
  ASSUME TypeOK
  PROVE  /\ Inventory \in Policies
         /\ DOMAIN Inventory = {p \in Positions : live[p] # NoConfig}
         /\ \A p \in DOMAIN Inventory : Inventory[p] = live[p]
<1>1. DOMAIN Inventory = {p \in Positions : live[p] # NoConfig}
  BY DEF Inventory
<1>2. Inventory \in [DOMAIN Inventory -> Configs]
  BY DEF Inventory, TypeOK
<1>3. QED
  BY <1>1, <1>2, FunctionsArePolicies DEF Inventory

\* A request that runs has the fields of one.
LEMMA RequestShape ==
  ASSUME TypeOK, NEW r \in Requests
  PROVE  /\ Running(r) <=> req[r] \in Request
         /\ Running(r) <=> ~ At(r, "idle") /\ ~ At(r, "ended")
BY DEF TypeOK, Running, At, Idle, Ended, Request

\* The head of a queue leaves: the others keep their places.
LEMMA HeadLeaves ==
  ASSUME NEW S, NEW s \in Seq(S), s # <<>>, IsInjective(s)
  PROVE  /\ Tail(s) \in Seq(S)
         /\ ToSet(Tail(s)) = ToSet(s) \ {Head(s)}
         /\ IsInjective(Tail(s))
<1>1. /\ Tail(s) \in Seq(S) /\ Len(Tail(s)) = Len(s) - 1
      /\ \A i \in 1..Len(Tail(s)) : Tail(s)[i] = s[i + 1]
      /\ DOMAIN Tail(s) = 1..Len(Tail(s))
  BY HeadTailProperties, LenProperties
<1>2. Len(s) \in Nat \ {0} /\ DOMAIN s = 1..Len(s) /\ Head(s) = s[1]
  BY EmptySeq, LenProperties
<1>3. IsInjective(Tail(s))
  BY <1>1, <1>2 DEF IsInjective
<1>4. ASSUME NEW e \in ToSet(s) \ {Head(s)} PROVE e \in ToSet(Tail(s))
  <2>1. PICK i \in 1..Len(s) : s[i] = e
    BY <1>2 DEF ToSet
  <2>2. i # 1
    BY <1>2, <2>1
  <2>3. i - 1 \in 1..Len(Tail(s)) /\ Tail(s)[i - 1] = e
    BY <1>1, <1>2, <2>1, <2>2
  <2>4. QED
    BY <1>1, <2>3 DEF ToSet
<1>5. ASSUME NEW e \in ToSet(Tail(s)) PROVE e \in ToSet(s) \ {Head(s)}
  <2>1. PICK i \in 1..Len(Tail(s)) : Tail(s)[i] = e
    BY <1>1 DEF ToSet
  <2>2. i + 1 \in 1..Len(s) /\ s[i + 1] = e /\ i + 1 # 1
    BY <1>1, <1>2, <2>1
  <2>3. e # s[1]
    BY <1>2, <2>2 DEF IsInjective
  <2>4. QED
    BY <1>2, <2>2, <2>3 DEF ToSet
<1>6. QED
  BY <1>1, <1>3, <1>4, <1>5

\* Someone joins a queue: at the end, and only once.
LEMMA TailJoins ==
  ASSUME NEW S, NEW s \in Seq(S), NEW e \in S, e \notin ToSet(s), IsInjective(s)
  PROVE  /\ Append(s, e) \in Seq(S)
         /\ Append(s, e) # <<>>
         /\ ToSet(Append(s, e)) = ToSet(s) \cup {e}
         /\ IsInjective(Append(s, e))
         /\ s # <<>> => Head(Append(s, e)) = Head(s)
<1> DEFINE t == Append(s, e)
<1>1. /\ t \in Seq(S) /\ t # <<>> /\ Len(t) = Len(s) + 1
      /\ \A i \in 1..Len(s) : t[i] = s[i]
      /\ t[Len(s) + 1] = e
  BY AppendProperties
<1>2. /\ DOMAIN t = 1..(Len(s) + 1)
      /\ Len(s) \in Nat /\ DOMAIN s = 1..Len(s)
  BY <1>1, LenProperties
<1>3. s # <<>> => Head(t) = Head(s)
  BY HeadTailAppend
<1> HIDE DEF t
<1>4. \A i \in 1..Len(s) : s[i] # e
  BY <1>2 DEF ToSet
<1>5. IsInjective(t)
  <2> SUFFICES ASSUME NEW i \in 1..(Len(s) + 1), NEW j \in 1..(Len(s) + 1), t[i] = t[j] PROVE i = j
    BY <1>2 DEF IsInjective
  <2>1. CASE i = Len(s) + 1 \/ j = Len(s) + 1
    BY <1>1, <1>2, <1>4, <2>1
  <2>2. CASE i # Len(s) + 1 /\ j # Len(s) + 1
    BY <1>1, <1>2, <2>2 DEF IsInjective
  <2>3. QED
    BY <2>1, <2>2
<1>6. ToSet(t) = ToSet(s) \cup {e}
  BY <1>1, <1>2 DEF ToSet
<1>7. QED
  BY <1>1, <1>3, <1>5, <1>6 DEF t

-----------------------------------------------------------------------------
(* The queues.                                                             *)

QueueInv == queue \in [Processes -> Seq(Requests)] /\ QueuesHold /\ LockHeld

\* A step that keeps the queues keeps them in order, if nobody starts or stops
\* to wait and nobody gets in who is not at the head.
LEMMA QueuesKept ==
  ASSUME QueueInv, queue' = queue,
         \A r \in Requests : (Queued(r)' <=> Queued(r)) /\ (InLock(r)' => HasLock(r))
  PROVE  QueueInv'
BY DEF QueueInv, QueuesHold, LockHeld, HasLock

\* One request at most is inside in each process.
LEMMA OneInside ==
  ASSUME LockHeld, NEW r \in Requests, NEW q \in Requests,
         InLock(r), HasLock(q), ServedBy[r] = ServedBy[q]
  PROVE  r = q
BY DEF LockHeld, HasLock

\* A request that joins its queue.
LEMMA QueueJoined ==
  ASSUME QueueInv, NEW r \in Requests, ~ Queued(r), Queued(r)', ~ InLock(r)',
         queue' = [queue EXCEPT ![ServedBy[r]] = Append(@, r)],
         \A q \in Requests \ {r} : (Queued(q)' <=> Queued(q)) /\ (InLock(q)' => InLock(q))
  PROVE  QueueInv'
<1> DEFINE s == queue[ServedBy[r]]
<1>1. ServedBy[r] \in Processes /\ s \in Seq(Requests)
  BY ReplenishmentConstants DEF QueueInv
<1>2. r \notin ToSet(s) /\ IsInjective(s)
  BY <1>1 DEF QueueInv, QueuesHold
<1>3. /\ Append(s, r) \in Seq(Requests)
      /\ Append(s, r) # <<>>
      /\ ToSet(Append(s, r)) = ToSet(s) \cup {r}
      /\ IsInjective(Append(s, r))
      /\ s # <<>> => Head(Append(s, r)) = Head(s)
  BY <1>1, <1>2, TailJoins
<1>4. \A proc \in Processes : queue'[proc] = IF proc = ServedBy[r] THEN Append(s, r) ELSE queue[proc]
  BY DEF QueueInv
<1>5. queue' \in [Processes -> Seq(Requests)]
  BY <1>1, <1>3 DEF QueueInv
<1> HIDE DEF s
<1>6. QueuesHold'
  <2> SUFFICES ASSUME NEW proc \in Processes
               PROVE  /\ ToSet(queue'[proc]) = {q \in Requests : ServedBy[q] = proc /\ Queued(q)'}
                      /\ IsInjective(queue'[proc])
    BY DEF QueuesHold
  <2>1. CASE proc = ServedBy[r]
    <3>1. ToSet(s) = {q \in Requests : ServedBy[q] = proc /\ Queued(q)}
      BY <2>1 DEF s, QueueInv, QueuesHold
    <3>2. QED
      BY <1>3, <1>4, <2>1, <3>1
  <2>2. CASE proc # ServedBy[r]
    BY <1>4, <2>2 DEF QueueInv, QueuesHold
  <2>3. QED
    BY <2>1, <2>2
<1>7. LockHeld'
  <2> SUFFICES ASSUME NEW q \in Requests, InLock(q)' PROVE HasLock(q)'
    BY DEF LockHeld
  <2>1. q # r /\ HasLock(q) /\ ServedBy[q] \in Processes
    BY ReplenishmentConstants DEF QueueInv, LockHeld
  <2>2. QED
    BY <1>3, <1>4, <2>1 DEF HasLock, s
<1>8. QED
  BY <1>5, <1>6, <1>7 DEF QueueInv

\* A request that leaves the lock.
LEMMA QueueLeft ==
  ASSUME QueueInv, NEW r \in Requests, HasLock(r), ~ Queued(r)',
         queue' = [queue EXCEPT ![ServedBy[r]] = Tail(@)],
         \A q \in Requests \ {r} : (Queued(q)' <=> Queued(q)) /\ (InLock(q)' => InLock(q))
  PROVE  QueueInv'
<1> DEFINE s == queue[ServedBy[r]]
<1>1. ServedBy[r] \in Processes /\ s \in Seq(Requests) /\ s # <<>> /\ Head(s) = r
  BY ReplenishmentConstants DEF QueueInv, HasLock
<1>2. IsInjective(s)
  BY <1>1 DEF QueueInv, QueuesHold
<1>3. /\ Tail(s) \in Seq(Requests)
      /\ ToSet(Tail(s)) = ToSet(s) \ {r}
      /\ IsInjective(Tail(s))
  BY <1>1, <1>2, HeadLeaves
<1>4. \A proc \in Processes : queue'[proc] = IF proc = ServedBy[r] THEN Tail(s) ELSE queue[proc]
  BY DEF QueueInv
<1>5. queue' \in [Processes -> Seq(Requests)]
  BY <1>1, <1>3 DEF QueueInv
<1> HIDE DEF s
<1>6. QueuesHold'
  <2> SUFFICES ASSUME NEW proc \in Processes
               PROVE  /\ ToSet(queue'[proc]) = {q \in Requests : ServedBy[q] = proc /\ Queued(q)'}
                      /\ IsInjective(queue'[proc])
    BY DEF QueuesHold
  <2>1. CASE proc = ServedBy[r]
    <3>1. ToSet(s) = {q \in Requests : ServedBy[q] = proc /\ Queued(q)}
      BY <2>1 DEF s, QueueInv, QueuesHold
    <3>2. QED
      BY <1>3, <1>4, <2>1, <3>1
  <2>2. CASE proc # ServedBy[r]
    BY <1>4, <2>2 DEF QueueInv, QueuesHold
  <2>3. QED
    BY <2>1, <2>2
<1>7. LockHeld'
  <2> SUFFICES ASSUME NEW q \in Requests, InLock(q)' PROVE HasLock(q)'
    BY DEF LockHeld
  <2>1. q # r
    BY DEF InLock, At, Queued
  <2>2. InLock(q) /\ HasLock(q) /\ ServedBy[q] \in Processes
    BY <2>1, ReplenishmentConstants DEF QueueInv, LockHeld
  <2>3. ServedBy[q] # ServedBy[r]
    BY <2>1, <2>2, OneInside DEF QueueInv
  <2>4. QED
    BY <1>4, <2>2, <2>3 DEF HasLock
<1>8. QED
  BY <1>5, <1>6, <1>7 DEF QueueInv

-----------------------------------------------------------------------------
(* The shape of the state, step by step.                                   *)

\* The parts of the invariant that most steps leave alone.
StoreType ==
  /\ live \in [Positions -> Configs \cup {NoConfig}]
  /\ file \in [whole: BOOLEAN, policies: Policies]
  /\ trained \in [whole: BOOLEAN, policies: Policies]
  /\ seen \in [Requests -> [Positions -> SUBSET (Configs \cup {NoConfig})]]
  /\ changes \in 0..MaxChanges /\ crashes \in 0..MaxCrashes
RequestsType == req \in [Requests -> Request \cup {Idle, Ended}]

\* TypeInv in the order its parts are proved.
LEMMA TypeInvParts ==
  /\ TypeInv <=> StoreType /\ RequestsType /\ QueueInv /\ WorkLeft
  /\ TypeInv' <=> StoreType' /\ RequestsType' /\ QueueInv' /\ WorkLeft'
BY DEF TypeInv, TypeOK, HistoryType, StoreType, RequestsType, QueueInv, QueuesHold, Queued

\* One request takes its next state.
LEMMA RequestMoves ==
  ASSUME TypeInv, NEW r \in Requests, NEW new \in Request \cup {Ended}, Consistent(new),
         req' = [req EXCEPT ![r] = new]
  PROVE  /\ RequestsType' /\ WorkLeft'
         /\ req'[r] = new
         /\ \A q \in Requests \ {r} : req'[q] = req[q]
<1>1. req \in [Requests -> Request \cup {Idle, Ended}]
  BY DEF TypeInv, TypeOK
<1>2. req'[r] = new /\ \A q \in Requests \ {r} : req'[q] = req[q]
  BY <1>1
<1>3. RequestsType'
  BY <1>1 DEF RequestsType
<1>4. WorkLeft'
  BY <1>2 DEF WorkLeft, TypeInv
<1>5. QED
  BY <1>2, <1>3, <1>4

\* Requests that did not move wait and are inside as before.
LEMMA OthersStay ==
  ASSUME NEW q, req'[q] = req[q]
  PROVE  (Queued(q)' <=> Queued(q)) /\ (InLock(q)' <=> InLock(q))
BY DEF Queued, InLock, At

\* The end of one request.
LEMMA OneEnds ==
  ASSUME TypeInv, NEW r \in Requests, End({r})
  PROVE  /\ RequestsType' /\ WorkLeft'
         /\ req'[r] = Ended
         /\ \A q \in Requests \ {r} : req'[q] = req[q] /\ seen'[q] = seen[q]
         /\ seen' \in [Requests -> [Positions -> SUBSET (Configs \cup {NoConfig})]]
         /\ ~ Queued(r)' /\ ~ InLock(r)'
<1>1. req' = [req EXCEPT ![r] = Ended]
  BY DEF End, TypeInv, TypeOK
<1>2. Consistent(Ended)
  BY DEF Consistent, Ended
<1>3. /\ RequestsType' /\ WorkLeft' /\ req'[r] = Ended
      /\ \A q \in Requests \ {r} : req'[q] = req[q]
  BY <1>1, <1>2, RequestMoves
<1>4. NothingSeen \in [Positions -> SUBSET (Configs \cup {NoConfig})]
  BY DEF NothingSeen
<1>5. /\ seen' \in [Requests -> [Positions -> SUBSET (Configs \cup {NoConfig})]]
      /\ \A q \in Requests \ {r} : seen'[q] = seen[q]
  BY <1>4 DEF End, TypeInv, HistoryType
<1>6. QED
  BY <1>3, <1>5 DEF Queued, InLock, At, Ended

\* A file cut short has the shape of a file.
LEMMA TornType == Torn \in [whole: BOOLEAN, policies: Policies] /\ ~ Torn.whole
BY NoPoliciesType DEF Torn

\* At first there are no requests, and nothing is stored.
LEMMA InitType == Init => TypeInv
<1> SUFFICES ASSUME Init PROVE TypeInv
  OBVIOUS
<1>1. StoreType
  <2>1. live \in [Positions -> Configs \cup {NoConfig}]
    BY ReplenishmentConstants DEF Init
  <2>2. Whole(NoPolicies) \in [whole: BOOLEAN, policies: Policies]
    BY NoPoliciesType DEF Whole
  <2>3. seen \in [Requests -> [Positions -> SUBSET (Configs \cup {NoConfig})]]
    BY DEF Init, NothingSeen
  <2>4. 0 \in 0..MaxChanges /\ 0 \in 0..MaxCrashes
    BY ReplenishmentConstants
  <2>5. QED
    BY <2>1, <2>2, <2>3, <2>4 DEF StoreType, Init
<1>2. RequestsType
  BY DEF RequestsType, Init
<1>3. \A r \in Requests : ~ Queued(r) /\ ~ InLock(r)
  BY DEF Init, Queued, InLock, At, Idle
<1>4. QueueInv
  <2>1. queue \in [Processes -> Seq(Requests)]
    BY DEF Init
  <2>2. QueuesHold
    <3>1. ToSet(<<>>) = {} /\ IsInjective(<<>>)
      BY DEF ToSet, IsInjective
    <3>2. QED
      BY <1>3, <3>1 DEF QueuesHold, Init
  <2>3. QED
    BY <1>3, <2>1, <2>2 DEF QueueInv, LockHeld
<1>5. WorkLeft
  BY DEF WorkLeft, Consistent, Init, Idle
<1>6. QED
  BY <1>1, <1>2, <1>4, <1>5, TypeInvParts

\* A request comes in.
LEMMA AskType ==
  ASSUME TypeInv, NEW r \in Requests, NEW kind \in {"train", "recommend"}, Ask(r, kind)
  PROVE  TypeInv'
<1> DEFINE new == [kind |-> kind, pc |-> IF kind = "recommend" THEN "stock" ELSE "fetch",
                   stock |-> {}, items |-> NoPolicies, policies |-> NoPolicies, todo |-> {}]
<1>1. new \in Request /\ Consistent(new) /\ new.pc \in {"stock", "fetch"}
  BY NoPoliciesType DEF Request, Consistent
<1>2. req' = [req EXCEPT ![r] = new]
  BY DEF Ask
<1> HIDE DEF new
<1>3. /\ RequestsType' /\ WorkLeft' /\ req'[r] = new
      /\ \A q \in Requests \ {r} : req'[q] = req[q]
  BY <1>1, <1>2, RequestMoves
<1>4. \A q \in Requests : (Queued(q)' <=> Queued(q)) /\ (InLock(q)' <=> InLock(q))
  <2>1. ~ Queued(r) /\ ~ InLock(r) /\ ~ Queued(r)' /\ ~ InLock(r)'
    BY <1>1, <1>3 DEF Ask, At, Queued, InLock
  <2>2. QED
    BY <1>3, <2>1, OthersStay
<1>5. QueueInv'
  BY <1>4, TypeInvParts, QueuesKept DEF Ask, QueueInv, LockHeld
<1>6. seen' \in [Requests -> [Positions -> SUBSET (Configs \cup {NoConfig})]]
  <2>1. [p \in Positions |-> {live[p]}] \in [Positions -> SUBSET (Configs \cup {NoConfig})]
    BY DEF TypeInv, TypeOK
  <2>2. QED
    BY <2>1 DEF Ask, TypeInv, HistoryType
<1>7. StoreType'
  BY <1>6, TypeInvParts DEF Ask, StoreType
<1>8. QED
  BY <1>3, <1>5, <1>7, TypeInvParts

\* The stock is read.
LEMMA ReadStockType ==
  ASSUME TypeInv, NEW r \in Requests, ReadStock(r)
  PROVE  TypeInv'
<1> DEFINE new == [req[r] EXCEPT !.stock = DOMAIN Inventory, !.pc = "fetch"]
<1>1. Running(r) /\ req[r] \in Request
  BY RequestShape DEF ReadStock, At, TypeInv
<1>2. DOMAIN Inventory \subseteq Positions
  BY DEF Inventory
<1>3. new \in Request /\ new.pc = "fetch" /\ new.todo = req[r].todo /\ new.items = req[r].items
  BY <1>1, <1>2 DEF Request
<1>4. req' = [req EXCEPT ![r] = new]
  BY DEF ReadStock
<1> HIDE DEF new
<1>5. Consistent(new)
  BY <1>1, <1>3 DEF Consistent, TypeInv, WorkLeft, Running, ReadStock, At
<1>6. /\ RequestsType' /\ WorkLeft' /\ req'[r] = new
      /\ \A q \in Requests \ {r} : req'[q] = req[q]
  BY <1>3, <1>4, <1>5, RequestMoves
<1>7. \A q \in Requests : (Queued(q)' <=> Queued(q)) /\ (InLock(q)' <=> InLock(q))
  <2>1. ~ Queued(r) /\ ~ InLock(r) /\ ~ Queued(r)' /\ ~ InLock(r)'
    BY <1>3, <1>6 DEF ReadStock, At, Queued, InLock
  <2>2. QED
    BY <1>6, <2>1, OthersStay
<1>8. QueueInv'
  BY <1>7, TypeInvParts, QueuesKept DEF ReadStock, QueueInv, LockHeld
<1>9. StoreType'
  BY TypeInvParts DEF ReadStock, StoreType
<1>10. QED
  BY <1>6, <1>8, <1>9, TypeInvParts

\* The inventory is fetched; the request joins its queue.
LEMMA FetchType ==
  ASSUME TypeInv, NEW r \in Requests, Fetch(r)
  PROVE  TypeInv'
<1> DEFINE new == [req[r] EXCEPT !.items = Inventory, !.pc = "waiting"]
<1>1. Running(r) /\ req[r] \in Request
  BY RequestShape DEF Fetch, At, TypeInv
<1>2. Inventory \in Policies
  BY InventoryType DEF TypeInv
<1>3. new \in Request /\ new.pc = "waiting" /\ new.todo = req[r].todo
  BY <1>1, <1>2 DEF Request
<1>4. req' = [req EXCEPT ![r] = new]
  BY DEF Fetch
<1> HIDE DEF new
<1>5. Consistent(new)
  BY <1>1, <1>3 DEF Consistent, TypeInv, WorkLeft, Running, Fetch, At
<1>6. /\ RequestsType' /\ WorkLeft' /\ req'[r] = new
      /\ \A q \in Requests \ {r} : req'[q] = req[q]
  BY <1>3, <1>4, <1>5, RequestMoves
<1>7. ~ Queued(r) /\ Queued(r)' /\ ~ InLock(r)'
  BY <1>3, <1>6 DEF Fetch, At, Queued, InLock
<1>8. QueueInv'
  <2>1. \A q \in Requests \ {r} : (Queued(q)' <=> Queued(q)) /\ (InLock(q)' => InLock(q))
    BY <1>6, OthersStay
  <2>2. QED
    BY <1>7, <2>1, TypeInvParts, QueueJoined DEF Fetch
<1>9. StoreType'
  BY TypeInvParts DEF Fetch, StoreType
<1>10. QED
  BY <1>6, <1>8, <1>9, TypeInvParts

\* A call of another service fails.
LEMMA FetchFailsType ==
  ASSUME TypeInv, NEW r \in Requests, FetchFails(r)
  PROVE  TypeInv'
<1>1. /\ RequestsType' /\ WorkLeft'
      /\ \A q \in Requests \ {r} : req'[q] = req[q]
      /\ seen' \in [Requests -> [Positions -> SUBSET (Configs \cup {NoConfig})]]
      /\ ~ Queued(r)' /\ ~ InLock(r)'
  BY OneEnds DEF FetchFails
<1>2. \A q \in Requests : (Queued(q)' <=> Queued(q)) /\ (InLock(q)' <=> InLock(q))
  <2>1. ~ Queued(r) /\ ~ InLock(r)
    BY DEF FetchFails, At, Queued, InLock
  <2>2. QED
    BY <1>1, <2>1, OthersStay
<1>3. QueueInv'
  BY <1>2, TypeInvParts, QueuesKept DEF FetchFails, QueueInv, LockHeld
<1>4. StoreType'
  BY <1>1, TypeInvParts DEF FetchFails, StoreType
<1>5. QED
  BY <1>1, <1>3, <1>4, TypeInvParts

\* What a request loads leaves it to train positions it has fetched.
LEMMA LoadedTodo ==
  ASSUME NEW kind, NEW policies, NEW items
  PROVE  (IF kind = "recommend" THEN Stale(policies, items) ELSE DOMAIN items) \subseteq DOMAIN items
BY DEF Stale

\* The lock is taken and the file is loaded.
LEMMA LoadType ==
  ASSUME TypeInv, NEW r \in Requests, Load(r)
  PROVE  TypeInv'
<1> DEFINE todo == IF req[r].kind = "recommend" THEN Stale(file.policies, req[r].items)
                                                ELSE DOMAIN req[r].items
           new == [req[r] EXCEPT !.pc = "locked", !.policies = file.policies, !.todo = todo]
<1>1. Running(r) /\ req[r] \in Request /\ At(r, "waiting") /\ HasLock(r)
  BY RequestShape DEF Load, CanLoad, At, TypeInv
<1>2. todo \subseteq DOMAIN req[r].items /\ DOMAIN req[r].items \subseteq Positions
  BY <1>1, LoadedTodo, PoliciesAreFunctions DEF Request
<1>3. file.policies \in Policies
  BY DEF TypeInv, TypeOK
<1>4. req' = [req EXCEPT ![r] = new]
  BY DEF Load
<1> HIDE DEF todo
<1>5. new \in Request /\ new.pc = "locked" /\ new.todo = todo /\ new.items = req[r].items
  BY <1>1, <1>2, <1>3 DEF Request
<1> HIDE DEF new
<1>6. Consistent(new)
  BY <1>2, <1>5 DEF Consistent
<1>7. /\ RequestsType' /\ WorkLeft' /\ req'[r] = new
      /\ \A q \in Requests \ {r} : req'[q] = req[q]
  BY <1>4, <1>5, <1>6, RequestMoves
<1>8. QueueInv'
  <2>1. \A q \in Requests : (Queued(q)' <=> Queued(q)) /\ (InLock(q)' => HasLock(q))
    <3>1. Queued(r) /\ Queued(r)'
      BY <1>1, <1>5, <1>7 DEF At, Queued
    <3>2. QED
      BY <1>1, <1>7, <3>1, OthersStay DEF TypeInv, LockHeld
  <2>2. QED
    BY <2>1, TypeInvParts, QueuesKept DEF Load
<1>9. StoreType'
  BY TypeInvParts, TornType DEF Load, StoreType
<1>10. QED
  BY <1>7, <1>8, <1>9, TypeInvParts

\* The file cannot be loaded.
LEMMA LoadFailsType ==
  ASSUME TypeInv, NEW r \in Requests, LoadFails(r)
  PROVE  TypeInv'
<1>1. /\ RequestsType' /\ WorkLeft'
      /\ \A q \in Requests \ {r} : req'[q] = req[q]
      /\ seen' \in [Requests -> [Positions -> SUBSET (Configs \cup {NoConfig})]]
      /\ ~ Queued(r)'
  BY OneEnds DEF LoadFails
<1>2. \A q \in Requests \ {r} : (Queued(q)' <=> Queued(q)) /\ (InLock(q)' => InLock(q))
  BY <1>1, OthersStay
<1>3. QueueInv'
  BY <1>1, <1>2, TypeInvParts, QueueLeft DEF LoadFails, CanLoad, Leave
<1>4. StoreType'
  BY <1>1, TypeInvParts, TornType DEF LoadFails, StoreType
<1>5. QED
  BY <1>1, <1>3, <1>4, TypeInvParts

\* One policy is trained.
LEMMA TrainType ==
  ASSUME TypeInv, NEW r \in Requests, Train(r)
  PROVE  /\ TypeInv'
         /\ \E p \in req[r].todo :
              LET trainedNow == [q \in {p} |-> req[r].items[q]] IN
              /\ trainedNow \in Policies
              /\ req' = [req EXCEPT ![r] = [req[r] EXCEPT
                    !.policies = Updated(req[r].policies, trainedNow), !.todo = req[r].todo \ {p}]]
<1>1. Running(r) /\ req[r] \in Request /\ At(r, "locked")
  BY RequestShape DEF Train, At, TypeInv
<1>2. PICK p \in req[r].todo :
        req' = [req EXCEPT ![r].policies = Updated(@, [q \in {p} |-> req[r].items[q]]), ![r].todo = @ \ {p}]
  BY DEF Train
<1> DEFINE trainedNow == [q \in {p} |-> req[r].items[q]]
           new == [req[r] EXCEPT !.policies = Updated(req[r].policies, trainedNow), !.todo = req[r].todo \ {p}]
<1>3. p \in DOMAIN req[r].items /\ req[r].items \in Policies /\ p \in Positions
  BY <1>1, PoliciesAreFunctions DEF TypeInv, WorkLeft, Consistent, At, Request
<1>4. trainedNow \in Policies
  <2>1. req[r].items[p] \in Configs
    BY <1>3, PoliciesAreFunctions
  <2>2. trainedNow \in [{p} -> Configs]
    BY <2>1
  <2>3. QED
    BY <1>3, <2>2, FunctionsArePolicies
<1>5. Updated(req[r].policies, trainedNow) \in Policies
  BY <1>1, <1>4, UpdatedType DEF Request
<1>6. req' = [req EXCEPT ![r] = new]
  BY <1>2
<1>7. new \in Request /\ new.pc = "locked" /\ new.todo = req[r].todo \ {p} /\ new.items = req[r].items
  BY <1>1, <1>5 DEF Request, At
<1> HIDE DEF new, trainedNow
<1>8. Consistent(new)
  BY <1>1, <1>7 DEF TypeInv, WorkLeft, Consistent, At
<1>9. /\ RequestsType' /\ WorkLeft' /\ req'[r] = new
      /\ \A q \in Requests \ {r} : req'[q] = req[q]
  BY <1>6, <1>7, <1>8, RequestMoves
<1>10. QueueInv'
  <2>1. \A q \in Requests : (Queued(q)' <=> Queued(q)) /\ (InLock(q)' <=> InLock(q))
    <3>1. Queued(r) /\ Queued(r)' /\ InLock(r) /\ InLock(r)'
      BY <1>1, <1>7, <1>9 DEF At, Queued, InLock
    <3>2. QED
      BY <1>9, <3>1, OthersStay
  <2>2. QED
    BY <2>1, TypeInvParts, QueuesKept DEF Train, QueueInv, LockHeld
<1>11. StoreType'
  BY TypeInvParts DEF Train, StoreType
<1>12. TypeInv'
  BY <1>9, <1>10, <1>11, TypeInvParts
<1>13. QED
  BY <1>4, <1>6, <1>12 DEF new, trainedNow

\* The file is about to be written.
LEMMA BeginSaveType ==
  ASSUME TypeInv, NEW r \in Requests, BeginSave(r)
  PROVE  TypeInv'
<1> DEFINE new == [req[r] EXCEPT !.pc = "saving"]
<1>1. Running(r) /\ req[r] \in Request /\ At(r, "locked") /\ req[r].todo = {}
  BY RequestShape DEF BeginSave, At, TypeInv
<1>2. new \in Request /\ new.pc = "saving" /\ new.todo = {}
  BY <1>1 DEF Request
<1>3. req' = [req EXCEPT ![r] = new]
  BY DEF BeginSave
<1> HIDE DEF new
<1>4. Consistent(new)
  BY <1>2 DEF Consistent
<1>5. /\ RequestsType' /\ WorkLeft' /\ req'[r] = new
      /\ \A q \in Requests \ {r} : req'[q] = req[q]
  BY <1>2, <1>3, <1>4, RequestMoves
<1>6. QueueInv'
  <2>1. \A q \in Requests : (Queued(q)' <=> Queued(q)) /\ (InLock(q)' <=> InLock(q))
    <3>1. Queued(r) /\ Queued(r)' /\ InLock(r) /\ InLock(r)'
      BY <1>1, <1>2, <1>5 DEF At, Queued, InLock
    <3>2. QED
      BY <1>5, <3>1, OthersStay
  <2>2. QED
    BY <2>1, TypeInvParts, QueuesKept DEF BeginSave, QueueInv, LockHeld
<1>7. StoreType'
  BY TypeInvParts, TornType DEF BeginSave, StoreType
<1>8. QED
  BY <1>5, <1>6, <1>7, TypeInvParts

\* The file is written, and the lock released.
LEMMA EndSaveType ==
  ASSUME TypeInv, NEW r \in Requests, EndSave(r)
  PROVE  TypeInv'
<1>1. Running(r) /\ req[r] \in Request /\ At(r, "saving") /\ req[r].todo = {} /\ InLock(r)
  BY RequestShape DEF EndSave, At, TypeInv, WorkLeft, Consistent, InLock
<1>2. /\ RequestsType' /\ WorkLeft'
      /\ \A q \in Requests \ {r} : req'[q] = req[q]
      /\ seen' \in [Requests -> [Positions -> SUBSET (Configs \cup {NoConfig})]]
      /\ ~ Queued(r)'
  <2>1. CASE req[r].kind = "recommend"
    <3> DEFINE new == [req[r] EXCEPT !.pc = "answer"]
    <3>1. new \in Request /\ new.pc = "answer" /\ new.todo = {} /\ new.kind = "recommend"
      BY <1>1, <2>1 DEF Request
    <3>2. req' = [req EXCEPT ![r] = new] /\ UNCHANGED seen
      BY <2>1 DEF EndSave
    <3> HIDE DEF new
    <3>3. Consistent(new)
      BY <3>1 DEF Consistent
    <3>4. QED
      BY <3>1, <3>2, <3>3, RequestMoves DEF Queued, TypeInv, HistoryType
  <2>2. CASE req[r].kind # "recommend"
    <3>1. End({r})
      BY <2>2 DEF EndSave
    <3>2. QED
      BY <3>1, OneEnds
  <2>3. QED
    BY <2>1, <2>2
<1>3. QueueInv'
  <2>1. \A q \in Requests \ {r} : (Queued(q)' <=> Queued(q)) /\ (InLock(q)' => InLock(q))
    BY <1>2, OthersStay
  <2>2. HasLock(r)
    BY <1>1 DEF TypeInv, LockHeld
  <2>3. QED
    BY <1>2, <2>1, <2>2, TypeInvParts, QueueLeft DEF EndSave, Leave
<1>4. file' \in [whole: BOOLEAN, policies: Policies]
  <2>1. req[r].policies \in Policies
    BY <1>1 DEF Request
  <2>2. Whole(req[r].policies) \in [whole: BOOLEAN, policies: Policies]
    BY <2>1 DEF Whole
  <2>3. QED
    BY <2>2, TornType DEF EndSave
<1>5. trained' \in [whole: BOOLEAN, policies: Policies]
  <2>1. req[r].items \in Policies /\ trained.policies \in Policies
    BY <1>1 DEF Request, TypeInv, TypeOK
  <2>2. Updated(trained.policies, req[r].items) \in Policies
    BY <2>1, UpdatedType
  <2>3. Whole(Updated(trained.policies, req[r].items)) \in [whole: BOOLEAN, policies: Policies]
    BY <2>2 DEF Whole
  <2>4. QED
    BY <2>3, TornType DEF EndSave
<1>6. StoreType'
  BY <1>2, <1>4, <1>5, TypeInvParts DEF EndSave, StoreType
<1>7. QED
  BY <1>2, <1>3, <1>6, TypeInvParts

\* The answer is given.
LEMMA AnswerType ==
  ASSUME TypeInv, NEW r \in Requests, Answer(r)
  PROVE  TypeInv'
<1>1. /\ RequestsType' /\ WorkLeft'
      /\ \A q \in Requests \ {r} : req'[q] = req[q]
      /\ seen' \in [Requests -> [Positions -> SUBSET (Configs \cup {NoConfig})]]
      /\ ~ Queued(r)' /\ ~ InLock(r)'
  BY OneEnds DEF Answer
<1>2. \A q \in Requests : (Queued(q)' <=> Queued(q)) /\ (InLock(q)' <=> InLock(q))
  <2>1. ~ Queued(r) /\ ~ InLock(r)
    BY DEF Answer, At, Queued, InLock
  <2>2. QED
    BY <1>1, <2>1, OthersStay
<1>3. QueueInv'
  BY <1>2, TypeInvParts, QueuesKept DEF Answer, QueueInv, LockHeld
<1>4. StoreType'
  BY <1>1, TypeInvParts DEF Answer, StoreType
<1>5. QED
  BY <1>1, <1>3, <1>4, TypeInvParts

\* The settings of a position change.
LEMMA ChangeType ==
  ASSUME TypeInv, NEW p \in Positions, NEW c \in Configs, Change(p, c)
  PROVE  TypeInv'
<1>1. live' \in [Positions -> Configs \cup {NoConfig}]
  BY DEF Change, TypeInv, TypeOK
<1>2. seen' \in [Requests -> [Positions -> SUBSET (Configs \cup {NoConfig})]]
  <2>1. \A r \in Requests :
          [seen[r] EXCEPT ![p] = @ \cup {c}] \in [Positions -> SUBSET (Configs \cup {NoConfig})]
    BY DEF TypeInv, HistoryType
  <2>2. QED
    BY <2>1 DEF Change, TypeInv, HistoryType
<1>3. changes' \in 0..MaxChanges
  BY ReplenishmentConstants DEF Change, TypeInv, TypeOK
<1>4. StoreType'
  BY <1>1, <1>2, <1>3, TypeInvParts DEF Change, StoreType
<1>5. RequestsType' /\ QueueInv' /\ WorkLeft'
  BY TypeInvParts DEF Change, RequestsType, QueueInv, QueuesHold, Queued, LockHeld, InLock, At,
     HasLock, WorkLeft
<1>6. QED
  BY <1>4, <1>5, TypeInvParts

\* A process dies: its queue and all its requests are gone.
LEMMA CrashType ==
  ASSUME TypeInv, NEW proc \in Processes, Crash(proc)
  PROVE  /\ TypeInv'
         /\ \A r \in Requests :
              IF ServedBy[r] = proc /\ Running(r)
              THEN req'[r] = Ended /\ seen'[r] = NothingSeen
              ELSE req'[r] = req[r] /\ seen'[r] = seen[r]
<1>1. \A r \in Requests :
        IF ServedBy[r] = proc /\ Running(r)
        THEN req'[r] = Ended /\ seen'[r] = NothingSeen
        ELSE req'[r] = req[r] /\ seen'[r] = seen[r]
  BY DEF Crash, End
<1>2. RequestsType' /\ WorkLeft'
  <2>1. RequestsType'
    BY DEF Crash, End, RequestsType, TypeInv, TypeOK
  <2>2. Consistent(Ended)
    BY DEF Consistent, Ended
  <2>3. QED
    BY <1>1, <2>1, <2>2 DEF WorkLeft, TypeInv
<1>3. \A r \in Requests : ServedBy[r] = proc => ~ Queued(r)' /\ ~ InLock(r)'
  <2> SUFFICES ASSUME NEW r \in Requests, ServedBy[r] = proc PROVE ~ Queued(r)' /\ ~ InLock(r)'
    OBVIOUS
  <2>1. req'[r] \in {Idle, Ended}
    BY <1>1 DEF Running
  <2>2. QED
    BY <2>1 DEF Queued, InLock, At, Idle, Ended
<1>4. \A r \in Requests : ServedBy[r] # proc => req'[r] = req[r]
  BY <1>1
<1>5. \A p \in Processes : queue'[p] = IF p = proc THEN <<>> ELSE queue[p]
  BY DEF Crash, TypeInv, HistoryType
<1>6. queue' \in [Processes -> Seq(Requests)]
  BY DEF Crash, TypeInv, HistoryType
<1>7. QueuesHold'
  <2> SUFFICES ASSUME NEW p \in Processes
               PROVE  /\ ToSet(queue'[p]) = {q \in Requests : ServedBy[q] = p /\ Queued(q)'}
                      /\ IsInjective(queue'[p])
    BY DEF QueuesHold
  <2>1. CASE p = proc
    <3>1. ToSet(<<>>) = {} /\ IsInjective(<<>>)
      BY DEF ToSet, IsInjective
    <3>2. QED
      BY <1>3, <1>5, <2>1, <3>1
  <2>2. CASE p # proc
    <3>1. \A q \in Requests : ServedBy[q] = p => (Queued(q)' <=> Queued(q))
      BY <1>4, <2>2, OthersStay
    <3>2. /\ ToSet(queue[p]) = {q \in Requests : ServedBy[q] = p /\ Queued(q)}
          /\ IsInjective(queue[p])
      BY TypeInvParts DEF QueueInv, QueuesHold
    <3>3. QED
      BY <1>5, <2>2, <3>1, <3>2
  <2>3. QED
    BY <2>1, <2>2
<1>8. LockHeld'
  <2> SUFFICES ASSUME NEW r \in Requests, InLock(r)' PROVE HasLock(r)'
    BY DEF LockHeld
  <2>1. ServedBy[r] # proc /\ ServedBy[r] \in Processes
    BY <1>3, ReplenishmentConstants
  <2>2. HasLock(r)
    BY <1>4, <2>1, OthersStay DEF TypeInv, LockHeld
  <2>3. QED
    BY <1>5, <2>1, <2>2 DEF HasLock
<1>9. StoreType'
  <2>1. NothingSeen \in [Positions -> SUBSET (Configs \cup {NoConfig})]
    BY DEF NothingSeen
  <2>2. seen' \in [Requests -> [Positions -> SUBSET (Configs \cup {NoConfig})]]
    BY <2>1 DEF Crash, End, TypeInv, HistoryType
  <2>3. crashes' \in 0..MaxCrashes
    BY ReplenishmentConstants DEF Crash, TypeInv, TypeOK
  <2>4. QED
    BY <2>2, <2>3, TornType, TypeInvParts DEF Crash, StoreType
<1>10. TypeInv'
  BY <1>2, <1>6, <1>7, <1>8, <1>9, TypeInvParts DEF QueueInv
<1>11. QED
  BY <1>1, <1>10

\* Every step keeps the shape of the state.
LEMMA TypeStep == ASSUME TypeInv, [Next]_vars PROVE TypeInv'
<1>1. CASE \E r \in Requests, kind \in {"train", "recommend"} : Ask(r, kind)
  BY <1>1, AskType
<1>2. CASE \E r \in Requests : Step(r)
  BY <1>2, ReadStockType, FetchType, FetchFailsType, LoadType, LoadFailsType, TrainType,
     BeginSaveType, EndSaveType, AnswerType DEF Step
<1>3. CASE \E p \in Positions, c \in Configs : Change(p, c)
  BY <1>3, ChangeType
<1>4. CASE \E proc \in Processes : Crash(proc)
  BY <1>4, CrashType
<1>5. CASE UNCHANGED vars
  BY <1>5, TypeInvParts DEF vars, StoreType, RequestsType, QueueInv, QueuesHold, Queued, LockHeld,
     InLock, At, HasLock, WorkLeft
<1>6. QED
  BY <1>1, <1>2, <1>3, <1>4, <1>5 DEF Next

\* The shape of the state, with the order of the lock's queue in it.
LEMMA TypeInvHolds == Spec => []TypeInv
<1>1. QED
  BY InitType, TypeStep, PTL DEF Spec

\* Settings, file, requests and queues keep their shape through crashes: in
\* every reachable state a lock's queue holds exactly the requests that wait
\* for it and the one inside, each once.
THEOREM TypeCorrect == Spec => []TypeOK
<1>1. TypeInv => TypeOK
  BY DEF TypeInv
<1>2. QED
  BY <1>1, TypeInvHolds, PTL

-----------------------------------------------------------------------------
(* Answers are current.                                                    *)

\* Who did not move, and has seen no change, is as current as before.
LEMMA OthersAnswer ==
  ASSUME NEW q, AnswerOf(q), req'[q] = req[q], seen'[q] = seen[q], UNCHANGED live
  PROVE  AnswerOf(q)'
BY DEF AnswerOf, SeenIsCurrent, StockStays, FetchedWasSeen, HandsAreDone, HoldsDone, Done,
   Recommending, Running, At, InLock

\* A request that does not run answers nothing.
LEMMA NoAnswer ==
  ASSUME NEW r, req'[r] \in {Idle, Ended}
  PROVE  AnswerOf(r)'
BY DEF AnswerOf, SeenIsCurrent, StockStays, FetchedWasSeen, HandsAreDone,
   Recommending, Running, At, InLock, Idle, Ended

\* A step of one request.
LEMMA OneAnswers ==
  ASSUME AnswerInv, NEW r \in Requests, UNCHANGED live, AnswerOf(r)',
         \A q \in Requests \ {r} : req'[q] = req[q] /\ seen'[q] = seen[q]
  PROVE  AnswerInv'
BY OthersAnswer DEF AnswerInv

\* A recommendation begins with what the positions are.
LEMMA AskAnswers ==
  ASSUME TypeInv, AnswerInv, NEW r \in Requests, NEW kind \in {"train", "recommend"}, Ask(r, kind)
  PROVE  AnswerInv'
<1>1. /\ req'[r] = [kind |-> kind, pc |-> IF kind = "recommend" THEN "stock" ELSE "fetch",
                    stock |-> {}, items |-> NoPolicies, policies |-> NoPolicies, todo |-> {}]
      /\ \A q \in Requests \ {r} : req'[q] = req[q]
  BY DEF Ask, TypeInv, TypeOK
<1>2. /\ kind = "recommend" => seen'[r] = [p \in Positions |-> {live[p]}]
      /\ \A q \in Requests \ {r} : seen'[q] = seen[q]
  BY DEF Ask, TypeInv, HistoryType
<1>3. AnswerOf(r)'
  BY <1>1, <1>2 DEF Ask, AnswerOf, SeenIsCurrent, StockStays, FetchedWasSeen, HandsAreDone,
     Recommending, Running, At, InLock
<1>4. QED
  BY <1>1, <1>2, <1>3, OneAnswers DEF Ask

\* What is in stock has catalog data.
LEMMA ReadStockAnswers ==
  ASSUME TypeInv, AnswerInv, NEW r \in Requests, ReadStock(r)
  PROVE  AnswerInv'
<1>1. Running(r) /\ req[r] \in Request
  BY RequestShape DEF ReadStock, At, TypeInv
<1>2. /\ req'[r] = [req[r] EXCEPT !.stock = DOMAIN Inventory, !.pc = "fetch"]
      /\ \A q \in Requests \ {r} : req'[q] = req[q]
  BY DEF ReadStock, TypeInv, TypeOK
<1>3. req'[r].stock = DOMAIN Inventory /\ req'[r].pc = "fetch" /\ req'[r].kind = req[r].kind
  BY <1>1, <1>2 DEF Request
<1>4. \A p \in DOMAIN Inventory : live[p] # NoConfig
  BY DEF Inventory
<1>5. AnswerOf(r)
  BY DEF AnswerInv
<1>6. AnswerOf(r)'
  BY <1>1, <1>3, <1>4, <1>5 DEF ReadStock, AnswerOf, SeenIsCurrent, StockStays, FetchedWasSeen,
     HandsAreDone, Recommending, Running, At, InLock
<1>7. QED
  BY <1>2, <1>6, OneAnswers DEF ReadStock

\* What is fetched was seen, and covers the stock.
LEMMA FetchAnswers ==
  ASSUME TypeInv, AnswerInv, NEW r \in Requests, Fetch(r)
  PROVE  AnswerInv'
<1>1. Running(r) /\ req[r] \in Request
  BY RequestShape DEF Fetch, At, TypeInv
<1>2. /\ req'[r] = [req[r] EXCEPT !.items = Inventory, !.pc = "waiting"]
      /\ \A q \in Requests \ {r} : req'[q] = req[q]
  BY DEF Fetch, TypeInv, TypeOK
<1>3. /\ req'[r].stock = req[r].stock /\ req'[r].pc = "waiting" /\ req'[r].kind = req[r].kind
      /\ req'[r].items = Inventory
  BY <1>1, <1>2 DEF Request
<1>4. /\ DOMAIN Inventory = {p \in Positions : live[p] # NoConfig}
      /\ \A p \in DOMAIN Inventory : Inventory[p] = live[p]
  BY InventoryType DEF TypeInv
<1>5. AnswerOf(r) /\ req[r].stock \subseteq Positions
  BY <1>1 DEF AnswerInv, Request
<1>6. AnswerOf(r)'
  BY <1>1, <1>3, <1>4, <1>5 DEF Fetch, AnswerOf, SeenIsCurrent, StockStays, FetchedWasSeen,
     HandsAreDone, Recommending, Running, At, InLock
<1>7. QED
  BY <1>2, <1>6, OneAnswers DEF Fetch

\* What a recommendation does not train it has loaded, for the same settings.
LEMMA LoadAnswers ==
  ASSUME TypeInv, AnswerInv, NEW r \in Requests, Load(r)
  PROVE  AnswerInv'
<1> DEFINE todo == IF req[r].kind = "recommend" THEN Stale(file.policies, req[r].items)
                                                ELSE DOMAIN req[r].items
<1>1. Running(r) /\ req[r] \in Request /\ At(r, "waiting")
  BY RequestShape DEF Load, CanLoad, At, TypeInv
<1>2. /\ req'[r] = [req[r] EXCEPT !.pc = "locked", !.policies = file.policies, !.todo = todo]
      /\ \A q \in Requests \ {r} : req'[q] = req[q]
  BY DEF Load, TypeInv, TypeOK
<1>3. \A p \in DOMAIN req[r].items \ todo :
        p \in DOMAIN file.policies /\ file.policies[p] = req[r].items[p]
  BY DEF Stale
<1> HIDE DEF todo
<1>4. /\ req'[r].stock = req[r].stock /\ req'[r].pc = "locked" /\ req'[r].kind = req[r].kind
      /\ req'[r].items = req[r].items /\ req'[r].policies = file.policies /\ req'[r].todo = todo
  BY <1>1, <1>2 DEF Request
<1>5. AnswerOf(r)
  BY DEF AnswerInv
<1>6. AnswerOf(r)'
  BY <1>1, <1>3, <1>4, <1>5 DEF Load, AnswerOf, SeenIsCurrent, StockStays, FetchedWasSeen,
     HandsAreDone, HoldsDone, Done, Recommending, Running, At, InLock
<1>7. QED
  BY <1>2, <1>6, OneAnswers DEF Load

\* What is trained is trained for what was fetched.
LEMMA TrainAnswers ==
  ASSUME TypeInv, AnswerInv, NEW r \in Requests, Train(r)
  PROVE  AnswerInv'
<1>1. Running(r) /\ req[r] \in Request /\ At(r, "locked")
  BY RequestShape DEF Train, At, TypeInv
<1>2. PICK p \in req[r].todo :
        LET trainedNow == [q \in {p} |-> req[r].items[q]] IN
        /\ trainedNow \in Policies
        /\ req' = [req EXCEPT ![r] = [req[r] EXCEPT
              !.policies = Updated(req[r].policies, trainedNow), !.todo = req[r].todo \ {p}]]
  BY TrainType
<1> DEFINE trainedNow == [q \in {p} |-> req[r].items[q]]
           policies == Updated(req[r].policies, trainedNow)
<1>3. DOMAIN trainedNow = {p} /\ trainedNow[p] = req[r].items[p]
  OBVIOUS
<1>4. /\ DOMAIN policies = DOMAIN req[r].policies \cup {p}
      /\ policies[p] = req[r].items[p]
      /\ \A q \in DOMAIN req[r].policies \ {p} : policies[q] = req[r].policies[q]
  <2>1. trainedNow \in Policies /\ req[r].policies \in Policies
    BY <1>1, <1>2 DEF Request
  <2> HIDE DEF trainedNow
  <2>2. /\ DOMAIN policies = DOMAIN req[r].policies \cup DOMAIN trainedNow
        /\ \A q \in DOMAIN trainedNow : policies[q] = trainedNow[q]
        /\ \A q \in DOMAIN req[r].policies \ DOMAIN trainedNow : policies[q] = req[r].policies[q]
    BY <2>1, UpdatedType
  <2> HIDE DEF policies
  <2>3. QED
    BY <1>3, <2>2
<1>5. /\ req'[r] = [req[r] EXCEPT !.policies = policies, !.todo = req[r].todo \ {p}]
      /\ \A q \in Requests \ {r} : req'[q] = req[q]
  BY <1>2 DEF TypeInv, TypeOK
<1> HIDE DEF policies, trainedNow
<1>6. /\ req'[r].stock = req[r].stock /\ req'[r].pc = "locked" /\ req'[r].kind = req[r].kind
      /\ req'[r].items = req[r].items /\ req'[r].policies = policies
      /\ req'[r].todo = req[r].todo \ {p}
  BY <1>1, <1>5 DEF Request, At
<1>7. AnswerOf(r)
  BY DEF AnswerInv
<1>8. HoldsDone(r)'
  BY <1>1, <1>4, <1>6, <1>7 DEF AnswerOf, HandsAreDone, HoldsDone, Done, InLock
<1>9. AnswerOf(r)'
  BY <1>1, <1>6, <1>7, <1>8 DEF Train, AnswerOf, SeenIsCurrent, StockStays, FetchedWasSeen,
     HandsAreDone, Recommending, Running, At, InLock
<1>10. QED
  BY <1>5, <1>9, OneAnswers DEF Train

\* Saving leaves the hands as they are.
LEMMA SavingAnswers ==
  ASSUME TypeInv, AnswerInv, NEW r \in Requests, NEW pc \in {"saving", "answer"},
         InLock(r), req' = [req EXCEPT ![r].pc = pc], UNCHANGED <<live, seen>>
  PROVE  AnswerInv'
<1>1. Running(r) /\ req[r] \in Request
  BY RequestShape DEF InLock, At, TypeInv
<1>2. /\ req'[r] = [req[r] EXCEPT !.pc = pc]
      /\ \A q \in Requests \ {r} : req'[q] = req[q] /\ seen'[q] = seen[q]
  BY DEF TypeInv, TypeOK
<1>3. /\ req'[r].stock = req[r].stock /\ req'[r].pc = pc /\ req'[r].kind = req[r].kind
      /\ req'[r].items = req[r].items /\ req'[r].policies = req[r].policies
      /\ req'[r].todo = req[r].todo
  BY <1>1, <1>2 DEF Request
<1>4. AnswerOf(r)
  BY DEF AnswerInv
<1>5. AnswerOf(r)'
  BY <1>1, <1>3, <1>4 DEF AnswerOf, SeenIsCurrent, StockStays, FetchedWasSeen,
     HandsAreDone, HoldsDone, Done, Recommending, Running, At, InLock
<1>6. QED
  BY <1>2, <1>5, OneAnswers

\* A request that ends leaves the others current.
LEMMA EndAnswers ==
  ASSUME TypeInv, AnswerInv, NEW r \in Requests, End({r}), UNCHANGED live
  PROVE  AnswerInv'
<1>1. /\ req'[r] = Ended
      /\ \A q \in Requests \ {r} : req'[q] = req[q] /\ seen'[q] = seen[q]
  BY OneEnds
<1>2. AnswerOf(r)'
  BY <1>1, NoAnswer
<1>3. QED
  BY <1>1, <1>2, OneAnswers

\* Every recommendation sees the change of a position's settings.
LEMMA ChangeAnswers ==
  ASSUME TypeInv, AnswerInv, NEW p \in Positions, NEW c \in Configs, Change(p, c)
  PROVE  AnswerInv'
<1> SUFFICES ASSUME NEW r \in Requests PROVE AnswerOf(r)'
  BY DEF AnswerInv
<1>1. AnswerOf(r) /\ req' = req
  BY DEF AnswerInv, Change
<1>2. c # NoConfig
  BY NoConfigIsNone
<1>3. \A q \in Positions : live'[q] = IF q = p THEN c ELSE live[q]
  BY DEF Change, TypeInv, TypeOK
<1>4. CASE Recommending(r)
  <2>1. seen[r] # NothingSeen
    BY <1>1, <1>4 DEF AnswerOf, SeenIsCurrent, NothingSeen
  <2>2. seen'[r] = [seen[r] EXCEPT ![p] = @ \cup {c}]
    BY <2>1 DEF Change
  <2>3. \A q \in Positions : seen'[r][q] = IF q = p THEN seen[r][q] \cup {c} ELSE seen[r][q]
    BY <2>2 DEF TypeInv, HistoryType
  <2>4. req[r] \in Request
    BY <1>4, RequestShape DEF TypeInv, Recommending
  <2>5. DOMAIN req[r].items \subseteq Positions /\ req[r].stock \subseteq Positions
    BY <2>4, PoliciesAreFunctions DEF Request
  <2>6. SeenIsCurrent(r)' /\ StockStays(r)'
    BY <1>1, <1>2, <1>3, <1>4, <2>3, <2>5
       DEF AnswerOf, SeenIsCurrent, StockStays, Recommending, Running
  <2>7. FetchedWasSeen(r)'
    BY <1>1, <1>4, <2>3, <2>5 DEF AnswerOf, FetchedWasSeen, Recommending, Running, At
  <2>8. HandsAreDone(r)'
    BY <1>1 DEF AnswerOf, HandsAreDone, HoldsDone, Done, InLock, At
  <2>9. QED
    BY <2>6, <2>7, <2>8 DEF AnswerOf
<1>5. CASE ~ Recommending(r)
  BY <1>1, <1>5 DEF AnswerOf, SeenIsCurrent, StockStays, FetchedWasSeen, HandsAreDone, HoldsDone,
     Done, Recommending, Running, At, InLock
<1>6. QED
  BY <1>4, <1>5

\* A crash ends requests, and shows the others nothing.
LEMMA CrashAnswers ==
  ASSUME TypeInv, AnswerInv, NEW proc \in Processes, Crash(proc)
  PROVE  AnswerInv'
<1> SUFFICES ASSUME NEW r \in Requests PROVE AnswerOf(r)'
  BY DEF AnswerInv
<1>1. IF ServedBy[r] = proc /\ Running(r)
      THEN req'[r] = Ended ELSE req'[r] = req[r] /\ seen'[r] = seen[r]
  BY CrashType
<1>2. QED
  BY <1>1, OthersAnswer, NoAnswer DEF AnswerInv, Crash

\* Every step keeps recommendations current.
LEMMA AnswerStep == ASSUME TypeInv, AnswerInv, [Next]_vars PROVE AnswerInv'
<1>1. CASE \E r \in Requests, kind \in {"train", "recommend"} : Ask(r, kind)
  BY <1>1, AskAnswers
<1>2. ASSUME NEW r \in Requests, Step(r) PROVE AnswerInv'
  <2>1. CASE ReadStock(r) \/ Fetch(r) \/ Load(r) \/ Train(r)
    BY <2>1, ReadStockAnswers, FetchAnswers, LoadAnswers, TrainAnswers
  <2>2. CASE FetchFails(r) \/ LoadFails(r) \/ Answer(r)
    BY <2>2, EndAnswers DEF FetchFails, LoadFails, Answer
  <2>3. CASE BeginSave(r)
    BY <2>3, SavingAnswers DEF BeginSave, InLock
  <2>4. CASE EndSave(r)
    <3>1. CASE req[r].kind = "recommend"
      BY <2>4, <3>1, SavingAnswers DEF EndSave, InLock
    <3>2. CASE req[r].kind # "recommend"
      BY <2>4, <3>2, EndAnswers DEF EndSave
    <3>3. QED
      BY <3>1, <3>2
  <2>5. QED
    BY <1>2, <2>1, <2>2, <2>3, <2>4 DEF Step
<1>3. CASE \E p \in Positions, c \in Configs : Change(p, c)
  BY <1>3, ChangeAnswers
<1>4. CASE \E proc \in Processes : Crash(proc)
  BY <1>4, CrashAnswers
<1>5. CASE UNCHANGED vars
  BY <1>5, OthersAnswer DEF vars, AnswerInv
<1>6. QED
  BY <1>1, <1>2, <1>3, <1>4, <1>5 DEF Next

\* Whatever the other process trains, saves or tears, and however settings
\* change meanwhile, a recommendation covers every position it found in stock,
\* by a policy trained for settings the position had since the request came in.
THEOREM AnswersAlwaysCurrent == Spec => []AnswersAreCurrent
<1>1. Init => AnswerInv
  BY DEF Init, AnswerInv, AnswerOf, SeenIsCurrent, StockStays, FetchedWasSeen, HandsAreDone,
     Recommending, Running, At, InLock, Idle
<1>2. TypeInv /\ AnswerInv => AnswersAreCurrent
  <2> SUFFICES ASSUME TypeInv, AnswerInv, NEW r \in Requests, At(r, "answer"), NEW p \in req[r].stock
               PROVE  p \in DOMAIN req[r].policies /\ req[r].policies[p] \in seen[r][p]
    BY DEF AnswersAreCurrent
  <2>1. AnswerOf(r) /\ Recommending(r) /\ req[r].todo = {}
    BY RequestShape DEF AnswerInv, TypeInv, WorkLeft, Consistent, At, Recommending
  <2>2. p \in DOMAIN req[r].items /\ req[r].items[p] \in seen[r][p] /\ HoldsDone(r)
    BY <2>1 DEF AnswerOf, FetchedWasSeen, HandsAreDone, At
  <2>3. QED
    BY <2>1, <2>2 DEF HoldsDone, Done
<1>3. QED
  BY <1>1, <1>2, AnswerStep, TypeInvHolds, PTL DEF Spec

-----------------------------------------------------------------------------
(* The file keeps the training.                                            *)

\* A step that neither touches the file nor moves anyone inside.
LEMMA FileUntouched ==
  ASSUME FileInv, UNCHANGED <<file, trained>>,
         \A q \in Requests : req'[q] = req[q] \/ (~ InLock(q) /\ ~ InLock(q)')
  PROVE  FileInv'
<1>1. \A q \in Requests : (InLock(q)' <=> InLock(q)) /\ (At(q, "saving")' <=> At(q, "saving"))
  BY DEF InLock, At
<1>2. \A q \in Requests : InLock(q) => req'[q] = req[q]
  OBVIOUS
<1>3. FileKeepsTraining' /\ OneTrains'
  BY <1>1 DEF FileInv, FileKeepsTraining, OneTrains
<1>4. HandsKeepFile'
  BY <1>1, <1>2 DEF FileInv, HandsKeepFile, Done
<1>5. QED
  BY <1>3, <1>4 DEF FileInv

\* Once trainings have overlapped the file promises nothing.
LEMMA FileTorn == ASSUME ~ trained'.whole PROVE FileInv'
BY DEF FileInv, FileKeepsTraining, OneTrains, HandsKeepFile

\* The steps outside the locks.
LEMMA OutsideFile ==
  ASSUME TypeInv, FileInv, NEW r \in Requests, UNCHANGED <<file, trained>>,
         ~ InLock(r), ~ InLock(r)', \A q \in Requests \ {r} : req'[q] = req[q]
  PROVE  FileInv'
BY FileUntouched

\* A request that comes in, reads or fetches is outside the lock.
LEMMA EarlyFile ==
  ASSUME TypeInv, FileInv, NEW r \in Requests,
         (\E kind \in {"train", "recommend"} : Ask(r, kind)) \/ ReadStock(r) \/ Fetch(r)
  PROVE  FileInv'
<1>1. ~ InLock(r)
  BY DEF Ask, ReadStock, Fetch, InLock, At
<1>2. /\ req'[r].pc \in {"stock", "fetch", "waiting"}
      /\ \A q \in Requests \ {r} : req'[q] = req[q]
      /\ UNCHANGED <<file, trained>>
  <2>1. CASE \E kind \in {"train", "recommend"} : Ask(r, kind)
    BY <2>1 DEF Ask, TypeInv, TypeOK
  <2>2. CASE ReadStock(r) \/ Fetch(r)
    <3>1. req[r] \in Request /\ req \in [Requests -> Request \cup {Idle, Ended}]
      BY <2>2, RequestShape DEF ReadStock, Fetch, At, TypeInv, TypeOK
    <3>2. CASE ReadStock(r)
      <4>1. req'[r] = [req[r] EXCEPT !.stock = DOMAIN Inventory, !.pc = "fetch"]
        BY <3>1, <3>2 DEF ReadStock
      <4>2. req'[r].pc = "fetch"
        BY <3>1, <4>1 DEF Request
      <4>3. QED
        BY <3>1, <3>2, <4>2 DEF ReadStock
    <3>3. CASE Fetch(r)
      <4>1. req'[r] = [req[r] EXCEPT !.items = Inventory, !.pc = "waiting"]
        BY <3>1, <3>3 DEF Fetch
      <4>2. req'[r].pc = "waiting"
        BY <3>1, <4>1 DEF Request
      <4>3. QED
        BY <3>1, <3>3, <4>2 DEF Fetch
    <3>4. QED
      BY <2>2, <3>2, <3>3
  <2>3. QED
    BY <2>1, <2>2
<1>3. ~ InLock(r)'
  BY <1>2 DEF InLock, At
<1>4. QED
  BY <1>1, <1>2, <1>3, OutsideFile

\* Nor does a request that ends outside the lock touch the file.
LEMMA EndFile ==
  ASSUME TypeInv, FileInv, NEW r \in Requests, FetchFails(r) \/ LoadFails(r) \/ Answer(r)
  PROVE  FileInv'
<1>1. End({r}) /\ ~ InLock(r) /\ UNCHANGED file
  BY DEF FetchFails, LoadFails, Answer, CanLoad, InLock, At
<1>2. ~ InLock(r)' /\ \A q \in Requests \ {r} : req'[q] = req[q]
  BY <1>1, OneEnds
<1>3. trained' = trained \/ ~ trained'.whole
  BY TornType DEF FetchFails, LoadFails, Answer
<1>4. QED
  BY <1>1, <1>2, <1>3, OutsideFile, FileTorn

\* Who loads alone takes over the file.
LEMMA LoadFile ==
  ASSUME TypeInv, FileInv, NEW r \in Requests, Load(r)
  PROVE  FileInv'
<1>1. CASE Overlaps(r)
  BY <1>1, TornType, FileTorn DEF Load
<1>2. CASE ~ Overlaps(r)
  <2>1. SUFFICES ASSUME trained.whole PROVE FileInv'
    BY <1>2, FileTorn DEF Load
  <2> DEFINE todo == IF req[r].kind = "recommend" THEN Stale(file.policies, req[r].items)
                                                  ELSE DOMAIN req[r].items
  <2>2. Running(r) /\ req[r] \in Request /\ At(r, "waiting") /\ HasLock(r)
    BY RequestShape DEF Load, CanLoad, At, TypeInv
  <2>3. \A q \in Requests : ~ InLock(q)
    <3> SUFFICES ASSUME NEW q \in Requests, InLock(q) PROVE FALSE
      OBVIOUS
    <3>1. q \in Holders(ServedBy[q]) /\ ServedBy[q] \in Processes
      BY ReplenishmentConstants DEF Holders, InLock, At
    <3>2. ServedBy[q] = ServedBy[r]
      BY <1>2, <3>1 DEF Overlaps
    <3>3. q = r
      BY <2>2, <3>2, OneInside DEF TypeInv
    <3>4. QED
      BY <2>2, <3>3 DEF InLock, At
  <2>4. file = trained
    BY <2>1, <2>3 DEF FileInv, FileKeepsTraining, InLock
  <2>5. /\ req'[r] = [req[r] EXCEPT !.pc = "locked", !.policies = file.policies, !.todo = todo]
        /\ \A q \in Requests \ {r} : req'[q] = req[q]
    BY DEF Load, TypeInv, TypeOK
  <2>6. \A p \in DOMAIN req[r].items \ todo : p \in DOMAIN file.policies
    BY DEF Stale
  <2> HIDE DEF todo
  <2>7. /\ req'[r].pc = "locked" /\ req'[r].items = req[r].items
        /\ req'[r].policies = file.policies /\ req'[r].todo = todo
    BY <2>2, <2>5 DEF Request
  <2>8. \A q \in Requests : ~ At(q, "saving")' /\ (InLock(q)' => q = r)
    BY <2>3, <2>5, <2>7 DEF InLock, At
  <2>9. file' = file /\ trained' = trained
    BY <1>2 DEF Load
  <2>10. FileKeepsTraining' /\ OneTrains'
    BY <2>4, <2>8, <2>9 DEF FileKeepsTraining, OneTrains
  <2>11. HandsKeepFile'
    <3>1. Done(r)' \subseteq DOMAIN trained.policies
      BY <2>4, <2>6, <2>7 DEF Done
    <3>2. QED
      BY <2>4, <2>7, <2>8, <2>9, <3>1 DEF HandsKeepFile
  <2>12. QED
    BY <2>10, <2>11 DEF FileInv
<1>3. QED
  BY <1>1, <1>2

\* Training changes the hands where it trains, and nothing else.
LEMMA TrainFile ==
  ASSUME TypeInv, FileInv, NEW r \in Requests, Train(r)
  PROVE  FileInv'
<1>1. Running(r) /\ req[r] \in Request /\ At(r, "locked")
  BY RequestShape DEF Train, At, TypeInv
<1>2. PICK p \in req[r].todo :
        LET trainedNow == [q \in {p} |-> req[r].items[q]] IN
        /\ trainedNow \in Policies
        /\ req' = [req EXCEPT ![r] = [req[r] EXCEPT
              !.policies = Updated(req[r].policies, trainedNow), !.todo = req[r].todo \ {p}]]
  BY TrainType
<1> DEFINE trainedNow == [q \in {p} |-> req[r].items[q]]
           policies == Updated(req[r].policies, trainedNow)
<1>3. DOMAIN trainedNow = {p}
  OBVIOUS
<1>4. /\ DOMAIN policies = DOMAIN req[r].policies \cup {p}
      /\ \A q \in DOMAIN req[r].policies \ {p} : policies[q] = req[r].policies[q]
  <2>1. trainedNow \in Policies /\ req[r].policies \in Policies
    BY <1>1, <1>2 DEF Request
  <2> HIDE DEF trainedNow
  <2>2. /\ DOMAIN policies = DOMAIN req[r].policies \cup DOMAIN trainedNow
        /\ \A q \in DOMAIN req[r].policies \ DOMAIN trainedNow : policies[q] = req[r].policies[q]
    BY <2>1, UpdatedType
  <2> HIDE DEF policies
  <2>3. QED
    BY <1>3, <2>2
<1>5. /\ req'[r] = [req[r] EXCEPT !.policies = policies, !.todo = req[r].todo \ {p}]
      /\ \A q \in Requests \ {r} : req'[q] = req[q]
  BY <1>2 DEF TypeInv, TypeOK
<1> HIDE DEF policies, trainedNow
<1>6. /\ req'[r].pc = "locked" /\ req'[r].items = req[r].items /\ req'[r].policies = policies
      /\ req'[r].todo = req[r].todo \ {p}
  BY <1>1, <1>5 DEF Request, At
<1>7. p \in DOMAIN req[r].items
  BY <1>1 DEF TypeInv, WorkLeft, Consistent, At
<1>8. Done(r)' = Done(r) \cup {p}
  BY <1>6, <1>7 DEF Done
<1>9. \A q \in Requests : (InLock(q)' <=> InLock(q)) /\ (At(q, "saving")' <=> At(q, "saving"))
  BY <1>1, <1>5, <1>6 DEF InLock, At
<1>10. UNCHANGED <<file, trained>>
  BY DEF Train
<1>11. FileKeepsTraining' /\ OneTrains'
  BY <1>9, <1>10 DEF FileInv, FileKeepsTraining, OneTrains
<1>12. HandsKeepFile'
  <2> SUFFICES ASSUME trained.whole, NEW q \in Requests, InLock(q)
               PROVE  /\ DOMAIN req'[q].policies = Done(q)' \cup DOMAIN trained.policies
                      /\ \A o \in DOMAIN trained.policies \ Done(q)' :
                           req'[q].policies[o] = trained.policies[o]
    BY <1>9, <1>10 DEF HandsKeepFile
  <2>1. q = r
    BY <1>1 DEF FileInv, OneTrains, InLock
  <2>2. /\ DOMAIN req[r].policies = Done(r) \cup DOMAIN trained.policies
        /\ \A o \in DOMAIN trained.policies \ Done(r) : req[r].policies[o] = trained.policies[o]
    BY <2>1 DEF FileInv, HandsKeepFile
  <2>3. QED
    BY <1>4, <1>6, <1>8, <2>1, <2>2
<1>13. QED
  BY <1>11, <1>12 DEF FileInv

\* While the file is written it is unreadable.
LEMMA BeginSaveFile ==
  ASSUME TypeInv, FileInv, NEW r \in Requests, BeginSave(r)
  PROVE  FileInv'
<1>1. Running(r) /\ req[r] \in Request /\ At(r, "locked")
  BY RequestShape DEF BeginSave, At, TypeInv
<1>2. /\ req'[r] = [req[r] EXCEPT !.pc = "saving"]
      /\ \A q \in Requests \ {r} : req'[q] = req[q]
  BY DEF BeginSave, TypeInv, TypeOK
<1>3. /\ req'[r].pc = "saving" /\ req'[r].items = req[r].items
      /\ req'[r].policies = req[r].policies /\ req'[r].todo = req[r].todo
  BY <1>1, <1>2 DEF Request
<1>4. \A q \in Requests : InLock(q)' <=> InLock(q)
  BY <1>1, <1>2, <1>3 DEF InLock, At
<1>5. file' = Torn /\ trained' = trained
  BY DEF BeginSave
<1>6. FileKeepsTraining' /\ OneTrains'
  BY <1>3, <1>4, <1>5 DEF FileInv, FileKeepsTraining, OneTrains, At
<1>7. \A q \in Requests : Done(q)' = Done(q) /\ req'[q].policies = req[q].policies
  BY <1>2, <1>3 DEF Done
<1>8. HandsKeepFile'
  BY <1>4, <1>5, <1>7 DEF FileInv, HandsKeepFile
<1>9. QED
  BY <1>6, <1>8 DEF FileInv

\* Alone in its lock, a request saves what it trained over what it loaded.
LEMMA EndSaveFile ==
  ASSUME TypeInv, AnswerInv, FileInv, NEW r \in Requests, EndSave(r)
  PROVE  FileInv'
<1>1. SUFFICES ASSUME trained.whole PROVE FileInv'
  BY FileTorn, TornType DEF EndSave
<1>2. Running(r) /\ req[r] \in Request /\ At(r, "saving") /\ InLock(r) /\ req[r].todo = {}
  BY RequestShape DEF EndSave, At, TypeInv, InLock, WorkLeft, Consistent
<1>3. file = Torn
  BY <1>1, <1>2 DEF FileInv, FileKeepsTraining
<1>4. file' = Whole(req[r].policies)
  BY <1>3, TornType DEF EndSave
<1>5. req[r].policies = Updated(trained.policies, req[r].items)
  <2>1. Done(r) = DOMAIN req[r].items
    BY <1>2 DEF Done
  <2>2. /\ DOMAIN req[r].policies = DOMAIN req[r].items \cup DOMAIN trained.policies
        /\ \A p \in DOMAIN trained.policies \ DOMAIN req[r].items :
             req[r].policies[p] = trained.policies[p]
    BY <1>1, <1>2, <2>1 DEF FileInv, HandsKeepFile
  <2>3. \A p \in DOMAIN req[r].items : req[r].policies[p] = req[r].items[p]
    BY <1>2, <2>1 DEF AnswerInv, AnswerOf, HandsAreDone, HoldsDone
  <2>4. req[r].policies = [p \in DOMAIN req[r].policies |-> req[r].policies[p]]
    BY <1>2, PoliciesAreFunctions DEF Request
  <2>5. QED
    BY <2>2, <2>3, <2>4 DEF Updated
<1>6. trained' = Whole(req[r].policies)
  BY <1>1, <1>5 DEF EndSave
<1>7. \A q \in Requests : ~ InLock(q)'
  <2>1. ~ InLock(r)' /\ \A q \in Requests \ {r} : req'[q] = req[q]
    <3>1. CASE req[r].kind = "recommend"
      <4>1. req' = [req EXCEPT ![r].pc = "answer"]
        BY <3>1 DEF EndSave
      <4>2. req'[r].pc = "answer"
        BY <1>2, <4>1 DEF TypeInv, TypeOK, Request
      <4>3. QED
        BY <4>1, <4>2 DEF InLock, At, TypeInv, TypeOK
    <3>2. CASE req[r].kind # "recommend"
      BY <3>2, OneEnds DEF EndSave
    <3>3. QED
      BY <3>1, <3>2
  <2>2. \A q \in Requests : InLock(q) => q = r
    BY <1>1, <1>2 DEF FileInv, OneTrains
  <2>3. QED
    BY <2>1, <2>2 DEF InLock, At
<1>8. \A q \in Requests : ~ At(q, "saving")'
  BY <1>7 DEF InLock
<1>9. QED
  BY <1>4, <1>6, <1>7, <1>8 DEF FileInv, FileKeepsTraining, OneTrains, HandsKeepFile

\* A crash outside the lock leaves the file alone.
LEMMA CrashFile ==
  ASSUME TypeInv, FileInv, NEW proc \in Processes, Crash(proc)
  PROVE  FileInv'
<1>1. CASE Holders(proc) # {}
  BY <1>1, TornType, FileTorn DEF Crash
<1>2. CASE Holders(proc) = {}
  <2>1. UNCHANGED <<file, trained>>
    BY <1>2 DEF Crash
  <2>2. ASSUME NEW q \in Requests PROVE req'[q] = req[q] \/ (~ InLock(q) /\ ~ InLock(q)')
    <3>1. CASE ServedBy[q] = proc /\ Running(q)
      <4>1. ~ InLock(q)
        BY <1>2, <3>1 DEF Holders, InLock, At
      <4>2. req'[q] = Ended
        BY <3>1, CrashType
      <4>3. QED
        BY <4>1, <4>2 DEF InLock, At, Ended
    <3>2. CASE ~ (ServedBy[q] = proc /\ Running(q))
      BY <3>2, CrashType
    <3>3. QED
      BY <3>1, <3>2
  <2>3. QED
    BY <2>1, <2>2, FileUntouched
<1>3. QED
  BY <1>1, <1>2

\* Every step keeps the file and the hands in agreement.
LEMMA FileStep == ASSUME TypeInv, AnswerInv, FileInv, [Next]_vars PROVE FileInv'
<1>1. CASE \E r \in Requests, kind \in {"train", "recommend"} : Ask(r, kind)
  BY <1>1, EarlyFile
<1>2. ASSUME NEW r \in Requests, Step(r) PROVE FileInv'
  BY <1>2, EarlyFile, EndFile, LoadFile, TrainFile, BeginSaveFile, EndSaveFile DEF Step
<1>3. CASE \E p \in Positions, c \in Configs : Change(p, c)
  BY <1>3, FileUntouched DEF Change
<1>4. CASE \E proc \in Processes : Crash(proc)
  BY <1>4, CrashFile
<1>5. CASE UNCHANGED vars
  BY <1>5, FileUntouched DEF vars
<1>6. QED
  BY <1>1, <1>2, <1>3, <1>4, <1>5 DEF Next

\* Recommendations stay current, and the file agrees with the hands.
LEMMA AllInvHold == Spec => [](TypeInv /\ AnswerInv /\ FileInv)
<1>1. Init => AnswerInv /\ FileInv
  <2> SUFFICES ASSUME Init PROVE AnswerInv /\ FileInv
    OBVIOUS
  <2>1. \A r \in Requests : req[r] = Idle /\ ~ At(r, "saving") /\ ~ InLock(r)
    BY DEF Init, At, InLock, Idle
  <2>2. AnswerInv
    BY <2>1 DEF AnswerInv, AnswerOf, SeenIsCurrent, StockStays, FetchedWasSeen, HandsAreDone,
       Recommending, Running, At, InLock, Idle
  <2>3. FileInv
    BY <2>1 DEF Init, FileInv, FileKeepsTraining, OneTrains, HandsKeepFile
  <2>4. QED
    BY <2>2, <2>3
<1>2. QED
  BY <1>1, InitType, TypeStep, AnswerStep, FileStep, PTL DEF Spec

\* While no two processes are between load and save at a time and none dies
\* there, the policy file is at every moment what the finished trainings make
\* of it, and unreadable only while it is being written.
THEOREM FileAlwaysKeepsTraining == Spec => []FileKeepsTraining
<1>1. FileInv => FileKeepsTraining
  BY DEF FileInv
<1>2. QED
  BY <1>1, AllInvHold, PTL

-----------------------------------------------------------------------------
(* Induction.                                                              *)

\* Induction over the naturals: a set that holds 0 and each successor holds all.
LEMMA SetInduction ==
  ASSUME NEW S, 0 \in S, \A n \in Nat : n \in S => n + 1 \in S
  PROVE  Nat \subseteq S
<1>1. SUFFICES ASSUME Nat \ S # {} PROVE FALSE
  OBVIOUS
<1>2. IsWellFoundedOn(OpToRel(<, Nat), Nat)
  BY NatLessThanWellFounded
<1>3. PICK x \in Nat \ S : \A y \in Nat \ S : ~ (<<y, x>> \in OpToRel(<, Nat))
  <2> HIDE DEF OpToRel
  <2>1. QED
    BY <1>1, <1>2, WFMin
<1>4. \A y \in Nat : y < x => <<y, x>> \in OpToRel(<, Nat)
  BY DEF OpToRel
<1>5. x # 0
  OBVIOUS
<1>6. x - 1 \in Nat /\ x - 1 < x
  BY <1>5
<1>7. x - 1 \in S
  BY <1>3, <1>4, <1>6
<1>8. QED
  BY <1>7, <1>6

-----------------------------------------------------------------------------
(* Sums over finite sets.                                                  *)

\* Induction over the subsets of a finite set, by strict inclusion.
LEMMA SubsetInduction ==
  ASSUME NEW S, IsFiniteSet(S), NEW C,
         \A T \in SUBSET S : (\A U \in SUBSET T : U # T => U \in C) => T \in C
  PROVE  \A T \in SUBSET S : T \in C
<1>1. SUFFICES ASSUME (SUBSET S) \ C # {} PROVE FALSE
  OBVIOUS
<1>2. IsWellFoundedOn(StrictSubsetOrdering(S), SUBSET S)
  BY FS_StrictSubsetOrderingWellFounded, FS_FiniteSubsetsOfFinite
<1>3. PICK x \in (SUBSET S) \ C : \A y \in (SUBSET S) \ C : ~ (<<y, x>> \in StrictSubsetOrdering(S))
  <2> DEFINE D == SUBSET S
             R == StrictSubsetOrdering(S)
             B == D \ C
  <2>1. IsWellFoundedOn(R, D) /\ B \subseteq D /\ B # {}
    BY <1>1, <1>2
  <2> HIDE DEF R, D, B
  <2>2. \E x \in B : \A y \in B : ~ (<<y, x>> \in R)
    BY <2>1, WFMin
  <2>3. QED
    BY <2>2 DEF R, D, B
<1>4. ASSUME NEW U \in SUBSET x, U # x PROVE U \in C
  <2>1. U \in SUBSET S /\ <<U, x>> \in StrictSubsetOrdering(S)
    BY <1>3, <1>4 DEF StrictSubsetOrdering
  <2>2. QED
    BY <1>3, <2>1
<1>5. QED
  BY <1>3, <1>4

\* The sum of w over a set of indices.
Total(w, S) == SumFunctionOnSet(w, S)

Anyone(T) == CHOOSE x \in T : TRUE

\* g gives each subset of S its total, one index after the other.
Totaled(g, w, S) ==
  g = [T \in SUBSET S |-> IF T = {} THEN 0 ELSE w[Anyone(T)] + g[T \ {Anyone(T)}]]

\* Functions that agree on a set, and that have numbers on it.
SameOn(w, v, S) == \A x \in S : w[x] = v[x]
NumbersOn(w, S) == \A x \in S : w[x] \in Nat

\* The total is one of these.
LEMMA TotalIsOne ==
  ASSUME NEW S, NEW w, \E g : Totaled(g, w, S)
  PROVE  \E g : Totaled(g, w, S) /\ Total(w, S) = g[S]
<1> DEFINE g == CHOOSE g : g = [T \in SUBSET S |-> IF T = {} THEN 0
                          ELSE w[CHOOSE x \in T : TRUE] + g[T \ {CHOOSE x \in T : TRUE}]]
<1>1. Total(w, S) = g[S]
  BY DEF Total, SumFunctionOnSet, FoldFunctionOnSet, MapThenFoldSet
<1>2. Totaled(g, w, S)
  BY DEF Totaled, Anyone
<1>3. QED
  BY <1>1, <1>2

\* Two totals agree on the sets that both know, where they add the same.
LEMMA TotalsAgree ==
  ASSUME NEW S, IsFiniteSet(S), NEW R \in SUBSET S, NEW w, NEW v, SameOn(w, v, R),
         NEW g, NEW h, Totaled(g, w, S), Totaled(h, v, R)
  PROVE  \A T \in SUBSET R : g[T] = h[T]
<1> DEFINE C == {T \in SUBSET R : g[T] = h[T]}
<1>1. ASSUME NEW T \in SUBSET R, \A U \in SUBSET T : U # T => U \in C PROVE T \in C
  <2>1. CASE T = {}
    BY <2>1 DEF Totaled
  <2>2. CASE T # {}
    <3>1. Anyone(T) \in T
      BY <2>2 DEF Anyone
    <3>2. T \ {Anyone(T)} \in C
      BY <1>1, <3>1
    <3>3. T \in SUBSET S
      OBVIOUS
    <3>4. g[T] = w[Anyone(T)] + g[T \ {Anyone(T)}]
      BY <2>2, <3>3 DEF Totaled
    <3>5. h[T] = v[Anyone(T)] + h[T \ {Anyone(T)}]
      BY <2>2 DEF Totaled
    <3>6. QED
      BY <3>1, <3>2, <3>4, <3>5 DEF SameOn
  <2>3. QED
    BY <2>1, <2>2
<1>2. IsFiniteSet(R)
  BY FS_Subset
<1>3. \A T \in SUBSET R : T \in C
  <2> HIDE DEF C
  <2>1. QED
    BY <1>1, <1>2, SubsetInduction
<1>4. QED
  BY <1>3

\* For a finite set there is one.
LEMMA TotalsExist ==
  ASSUME NEW S, IsFiniteSet(S), NEW w PROVE \E g : Totaled(g, w, S)
<1> DEFINE C == {R \in SUBSET S : \E g : Totaled(g, w, R)}
<1>1. ASSUME NEW R \in SUBSET S, \A U \in SUBSET R : U # R => U \in C PROVE R \in C
  <2>0. IsFiniteSet(R)
    BY FS_Subset
  <2>1. CASE R = {}
    <3> DEFINE g == [T \in SUBSET {} |-> 0]
    <3>1. Totaled(g, w, {})
      BY DEF Totaled
    <3>2. QED
      BY <2>1, <3>1
  <2>2. CASE R # {}
    <3> DEFINE of == [U \in SUBSET R |-> CHOOSE g : Totaled(g, w, U)]
               h == [T \in SUBSET R |-> IF T = {} THEN 0
                       ELSE w[Anyone(T)] + of[T \ {Anyone(T)}][T \ {Anyone(T)}]]
    <3>1. ASSUME NEW U \in SUBSET R, U # R PROVE Totaled(of[U], w, U)
      BY <1>1, <3>1
    <3>2. ASSUME NEW U \in SUBSET R, U # R PROVE of[U][U] = h[U]
      <4>1. Totaled(of[U], w, U)
        BY <3>1, <3>2
      <4>2. CASE U = {}
        BY <4>1, <4>2 DEF Totaled
      <4>3. CASE U # {}
        <5>1. Anyone(U) \in U
          BY <4>3 DEF Anyone
        <5> DEFINE V == U \ {Anyone(U)}
        <5>2. V \in SUBSET U /\ V \in SUBSET R /\ V # R
          BY <3>2, <5>1
        <5>3. of[U][U] = w[Anyone(U)] + of[U][V]
          BY <4>1, <4>3 DEF Totaled
        <5>4. Totaled(of[V], w, V)
          BY <3>1, <5>2
        <5>5. IsFiniteSet(U)
          BY <2>0, FS_Subset
        <5>6. of[U][V] = of[V][V]
          <6> HIDE DEF of, V
          <6>1. V \in SUBSET V /\ SameOn(w, w, V)
            BY DEF SameOn
          <6>2. QED
            BY ONLY <4>1, <5>2, <5>4, <5>5, <6>1, TotalsAgree
        <5>7. h[U] = w[Anyone(U)] + of[V][V]
          BY <4>3
        <5>8. QED
          BY <5>3, <5>6, <5>7
      <4>4. QED
        BY <4>2, <4>3
    <3>3. ASSUME NEW T \in SUBSET R
          PROVE  h[T] = IF T = {} THEN 0 ELSE w[Anyone(T)] + h[T \ {Anyone(T)}]
      <4>1. CASE T = {}
        BY <4>1
      <4>2. CASE T # {}
        <5>1. Anyone(T) \in T
          BY <4>2 DEF Anyone
        <5> DEFINE V == T \ {Anyone(T)}
        <5>2. V \in SUBSET R /\ V # R
          BY <5>1
        <5>3. of[V][V] = h[V]
          <6> HIDE DEF of, h, V
          <6>1. QED
            BY <3>2, <5>2
        <5>4. h[T] = w[Anyone(T)] + of[V][V]
          BY <4>2
        <5>5. QED
          BY <4>2, <5>3, <5>4
      <4>3. QED
        BY <4>1, <4>2
    <3>4. h = [T \in SUBSET R |-> h[T]]
      OBVIOUS
    <3>5. Totaled(h, w, R)
      <4> HIDE DEF h
      <4>1. QED
        BY <3>3, <3>4 DEF Totaled
    <3>6. QED
      BY <3>5
  <2>3. QED
    BY <2>1, <2>2
<1>2. \A R \in SUBSET S : R \in C
  <2> HIDE DEF C
  <2>1. QED
    BY <1>1, SubsetInduction
<1>3. QED
  BY <1>2

\* A total of numbers is a number, and any of its indices can be taken off first.
LEMMA AnyFirst ==
  ASSUME NEW S, IsFiniteSet(S), NEW w, NumbersOn(w, S), NEW g, Totaled(g, w, S)
  PROVE  \A T \in SUBSET S : g[T] \in Nat /\ \A x \in T : g[T] = w[x] + g[T \ {x}]
<1> DEFINE C == {T \in SUBSET S : g[T] \in Nat /\ \A x \in T : g[T] = w[x] + g[T \ {x}]}
<1>1. ASSUME NEW T \in SUBSET S, \A U \in SUBSET T : U # T => U \in C PROVE T \in C
  <2>1. CASE T = {}
    BY <2>1 DEF Totaled
  <2>2. CASE T # {}
    <3> DEFINE c == Anyone(T)
               V == T \ {c}
    <3>1. c \in T
      BY <2>2 DEF Anyone
    <3>2. g[T] = w[c] + g[V]
      BY <2>2 DEF Totaled
    <3>3. V \in C
      BY <1>1, <3>1
    <3>4. w[c] \in Nat
      BY <3>1 DEF NumbersOn
    <3> HIDE DEF c
    <3>5. g[T] \in Nat
      BY <3>2, <3>3, <3>4
    <3>6. ASSUME NEW x \in T PROVE g[T] = w[x] + g[T \ {x}]
      <4>1. CASE x = c
        BY <3>2, <4>1
      <4>2. CASE x # c
        <5> DEFINE W == T \ {x}
                   Z == T \ {x, c}
        <5>1. x \in V /\ c \in W /\ V \ {x} = Z /\ W \ {c} = Z
          BY <3>1, <4>2
        <5>2. g[V] = w[x] + g[Z]
          BY <3>3, <5>1
        <5>3. W \in C /\ Z \in C
          BY <1>1, <3>1
        <5>4. g[W] = w[c] + g[Z]
          BY <5>1, <5>3
        <5>5. w[x] \in Nat /\ g[Z] \in Nat
          BY <5>3 DEF NumbersOn
        <5> HIDE DEF V, W, Z
        <5>6. g[T] = w[x] + g[W]
          BY <3>2, <3>4, <5>2, <5>4, <5>5
        <5>7. QED
          BY <5>6 DEF W
      <4>3. QED
        BY <4>1, <4>2
    <3>7. QED
      BY <3>5, <3>6
  <2>3. QED
    BY <2>1, <2>2
<1>2. \A T \in SUBSET S : T \in C
  <2> HIDE DEF C
  <2>1. QED
    BY <1>1, SubsetInduction
<1>3. QED
  BY <1>2

\* A total depends on what is added only.
LEMMA TotalSame ==
  ASSUME NEW S, IsFiniteSet(S), NEW w, NEW v, SameOn(w, v, S)
  PROVE  Total(w, S) = Total(v, S)
<1>1. PICK g : Totaled(g, w, S) /\ Total(w, S) = g[S]
  BY TotalsExist, TotalIsOne
<1>2. PICK h : Totaled(h, v, S) /\ Total(v, S) = h[S]
  BY TotalsExist, TotalIsOne
<1>3. S \in SUBSET S
  OBVIOUS
<1>4. g[S] = h[S]
  BY <1>1, <1>2, <1>3, TotalsAgree
<1>5. QED
  BY <1>1, <1>2, <1>4

\* Totals of numbers: nothing, and one index more.
LEMMA TotalOfMore ==
  ASSUME NEW S, IsFiniteSet(S), NEW w, NumbersOn(w, S)
  PROVE  /\ Total(w, S) \in Nat
         /\ S = {} => Total(w, S) = 0
         /\ \A x \in S : Total(w, S) = w[x] + Total(w, S \ {x})
<1>1. PICK g : Totaled(g, w, S) /\ Total(w, S) = g[S]
  BY TotalsExist, TotalIsOne
<1>2. \A T \in SUBSET S : g[T] \in Nat /\ \A x \in T : g[T] = w[x] + g[T \ {x}]
  BY <1>1, AnyFirst
<1>3. S = {} => g[S] = 0
  BY <1>1 DEF Totaled
<1>4. ASSUME NEW x \in S PROVE g[S \ {x}] = Total(w, S \ {x})
  <2> DEFINE R == S \ {x}
  <2>1. R \in SUBSET S /\ R \in SUBSET R
    OBVIOUS
  <2>2. IsFiniteSet(R)
    BY FS_Subset
  <2> HIDE DEF R
  <2>3. PICK h : Totaled(h, w, R) /\ Total(w, R) = h[R]
    BY <2>2, TotalsExist, TotalIsOne
  <2>4. g[R] = h[R]
    <3>1. SameOn(w, w, R)
      BY DEF SameOn
    <3>2. QED
      BY <1>1, <2>1, <2>3, <3>1, TotalsAgree
  <2>5. QED
    BY <2>3, <2>4 DEF R
<1>5. S \in SUBSET S
  OBVIOUS
<1>6. QED
  BY <1>1, <1>2, <1>3, <1>4, <1>5

\* A total splits.
LEMMA TotalSplits ==
  ASSUME NEW S, IsFiniteSet(S), NEW w, NumbersOn(w, S), NEW R \in SUBSET S
  PROVE  Total(w, S) = Total(w, R) + Total(w, S \ R)
<1> DEFINE C == {T \in SUBSET S : Total(w, T) = Total(w, R \cap T) + Total(w, T \ R)}
<1>1. ASSUME NEW T \in SUBSET S, \A U \in SUBSET T : U # T => U \in C PROVE T \in C
  <2>1. IsFiniteSet(T) /\ IsFiniteSet(R \cap T) /\ IsFiniteSet(T \ R)
    <3>1. T \in SUBSET S /\ R \cap T \in SUBSET S /\ T \ R \in SUBSET S
      OBVIOUS
    <3>2. QED
      BY <3>1, FS_Subset
  <2>2. NumbersOn(w, T) /\ NumbersOn(w, R \cap T) /\ NumbersOn(w, T \ R)
    BY DEF NumbersOn
  <2>3. CASE T = {}
    <3>1. R \cap T = {} /\ T \ R = {}
      BY <2>3
    <3>2. Total(w, T) = 0 /\ Total(w, R \cap T) = 0 /\ Total(w, T \ R) = 0
      BY <2>1, <2>2, <2>3, <3>1, TotalOfMore
    <3>3. QED
      BY <3>2
  <2>4. CASE T # {}
    <3>1. PICK x \in T : TRUE
      BY <2>4
    <3> DEFINE V == T \ {x}
    <3>2. V \in C
      BY <1>1
    <3>3. Total(w, T) = w[x] + Total(w, V)
      BY <2>1, <2>2, TotalOfMore
    <3>4. CASE x \in R
      <4>1. (R \cap T) \ {x} = R \cap V /\ V \ R = T \ R
        BY <3>4
      <4>2. Total(w, R \cap T) = w[x] + Total(w, (R \cap T) \ {x})
        BY <2>1, <2>2, <3>4, TotalOfMore
      <4>3. w[x] \in Nat /\ Total(w, T \ R) \in Nat
        BY <2>1, <2>2, TotalOfMore DEF NumbersOn
      <4>4. Total(w, R \cap V) \in Nat
        <5>1. R \cap V \in SUBSET S
          OBVIOUS
        <5>2. IsFiniteSet(R \cap V) /\ NumbersOn(w, R \cap V)
          BY <5>1, FS_Subset DEF NumbersOn
        <5>3. QED
          BY <5>2, TotalOfMore
      <4>5. QED
        BY <3>2, <3>3, <4>1, <4>2, <4>3, <4>4
    <3>5. CASE x \notin R
      <4>1. R \cap V = R \cap T /\ (T \ R) \ {x} = V \ R
        BY <3>5
      <4>2. Total(w, T \ R) = w[x] + Total(w, (T \ R) \ {x})
        BY <2>1, <2>2, <3>5, TotalOfMore
      <4>3. w[x] \in Nat /\ Total(w, R \cap T) \in Nat
        BY <2>1, <2>2, TotalOfMore DEF NumbersOn
      <4>4. Total(w, V \ R) \in Nat
        <5>1. V \ R \in SUBSET S
          OBVIOUS
        <5>2. IsFiniteSet(V \ R) /\ NumbersOn(w, V \ R)
          BY <5>1, FS_Subset DEF NumbersOn
        <5>3. QED
          BY <5>2, TotalOfMore
      <4>5. Total(w, V) = Total(w, R \cap V) + Total(w, V \ R)
        BY <3>2
      <4> HIDE DEF V
      <4>6. Total(w, T) = Total(w, R \cap T) + Total(w, T \ R)
        <5>1. Total(w, R \cap V) = Total(w, R \cap T)
          BY <4>1, Zenon
        <5>2. Total(w, (T \ R) \ {x}) = Total(w, V \ R)
          BY <4>1, Zenon
        <5>3. QED
          BY <3>3, <4>2, <4>3, <4>4, <4>5, <5>1, <5>2
      <4>7. QED
        BY <4>6
    <3>6. QED
      BY <3>4, <3>5
  <2>5. QED
    BY <2>3, <2>4
<1>2. \A T \in SUBSET S : T \in C
  <2> HIDE DEF C
  <2>1. QED
    BY <1>1, SubsetInduction
<1>3. S \in C /\ R \cap S = R
  BY <1>2
<1>4. QED
  BY <1>3

-----------------------------------------------------------------------------
(* The two simulators.                                                     *)

Order == [placed : Int, day : Nat, quantity : Nat]

\* The smaller and the larger of two numbers.
LEMMA MinOfTwo ==
  ASSUME NEW a \in Nat, NEW b \in Nat
  PROVE  /\ Min({a, b}) \in Nat /\ Min({a, b}) <= a /\ Min({a, b}) <= b
         /\ a <= b => Min({a, b}) = a
<1>1. \E x \in {a, b} : \A y \in {a, b} : x <= y
  OBVIOUS
<1>2. Min({a, b}) \in {a, b} /\ \A y \in {a, b} : Min({a, b}) <= y
  BY <1>1 DEF Min
<1>3. QED
  BY <1>2

\* The twin has a column per day of the lead time, and one at least.
LEMMA ColumnsAre ==
  ASSUME NEW c \in Config
  PROVE  /\ Columns(c) \in Nat /\ Columns(c) >= 1
         /\ c.lead >= 1 => Columns(c) = c.lead
         /\ c.lead = 0 => Columns(c) = 1
<1>1. c.lead \in Nat
  BY DEF Config
<1>2. \E x \in {c.lead, 1} : \A y \in {c.lead, 1} : x >= y
  BY <1>1
<1>3. Columns(c) \in {c.lead, 1} /\ \A y \in {c.lead, 1} : Columns(c) >= y
  BY <1>2 DEF Columns, Max
<1>4. QED
  BY <1>1, <1>3

\* Rounding stays below a whole bound.
LEMMA RoundedBelow ==
  ASSUME NEW t \in Nat, NEW m \in Nat, t <= 10 * m PROVE Rounded(t) \in Nat /\ Rounded(t) <= m
<1> DEFINE n == t \div 10
           rest == t % 10
<1>1. n \in Nat /\ rest \in Nat /\ rest < 10 /\ t = 10 * n + rest
  OBVIOUS
<1>2. Rounded(t) = IF rest > 5 \/ (rest = 5 /\ n % 2 = 1) THEN n + 1 ELSE n
  BY DEF Rounded
<1> HIDE DEF n, rest
<1>3. n <= m /\ (rest > 0 => n + 1 <= m)
  BY <1>1
<1>4. QED
  BY <1>1, <1>2, <1>3

\* An order never exceeds what the environment allows.
LEMMA QuantityBelow ==
  ASSUME NEW c \in Config, NEW policy \in Policy, policy.quantity <= 10 * MaxOrder(c), NEW position
  PROVE  /\ Quantity(policy, position) \in Nat
         /\ Min({Quantity(policy, position), MaxOrder(c)}) = Quantity(policy, position)
<1>1. MaxOrder(c) \in Nat /\ policy.quantity \in Nat
  BY DEF MaxOrder, Config, Policy
<1>2. Quantity(policy, position) \in Nat /\ Quantity(policy, position) <= MaxOrder(c)
  <2>1. Rounded(policy.quantity) \in Nat /\ Rounded(policy.quantity) <= MaxOrder(c)
    BY <1>1, RoundedBelow
  <2>2. Quantity(policy, position) \in {Rounded(policy.quantity), 0}
    BY DEF Quantity
  <2>3. QED
    BY <1>1, <2>1, <2>2
<1>3. QED
  BY <1>1, <1>2, MinOfTwo

\* What is on order: nothing, one order, and two parts.
LEMMA OnOrderAdds ==
  ASSUME NEW O \in SUBSET Order, IsFiniteSet(O)
  PROVE  /\ OnOrder(O) \in Nat
         /\ O = {} => OnOrder(O) = 0
         /\ \A o \in O : O = {o} => OnOrder(O) = o.quantity
         /\ \A R \in SUBSET O : OnOrder(R) \in Nat /\ OnOrder(O) = OnOrder(R) + OnOrder(O \ R)
<1> DEFINE w == [o \in Order |-> o.quantity]
<1>1. ASSUME NEW R \in SUBSET O PROVE IsFiniteSet(R) /\ NumbersOn(w, R) /\ OnOrder(R) = Total(w, R)
  <2> DEFINE v == [o \in R |-> o.quantity]
  <2>1. IsFiniteSet(R)
    BY FS_Subset
  <2>2. OnOrder(R) = Total(v, R)
    BY DEF OnOrder, SumFunction, Total
  <2>3. SameOn(v, w, R) /\ NumbersOn(w, R)
    BY DEF SameOn, NumbersOn, Order
  <2> HIDE DEF v, w
  <2>4. Total(v, R) = Total(w, R)
    BY <2>1, <2>3, TotalSame
  <2>5. QED
    BY <2>1, <2>2, <2>3, <2>4
<1>2. \A o \in O : w[o] = o.quantity /\ w[o] \in Nat
  BY DEF Order
<1>3. O \in SUBSET O
  OBVIOUS
<1> HIDE DEF w
<1>4. /\ Total(w, O) \in Nat
      /\ O = {} => Total(w, O) = 0
      /\ \A x \in O : Total(w, O) = w[x] + Total(w, O \ {x})
  BY <1>1, <1>3, TotalOfMore
<1>5. ASSUME NEW o \in O, O = {o} PROVE OnOrder(O) = o.quantity
  <2> DEFINE R == O \ {o}
  <2>1. R = {} /\ R \in SUBSET O
    BY <1>5
  <2> HIDE DEF R
  <2>2. Total(w, R) = 0
    BY <1>1, <2>1, TotalOfMore
  <2>3. Total(w, O) = w[o] + Total(w, R)
    BY <1>4 DEF R
  <2>4. QED
    BY <1>1, <1>2, <1>3, <2>2, <2>3
<1>6. ASSUME NEW R \in SUBSET O PROVE OnOrder(R) \in Nat /\ OnOrder(O) = OnOrder(R) + OnOrder(O \ R)
  <2> DEFINE Q == O \ R
  <2>1. Q \in SUBSET O
    OBVIOUS
  <2>2. Total(w, O) = Total(w, R) + Total(w, Q)
    BY <1>1, <1>3, TotalSplits
  <2>3. Total(w, R) \in Nat
    BY <1>1, TotalOfMore
  <2> HIDE DEF Q
  <2>4. OnOrder(O) = OnOrder(R) + OnOrder(Q) /\ OnOrder(R) \in Nat
    BY <1>1, <1>3, <2>1, <2>2, <2>3
  <2>5. QED
    BY <2>4 DEF Q
<1>7. QED
  BY <1>1, <1>3, <1>4, <1>5, <1>6

\* What arrives k days from a day's morning on; what is overdue comes first.
Arriving(O, day, k) == {o \in O : IF k = 1 THEN o.day <= day ELSE o.day = day + k - 1}

\* A state of the environment and one of the twin that stand for the same.
Mirrors(c, env, twin) ==
  /\ env.day \in Nat /\ env.onHand \in Nat
  /\ env.pipeline \in SUBSET Order /\ IsFiniteSet(env.pipeline)
  /\ \A o \in env.pipeline : o.placed < env.day /\ o.day < env.day + Columns(c)
  /\ twin.onHand = env.onHand /\ twin.totals = env.totals
  /\ twin.pipeline \in Seq(Nat) /\ Len(twin.pipeline) = Columns(c)
  /\ \A k \in 1..Columns(c) : twin.pipeline[k] = OnOrder(Arriving(env.pipeline, env.day, k))

\* Both start with what the reorder point says, and nothing on its way.
LEMMA MirrorsAtFirst ==
  ASSUME NEW c \in Config
  PROVE  Mirrors(c, EnvReset(c, c.point, 0),
                 [onHand |-> c.point, totals |-> NoTotals, pipeline |-> [k \in 1..Columns(c) |-> 0]])
<1> DEFINE env == EnvReset(c, c.point, 0)
           twin == [onHand |-> c.point, totals |-> NoTotals, pipeline |-> [k \in 1..Columns(c) |-> 0]]
<1>1. /\ env.day = 0 /\ env.onHand = c.point /\ env.totals = NoTotals /\ env.pipeline = {}
      /\ c.point \in Nat
  BY DEF EnvReset, Config
<1>2. Columns(c) \in Nat
  BY ColumnsAre
<1>3. /\ twin.pipeline \in Seq(Nat) /\ Len(twin.pipeline) = Columns(c)
      /\ \A k \in 1..Columns(c) : twin.pipeline[k] = 0
  <2> DEFINE s == [k \in 1..Columns(c) |-> 0]
  <2>1. s \in [1..Columns(c) -> Nat]
    OBVIOUS
  <2>2. s \in Seq(Nat) /\ Len(s) = Columns(c)
    BY <1>2, <2>1
  <2>3. QED
    BY <2>2
<1>4. IsFiniteSet({}) /\ OnOrder({}) = 0
  <2>1. IsFiniteSet({}) /\ {} \in SUBSET Order
    BY FS_EmptySet
  <2>2. QED
    BY <2>1, OnOrderAdds
<1>5. \A k \in 1..Columns(c) : Arriving(env.pipeline, env.day, k) = {}
  BY <1>1 DEF Arriving
<1>6. twin.onHand = c.point /\ twin.totals = NoTotals
  OBVIOUS
<1> HIDE DEF env, twin
<1>7. \A k \in 1..Columns(c) : OnOrder(Arriving(env.pipeline, env.day, k)) = 0
  BY <1>4, <1>5, Zenon
<1>8. IsFiniteSet(env.pipeline)
  BY <1>1, <1>4, Zenon
<1>9. env.pipeline \in SUBSET Order /\ \A o \in env.pipeline : FALSE
  BY <1>1
<1>10. Mirrors(c, env, twin)
  BY <1>1, <1>3, <1>6, <1>7, <1>8, <1>9 DEF Mirrors
<1>11. QED
  BY <1>10 DEF env, twin

\* A column for each of the n days after a day, with what the orders bring on it.
ColumnsOf(cols, O, day, n) ==
  /\ \A o \in O : o.day > day /\ o.day < day + n
  /\ cols \in Seq(Nat) /\ Len(cols) = n
  /\ \A k \in 1..n : cols[k] = OnOrder({o \in O : o.day = day + k})

\* A day's orders move up a column, and are as many as those that wait.
LEMMA ShiftedColumns ==
  ASSUME NEW O \in SUBSET Order, IsFiniteSet(O), NEW day \in Nat, NEW n \in Nat, n >= 1,
         NEW cols, ColumnsOf(cols, O, day, n)
  PROVE  SumFunction(cols) = OnOrder(O)
<1> DEFINE Until(k) == {o \in O : o.day <= day + k}
           S == {k \in Nat : k <= n => Total(cols, 1..k) = OnOrder(Until(k))}
<1>0. /\ \A o \in O : o.day > day /\ o.day < day + n
      /\ cols \in Seq(Nat) /\ Len(cols) = n
      /\ \A k \in 1..n : cols[k] = OnOrder({o \in O : o.day = day + k})
  BY DEF ColumnsOf
<1>1. 0 \in S
  <2>1. Until(0) = {}
    <3>1. \A o \in O : ~ (o.day <= day + 0)
      BY <1>0 DEF Order
    <3>2. QED
      BY <3>1
  <2>2. OnOrder({}) = 0
    <3>1. {} \in SUBSET Order /\ IsFiniteSet({})
      BY FS_EmptySet
    <3>2. QED
      BY <3>1, OnOrderAdds
  <2>3. Total(cols, {}) = 0
    <3>1. IsFiniteSet({}) /\ NumbersOn(cols, {})
      BY FS_EmptySet DEF NumbersOn
    <3>2. QED
      BY <3>1, TotalOfMore
  <2>4. 1..0 = {}
    OBVIOUS
  <2> HIDE DEF Until
  <2>5. Total(cols, 1..0) = OnOrder(Until(0))
    BY <2>1, <2>2, <2>3, <2>4, Zenon
  <2>6. QED
    BY <2>5
<1>2. ASSUME NEW k \in Nat, k \in S PROVE k + 1 \in S
  <2>1. CASE k + 1 <= n
    <3> DEFINE D == 1..(k + 1)
               E == {o \in O : o.day = day + (k + 1)}
    <3>1. Total(cols, 1..k) = OnOrder(Until(k))
      BY <1>2, <2>1
    <3>2. Total(cols, D) = cols[k + 1] + Total(cols, 1..k)
      <4>1. IsFiniteSet(D) /\ NumbersOn(cols, D) /\ k + 1 \in D
        <5>1. IsFiniteSet(D)
          BY FS_Interval
        <5>2. \A x \in D : cols[x] \in Nat
          BY <1>0, <2>1
        <5>3. QED
          BY <5>1, <5>2 DEF NumbersOn
      <4>2. D \ {k + 1} = 1..k
        OBVIOUS
      <4> HIDE DEF D
      <4>3. Total(cols, D) = cols[k + 1] + Total(cols, D \ {k + 1})
        BY <4>1, TotalOfMore
      <4>4. QED
        BY <4>2, <4>3, Zenon
    <3>3. cols[k + 1] = OnOrder(E)
      BY <1>0, <2>1
    <3>4. Until(k + 1) \ Until(k) = E /\ Until(k) \in SUBSET Until(k + 1) /\ Until(k + 1) \in SUBSET O
      BY DEF Order
    <3> HIDE DEF Until, E
    <3>5. IsFiniteSet(Until(k + 1)) /\ Until(k + 1) \in SUBSET Order
      BY <3>4, FS_Subset
    <3>6. OnOrder(Until(k)) \in Nat /\ OnOrder(Until(k + 1)) = OnOrder(Until(k)) + OnOrder(Until(k + 1) \ Until(k))
      BY <3>4, <3>5, OnOrderAdds
    <3>7. OnOrder(Until(k + 1) \ Until(k)) = OnOrder(E)
      BY <3>4, Zenon
    <3>8. cols[k + 1] \in Nat
      BY <1>0, <2>1
    <3>9. Total(cols, D) = OnOrder(Until(k + 1))
      BY <3>1, <3>2, <3>3, <3>6, <3>7, <3>8
    <3>10. QED
      BY <3>9
  <2>2. CASE ~ (k + 1 <= n)
    BY <2>2
  <2>3. QED
    BY <2>1, <2>2
<1>3. n \in S
  <2> HIDE DEF S
  <2>1. QED
    BY <1>1, <1>2, SetInduction
<1>4. Total(cols, 1..n) = OnOrder(Until(n))
  BY <1>3
<1>5. Until(n) = O
  <2>1. \A o \in O : o.day <= day + n
    BY <1>0 DEF Order
  <2>2. QED
    BY <2>1
<1>6. SumFunction(cols) = Total(cols, 1..n)
  <2>1. DOMAIN cols = 1..n
    BY <1>0
  <2>2. SumFunction(cols) = Total(cols, DOMAIN cols)
    BY DEF SumFunction, Total
  <2>3. QED
    BY <2>1, <2>2, Zenon
<1> HIDE DEF Until
<1>7. OnOrder(Until(n)) = OnOrder(O)
  BY <1>5, Zenon
<1>8. QED
  BY <1>4, <1>6, <1>7

\* On the same demand both take the same step.
LEMMA MirrorsStep ==
  ASSUME NEW c \in Config, NEW policy \in Policy, policy.quantity <= 10 * MaxOrder(c),
         NEW demand \in Nat, NEW env, NEW twin, Mirrors(c, env, twin)
  PROVE  Mirrors(c, EnvStep(c, env, Quantity(policy, Position(env)), demand), TwinStep(c, twin, policy, demand))
<1> DEFINE n == Columns(c)
           day == env.day
           O == env.pipeline
           due == {o \in O : o.day <= day}
           wait == O \ due
           action == Quantity(policy, Position(env))
           stock == env.onHand + OnOrder(due)
           order == [placed |-> day, day |-> day + c.lead, quantity |-> action]
           O2 == wait \cup (IF action > 0 THEN {order} ELSE {})
           env2 == EnvStep(c, env, action, demand)
           shifted == Append(Tail(twin.pipeline), 0)
           twin2 == TwinStep(c, twin, policy, demand)
<1>1. /\ n \in Nat /\ n >= 1 /\ (c.lead >= 1 => n = c.lead) /\ (c.lead = 0 => n = 1) /\ c.lead \in Nat
  BY ColumnsAre DEF Config
<1>2. /\ day \in Nat /\ env.onHand \in Nat /\ O \in SUBSET Order /\ IsFiniteSet(O)
      /\ \A o \in O : o.placed \in Int /\ o.day \in Nat /\ o.quantity \in Nat /\ o.placed < day /\ o.day < day + n
      /\ twin.onHand = env.onHand /\ twin.totals = env.totals
      /\ twin.pipeline \in Seq(Nat) /\ Len(twin.pipeline) = n
      /\ \A k \in 1..n : twin.pipeline[k] = OnOrder(Arriving(O, day, k))
  BY DEF Mirrors, Order
<1>3. due \in SUBSET O /\ wait \in SUBSET O /\ \A o \in wait : o.day > day /\ o.day < day + n
  BY <1>2
<1>4. IsFiniteSet(due) /\ IsFiniteSet(wait)
  <2> HIDE DEF due, wait
  <2>1. QED
    BY <1>2, <1>3, FS_Subset
<1>5. /\ OnOrder(due) \in Nat /\ OnOrder(wait) \in Nat
      /\ OnOrder(O) = OnOrder(due) + OnOrder(wait)
  <2>1. wait = O \ due
    OBVIOUS
  <2> HIDE DEF due, wait, O
  <2>2. /\ OnOrder(due) \in Nat /\ OnOrder(wait) \in Nat
        /\ OnOrder(O) = OnOrder(due) + OnOrder(O \ due)
    BY <1>2, <1>3, OnOrderAdds
  <2>3. OnOrder(O \ due) = OnOrder(wait)
    BY <2>1, Zenon
  <2>4. QED
    BY <2>2, <2>3
\* The columns, before today's order.
<1>6. /\ shifted \in Seq(Nat) /\ Len(shifted) = n
      /\ \A k \in 1..n : shifted[k] = IF k < n THEN twin.pipeline[k + 1] ELSE 0
  BY <1>1, <1>2
<1>7. ASSUME NEW k \in 1..n PROVE shifted[k] = OnOrder({o \in wait : o.day = day + k})
  <2> DEFINE E == {o \in wait : o.day = day + k}
  <2>1. CASE k < n
    <3>1. Arriving(O, day, k + 1) = E
      <4>1. k + 1 # 1 /\ day + (k + 1) - 1 = day + k /\ day + k > day
        BY <1>2
      <4>2. Arriving(O, day, k + 1) = {o \in O : o.day = day + (k + 1) - 1}
        BY <4>1 DEF Arriving
      <4>3. QED
        BY <1>2, <4>1, <4>2
    <3> HIDE DEF E, shifted, O, day, n
    <3>2. shifted[k] = OnOrder(Arriving(O, day, k + 1))
      <4>1. k + 1 \in 1..n /\ shifted[k] = twin.pipeline[k + 1]
        BY <1>1, <1>6, <2>1
      <4>2. QED
        BY <1>2, <4>1
    <3>3. OnOrder(Arriving(O, day, k + 1)) = OnOrder(E)
      BY <3>1, Zenon
    <3>4. QED
      BY <3>2, <3>3 DEF E
  <2>2. CASE k = n
    <3>1. E = {}
      <4>1. \A o \in wait : ~ (o.day = day + k)
        BY <1>2, <1>3, <2>2
      <4>2. QED
        BY <4>1
    <3>2. OnOrder({}) = 0
      <4>1. {} \in SUBSET Order /\ IsFiniteSet({})
        BY FS_EmptySet
      <4>2. QED
        BY <4>1, OnOrderAdds
    <3>3. shifted[k] = 0
      BY <1>6, <2>2
    <3> HIDE DEF E, shifted
    <3>4. OnOrder(E) = 0
      BY <3>1, <3>2, Zenon
    <3>5. QED
      BY <3>3, <3>4 DEF E
  <2>3. k < n \/ k = n
    BY <1>1
  <2> HIDE DEF shifted, n, E
  <2>4. QED
    BY <2>1, <2>2, <2>3
<1>8. SumFunction(shifted) = OnOrder(wait)
  <2>1. wait \in SUBSET Order
    BY <1>2
  <2>2. \A k \in 1..n : shifted[k] = OnOrder({o \in wait : o.day = day + k})
    BY <1>7
  <2> HIDE DEF wait, shifted, n, day
  <2>3. ColumnsOf(shifted, wait, day, n)
    BY <1>3, <1>6, <2>2 DEF ColumnsOf
  <2>4. QED
    BY <1>1, <1>2, <1>4, <2>1, <2>3, ShiftedColumns
\* Today's order and what it meets.
<1>9. /\ twin.pipeline[1] = OnOrder(due)
      /\ twin.onHand + twin.pipeline[1] = stock /\ stock \in Nat
  <2>1. Arriving(O, day, 1) = due
    BY DEF Arriving
  <2>2. twin.pipeline[1] = OnOrder(Arriving(O, day, 1))
    BY <1>1, <1>2
  <2> HIDE DEF due
  <2>3. OnOrder(Arriving(O, day, 1)) = OnOrder(due)
    BY <2>1, Zenon
  <2>4. QED
    BY <1>2, <1>5, <2>2, <2>3
<1>10. Quantity(policy, stock + SumFunction(shifted)) = action
  <2>1. Position(env) = stock + SumFunction(shifted)
    BY <1>2, <1>5, <1>8 DEF Position
  <2>2. QED
    BY <2>1
<1>11. action \in Nat /\ Min({action, MaxOrder(c)}) = action
  BY QuantityBelow
<1>12. stock - Min({stock, demand}) \in Nat
  <2> HIDE DEF stock
  <2>1. Min({stock, demand}) \in Nat /\ Min({stock, demand}) <= stock
    BY <1>9, MinOfTwo
  <2>2. QED
    BY <1>9, <2>1
<1>13. /\ env2.day = day + 1 /\ env2.onHand = stock - Min({stock, demand})
       /\ env2.totals = Served(env.totals, stock, demand, action)
       /\ env2.pipeline = O2
  <2> HIDE DEF action
  <2>1. QED
    BY <1>11 DEF EnvStep
<1>14. /\ twin2.onHand = stock - Min({stock, demand})
       /\ twin2.totals = Served(twin.totals, stock, demand, action)
       /\ twin2.pipeline = [shifted EXCEPT ![n] = @ + action]
  BY <1>9, <1>10 DEF TwinStep
<1> HIDE DEF stock, env2, twin2, action
\* The columns, with it.
<1>15. /\ order \in Order /\ order \notin wait
       /\ O2 \in SUBSET Order /\ IsFiniteSet(O2)
       /\ \A o \in O2 : o.placed < day + 1 /\ o.day < (day + 1) + n
  <2>1. order \in Order /\ order.placed = day /\ order.day = day + c.lead
    BY <1>1, <1>2, <1>11 DEF Order
  <2>2. order \notin wait
    BY <1>2, <2>1
  <2>3. \A o \in wait : o \in Order /\ o.placed < day + 1 /\ o.day < (day + 1) + n
    BY <1>1, <1>2
  <2>4. order.placed < day + 1 /\ order.day < (day + 1) + n
    BY <1>1, <1>2, <2>1
  <2> HIDE DEF order, wait
  <2>5. IsFiniteSet(wait \cup {order})
    BY <1>4, FS_AddElement
  <2>6. O2 \in SUBSET (wait \cup {order})
    OBVIOUS
  <2>7. IsFiniteSet(O2)
    <3> HIDE DEF O2
    <3>1. QED
      BY <2>5, <2>6, FS_Subset
  <2>8. QED
    BY <2>1, <2>2, <2>3, <2>4, <2>7
<1>16. /\ twin2.pipeline \in Seq(Nat) /\ Len(twin2.pipeline) = n
       /\ \A k \in 1..n : twin2.pipeline[k] = IF k = n THEN shifted[n] + action ELSE shifted[k]
  <2> HIDE DEF shifted, n
  <2>1. n \in 1..n /\ shifted \in [1..n -> Nat]
    BY <1>1, <1>6
  <2>2. shifted[n] + action \in Nat
    BY <1>11, <2>1
  <2>3. /\ twin2.pipeline \in [1..n -> Nat]
        /\ \A k \in 1..n : twin2.pipeline[k] = IF k = n THEN shifted[n] + action ELSE shifted[k]
    BY <1>14, <2>1, <2>2
  <2>4. twin2.pipeline \in Seq(Nat) /\ Len(twin2.pipeline) = n
    BY <1>1, <2>3
  <2>5. QED
    BY <2>3, <2>4
<1>17. ASSUME NEW k \in 1..n PROVE twin2.pipeline[k] = OnOrder(Arriving(O2, day + 1, k))
  <2> DEFINE E == {o \in wait : o.day = day + k}
             F == Arriving(O2, day + 1, k)
  <2>1. shifted[k] = OnOrder(E) /\ OnOrder(E) \in Nat
    <3>1. E \in SUBSET wait /\ wait \in SUBSET Order
      BY <1>2
    <3>2. shifted[k] = OnOrder(E)
      BY <1>7
    <3> HIDE DEF E, wait
    <3>3. QED
      BY <1>4, <3>1, <3>2, OnOrderAdds
  <2>2. \A o \in wait : (IF k = 1 THEN o.day <= day + 1 ELSE o.day = (day + 1) + k - 1) <=> o.day = day + k
    <3> SUFFICES ASSUME NEW o \in wait
                 PROVE  (IF k = 1 THEN o.day <= day + 1 ELSE o.day = (day + 1) + k - 1) <=> o.day = day + k
      OBVIOUS
    <3>1. o.day \in Nat /\ o.day > day /\ day \in Nat
      BY <1>2, <1>3
    <3> HIDE DEF day, wait, n
    <3>2. QED
      BY <1>1, <3>1
  <2>3. (IF k = 1 THEN order.day <= day + 1 ELSE order.day = (day + 1) + k - 1) <=> k = n
    <3>1. order.day = day + c.lead
      OBVIOUS
    <3>2. order.day \in Nat /\ day \in Nat
      BY <1>1, <1>2, <3>1
    <3> HIDE DEF order, day, n
    <3>3. QED
      BY <1>1, <3>1, <3>2
  <2> HIDE DEF order
  <2>4. CASE action > 0 /\ k = n
    <3>1. F = E \cup {order} /\ order \notin E
      BY <1>15, <2>2, <2>3, <2>4 DEF Arriving
    <3>2. F \in SUBSET O2
      BY DEF Arriving
    <3>3. F \ E = {order} /\ E \in SUBSET F /\ {order} \in SUBSET Order
      BY <1>15, <3>1
    <3> HIDE DEF F, E, O2
    <3>4. IsFiniteSet(F) /\ F \in SUBSET Order
      BY <1>15, <3>2, FS_Subset
    <3>5. OnOrder(F) = OnOrder(E) + OnOrder(F \ E)
      BY <3>3, <3>4, OnOrderAdds
    <3>6. OnOrder(F \ E) = OnOrder({order})
      BY <3>3, Zenon
    <3>7. OnOrder({order}) = order.quantity
      <4> DEFINE P == {order}
      <4>1. IsFiniteSet(P)
        BY FS_EmptySet, FS_AddElement
      <4>2. order \in P /\ P = {order} /\ P \in SUBSET Order
        BY <3>3
      <4>3. \A o \in P : P = {o} => OnOrder(P) = o.quantity
        <5> HIDE DEF P
        <5>1. QED
          BY <4>1, <4>2, OnOrderAdds
      <4>4. QED
        BY <4>2, <4>3
    <3>8. order.quantity = action
      BY DEF order
    <3>9. twin2.pipeline[k] = OnOrder(E) + action
      BY <1>16, <2>1, <2>4
    <3>10. QED
      BY <3>5, <3>6, <3>7, <3>8, <3>9 DEF F
  <2>5. CASE ~ (action > 0 /\ k = n)
    <3>1. F = E
      BY <2>2, <2>3, <2>5 DEF Arriving
    <3> HIDE DEF F, E
    <3>2. OnOrder(F) = OnOrder(E)
      BY <3>1, Zenon
    <3>3. twin2.pipeline[k] = OnOrder(E)
      <4> HIDE DEF shifted, n
      <4>1. CASE k = n
        BY <1>11, <1>16, <2>1, <2>5, <4>1
      <4>2. CASE k # n
        BY <1>16, <2>1, <4>2
      <4>3. QED
        BY <4>1, <4>2
    <3>4. QED
      BY <3>2, <3>3 DEF F
  <2>6. QED
    BY <2>4, <2>5
<1> HIDE DEF O2
<1>18. Mirrors(c, env2, twin2)
  <2>1. /\ env2.day \in Nat /\ env2.onHand \in Nat /\ twin2.onHand = env2.onHand /\ twin2.totals = env2.totals
    BY <1>2, <1>12, <1>13, <1>14
  <2>2. \A k \in 1..n : twin2.pipeline[k] = OnOrder(Arriving(env2.pipeline, env2.day, k))
    BY <1>13, <1>17
  <2>3. /\ env2.pipeline \in SUBSET Order /\ IsFiniteSet(env2.pipeline)
        /\ \A o \in env2.pipeline : o.placed < env2.day /\ o.day < env2.day + n
    BY <1>13, <1>15
  <2>4. QED
    BY <1>16, <2>1, <2>2, <2>3 DEF Mirrors
<1>19. QED
  BY <1>18 DEF env2, twin2, action

EnvStart(c) == EnvReset(c, c.point, 0)
EnvNext(c, policy, s, demand) == EnvStep(c, s, Quantity(policy, Position(s)), demand)

\* g is the states of an episode on the first n days of a path.
EnvDays(g, c, policy, path, n) ==
  g = [d \in 0..n |-> IF d = 0 THEN EnvStart(c) ELSE EnvNext(c, policy, g[d - 1], path[d])]

\* For any number of days there are such states.
LEMMA EnvDaysExist ==
  ASSUME NEW c, NEW policy, NEW path, NEW n \in Nat PROVE \E g : EnvDays(g, c, policy, path, n)
<1> DEFINE S == {k \in Nat : \E g : EnvDays(g, c, policy, path, k)}
<1>1. 0 \in S
  <2>1. EnvDays([d \in 0..0 |-> EnvStart(c)], c, policy, path, 0)
    BY DEF EnvDays
  <2>2. QED
    BY <2>1
<1>2. ASSUME NEW k \in Nat, k \in S PROVE k + 1 \in S
  <2>1. PICK g : EnvDays(g, c, policy, path, k)
    BY <1>2
  <2> DEFINE h == [d \in 0..(k + 1) |-> IF d <= k THEN g[d] ELSE EnvNext(c, policy, g[k], path[k + 1])]
  <2>2. ASSUME NEW d \in 0..(k + 1)
        PROVE  h[d] = IF d = 0 THEN EnvStart(c) ELSE EnvNext(c, policy, h[d - 1], path[d])
    <3>1. CASE d = 0
      BY <2>1, <3>1 DEF EnvDays
    <3>2. CASE d \in 1..k
      <4>1. h[d] = g[d] /\ h[d - 1] = g[d - 1]
        BY <3>2
      <4>2. g[d] = EnvNext(c, policy, g[d - 1], path[d])
        BY <2>1, <3>2 DEF EnvDays
      <4>3. QED
        BY <3>2, <4>1, <4>2
    <3>3. CASE d = k + 1
      <4>1. h[d] = EnvNext(c, policy, g[k], path[k + 1]) /\ h[d - 1] = g[k]
        BY <3>3
      <4>2. QED
        BY <3>3, <4>1
    <3>4. QED
      BY <3>1, <3>2, <3>3
  <2>3. EnvDays(h, c, policy, path, k + 1)
    <3>1. h = [d \in 0..(k + 1) |-> h[d]]
      OBVIOUS
    <3> HIDE DEF h
    <3>2. QED
      BY <2>2, <3>1 DEF EnvDays
  <2>4. QED
    BY <2>3
<1>3. Nat \subseteq S
  <2> HIDE DEF S
  <2>1. QED
    BY <1>1, <1>2, SetInduction
<1>4. QED
  BY <1>3

\* What an episode comes to is in the last of them.
LEMMA EnvRunIsLast ==
  ASSUME NEW c, NEW policy, NEW path, Len(path) \in Nat
  PROVE  \E g : EnvDays(g, c, policy, path, Len(path)) /\ EnvRun(c, policy, path) = g[Len(path)].totals
<1> DEFINE g == CHOOSE g : g = [d \in 0..Len(path) |->
                  IF d = 0 THEN EnvReset(c, c.point, 0)
                  ELSE EnvStep(c, g[d - 1], Quantity(policy, Position(g[d - 1])), path[d])]
<1>1. EnvRun(c, policy, path) = g[Len(path)].totals
  BY DEF EnvRun
<1>2. \E h : EnvDays(h, c, policy, path, Len(path))
  BY EnvDaysExist
<1>3. EnvDays(g, c, policy, path, Len(path))
  BY <1>2 DEF EnvDays, EnvStart, EnvNext
<1>4. QED
  BY <1>1, <1>3

TwinStart(c) == 
  [onHand |-> c.point, totals |-> NoTotals, pipeline |-> [k \in 1..Columns(c) |-> 0]]
TwinNext(c, policy, s, demand) == TwinStep(c, s, policy, demand)

\* g is the states of the twin on the first n days of a path.
TwinDays(g, c, policy, path, n) ==
  g = [d \in 0..n |-> IF d = 0 THEN TwinStart(c) ELSE TwinNext(c, policy, g[d - 1], path[d])]

\* For any number of days there are such states.
LEMMA TwinDaysExist ==
  ASSUME NEW c, NEW policy, NEW path, NEW n \in Nat PROVE \E g : TwinDays(g, c, policy, path, n)
<1> DEFINE S == {k \in Nat : \E g : TwinDays(g, c, policy, path, k)}
<1>1. 0 \in S
  <2>1. TwinDays([d \in 0..0 |-> TwinStart(c)], c, policy, path, 0)
    BY DEF TwinDays
  <2>2. QED
    BY <2>1
<1>2. ASSUME NEW k \in Nat, k \in S PROVE k + 1 \in S
  <2>1. PICK g : TwinDays(g, c, policy, path, k)
    BY <1>2
  <2> DEFINE h == [d \in 0..(k + 1) |-> IF d <= k THEN g[d] ELSE TwinNext(c, policy, g[k], path[k + 1])]
  <2>2. ASSUME NEW d \in 0..(k + 1)
        PROVE  h[d] = IF d = 0 THEN TwinStart(c) ELSE TwinNext(c, policy, h[d - 1], path[d])
    <3>1. CASE d = 0
      BY <2>1, <3>1 DEF TwinDays
    <3>2. CASE d \in 1..k
      <4>1. h[d] = g[d] /\ h[d - 1] = g[d - 1]
        BY <3>2
      <4>2. g[d] = TwinNext(c, policy, g[d - 1], path[d])
        BY <2>1, <3>2 DEF TwinDays
      <4>3. QED
        BY <3>2, <4>1, <4>2
    <3>3. CASE d = k + 1
      <4>1. h[d] = TwinNext(c, policy, g[k], path[k + 1]) /\ h[d - 1] = g[k]
        BY <3>3
      <4>2. QED
        BY <3>3, <4>1
    <3>4. QED
      BY <3>1, <3>2, <3>3
  <2>3. TwinDays(h, c, policy, path, k + 1)
    <3>1. h = [d \in 0..(k + 1) |-> h[d]]
      OBVIOUS
    <3> HIDE DEF h
    <3>2. QED
      BY <2>2, <3>1 DEF TwinDays
  <2>4. QED
    BY <2>3
<1>3. Nat \subseteq S
  <2> HIDE DEF S
  <2>1. QED
    BY <1>1, <1>2, SetInduction
<1>4. QED
  BY <1>3

\* What the twin comes to is in the last of them.
LEMMA TwinRunIsLast ==
  ASSUME NEW c, NEW policy, NEW path, Len(path) \in Nat
  PROVE  \E g : TwinDays(g, c, policy, path, Len(path)) /\ TwinRun(c, policy, path) = g[Len(path)].totals
<1> DEFINE g == CHOOSE g : g = [d \in 0..Len(path) |->
                  IF d = 0 THEN [onHand |-> c.point, totals |-> NoTotals, pipeline |-> [k \in 1..Columns(c) |-> 0]]
                  ELSE TwinStep(c, g[d - 1], policy, path[d])]
<1>1. TwinRun(c, policy, path) = g[Len(path)].totals
  BY DEF TwinRun
<1>2. \E h : TwinDays(h, c, policy, path, Len(path))
  BY TwinDaysExist
<1>3. TwinDays(g, c, policy, path, Len(path))
  BY <1>2 DEF TwinDays, TwinStart, TwinNext
<1>4. QED
  BY <1>1, <1>3

\* On every path both come to the same totals.
LEMMA RunsAgree ==
  ASSUME NEW c \in Config, NEW policy \in Policy, policy.quantity <= 10 * MaxOrder(c), NEW path \in Seq(Nat)
  PROVE  EnvRun(c, policy, path) = TwinRun(c, policy, path)
<1> DEFINE n == Len(path)
<1>1. n \in Nat
  OBVIOUS
<1>2. PICK g : EnvDays(g, c, policy, path, n) /\ EnvRun(c, policy, path) = g[n].totals
  BY <1>1, EnvRunIsLast
<1>3. PICK h : TwinDays(h, c, policy, path, n) /\ TwinRun(c, policy, path) = h[n].totals
  BY <1>1, TwinRunIsLast
<1> DEFINE S == {d \in Nat : d <= n => Mirrors(c, g[d], h[d])}
<1>4. 0 \in S
  <2>1. g[0] = EnvReset(c, c.point, 0)
    BY <1>1, <1>2 DEF EnvDays, EnvStart
  <2>2. h[0] = [onHand |-> c.point, totals |-> NoTotals, pipeline |-> [k \in 1..Columns(c) |-> 0]]
    BY <1>1, <1>3 DEF TwinDays, TwinStart
  <2>3. Mirrors(c, g[0], h[0])
    BY <2>1, <2>2, MirrorsAtFirst
  <2>4. QED
    BY <2>3
<1>5. ASSUME NEW d \in Nat, d \in S PROVE d + 1 \in S
  <2>1. CASE d + 1 <= n
    <3>1. Mirrors(c, g[d], h[d])
      BY <1>1, <1>5, <2>1
    <3>2. d + 1 \in 0..n /\ d + 1 # 0 /\ (d + 1) - 1 = d /\ path[d + 1] \in Nat
      BY <2>1
    <3> HIDE DEF n
    <3>3. g[d + 1] = EnvNext(c, policy, g[d], path[d + 1])
      BY <1>2, <3>2 DEF EnvDays
    <3>4. h[d + 1] = TwinNext(c, policy, h[d], path[d + 1])
      BY <1>3, <3>2 DEF TwinDays
    <3>5. Mirrors(c, EnvNext(c, policy, g[d], path[d + 1]), TwinNext(c, policy, h[d], path[d + 1]))
      BY <3>1, <3>2, MirrorsStep DEF EnvNext, TwinNext
    <3>6. Mirrors(c, g[d + 1], h[d + 1])
      BY <3>3, <3>4, <3>5
    <3>7. QED
      BY <3>6
  <2>2. CASE ~ (d + 1 <= n)
    BY <2>2
  <2>3. QED
    BY <2>1, <2>2
<1>6. Nat \subseteq S
  <2> HIDE DEF S
  <2>1. QED
    BY <1>4, <1>5, SetInduction
<1>7. Mirrors(c, g[n], h[n])
  BY <1>1, <1>6
<1>8. QED
  BY <1>2, <1>3, <1>7 DEF Mirrors

\* On every path of demand, for all settings and every policy whose orders the
\* environment allows, the simulator that trains and the one that judges come
\* to the same units held, lost and sold and the same number of orders.
THEOREM SimulatorsAgree ==
  \A c \in Config, policy \in Policy, path \in Seq(Nat) :
    policy.quantity <= 10 * MaxOrder(c) => EnvRun(c, policy, path) = TwinRun(c, policy, path)
BY RunsAgree

\* Whatever is trained costs what the environment says it costs.
THEOREM TwinAlwaysAgrees == Spec => []TwinAgrees
<1>1. ASSUME NEW c \in Configs PROVE Agrees[c]
  <2>1. c \in Config
    BY ReplenishmentConstants
  <2>2. SopPolicy(c) \in Policy /\ SopPolicy(c).quantity <= 10 * MaxOrder(c)
    <3>1. c.point \in Nat /\ c.quantity \in Nat
      BY <2>1 DEF Config
    <3>2. QED
      BY <3>1 DEF SopPolicy, Policy, MaxOrder
  <2>3. \A policy \in Learnable(c, Candidates) : policy \in Policy /\ policy.quantity <= 10 * MaxOrder(c)
    BY ReplenishmentConstants DEF Learnable
  <2>4. \A policy \in Learnable(c, Candidates) \cup {SopPolicy(c)} :
          policy \in Policy /\ policy.quantity <= 10 * MaxOrder(c)
    BY <2>2, <2>3
  <2>5. \A path \in Paths : path \in Seq(Nat)
    BY ReplenishmentConstants
  <2>6. \A policy \in Learnable(c, Candidates) \cup {SopPolicy(c)}, path \in Paths :
          EnvRun(c, policy, path) = TwinRun(c, policy, path)
    BY <2>1, <2>4, <2>5, RunsAgree
  <2>7. Agrees[c] = \A policy \in Learnable(c, Candidates) \cup {SopPolicy(c)}, path \in Paths :
          EnvRun(c, policy, path) = TwinRun(c, policy, path)
    BY DEF Agrees
  <2>8. QED
    BY <2>6, <2>7
<1>2. TypeInv => TwinAgrees
  <2> SUFFICES ASSUME TypeInv, NEW r \in Requests, At(r, "locked"), NEW p \in req[r].todo
               PROVE  Agrees[req[r].items[p]]
    BY DEF TwinAgrees
  <2>1. req[r] \in Request
    BY RequestShape DEF TypeInv, At
  <2>2. req[r].items \in Policies /\ req[r].todo \subseteq DOMAIN req[r].items
    BY <2>1 DEF TypeInv, WorkLeft, Consistent, Request, At
  <2>3. req[r].items[p] \in Configs
    BY <2>2, PoliciesAreFunctions
  <2>4. QED
    BY <1>1, <2>3
<1>3. QED
  BY <1>2, TypeInvHolds, PTL

=============================================================================
