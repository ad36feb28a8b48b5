---------------------------- MODULE InventorySim ----------------------------
(***************************************************************************)
(* The simulators a replenishment agent is trained and judged in: a policy *)
(* is found with the vectorised twin of rl/env.py and then evaluated in    *)
(* the environment.  A demand path is the demand of each day; costs are    *)
(* kept as the four totals they are weighted sums of.                      *)
(***************************************************************************)
EXTENDS Integers, Sequences, FiniteSetsExt, SequencesExt, Functions

\* InventoryConfig: lead time, reorder point and reorder quantity.
Config == [lead: Nat, point: Nat, quantity: Nat]
MaxOrder(c) == 3 * c.quantity

\* ReorderPolicy, in tenths of a unit: the precision in which it is stored.
Policy == [point: Nat, quantity: Nat]
SopPolicy(c) == [point |-> 10 * c.point, quantity |-> 10 * c.quantity]

\* CrossEntropyAgent.train clips every candidate, and so the mean of the elite.
Learnable(c, policies) == {p \in policies : p.quantity >= 10 /\ p.quantity <= 10 * MaxOrder(c)}

\* round() and np.rint: half to even.
Rounded(tenths) ==
  LET n == tenths \div 10
      rest == tenths % 10
  IN IF rest > 5 \/ (rest = 5 /\ n % 2 = 1) THEN n + 1 ELSE n

Quantity(policy, position) == IF 10 * position <= policy.point THEN Rounded(policy.quantity) ELSE 0

Totals == [held: Nat, lost: Nat, orders: Nat, sold: Nat]
NoTotals == [held |-> 0, lost |-> 0, orders |-> 0, sold |-> 0]

\* One day's contribution, when onHand units meet the demand.
Served(totals, onHand, demand, ordered) ==
  LET sold == Min({onHand, demand}) IN
  [held |-> totals.held + onHand - sold, lost |-> totals.lost + demand - sold,
   orders |-> totals.orders + (IF ordered > 0 THEN 1 ELSE 0), sold |-> totals.sold + sold]

-----------------------------------------------------------------------------
(* InventoryEnv: orders with the day each arrives, told apart by the day    *)
(* they were placed on.                                                    *)

OnOrder(orders) == SumFunction([order \in orders |-> order.quantity])

\* reset: the order on its way takes a full lead time.
EnvReset(c, onHand, onOrder) ==
  [day |-> 0, onHand |-> onHand, totals |-> NoTotals,
   pipeline |-> IF onOrder > 0 THEN {[placed |-> -1, day |-> c.lead, quantity |-> onOrder]} ELSE {}]

Position(env) == env.onHand + OnOrder(env.pipeline)

\* step: due orders arrive, today's is placed, demand is served.
EnvStep(c, env, action, demand) ==
  LET due == {order \in env.pipeline : order.day <= env.day}
      stock == env.onHand + OnOrder(due)
      quantity == Min({action, MaxOrder(c)})
      placed == [placed |-> env.day, day |-> env.day + c.lead, quantity |-> quantity]
  IN
  [day |-> env.day + 1, onHand |-> stock - Min({stock, demand}),
   totals |-> Served(env.totals, stock, demand, quantity),
   pipeline |-> (env.pipeline \ due) \cup (IF quantity > 0 THEN {placed} ELSE {})]

\* evaluate: one episode.
EnvRun(c, policy, path) ==
  LET env[d \in 0..Len(path)] ==
        IF d = 0 THEN EnvReset(c, c.point, 0)
        ELSE EnvStep(c, env[d - 1], Quantity(policy, Position(env[d - 1])), path[d])
  IN env[Len(path)].totals

-----------------------------------------------------------------------------
(* simulate_reorder_policies: a pipeline with a column per day to go.      *)

Columns_LeadTime(c) == c.lead + 1
Columns(c) == Max({c.lead, 1})

TwinStep(c, twin, policy, demand) ==
  LET stock == twin.onHand + twin.pipeline[1]
      shifted == Append(Tail(twin.pipeline), 0)
      quantity == Quantity(policy, stock + SumFunction(shifted))
  IN
  [onHand |-> stock - Min({stock, demand}), totals |-> Served(twin.totals, stock, demand, quantity),
   pipeline |-> [shifted EXCEPT ![Columns(c)] = @ + quantity]]

TwinRun(c, policy, path) ==
  LET twin[d \in 0..Len(path)] ==
        IF d = 0 THEN [onHand |-> c.point, totals |-> NoTotals, pipeline |-> [k \in 1..Columns(c) |-> 0]]
        ELSE TwinStep(c, twin[d - 1], policy, path[d])
  IN twin[Len(path)].totals

=============================================================================
