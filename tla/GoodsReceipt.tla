---------------------------- MODULE GoodsReceipt ----------------------------
(***************************************************************************)
(* What the delivery saga promises, without services, topics or faults: an *)
(* order's goods are delivered, then the order is received, then the goods *)
(* are booked into stock, each at most once and in this order, and stock   *)
(* changes by nothing but those bookings.                                  *)
(***************************************************************************)
EXTENDS Naturals

CONSTANTS Orders, Positions, PositionOf, QuantityOf, InitialStock

VARIABLES
  stage,  \* how far the goods of each order have come
  stock   \* the stock of each position

vars == <<stage, stock>>

Stage == {"open", "delivered", "received", "booked"}

Init ==
  /\ stage = [o \in Orders |-> "open"]
  /\ stock = InitialStock

Deliver(o) ==
  /\ stage[o] = "open"
  /\ stage' = [stage EXCEPT ![o] = "delivered"]
  /\ UNCHANGED stock

Receive(o) ==
  /\ stage[o] = "delivered"
  /\ stage' = [stage EXCEPT ![o] = "received"]
  /\ UNCHANGED stock

\* Goods for a position nobody keeps stock of are put away by hand.
Book(o) ==
  /\ stage[o] = "received"
  /\ stage' = [stage EXCEPT ![o] = "booked"]
  /\ stock' = IF PositionOf[o] \in Positions
              THEN [stock EXCEPT ![PositionOf[o]] = @ + QuantityOf[o]]
              ELSE stock

Next == \E o \in Orders : Deliver(o) \/ Receive(o) \/ Book(o)

Spec == Init /\ [][Next]_vars

=============================================================================
