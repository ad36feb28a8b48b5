--------------------------- MODULE MCDeliverySaga ---------------------------
(* The delivery saga on a small instance. *)
EXTENDS DeliverySaga

CONSTANT p1

SmallPositionOf == [o \in Orders |-> p1]
SmallQuantityOf == [o \in Orders |-> 2]
SmallStock == [p \in Positions |-> 1]

=============================================================================
