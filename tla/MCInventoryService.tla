------------------------- MODULE MCInventoryService -------------------------
(* inventory-service on a small instance. *)
EXTENDS InventoryService

CONSTANTS o1, o2, p1

\* o1's goods go to p1; o2's to a position without a row.
SmallPositionOf == [o \in Orders |-> IF o = o1 THEN p1 ELSE "no row"]
SmallQuantityOf == [o \in Orders |-> 2]
SmallStock == [p \in Positions |-> 1]
SmallDeltas == {-2, 1}
SmallCounts == {0}

=============================================================================
