--------------------------- MODULE MCReplenishment ---------------------------
(* Replenishment on a small instance: one request comes in at the MCP server. *)
EXTENDS Replenishment

CONSTANTS r1, r2, r3, p1

OnMcp == (r1 :> AiService) @@ (r2 :> AiService) @@ (r3 :> McpServer)

Fast == [lead |-> 0, point |-> 1, quantity |-> 1]
Slow == [lead |-> 2, point |-> 2, quantity |-> 2]
Settings == {Fast, Slow}
FirstSettings == p1 :> Slow
SomePolicies == [point: {5, 20}, quantity: {10, 25}]
Days == [1..4 -> 0..2]

=============================================================================
