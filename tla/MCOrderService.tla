--------------------------- MODULE MCOrderService ---------------------------
(* order-service on a small instance. *)
EXTENDS OrderService

=============================================================================
