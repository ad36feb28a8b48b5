-------------------------- MODULE MCShipmentService --------------------------
(* shipment-service on a small instance. *)
EXTENDS ShipmentService

=============================================================================
