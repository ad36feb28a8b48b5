----------------------------- MODULE MCDockDoors -----------------------------
(* Door monitors on a small instance. *)
EXTENDS DockDoors

=============================================================================
