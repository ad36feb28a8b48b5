------------------------- MODULE MCExceptionWorkflow -------------------------
(* The exception workflow on a small instance. *)
EXTENDS ExceptionWorkflow

=============================================================================
