------------------------------ MODULE MCLifecycle ------------------------------
(* TLC instance of Lifecycle. *)
EXTENDS Lifecycle
=============================================================================
