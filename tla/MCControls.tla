------------------------------ MODULE MCControls ------------------------------
(* TLC instance of DeliveryControls. *)
EXTENDS DeliveryControls, TLC

\* Only compared for equality.
Symmetric == Permutations(Goroutines) \cup Permutations(Semaphores)
=============================================================================
