------------------------------- MODULE MCStore -------------------------------
(* TLC instance of DeliveryStore and its refinement: every order of calls. *)
EXTENDS StoreRefinement, TLC

\* Webhooks are only compared for equality.
Symmetric == Permutations(Webhooks)
=============================================================================
