------------------------------ MODULE MCIngest ------------------------------
(* TLC instance of Ingest. *)
EXTENDS Ingest, TLC

\* Only compared for equality.
Symmetric == Permutations(Handlers)
=============================================================================
