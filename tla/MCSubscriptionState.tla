------------------------- MODULE MCSubscriptionState -------------------------
EXTENDS SubscriptionState, TLC

\* One process.
SameHome == [t \in Threads |-> CHOOSE r \in Processes : TRUE]

Symmetric == Permutations(Threads)
=============================================================================
