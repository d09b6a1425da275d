-------------------------- MODULE MCDeliverySystem --------------------------
EXTENDS DeliverySystem, TLC

Symmetric == Permutations(Workers)
=============================================================================
