----------------------------- MODULE MCCleanup -----------------------------
(* TLC instances of Cleanup: every item is in the first container.          *)
EXTENDS Cleanup, TLC

FirstContainer == CHOOSE c \in Containers : \A d \in Containers : c <= d

AllInFirst == [i \in Items |-> FirstContainer]

Symmetry == Permutations(Replicas)
=============================================================================
