--------------------------- MODULE MCSearchPages ---------------------------
(* TLC instances of SearchPages.  Two queries besides the empty box, one of
   them typed with a space too; lists and results have two pages until the
   first change leaves one.                                                *)
EXTENDS SearchPages, TLC

MCTrimmed == [v \in Values |-> IF v = "a " THEN "a" ELSE v]

MCLastPage == [q \in Values |-> [n \in 0 .. MaxWrites |-> IF n = 0 THEN 2 ELSE 1]]

Symmetry == Permutations(Slots)
=============================================================================
