--------------------------- MODULE MCTokenClient ---------------------------
(* A TLC instance of TokenClient: two tabs, two requests in the first.     *)
EXTENDS TokenClient

CONSTANTS t1, t2, r1, r2, r3

MCTabOf(r) == IF r = r3 THEN t2 ELSE t1

(* Every request is answered to its caller: refreshed and retried once, or
   rejected, or gone with its page; none waits for ever behind a refresh.
   The two requests of the first tab are interchangeable: one stands for
   both.                                                                   *)
EveryRequestSettles == Settles(r1) /\ Settles(r3)
=============================================================================
