--------------------------- MODULE MCAuthSessions ---------------------------
(* TLC instances of AuthSessions: refresh tokens are interchangeable, and so
   are requests; sessions are ordered by their scores and are not.         *)
EXTENDS AuthSessions, TLC

Symmetry == Permutations(Tokens) \cup Permutations(Requests)
=============================================================================
