---------------------------- MODULE MCUserAccount ----------------------------
(* Three requests on one account, which starts with every count of failed  *)
(* attempts, deleted or not, or absent; two tokens issued before.          *)
EXTENDS UserAccount

=============================================================================
