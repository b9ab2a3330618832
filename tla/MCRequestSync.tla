----------------------------- MODULE MCRequestSync -----------------------------
(* TLC instances of RequestSync. *)
EXTENDS RequestSync

=============================================================================
