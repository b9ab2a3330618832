---------------------------- MODULE MCEventFollower ----------------------------
(* TLC instances of EventFollower. *)
EXTENDS EventFollower

=============================================================================
