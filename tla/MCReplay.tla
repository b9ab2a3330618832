------------------------------- MODULE MCReplay -------------------------------
(* TLC instances of Replay. *)
EXTENDS Replay

=============================================================================
