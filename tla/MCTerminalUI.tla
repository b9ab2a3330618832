----------------------------- MODULE MCTerminalUI -----------------------------
(* A screen of two rows, one with the filter bar open, and three requests. *)
EXTENDS TerminalUI
=============================================================================
