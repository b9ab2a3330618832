--------------------------- MODULE MCControlChannel ---------------------------
(* TLC instances of ControlChannel. *)
EXTENDS ControlChannel, TLC

CONSTANTS c1, c2, c3

(* The answer to c1 comes in two pieces; the answer to c2 awaits a handler *)
(* and is longer than the client's buffer; c3 is longer than the server's. *)
TwoThreeOne == c1 :> 2 @@ c2 :> 3 @@ c3 :> 1

=============================================================================
