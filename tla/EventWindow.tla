------------------------------ MODULE EventWindow ------------------------------
(***************************************************************************)
(* What the interceptor event log promises its readers: it holds the       *)
(* newest events, at most Capacity of them, oldest first and numbered      *)
(* without gaps, until someone clears it.                                  *)
(***************************************************************************)
EXTENDS Integers, Sequences

CONSTANTS Capacity, Level

VARIABLES log, next     \* the events held; the number of the next one

Event(n, l) == [seq |-> n, level |-> l]

Init == log = <<>> /\ next = 1

Append1(l) ==
    LET longer == Append(log, Event(next, l))
    IN  /\ log' = IF Len(log) < Capacity THEN longer ELSE Tail(longer)
        /\ next' = next + 1

Clear == log' = <<>> /\ next' = 1

Next == (\E l \in Level : Append1(l)) \/ Clear

Spec == Init /\ [][Next]_<<log, next>>

=============================================================================
