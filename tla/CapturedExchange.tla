--------------------------- MODULE CapturedExchange ---------------------------
(***************************************************************************)
(* What the proxy promises about the rows it captures, seen by readers of  *)
(* the request table only: a request is captured once; an interceptor is   *)
(* credited before the response comes; the response and what the           *)
(* interceptor did to it are written together, once, and never change.     *)
(***************************************************************************)
CONSTANTS
    Req,            \* requests
    Interceptor,    \* names of interceptors
    None

VARIABLES
    row,            \* the row of each request, or None
    captured        \* requests whose row was written

(* What a row tells: who intercepted, what kind of interception it was,    *)
(* and where the response in it came from.                                 *)
Fresh == [by |-> None, type |-> None, response |-> None]

Init ==
    /\ row = [r \in Req |-> None]
    /\ captured = {}

Capture(r) ==
    /\ r \notin captured
    /\ captured' = captured \cup {r}
    /\ row' = [row EXCEPT ![r] = Fresh]

(* Eviction, or clear. *)
Drop(r) ==
    /\ row' = [row EXCEPT ![r] = None]
    /\ UNCHANGED captured

Unanswered(r) == row[r] # None /\ row[r].response = None

(* An interceptor called forward(). *)
Credit(r, i) ==
    /\ Unanswered(r)
    /\ row[r].by = None
    /\ row' = [row EXCEPT ![r].by = i]
    /\ UNCHANGED captured

(* Nobody changed what the upstream server sent. *)
AnswerPlain(r) ==
    /\ Unanswered(r)
    /\ row' = [row EXCEPT ![r].response = "upstream"]
    /\ UNCHANGED captured

(* An interceptor answered without the upstream server. *)
AnswerMocked(r, i) ==
    /\ Unanswered(r)
    /\ row[r].by = None
    /\ row' = [row EXCEPT ![r] = [by |-> i, type |-> "mocked", response |-> "mock"]]
    /\ UNCHANGED captured

(* The interceptor that was credited returned a response of its own, which *)
(* may be the one it was given.                                            *)
AnswerModified(r) ==
    /\ Unanswered(r)
    /\ row[r].by # None
    /\ \E response \in {"upstream", "override"} :
          row' = [row EXCEPT ![r].type = "modified", ![r].response = response]
    /\ UNCHANGED captured

Next ==
    \E r \in Req :
        \/ Capture(r)
        \/ Drop(r)
        \/ \E i \in Interceptor : Credit(r, i) \/ AnswerMocked(r, i)
        \/ AnswerPlain(r)
        \/ AnswerModified(r)

Spec == Init /\ [][Next]_<<row, captured>>

=============================================================================
