----------------------------- MODULE EventFollower -----------------------------
(***************************************************************************)
(* The two followers of the event log over the control socket.  The        *)
(* command "httap interceptors logs --follow" (cli/commands/               *)
(* interceptors.ts) asks once and then once a second with the number of    *)
(* the last event printed, waiting for every answer.  The panel of the     *)
(* terminal UI (useInterceptorEvents.ts) asks every two seconds and at the *)
(* start, whether or not earlier answers have come, and a poll of it may   *)
(* fail.  Interceptors log, and other clients clear, between any two       *)
(* steps, also while answers are on their way; they come in the order of   *)
(* the questions, for there is one connection.                             *)
(***************************************************************************)
EXTENDS EventLog

CONSTANTS
    FirstLimit,     \* the --limit of the first query
    MaxClears,      \* bound: how often the log is cleared
    MaxPolls,       \* bound: polls of the panel that are out
    MaxFailures     \* bound: polls of the panel that fail

ASSUME FollowerAssumption ==
    FirstLimit \in Nat /\ MaxClears \in Nat /\ MaxPolls \in Nat \ {0} /\ MaxFailures \in Nat

VARIABLES
    follower,       \* "command" or "panel"
    wanted,         \* the --level of the command; the panel takes every level
    lastSeq,        \* number of the last event shown, 0 before any
    following,      \* the first answer was shown
    polls,          \* the questions that are out: [after, answered, events]
    printed,        \* numbers of what was printed, or of the events of the panel
    start,          \* history: first number of the latest answer without cursor
    clears,         \* history: clears so far
    failures        \* history: polls that failed

followVars == <<follower, wanted, lastSeq, following, polls, printed, start, clears, failures>>
vars == <<logVars, followVars>>

Wanted(e) == MatchesFilter(e, wanted)

Unanswered(after) == [after |-> after, answered |-> FALSE, events |-> <<>>]

Asked ==
    /\ polls' = Append(polls, Unanswered(lastSeq))
    /\ UNCHANGED <<logVars, follower, wanted, lastSeq, following, printed, start, clears, failures>>

(* The command waits for an answer before it asks again.                   *)
Ask ==
    /\ follower = "command" /\ polls = <<>>
    /\ Asked

(* fetchEvents of the panel, on a timer: nothing looks for a poll in       *)
(* flight.                                                                 *)
Poll ==
    /\ follower = "panel" /\ Len(polls) < MaxPolls
    /\ Asked

(* The control server answers from the log of the moment. *)
ServerAnswers ==
    /\ \E i \in DOMAIN polls :
          /\ ~ polls[i].answered /\ \A j \in 1 .. i - 1 : polls[j].answered
          /\ LET limit == IF follower = "command" /\ ~ following THEN FirstLimit ELSE LatestDefault
             IN  polls' = [polls EXCEPT ![i].answered = TRUE,
                                        ![i].events = GetInterceptorEvents(polls[i].after, limit, wanted)]
    /\ UNCHANGED <<logVars, follower, wanted, lastSeq, following, printed, start, clears, failures>>

Numbers(s) == [n \in DOMAIN s |-> s[n].seq]

(* Mutants of NextCursor: it skips one event; it stays behind.             *)
NextCursor_SkipsOne(events)    == events[Len(events)].seq + 1
NextCursor_StaysBehind(events) == events[1].seq

(* The cursor is the number of the last event.                             *)
NextCursor(events) == events[Len(events)].seq

(* Shows the first answer; from its events comes the next cursor.          *)
PrintAnswer ==
    /\ polls # <<>> /\ polls[1].answered
    /\ polls' = Tail(polls)
    /\ following' = TRUE
    /\ printed' = printed \o Numbers(polls[1].events)
    /\ lastSeq' = IF polls[1].events = <<>> THEN lastSeq ELSE NextCursor(polls[1].events)
    /\ start' = IF polls[1].after = 0 /\ polls[1].events # <<>> THEN polls[1].events[1].seq ELSE start
    /\ UNCHANGED <<logVars, follower, wanted, clears, failures>>

(* A poll of the panel fails, answered by nobody or too late: its catch    *)
(* leaves everything as it is.                                             *)
PollFails ==
    /\ follower = "panel" /\ polls # <<>> /\ failures < MaxFailures
    /\ failures' = failures + 1
    /\ polls' = Tail(polls)
    /\ UNCHANGED <<logVars, follower, wanted, lastSeq, following, printed, start, clears>>

Log(level) ==
    /\ AppendEvent(level)
    /\ UNCHANGED followVars

Clear ==
    /\ clears < MaxClears
    /\ ClearEvents
    /\ clears' = clears + 1
    /\ UNCHANGED <<follower, wanted, lastSeq, following, polls, printed, start, failures>>

Init ==
    /\ LogInit
    /\ follower \in {"command", "panel"}
    /\ wanted \in IF follower = "command" THEN Level ELSE {"info"}
    /\ lastSeq = 0
    /\ following = FALSE
    /\ polls = <<>>
    /\ printed = <<>>
    /\ start = 0
    /\ clears = 0
    /\ failures = 0

Next ==
    \/ Ask
    \/ Poll
    \/ ServerAnswers
    \/ PrintAnswer
    \/ PollFails
    \/ \E level \in Level : Log(level)
    \/ Clear

(* The loop and the timer ask again, and a running daemon answers. *)
Fairness == WF_vars(Ask) /\ WF_vars(Poll) /\ WF_vars(ServerAnswers) /\ WF_vars(PrintAnswer)

Spec == Init /\ [][Next]_vars /\ Fairness

-----------------------------------------------------------------------------
(* Properties. *)

Printed == {printed[n] : n \in DOMAIN printed}

(* Until someone clears the log, the command prints no event twice or out   *)
(* of order, although the first queries may overlap in what they ask for.   *)
(* The panel, which shows an event again for every answer that has it,      *)
(* never steps back: each answer ends at or after the one before it, so the *)
(* cursor is the highest number shown.                                      *)
PrintedInOrder ==
    clears = 0 =>
        /\ \A n \in DOMAIN printed : printed[n] <= lastSeq
        /\ follower = "command" =>
              \A m, n \in DOMAIN printed : m < n => printed[m] < printed[n]

(* Once an event was printed none that follows it is skipped: each later   *)
(* one of the level asked for, up to the cursor, is printed unless it was  *)
(* overwritten in the buffer - by the command, and in the panel although   *)
(* its polls overlap and some fail.  A second poll of the panel that went  *)
(* out without a cursor may start later and leave what lies between.       *)
FollowedWithoutGaps ==
    clears = 0 /\ printed # <<>> =>
        /\ follower = "command" => start = printed[1]
        /\ \A n \in 1 .. size :
              LET e == Contents[n]
              IN  Wanted(e) /\ start <= e.seq /\ e.seq <= lastSeq
                      => e.seq \in Printed

(* Whoever follows sees the events in order and without gaps.              *)
FollowerInv == PrintedInOrder /\ FollowedWithoutGaps

(* Once nothing is logged any more, the newest event is printed in the     *)
(* end, if it is of the level asked for.                                   *)
NewestGetsPrinted ==
    <>[](clears = 0 /\ size > 0 /\ Wanted(Contents[size])
            => Contents[size].seq \in Printed)

=============================================================================
