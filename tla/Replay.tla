-------------------------------- MODULE Replay --------------------------------
(***************************************************************************)
(* Replays of captured requests.  The control server (control.ts) sends    *)
(* the request once more through the daemon's own proxy, under a token it  *)
(* leaves with the replay tracker (replay-tracker.ts); the proxy trades    *)
(* the token of an arriving request for the lineage of its row; when the   *)
(* answer is in, the control server looks for that row among the newest.   *)
(*                                                                         *)
(* Several replays are under way at once, other traffic is captured, rows  *)
(* are deleted, tokens expire or are pushed out, and a replay that timed   *)
(* out may still reach the proxy.                                          *)
(***************************************************************************)
EXTENDS Naturals, Sequences, FiniteSets

CONSTANTS
    Call,           \* replayRequest calls, each with a token of its own
    Original,       \* captured requests to replay
    Initiator,      \* who asks: optionalReplayInitiator
    CheckedSchema,  \* the table was created by SCHEMA and has its CHECKs
    MaxTokens,      \* REPLAY_TRACKER_MAX_ENTRIES
    Recent,         \* how many rows the search for the replay's row reads
    MaxOthers,      \* bound: requests captured besides
    MaxClock,       \* bound: the time that passes
    None

ASSUME ReplayAssumption ==
    /\ CheckedSchema \in BOOLEAN
    /\ MaxTokens \in Nat \ {0}
    /\ Recent \in Nat \ {0}
    /\ MaxOthers \in Nat
    /\ MaxClock \in Nat
    /\ None \notin Call \cup Original \cup Initiator \cup {"missing", "failed"}
    /\ Call \cap {"missing", "failed"} = {}

VARIABLES
    clock,          \* Date.now()
    call,           \* what each call asked for, when, and what it returned
    wire,           \* where the request of each call is, and when it arrived
    pending,        \* the tracker's tokens; its map has them by turn
    expired,        \* those whose time is over
    table,          \* the request table, newest row last
    others          \* history: other requests captured

vars == <<clock, call, wire, pending, expired, table, others>>

-----------------------------------------------------------------------------
(* The tracker. *)

Valid == pending \ expired

(* The first key of the map is the token registered first. *)
Oldest(tokens) == CHOOSE t \in tokens : \A u \in tokens : call[t].turn <= call[u].turn

(* register: expired tokens go, then the oldest if the map is full. *)
Registered(c) ==
    (IF Cardinality(Valid) >= MaxTokens THEN Valid \ {Oldest(Valid)} ELSE Valid) \cup {c}

Asked(c) == <<call[c].original, call[c].by>>
Nothing == <<None, None>>

(* Mutant of Lineage: whoever brings the only token is what it says. *)
Lineage_AnyToken(c) == IF pending = {} THEN Nothing ELSE Asked(CHOOSE t \in pending : TRUE)

(* consume: what the tracker knows of a token. *)
Lineage(c) == IF c \in pending THEN Asked(c) ELSE Nothing

-----------------------------------------------------------------------------
(* The table. *)

Row(c, lineage) == [call |-> c, from |-> lineage[1], by |-> lineage[2], at |-> wire[c].at]

(* The CHECK of the column replay_initiator, and what rowToSummary lets    *)
(* through of a column that has none.                                      *)
Accepted(by) == by \in {"mcp", "tui"}
Shown(by) == IF Accepted(by) THEN by ELSE None

(* Mutants of Matches: rows from before the replay count as well; a row    *)
(* of the millisecond in which the replay was sent does not.               *)
Matches_Older(row, c) ==
    /\ row.from = call[c].original
    /\ Shown(row.by) = call[c].by

Matches_Later(row, c) ==
    /\ row.from = call[c].original
    /\ Shown(row.by) = call[c].by
    /\ row.at > call[c].since

Matches(row, c) ==
    /\ row.from = call[c].original
    /\ Shown(row.by) = call[c].by
    /\ row.at >= call[c].since

(* listRequestsSummary({limit}).find(...), newest row first. *)
Candidates(c) ==
    {n \in DOMAIN table : n > Len(table) - Recent /\ Matches(table[n], c)}

Located(c) ==
    IF Candidates(c) = {} THEN "missing"
    ELSE table[CHOOSE n \in Candidates(c) : \A k \in Candidates(c) : k <= n].call

-----------------------------------------------------------------------------
(* replayRequest up to its await: the token is left, the request sent.     *)
Send(c, o, by) ==
    /\ call[c].original = None
    /\ call' = [call EXCEPT ![c] =
          [original |-> o, by |-> by, since |-> clock, result |-> None,
           turn |-> Cardinality({d \in Call : call[d].original # None})]]
    /\ wire' = [wire EXCEPT ![c] = [place |-> "sent", at |-> None]]
    /\ pending' = Registered(c)
    /\ expired' = {}
    /\ UNCHANGED <<clock, table, others>>

Waiting(c) == call[c].original # None /\ call[c].result = None

(* beforeRequest up to the await of the body. *)
Reach(c) ==
    /\ wire[c].place = "sent"
    /\ wire' = [wire EXCEPT ![c] = [place |-> "reached", at |-> clock]]
    /\ UNCHANGED <<clock, call, pending, expired, table, others>>

(* The connection is closed before the request got through. *)
Lose(c) ==
    /\ wire[c].place = "sent"
    /\ ~ Waiting(c)
    /\ wire' = [wire EXCEPT ![c].place = "lost"]
    /\ UNCHANGED <<clock, call, pending, expired, table, others>>

(* The rest of beforeRequest: the row is saved and the token consumed; the *)
(* CHECK may reject the lineage, which leaves a plain row and an error.    *)
Capture(c) ==
    /\ wire[c].place = "reached"
    /\ pending' = pending \ {c}
    /\ expired' = expired \ {c}
    /\ LET lineage  == Lineage(c)
           rejected == lineage # Nothing /\ CheckedSchema /\ ~ Accepted(lineage[2])
       IN  /\ wire' = [wire EXCEPT ![c].place = IF rejected THEN "failed" ELSE "captured"]
           /\ table' = Append(table, Row(c, IF rejected THEN Nothing ELSE lineage))
    /\ UNCHANGED <<clock, call, others>>

(* The answer, or mockttp's error page, is in: the row is looked for.      *)
Locate(c) ==
    /\ Waiting(c)
    /\ wire[c].place \in {"captured", "failed"}
    /\ call' = [call EXCEPT ![c].result = Located(c)]
    /\ UNCHANGED <<clock, wire, pending, expired, table, others>>

(* Mutant of Fail: no timeout once the request has reached the proxy. *)
Fail_UnlessReached(c) ==
    /\ Waiting(c)
    /\ wire[c].place = "sent"
    /\ call' = [call EXCEPT ![c].result = "failed"]
    /\ UNCHANGED <<clock, wire, pending, expired, table, others>>

(* The fetch fails, or is aborted by its timeout; the token stays behind,  *)
(* and the request may still get through.                                  *)
Fail(c) ==
    /\ Waiting(c)
    /\ call' = [call EXCEPT ![c].result = "failed"]
    /\ UNCHANGED <<clock, wire, pending, expired, table, others>>

Expire(c) ==
    /\ c \in Valid
    /\ expired' = expired \cup {c}
    /\ UNCHANGED <<clock, call, wire, pending, table, others>>

(* The tracker's interval. *)
CleanUp ==
    /\ expired # {}
    /\ pending' = Valid
    /\ expired' = {}
    /\ UNCHANGED <<clock, call, wire, table, others>>

-----------------------------------------------------------------------------
(* The rest of the daemon. *)

CaptureOther ==
    /\ others < MaxOthers
    /\ others' = others + 1
    /\ table' = Append(table, [call |-> None, from |-> None, by |-> None, at |-> clock])
    /\ UNCHANGED <<clock, call, wire, pending, expired>>

(* Eviction deletes the oldest rows, clear deletes all of them. *)
DeleteRows(n) ==
    /\ table' = SubSeq(table, n + 1, Len(table))
    /\ UNCHANGED <<clock, call, wire, pending, expired, others>>

Tick ==
    /\ clock < MaxClock
    /\ clock' = clock + 1
    /\ UNCHANGED <<call, wire, pending, expired, table, others>>

Init ==
    /\ clock = 0
    /\ call = [c \in Call |-> [original |-> None, by |-> None, since |-> 0, turn |-> 0,
                             result |-> None]]
    /\ wire = [c \in Call |-> [place |-> "none", at |-> None]]
    /\ pending = {}
    /\ expired = {}
    /\ table = <<>>
    /\ others = 0

Next ==
    \/ \E c \in Call, o \in Original, by \in Initiator : Send(c, o, by)
    \/ \E c \in Call : Reach(c)
    \/ \E c \in Call : Lose(c)
    \/ \E c \in Call : Capture(c)
    \/ \E c \in Call : Locate(c)
    \/ \E c \in Call : Fail(c)
    \/ \E c \in Call : Expire(c)
    \/ CleanUp
    \/ CaptureOther
    \/ \E n \in 1 .. Len(table) : DeleteRows(n)
    \/ Tick

(* The abort timer of a replay fires. *)
Fairness == \A c \in Call : WF_vars(Fail(c))

Spec == Init /\ [][Next]_vars /\ Fairness

-----------------------------------------------------------------------------
(* Properties. *)

(* The shape of the state: the tracker keeps no more tokens than its       *)
(* limit, and none of a request that was captured.                         *)
TypeOK ==
    /\ clock \in 0 .. MaxClock
    /\ call \in [Call -> [original : Original \cup {None}, by : Initiator \cup {None},
                          since : 0 .. MaxClock, turn : Nat,
                          result : Call \cup {None, "missing", "failed"}]]
    /\ wire \in [Call -> [place : {"none", "sent", "reached", "captured", "failed", "lost"},
                          at : 0 .. MaxClock \cup {None}]]
    /\ Cardinality(pending) <= MaxTokens
    /\ \A t \in pending : wire[t].place \in {"sent", "reached", "lost"}
    /\ expired \subseteq pending /\ pending \subseteq Call
    /\ others \in 0 .. MaxOthers

(* A row that says it is a replay is one: it was captured for a call that  *)
(* asked for that very replay, and no call has two such rows, whatever     *)
(* tokens expired, were pushed out or were left behind by calls that ended. *)
LineageIsTrue ==
    \A m \in DOMAIN table :
        table[m].from # None =>
            /\ <<table[m].from, table[m].by>> = Asked(table[m].call)
            /\ \A n \in DOMAIN table : n # m => table[n].call # table[m].call

(* Types, and rows that are what they say.                                 *)
ReplayInv == TypeOK /\ LineageIsTrue

(* A call never returns a row of some other replay, nor one that was in    *)
(* the table before it was sent, even if its own row is gone or unmarked:  *)
(* the row returned is that of a request that arrived since.               *)
FoundIsNew ==
    \A c \in Call : call[c].result \in Call =>
        LET d == call[c].result
        IN  Asked(d) = Asked(c) /\ wire[d].at >= call[c].since

(* A call whose request was captured with its lineage does not end empty-  *)
(* handed while its row is still among the newest.                         *)
OwnRowIsSeen ==
    [][\A c \in Call :
          call'[c].result = "missing" /\ call[c].result = None =>
             \A n \in DOMAIN table :
                 table[n].call = c /\ n > Len(table) - Recent => table[n].from = None]_vars

(* Every call ends, whatever becomes of its request. *)
ReplaysEnd == \A c \in Call : Waiting(c) ~> ~ Waiting(c)

=============================================================================
