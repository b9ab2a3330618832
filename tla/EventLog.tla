------------------------------- MODULE EventLog -------------------------------
(***************************************************************************)
(* The interceptor event log (interceptor-event-log.ts): a ring buffer     *)
(* with a write index and running totals per level, and the queries the    *)
(* control server answers from it (getInterceptorEvents in control.ts).    *)
(*                                                                         *)
(* An event is its number and its level, which its type determines; the    *)
(* names, messages and times in it are left out.                           *)
(***************************************************************************)
EXTENDS Integers, Sequences, FiniteSets

CONSTANTS
    Capacity,       \* capacity of the buffer
    LatestDefault,  \* how many events a query without a cursor gets
    MaxEvents       \* bound: events appended between two clears

ASSUME LogAssumption ==
    /\ Capacity \in Nat \ {0}
    /\ LatestDefault \in Nat \ {0}
    /\ MaxEvents \in Nat

VARIABLES
    buffer,         \* the slots, from 0
    nextSeq,
    writeIndex,
    size,
    counts          \* infoCount, warnCount and errorCount

logVars == <<buffer, nextSeq, writeIndex, size, counts>>

Level == {"info", "warn", "error"}

(* LEVEL_SEVERITY. *)
Severity == [info |-> 0, warn |-> 1, error |-> 2]

Slot == 0 .. Capacity - 1
Empty == [seq |-> 0, level |-> "none"]
NoCounts == [l \in Level |-> 0]

-----------------------------------------------------------------------------
(* Reading. *)

(* iterateEvents: from the oldest slot, once around. *)
Contents ==
    LET start == IF size < Capacity THEN 0 ELSE writeIndex
    IN  [n \in 1 .. size |-> buffer[(start + n - 1) % Capacity]]

Newest(s, n) == SubSeq(s, Len(s) - n + 1, Len(s))

(* What stands at some positions of a sequence, in its order. *)
Rank(positions, i) == Cardinality({j \in positions : j <= i})
Nth(positions, k) == CHOOSE i \in positions : Rank(positions, i) = k
Picked(s, positions) == [k \in 1 .. Cardinality(positions) |-> s[Nth(positions, k)]]

MatchesFilter(event, level) == Severity[event.level] >= Severity[level]
AtLeast(s, level) == Picked(s, {i \in DOMAIN s : MatchesFilter(s[i], level)})

(* since(afterSeq, {level}): followers set no limit. *)
Since(afterSeq, level) ==
    Picked(Contents, {n \in 1 .. size : /\ Contents[n].seq > afterSeq
                                        /\ MatchesFilter(Contents[n], level)})

(* latest(limit): slice(-limit), which is everything for a limit of 0.     *)
Latest(limit) ==
    IF limit = 0 \/ limit >= size THEN Contents ELSE Newest(Contents, limit)

(* getInterceptorEvents: without a cursor the newest are taken first, and  *)
(* filtered then.                                                          *)
GetInterceptorEvents(afterSeq, limit, level) ==
    IF afterSeq > 0 THEN Since(afterSeq, level) ELSE AtLeast(Latest(limit), level)

-----------------------------------------------------------------------------
(* Writing. *)

(* Mutant of AppendEvent: the write index does not wrap. *)
AppendEvent_NoWrap(level) ==
    /\ nextSeq <= MaxEvents
    /\ nextSeq' = nextSeq + 1
    /\ counts' = [counts EXCEPT ![level] = @ + 1]
    /\ buffer' = [buffer EXCEPT ![writeIndex] = [seq |-> nextSeq, level |-> level]]
    /\ writeIndex' = writeIndex + 1
    /\ size' = IF size < Capacity THEN size + 1 ELSE size

AppendEvent(level) ==
    /\ nextSeq <= MaxEvents
    /\ nextSeq' = nextSeq + 1
    /\ LET kept == IF size = Capacity
                   THEN [counts EXCEPT ![buffer[writeIndex].level] = @ - 1]
                   ELSE counts
       IN  counts' = [kept EXCEPT ![level] = @ + 1]
    /\ buffer' = [buffer EXCEPT ![writeIndex] = [seq |-> nextSeq, level |-> level]]
    /\ writeIndex' = (writeIndex + 1) % Capacity
    /\ size' = IF size < Capacity THEN size + 1 ELSE size

(* Mutant of ClearEvents: the write index stays where it is. *)
ClearEvents_KeepsIndex ==
    /\ buffer' = [n \in Slot |-> Empty]
    /\ nextSeq' = 1
    /\ size' = 0
    /\ counts' = NoCounts
    /\ UNCHANGED writeIndex

ClearEvents ==
    /\ buffer' = [n \in Slot |-> Empty]
    /\ nextSeq' = 1
    /\ writeIndex' = 0
    /\ size' = 0
    /\ counts' = NoCounts

LogInit ==
    /\ buffer = [n \in Slot |-> Empty]
    /\ nextSeq = 1
    /\ writeIndex = 0
    /\ size = 0
    /\ counts = NoCounts

LogNext == (\E level \in Level : AppendEvent(level)) \/ ClearEvents

LogSpec == LogInit /\ [][LogNext]_logVars

-----------------------------------------------------------------------------
(* Properties. *)

(* The shape of the log. *)
LogTypeOK ==
    /\ buffer \in [Slot -> [seq : Nat, level : Level] \cup {Empty}]
    /\ nextSeq \in Nat \ {0}
    /\ writeIndex \in Slot
    /\ size \in 0 .. Capacity
    /\ counts \in [Level -> Int]

(* The slots in use that hold an event of a level. *)
Slots(l) == {i \in 0 .. size - 1 : buffer[i].level = l}

(* The inductive invariant of the log: slots are used from 0 on, those in  *)
(* use hold events, and the totals count them.                             *)
LogInv ==
    /\ LogTypeOK
    /\ size < Capacity => writeIndex = size
    /\ \A i \in 0 .. size - 1 : buffer[i] # Empty
    /\ \A l \in Level : counts[l] = Cardinality(Slots(l))

(* The totals the status line shows are those of the events in the buffer, *)
(* after any number of overwrites and clears.                              *)
CountsMatch ==
    \A l \in Level : counts[l] = Cardinality({n \in 1 .. size : Contents[n].level = l})

(* The ring buffer implements the window of newest events. *)
Window == INSTANCE EventWindow WITH log <- Contents, next <- nextSeq
ImplementsWindow == Window!Spec

=============================================================================
