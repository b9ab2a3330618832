----------------------------- MODULE ReplayProofs -----------------------------
(***************************************************************************)
(* Proofs about replays, for any number of calls, other requests, tokens   *)
(* and rows searched, and any time that passes.  ReplayInd is inductive:   *)
(* a row that says it is a replay was captured for a call that asked for   *)
(* just that, arrived when the row says, and is that call's only row.  So  *)
(* tokens may expire, be pushed out or be left behind, and a search that   *)
(* cannot tell two replays apart still returns one that was asked for and  *)
(* came in since.                                                          *)
(***************************************************************************)
EXTENDS Replay, FiniteSetTheorems, SequenceTheorems, WellFoundedInduction, TLAPS

(* The calls that were sent. *)
Sent == {c \in Call : call[c].original # None}

Places == {"none", "sent", "reached", "captured", "failed", "lost"}
Calls == [original : Original \cup {None}, by : Initiator \cup {None}, since : 0 .. MaxClock,
          turn : Nat, result : Call \cup {None, "missing", "failed"}]
Wires == [place : Places, at : 0 .. MaxClock \cup {None}]

(* The state of the calls, their requests and their tokens. *)
CallsInd ==
    /\ clock \in 0 .. MaxClock /\ others \in 0 .. MaxOthers
    /\ call \in [Call -> Calls]
    /\ wire \in [Call -> Wires]
    /\ IsFiniteSet(Sent)
    /\ \A c \in Call :
          IF call[c].original = None
          THEN wire[c].place = "none" /\ call[c].result = None
          ELSE wire[c].place # "none" /\ call[c].by # None /\ call[c].since <= clock
    /\ \A c \in Call : wire[c].place \in {"reached", "captured", "failed"} =>
          wire[c].at \in call[c].since .. clock

TokensInd ==
    /\ pending \subseteq Sent /\ Cardinality(pending) <= MaxTokens
    /\ \A t \in pending : wire[t].place \in {"sent", "reached", "lost"}
    /\ expired \subseteq pending

(* A row that was captured for a call is dated by its arrival; one that    *)
(* says it is a replay says what its call asked for.                       *)
TrueRow ==
    {r \in [call : Call \cup {None}, from : Original \cup {None}, by : Initiator \cup {None},
            at : 0 .. MaxClock] :
        /\ r.call # None => wire[r.call].place \in {"captured", "failed"} /\ wire[r.call].at = r.at
        /\ r.from # None => /\ r.call # None
                            /\ <<r.from, r.by>> = Asked(r.call)
                            /\ CheckedSchema => Accepted(r.by)}

TableInd ==
    /\ table \in Seq(TrueRow)
    /\ \A m, n \in DOMAIN table : table[m].call # None /\ table[m].call = table[n].call => m = n

(* A row that was returned is there for good, and FoundIsNew.              *)
FoundInd ==
    /\ \A c \in Call : call[c].result \in Call =>
          wire[call[c].result].place \in {"captured", "failed"}
    /\ FoundIsNew

ReplayInd == CallsInd /\ TokensInd /\ TableInd /\ FoundInd

-----------------------------------------------------------------------------
(* Least and greatest. *)

(* Something that is ranked by a number is ranked lowest. *)
LEMMA LeastExists ==
    ASSUME NEW S, S # {}, NEW rank \in [S -> Nat]
    PROVE  \E t \in S : \A u \in S : rank[t] <= rank[u]
<1> DEFINE R == {rank[t] : t \in S}
<1>1. R \subseteq Nat /\ R # {}
  OBVIOUS
<1>2. \E x \in R : \A y \in R : ~ (<<y, x>> \in OpToRel(<, Nat))
  BY <1>1, WFMin, NatLessThanWellFounded, Zenon
<1>3. \E x \in R : \A y \in R : ~ (y < x)
  BY <1>1, <1>2 DEF OpToRel
<1>4. PICK t \in S : \A u \in S : ~ (rank[u] < rank[t])
  BY <1>3
<1> QED BY <1>4

(* A non-empty set of positions of a sequence has a last one.              *)
LEMMA LastExists ==
    ASSUME NEW k \in Nat, NEW S \in SUBSET (1 .. k), S # {}
    PROVE  \E m \in S : \A n \in S : n <= m
<1> DEFINE rank == [n \in S |-> k - n]
<1>1. rank \in [S -> Nat]
  OBVIOUS
<1>2. PICK m \in S : \A n \in S : rank[m] <= rank[n]
  <2> HIDE DEF rank
  <2> QED BY <1>1, LeastExists
<1>3. \A n \in S : k - m <= k - n /\ n \in Nat /\ m \in Nat
  BY <1>2
<1> QED BY <1>3

-----------------------------------------------------------------------------
(* Tokens. *)

(* One token more. *)
LEMMA OneMore ==
    ASSUME NEW S, IsFiniteSet(S), NEW x
    PROVE  /\ IsFiniteSet(S \cup {x})
           /\ Cardinality(S) \in Nat /\ Cardinality(S \cup {x}) \in Nat
           /\ Cardinality(S \cup {x}) <= Cardinality(S) + 1
<1>1. IsFiniteSet(S \cup {x}) /\ Cardinality(S) \in Nat /\ Cardinality(S \cup {x}) \in Nat
  BY FS_AddElement, FS_CardinalityType
<1>2. Cardinality(S \cup {x}) = IF x \in S THEN Cardinality(S) ELSE Cardinality(S) + 1
  BY FS_AddElement
<1> QED BY <1>1, <1>2

(* The tracker never keeps more than its limit, since it makes room first. *)
LEMMA RegisteredFits ==
    ASSUME CallsInd, TokensInd, NEW c \in Call
    PROVE  Cardinality(Registered(c)) <= MaxTokens /\ Registered(c) \subseteq pending \cup {c}
<1>1. /\ IsFiniteSet(pending) /\ IsFiniteSet(Valid)
      /\ Cardinality(Valid) <= Cardinality(pending)
      /\ Cardinality(pending) \in Nat /\ Cardinality(Valid) \in Nat
  <2>1. IsFiniteSet(pending) /\ Valid \subseteq pending
    BY FS_Subset DEF CallsInd, TokensInd, Valid
  <2> QED BY <2>1, FS_Subset, FS_CardinalityType
<1>2. MaxTokens \in Nat \ {0} /\ Cardinality(Valid) <= MaxTokens
  BY <1>1, ReplayAssumption DEF TokensInd
<1>3. Valid \subseteq pending
  BY DEF Valid
<1>4. CASE Cardinality(Valid) >= MaxTokens
  <2>1. Valid # {}
    BY <1>1, <1>2, <1>4, FS_EmptySet
  <2>2. Oldest(Valid) \in Valid
    <3> DEFINE rank == [t \in Valid |-> call[t].turn]
    <3>1. rank \in [Valid -> Nat]
      BY <1>3 DEF CallsInd, TokensInd, Sent, Calls
    <3>2. \E t \in Valid : \A u \in Valid : rank[t] <= rank[u]
      <4> HIDE DEF rank
      <4> QED BY <2>1, <3>1, LeastExists
    <3> QED BY <3>2 DEF Oldest
  <2> DEFINE kept == Valid \ {Oldest(Valid)}
  <2>3. IsFiniteSet(kept) /\ Cardinality(kept) = Cardinality(Valid) - 1
    BY <1>1, <2>2, FS_RemoveElement
  <2>4. Registered(c) = kept \cup {c}
    BY <1>4 DEF Registered
  <2>5. kept \subseteq pending
    BY <1>3
  <2> HIDE DEF kept
  <2>6. /\ Cardinality(kept) \in Nat /\ Cardinality(kept \cup {c}) \in Nat
        /\ Cardinality(kept \cup {c}) <= Cardinality(kept) + 1
    BY <2>3, OneMore
  <2> QED BY <1>1, <1>2, <2>3, <2>4, <2>5, <2>6
<1>5. CASE Cardinality(Valid) < MaxTokens
  <2>1. Registered(c) = Valid \cup {c}
    BY <1>1, <1>2, <1>5 DEF Registered
  <2>2. /\ Cardinality(Valid \cup {c}) \in Nat
        /\ Cardinality(Valid \cup {c}) <= Cardinality(Valid) + 1
    BY <1>1, OneMore
  <2> QED BY <1>1, <1>2, <1>3, <1>5, <2>1, <2>2
<1> QED BY <1>1, <1>2, <1>4, <1>5

(* Fewer tokens are within the limit too. *)
LEMMA FewerFit ==
    ASSUME CallsInd, TokensInd, NEW S \in SUBSET pending
    PROVE  Cardinality(S) <= MaxTokens
<1>1. IsFiniteSet(pending) /\ Cardinality(pending) <= MaxTokens
  BY FS_Subset DEF CallsInd, TokensInd
<1>2. /\ IsFiniteSet(S) /\ Cardinality(S) <= Cardinality(pending)
      /\ Cardinality(S) \in Nat /\ Cardinality(pending) \in Nat /\ MaxTokens \in Nat
  BY <1>1, FS_Subset, FS_CardinalityType, ReplayAssumption
<1> QED BY <1>1, <1>2

-----------------------------------------------------------------------------
(* What a step leaves as it was. *)

(* What was asked for, and when. *)
AskedStays == \A c \in Call : call[c].original # None =>
    /\ call'[c].original = call[c].original /\ call'[c].by = call[c].by
    /\ call'[c].since = call[c].since

(* Requests that were captured. *)
CapturedStays == \A c \in Call : wire[c].place \in {"captured", "failed"} => wire'[c] = wire[c]

(* A request that only changes places.                                     *)
LEMMA PlaceChanges ==
    ASSUME CallsInd, NEW c \in Call, NEW p, wire' = [wire EXCEPT ![c].place = p]
    PROVE  wire' = [wire EXCEPT ![c] = [place |-> p, at |-> wire[c].at]]
<1>1. wire[c] \in Wires
  BY DEF CallsInd
<1>2. [wire[c] EXCEPT !.place = p] = [place |-> p, at |-> wire[c].at]
  BY <1>1 DEF Wires
<1>3. wire' = [wire EXCEPT ![c] = [wire[c] EXCEPT !.place = p]]
  OBVIOUS
<1> QED BY <1>2, <1>3

(* A call that only gets its result.                                       *)
LEMMA ResultComes ==
    ASSUME CallsInd, NEW c \in Call, NEW r, call' = [call EXCEPT ![c].result = r]
    PROVE  call' = [call EXCEPT ![c] = [original |-> call[c].original, by |-> call[c].by,
                       since |-> call[c].since, turn |-> call[c].turn, result |-> r]]
<1>1. call[c] \in Calls
  BY DEF CallsInd
<1>2. [call[c] EXCEPT !.result = r] =
         [original |-> call[c].original, by |-> call[c].by, since |-> call[c].since,
          turn |-> call[c].turn, result |-> r]
  BY <1>1 DEF Calls
<1>3. call' = [call EXCEPT ![c] = [call[c] EXCEPT !.result = r]]
  OBVIOUS
<1> QED BY <1>2, <1>3

(* A request that was captured is that of a call that was sent.            *)
LEMMA CapturedWasSent ==
    ASSUME CallsInd, NEW c \in Call, wire[c].place \in {"captured", "failed"}
    PROVE  call[c].original # None
BY DEF CallsInd

(* Then a row stays what it says.                                          *)
LEMMA RowsStayTrue ==
    ASSUME CallsInd, AskedStays, CapturedStays
    PROVE  TrueRow \subseteq TrueRow'
<1> SUFFICES ASSUME NEW r \in TrueRow PROVE r \in TrueRow'
  OBVIOUS
<1>1. CASE r.call = None
  BY <1>1 DEF TrueRow
<1>2. CASE r.call # None
  <2>1. r.call \in Call /\ wire[r.call].place \in {"captured", "failed"}
    BY <1>2 DEF TrueRow
  <2>2. wire'[r.call] = wire[r.call] /\ Asked(r.call)' = Asked(r.call)
    BY <2>1, CapturedWasSent DEF AskedStays, CapturedStays, Asked
  <2> QED BY <2>1, <2>2 DEF TrueRow
<1> QED BY <1>1, <1>2

(* And what was returned stays what it was; a call that returns something  *)
(* but a row breaks nothing.                                               *)
LEMMA FoundStays ==
    ASSUME CallsInd, FoundInd, AskedStays, CapturedStays,
           \A c \in Call : call'[c].result \in Call => call'[c].result = call[c].result
    PROVE  FoundInd'
<1> SUFFICES ASSUME NEW c \in Call, NEW d \in Call, call'[c].result = d
             PROVE  /\ wire'[d].place \in {"captured", "failed"}
                    /\ Asked(d)' = Asked(c)' /\ wire'[d].at >= call'[c].since
  BY DEF FoundInd, FoundIsNew
<1>1. call[c].result = d
  OBVIOUS
<1>2. /\ wire[d].place \in {"captured", "failed"}
      /\ Asked(d) = Asked(c) /\ wire[d].at >= call[c].since
  BY <1>1 DEF FoundInd, FoundIsNew
<1>3. call[c].original # None
  BY <1>1, ReplayAssumption DEF CallsInd
<1>4. call[d].original # None /\ wire'[d] = wire[d]
  BY <1>1, <1>2, CapturedWasSent DEF CapturedStays
<1>5. Asked(d)' = Asked(d) /\ Asked(c)' = Asked(c) /\ call'[c].since = call[c].since
  BY <1>1, <1>3, <1>4 DEF AskedStays, Asked
<1> QED BY <1>1, <1>2, <1>4, <1>5

(* Rows that are deleted from the front, the oldest of which leave.        *)
LEMMA TableShrinks ==
    ASSUME TableInd, CallsInd, AskedStays, CapturedStays, NEW k \in 0 .. Len(table),
           table' = SubSeq(table, k + 1, Len(table))
    PROVE  TableInd'
<1>1. table \in Seq(TrueRow) /\ Len(table) \in Nat
  BY DEF TableInd
<1>2. /\ table' \in Seq(TrueRow) /\ Len(table') = Len(table) - k
      /\ \A n \in 1 .. Len(table') : table'[n] = table[n + k]
  <2>1. \A n \in k + 1 .. Len(table) : table[n] \in TrueRow
    BY <1>1
  <2> QED BY <1>1, <2>1, SubSeqProperties
<1>3. table' \in Seq(TrueRow')
  BY <1>2, RowsStayTrue
<1>4. \A n \in DOMAIN table' : n + k \in DOMAIN table /\ table'[n] = table[n + k] /\ n \in Nat
  BY <1>1, <1>2
<1>5. ASSUME NEW m \in DOMAIN table', NEW n \in DOMAIN table',
             table'[m].call # None, table'[m].call = table'[n].call
      PROVE  m = n
  <2>1. m + k = n + k
    BY <1>4, <1>5 DEF TableInd
  <2> QED BY <1>4, <2>1
<1> QED BY <1>3, <1>5 DEF TableInd

(* A row that is true and no one else's is added.                          *)
LEMMA TableGrows ==
    ASSUME TableInd, CallsInd, AskedStays, CapturedStays, NEW row \in TrueRow',
           table' = Append(table, row),
           row.call # None => \A n \in DOMAIN table : table[n].call # row.call
    PROVE  TableInd'
<1>1. table \in Seq(TrueRow) /\ Len(table) \in Nat
  BY DEF TableInd
<1>2. table \in Seq(TrueRow')
  BY <1>1, RowsStayTrue
<1>3. /\ table' \in Seq(TrueRow') /\ Len(table') = Len(table) + 1
      /\ \A n \in 1 .. Len(table) : table'[n] = table[n]
      /\ table'[Len(table) + 1] = row
  BY <1>2, AppendProperties
<1>4. \A n \in DOMAIN table' :
         \/ n \in DOMAIN table /\ table'[n] = table[n]
         \/ n = Len(table) + 1 /\ table'[n] = row
  BY <1>1, <1>3
<1>5. ASSUME NEW m \in DOMAIN table', NEW n \in DOMAIN table',
             table'[m].call # None, table'[m].call = table'[n].call
      PROVE  m = n
  BY <1>4, <1>5 DEF TableInd
<1> QED BY <1>3, <1>5 DEF TableInd

-----------------------------------------------------------------------------
(* The steps. *)

(* A replay is sent.                                                       *)
LEMMA SendStep ==
    ASSUME ReplayInd, NEW c \in Call, NEW o \in Original, NEW by \in Initiator, Send(c, o, by)
    PROVE  ReplayInd'
<1> USE DEF ReplayInd
<1>1. call[c] \in Calls /\ wire[c] \in Wires /\ call[c].original = None
  BY DEF Send, CallsInd
<1>2. o # None /\ by # None /\ clock \in 0 .. MaxClock /\ MaxClock \in Nat
  BY ReplayAssumption DEF CallsInd
<1>3. /\ Cardinality(Sent) \in Nat
      /\ call' = [call EXCEPT ![c] = [original |-> o, by |-> by, since |-> clock,
                                      turn |-> Cardinality(Sent), result |-> None]]
      /\ wire' = [wire EXCEPT ![c] = [place |-> "sent", at |-> None]]
  BY FS_CardinalityType DEF Send, Sent, CallsInd
<1>4. Sent' = Sent \cup {c} /\ IsFiniteSet(Sent')
  <2>1. Sent' = Sent \cup {c}
    BY <1>2, <1>3 DEF Sent, CallsInd
  <2> QED BY <2>1, FS_AddElement DEF CallsInd
<1>5. CallsInd'
  <2>1. call' \in [Call -> Calls] /\ wire' \in [Call -> Wires]
    BY <1>1, <1>2, <1>3 DEF CallsInd, Calls, Wires, Places
  <2>2. clock' = clock /\ others' = others
    BY DEF Send
  <2>3. \A d \in Call : IF call'[d].original = None
                        THEN wire'[d].place = "none" /\ call'[d].result = None
                        ELSE wire'[d].place # "none" /\ call'[d].by # None
                             /\ call'[d].since <= clock
    BY <1>2, <1>3 DEF CallsInd
  <2>4. \A d \in Call : wire'[d].place \in {"reached", "captured", "failed"} =>
                           wire'[d].at \in call'[d].since .. clock
    BY <1>3 DEF CallsInd
  <2> QED BY <1>4, <2>1, <2>2, <2>3, <2>4 DEF CallsInd
<1>6. TokensInd'
  <2>1. pending' = Registered(c) /\ expired' = {}
    BY DEF Send
  <2>2. Cardinality(Registered(c)) <= MaxTokens /\ Registered(c) \subseteq pending \cup {c}
    BY RegisteredFits
  <2>3. \A t \in pending' : t \in Call /\ wire'[t].place \in {"sent", "reached", "lost"}
    BY <1>3, <2>1, <2>2 DEF TokensInd, Sent, CallsInd
  <2> QED BY <1>4, <2>1, <2>2, <2>3 DEF TokensInd
<1>7. AskedStays /\ CapturedStays
  BY <1>1, <1>3 DEF AskedStays, CapturedStays, CallsInd
<1>8. TableInd'
  <2>1. table' = table
    BY DEF Send
  <2> QED BY <1>7, <2>1, RowsStayTrue DEF TableInd
<1>9. FoundInd'
  <2>1. \A d \in Call : call'[d].result = call[d].result
    BY <1>1, <1>3 DEF CallsInd
  <2> QED BY <1>7, <2>1, FoundStays
<1> QED BY <1>5, <1>6, <1>8, <1>9

(* A request reaches the proxy, or is lost.                                *)
LEMMA ReachOrLoseStep ==
    ASSUME ReplayInd, NEW c \in Call, Reach(c) \/ Lose(c)
    PROVE  ReplayInd'
<1> USE DEF ReplayInd
<1>1. PICK p \in {"reached", "lost"}, at \in 0 .. MaxClock \cup {None} :
         /\ wire' = [wire EXCEPT ![c] = [place |-> p, at |-> at]]
         /\ p = "reached" => at = clock
  <2>1. wire[c] \in Wires /\ clock \in 0 .. MaxClock
    BY DEF CallsInd
  <2>2. CASE Reach(c)
    BY <2>1, <2>2 DEF Reach
  <2>3. CASE Lose(c)
    BY <2>1, <2>3, PlaceChanges DEF Lose, Wires
  <2> QED BY <2>2, <2>3
<1>2. /\ wire[c].place = "sent" /\ call[c].original # None
      /\ UNCHANGED <<clock, call, pending, expired, table, others>>
  BY DEF Reach, Lose, CallsInd
<1>3. CallsInd'
  <2>1. wire' \in [Call -> Wires]
    BY <1>1 DEF CallsInd, Wires, Places
  <2>2. \A d \in Call : IF call[d].original = None
                        THEN wire'[d].place = "none" /\ call[d].result = None
                        ELSE wire'[d].place # "none" /\ call[d].by # None /\ call[d].since <= clock
    BY <1>1, <1>2 DEF CallsInd
  <2>3. \A d \in Call : wire'[d].place \in {"reached", "captured", "failed"} =>
                           wire'[d].at \in call[d].since .. clock
    BY <1>1, <1>2 DEF CallsInd, Calls
  <2>4. Sent' = Sent
    BY <1>2 DEF Sent
  <2> QED BY <1>2, <2>1, <2>2, <2>3, <2>4 DEF CallsInd
<1>4. TokensInd'
  BY <1>1, <1>2 DEF TokensInd, Sent, CallsInd
<1>5. AskedStays /\ CapturedStays
  BY <1>1, <1>2 DEF AskedStays, CapturedStays, CallsInd
<1>6. TableInd' /\ FoundInd'
  BY <1>2, <1>5, RowsStayTrue, FoundStays DEF TableInd
<1> QED BY <1>3, <1>4, <1>6

(* A request is captured: its row says what its token says, or nothing.    *)
LEMMA CaptureStep ==
    ASSUME ReplayInd, NEW c \in Call, Capture(c)
    PROVE  ReplayInd'
<1> USE DEF ReplayInd
<1> DEFINE rejected == Lineage(c) # Nothing /\ CheckedSchema /\ ~ Accepted(Lineage(c)[2])
           says == IF rejected THEN Nothing ELSE Lineage(c)
           place == IF rejected THEN "failed" ELSE "captured"
<1>1. /\ wire[c].place = "reached" /\ wire[c] \in Wires /\ call[c].original # None
      /\ wire[c].at \in call[c].since .. clock /\ call[c] \in Calls
      /\ wire[c].at \in 0 .. MaxClock
  BY ReplayAssumption DEF Capture, CallsInd, Calls
<1>2. /\ wire' = [wire EXCEPT ![c] = [place |-> place, at |-> wire[c].at]]
      /\ pending' = pending \ {c} /\ expired' = expired \ {c}
      /\ table' = Append(table, Row(c, says))
      /\ UNCHANGED <<clock, call, others>>
  BY PlaceChanges DEF Capture, ReplayInd
<1>3. place \in {"captured", "failed"}
  OBVIOUS
<1>4. \/ says = Nothing
      \/ says = Asked(c) /\ (CheckedSchema => Accepted(says[2]))
  BY DEF Lineage, Nothing, Asked
<1> HIDE DEF place, says
<1>5. CallsInd'
  <2>1. wire' \in [Call -> Wires]
    BY <1>1, <1>2, <1>3 DEF CallsInd, Wires, Places
  <2>2. \A d \in Call : IF call[d].original = None
                        THEN wire'[d].place = "none" /\ call[d].result = None
                        ELSE wire'[d].place # "none" /\ call[d].by # None /\ call[d].since <= clock
    BY <1>1, <1>2, <1>3 DEF CallsInd
  <2>3. \A d \in Call : wire'[d].place \in {"reached", "captured", "failed"} =>
                           wire'[d].at \in call[d].since .. clock
    BY <1>1, <1>2 DEF CallsInd
  <2>4. Sent' = Sent
    BY <1>2 DEF Sent
  <2> QED BY <1>2, <2>1, <2>2, <2>3, <2>4 DEF CallsInd
<1>6. TokensInd'
  <2>1. Cardinality(pending \ {c}) <= MaxTokens
    BY FewerFit
  <2>2. \A t \in pending \ {c} : t \in Call /\ wire'[t] = wire[t]
    BY <1>2 DEF TokensInd, Sent, CallsInd
  <2> QED BY <1>2, <2>1, <2>2 DEF TokensInd, Sent
<1>7. AskedStays /\ CapturedStays
  BY <1>1, <1>2 DEF AskedStays, CapturedStays, CallsInd
<1>8. TableInd'
  <2>1. Row(c, says) \in TrueRow'
    <3>1. /\ wire'[c].place \in {"captured", "failed"} /\ wire'[c].at = wire[c].at
          /\ Asked(c)' = Asked(c)
      BY <1>1, <1>2, <1>3 DEF CallsInd, Asked
    <3>2. says = Nothing \/ says = <<call[c].original, call[c].by>>
      BY <1>4 DEF Asked
    <3>3. Row(c, says) \in [call : Call \cup {None}, from : Original \cup {None},
                            by : Initiator \cup {None}, at : 0 .. MaxClock]
      BY <1>1, <3>2 DEF Row, Nothing, Calls
    <3>4. c # None
      BY ReplayAssumption
    <3>5. CASE says = Nothing
      BY <3>1, <3>3, <3>5 DEF Row, Nothing, TrueRow
    <3>6. CASE says = Asked(c) /\ (CheckedSchema => Accepted(says[2]))
      BY <3>1, <3>3, <3>4, <3>6 DEF Row, Asked, TrueRow
    <3> QED BY <1>4, <3>5, <3>6
  <2>2. \A n \in DOMAIN table : table[n].call # c
    BY <1>1, ReplayAssumption DEF TableInd, TrueRow
  <2>3. Row(c, says).call = c
    BY DEF Row
  <2> HIDE DEF ReplayInd
  <2> QED BY <1>2, <1>7, <2>1, <2>2, <2>3, TableGrows DEF ReplayInd
<1>9. FoundInd'
  BY <1>2, <1>7, FoundStays
<1> QED BY <1>5, <1>6, <1>8, <1>9

(* The row that is found matches, so it is of a replay that was asked for. *)
LEMMA LocatedMatches ==
    ASSUME ReplayInd, NEW c \in Call, call[c].original # None, Located(c) # "missing"
    PROVE  /\ Located(c) \in Call /\ wire[Located(c)].place \in {"captured", "failed"}
           /\ Asked(Located(c)) = Asked(c) /\ wire[Located(c)].at >= call[c].since
<1>1. /\ table \in Seq(TrueRow) /\ Len(table) \in Nat /\ call[c] \in Calls
      /\ Candidates(c) \in SUBSET (1 .. Len(table)) /\ Candidates(c) # {}
  BY DEF ReplayInd, TableInd, CallsInd, Candidates, Located
<1>2. PICK n \in Candidates(c) : Located(c) = table[n].call
  <2>1. \E n \in Candidates(c) : \A k \in Candidates(c) : k <= n
    BY <1>1, LastExists
  <2> QED BY <1>1, <2>1 DEF Located
<1> DEFINE row == table[n]
<1>3. row \in TrueRow /\ Matches(row, c)
  BY <1>1 DEF Candidates
<1>4. Accepted(row.by) /\ row.by = call[c].by
  BY <1>3 DEF Matches, Shown, ReplayInd, CallsInd
<1>5. row.call # None /\ row.call \in Call /\ <<row.from, row.by>> = Asked(row.call)
  BY <1>3 DEF TrueRow, Matches
<1>6. /\ wire[row.call].place \in {"captured", "failed"} /\ wire[row.call].at = row.at
      /\ row.at >= call[c].since
  BY <1>3, <1>5 DEF TrueRow, Matches
<1>7. Asked(row.call) = Asked(c)
  BY <1>3, <1>4, <1>5 DEF Matches, Asked
<1> QED BY <1>2, <1>5, <1>6, <1>7

(* A call ends with what it found, or fails.                               *)
LEMMA EndStep ==
    ASSUME ReplayInd, NEW c \in Call, Locate(c) \/ Fail(c)
    PROVE  ReplayInd'
<1>1. /\ call[c].original # None /\ call[c].result = None /\ call[c] \in Calls
      /\ UNCHANGED <<clock, wire, pending, expired, table, others>>
  BY DEF Locate, Fail, Waiting, ReplayInd, CallsInd
<1>2. PICK r \in Call \cup {"missing", "failed"} :
         /\ call' = [call EXCEPT ![c].result = r]
         /\ r \in Call => /\ wire[r].place \in {"captured", "failed"}
                          /\ Asked(r) = Asked(c) /\ wire[r].at >= call[c].since
  <2>1. CASE Fail(c)
    BY <2>1, ReplayAssumption DEF Fail
  <2>2. CASE Locate(c) /\ Located(c) = "missing"
    BY <2>2, ReplayAssumption DEF Locate
  <2>3. CASE Locate(c) /\ Located(c) # "missing"
    BY <1>1, <2>3, LocatedMatches DEF Locate
  <2> QED BY <2>1, <2>2, <2>3
<1>3. /\ call' = [call EXCEPT ![c] = [original |-> call[c].original, by |-> call[c].by,
                                      since |-> call[c].since, turn |-> call[c].turn,
                                      result |-> r]]
  BY <1>2, ResultComes DEF ReplayInd
<1>4. \A d \in Call : /\ call'[d].original = call[d].original /\ call'[d].by = call[d].by
                      /\ call'[d].since = call[d].since
                      /\ call'[d].result = IF d = c THEN r ELSE call[d].result
  BY <1>3 DEF ReplayInd, CallsInd
<1>5. CallsInd'
  <2>1. call' \in [Call -> Calls]
    BY <1>1, <1>3 DEF ReplayInd, CallsInd, Calls
  <2>2. Sent' = Sent
    BY <1>4 DEF Sent
  <2> QED BY <1>1, <1>4, <2>1, <2>2 DEF ReplayInd, CallsInd
<1>6. TokensInd' /\ AskedStays /\ CapturedStays
  BY <1>1, <1>4 DEF ReplayInd, TokensInd, Sent, AskedStays, CapturedStays
<1>7. TableInd'
  BY <1>1, <1>6, RowsStayTrue DEF ReplayInd, TableInd
<1>8. FoundInd'
  <2> SUFFICES ASSUME NEW d \in Call, NEW e \in Call, call'[d].result = e
               PROVE  /\ wire[e].place \in {"captured", "failed"}
                      /\ Asked(e)' = Asked(d)' /\ wire[e].at >= call'[d].since
    BY <1>1 DEF FoundInd, FoundIsNew
  <2>1. Asked(e)' = Asked(e) /\ Asked(d)' = Asked(d) /\ call'[d].since = call[d].since
    BY <1>4 DEF Asked
  <2>2. CASE d = c
    BY <1>2, <1>4, <2>1, <2>2
  <2>3. CASE d # c
    BY <1>4, <2>1, <2>3 DEF ReplayInd, FoundInd, FoundIsNew
  <2> QED BY <2>2, <2>3
<1> QED BY <1>5, <1>6, <1>7, <1>8 DEF ReplayInd

(* Tokens expire and go; time passes.                                      *)
LEMMA TimeStep ==
    ASSUME ReplayInd, (\E c \in Call : Expire(c)) \/ CleanUp \/ Tick \/ UNCHANGED vars
    PROVE  ReplayInd'
<1> USE DEF ReplayInd
<1>1. /\ UNCHANGED <<call, wire, table, others>> /\ clock' \in clock .. MaxClock
      /\ pending' \subseteq pending /\ expired' \subseteq pending'
      /\ clock \in Nat
  BY ReplayAssumption DEF Expire, CleanUp, Tick, vars, Valid, CallsInd, TokensInd
<1>2. CallsInd'
  <2>1. Sent' = Sent
    BY <1>1 DEF Sent
  <2>2. clock' \in 0 .. MaxClock /\ \A c \in Call : call[c].since \in Nat
    BY <1>1 DEF CallsInd, Calls
  <2>3. \A x : x <= clock /\ x \in Nat => x <= clock'
    BY <1>1
  <2>4. \A c \in Call : wire[c].place \in {"reached", "captured", "failed"} =>
           wire[c].at \in call[c].since .. clock'
    BY <1>1, <2>2 DEF CallsInd
  <2> QED BY <1>1, <2>1, <2>2, <2>3, <2>4 DEF CallsInd
<1>3. TokensInd'
  <2>1. Cardinality(pending') <= MaxTokens
    BY <1>1, FewerFit
  <2> QED BY <1>1, <2>1 DEF TokensInd, Sent
<1>4. AskedStays /\ CapturedStays
  BY <1>1 DEF AskedStays, CapturedStays
<1>5. TableInd' /\ FoundInd'
  BY <1>1, <1>4, RowsStayTrue, FoundStays DEF TableInd
<1> QED BY <1>2, <1>3, <1>5

(* Other requests are captured, and rows deleted.                          *)
LEMMA RowsStep ==
    ASSUME ReplayInd, CaptureOther \/ \E n \in 1 .. Len(table) : DeleteRows(n)
    PROVE  ReplayInd'
<1> USE DEF ReplayInd
<1>1. UNCHANGED <<call, wire, pending, expired, clock>> /\ others' \in 0 .. MaxOthers
  BY ReplayAssumption DEF CaptureOther, DeleteRows, CallsInd
<1>2. CallsInd' /\ TokensInd' /\ AskedStays /\ CapturedStays
  BY <1>1 DEF CallsInd, TokensInd, Sent, AskedStays, CapturedStays
<1>3. FoundInd'
  BY <1>1, <1>2, FoundStays
<1>4. CASE CaptureOther
  <2> DEFINE row == [call |-> None, from |-> None, by |-> None, at |-> clock]
  <2>1. row \in TrueRow'
    BY <1>1 DEF TrueRow, CallsInd
  <2>2. table' = Append(table, row) /\ row.call = None
    BY <1>4 DEF CaptureOther
  <2> HIDE DEF row
  <2>3. TableInd'
    BY <1>2, <2>1, <2>2, TableGrows
  <2> QED BY <1>2, <1>3, <2>3
<1>5. CASE \E n \in 1 .. Len(table) : DeleteRows(n)
  <2>1. PICK n \in 0 .. Len(table) : table' = SubSeq(table, n + 1, Len(table))
    BY <1>5 DEF DeleteRows
  <2>2. TableInd'
    BY <1>2, <2>1, TableShrinks
  <2> QED BY <1>2, <1>3, <2>2
<1> QED BY <1>4, <1>5

-----------------------------------------------------------------------------
(* Theorems. *)

(* The invariant holds at first.                                           *)
LEMMA ReplayStarts == Init => ReplayInd
<1> SUFFICES ASSUME Init PROVE ReplayInd
  OBVIOUS
<1>1. Sent = {} /\ IsFiniteSet(Sent)
  BY FS_EmptySet DEF Init, Sent
<1>2. CallsInd
  BY <1>1, ReplayAssumption DEF Init, CallsInd, Calls, Wires, Places
<1>3. TokensInd
  BY <1>1, FS_EmptySet, ReplayAssumption DEF Init, TokensInd
<1>4. TableInd
  BY DEF Init, TableInd
<1>5. FoundInd
  BY ReplayAssumption DEF Init, FoundInd, FoundIsNew
<1> QED BY <1>2, <1>3, <1>4, <1>5 DEF ReplayInd

(* And every step keeps it.                                                *)
LEMMA ReplaySteps == ReplayInd /\ [Next]_vars => ReplayInd'
<1> SUFFICES ASSUME ReplayInd, [Next]_vars PROVE ReplayInd'
  OBVIOUS
<1>1. ASSUME NEW c \in Call, NEW o \in Original, NEW by \in Initiator, Send(c, o, by)
      PROVE ReplayInd'
  BY <1>1, SendStep
<1>2. ASSUME NEW c \in Call, Reach(c) \/ Lose(c) PROVE ReplayInd'
  BY <1>2, ReachOrLoseStep
<1>3. ASSUME NEW c \in Call, Capture(c) PROVE ReplayInd'
  BY <1>3, CaptureStep
<1>4. ASSUME NEW c \in Call, Locate(c) \/ Fail(c) PROVE ReplayInd'
  BY <1>4, EndStep
<1>5. CASE (\E c \in Call : Expire(c)) \/ CleanUp \/ Tick \/ UNCHANGED vars
  BY <1>5, TimeStep
<1>6. CASE CaptureOther \/ \E n \in 1 .. Len(table) : DeleteRows(n)
  BY <1>6, RowsStep
<1> QED BY <1>1, <1>2, <1>3, <1>4, <1>5, <1>6 DEF Next

(* What rows and calls say of one another is always so.                    *)
THEOREM ReplaysAreBooked == Spec => []ReplayInd
BY ReplayStarts, ReplaySteps, PTL DEF Spec

(* Lineage is never false: a row that says it is a replay is the one row   *)
(* of a call that asked for that replay.                                   *)
THEOREM ReplayInvariant == Spec => []ReplayInv
<1>1. ReplayInd => ReplayInv
  <2> SUFFICES ASSUME ReplayInd PROVE ReplayInv
    OBVIOUS
  <2>1. TypeOK
    BY DEF ReplayInd, CallsInd, TokensInd, TypeOK, Calls, Wires, Places, Sent
  <2>2. LineageIsTrue
    BY DEF ReplayInd, TableInd, TrueRow, LineageIsTrue
  <2> QED BY <2>1, <2>2 DEF ReplayInv
<1> QED BY <1>1, ReplaysAreBooked, PTL

(* What a call returns was asked for just so, and came in since.           *)
THEOREM ReplaysFindTheirOwn == Spec => []FoundIsNew
<1>1. ReplayInd => FoundIsNew
  BY DEF ReplayInd, FoundInd
<1> QED BY <1>1, ReplaysAreBooked, PTL

(* With the CHECKs of SCHEMA, a call whose own row says it is a replay     *)
(* and is among the newest finds a row.                                    *)
THEOREM OwnRowsAreSeen == ASSUME CheckedSchema PROVE Spec => OwnRowIsSeen
<1> DEFINE Seen == \A c \in Call :
             call'[c].result = "missing" /\ call[c].result = None =>
                \A n \in DOMAIN table :
                    table[n].call = c /\ n > Len(table) - Recent => table[n].from = None
<1>1. ReplayInd /\ [Next]_vars => [Seen]_vars
  <2> SUFFICES ASSUME ReplayInd, Next, NEW c \in Call,
                      call'[c].result = "missing", call[c].result = None,
                      NEW n \in DOMAIN table, table[n].call = c, n > Len(table) - Recent,
                      table[n].from # None
               PROVE  FALSE
    BY DEF vars
  <2>1. "missing" # None /\ "missing" # "failed"
    BY ReplayAssumption
  <2>2. Locate(c)
    <3>1. call' # call
      BY <2>1
    <3>2. PICK d \in Call : \/ \E o \in Original, by \in Initiator : Send(d, o, by)
                            \/ Locate(d) \/ Fail(d)
      BY <3>1 DEF Next, Reach, Lose, Capture, Expire, CleanUp, CaptureOther, DeleteRows, Tick
    <3>3. \A e \in Call : e # d => call'[e] = call[e]
      BY <3>2 DEF Send, Locate, Fail, ReplayInd, CallsInd
    <3>4. c = d
      BY <2>1, <3>3
    <3>5. ASSUME NEW o \in Original, NEW by \in Initiator, Send(c, o, by) PROVE FALSE
      BY <2>1, <3>5 DEF Send, ReplayInd, CallsInd, Calls
    <3>6. ~ Fail(c)
      BY <2>1 DEF Fail, ReplayInd, CallsInd, Calls
    <3> QED BY <3>2, <3>4, <3>5, <3>6
  <2>3. Candidates(c) = {}
    <3>1. Located(c) = "missing"
      BY <2>2 DEF Locate, ReplayInd, CallsInd, Calls
    <3>2. CASE Candidates(c) # {}
      <4>1. call[c].original # None /\ wire[c].place \in {"captured", "failed"}
        BY <2>2 DEF Locate, Waiting
      <4>2. Candidates(c) \in SUBSET (1 .. Len(table)) /\ Len(table) \in Nat
        BY DEF ReplayInd, TableInd, Candidates
      <4>3. \E m \in Candidates(c) : \A k \in Candidates(c) : k <= m
        BY <3>2, <4>2, LastExists
      <4>4. PICK m \in Candidates(c) : Located(c) = table[m].call
        BY <3>2, <4>3 DEF Located
      <4>5. table[m] \in TrueRow /\ table[m].from # None
        BY <4>1, <4>2, <4>4 DEF ReplayInd, TableInd, Candidates, Matches
      <4> QED BY <3>1, <4>4, <4>5, ReplayAssumption DEF TrueRow
    <3> QED BY <3>2
  <2>4. /\ table[n] \in TrueRow /\ c # None
        /\ <<table[n].from, table[n].by>> = Asked(c) /\ Accepted(table[n].by)
        /\ wire[c].place \in {"captured", "failed"} /\ wire[c].at = table[n].at
    BY ReplayAssumption DEF ReplayInd, TableInd, TrueRow
  <2>5. Matches(table[n], c)
    <3>1. wire[c].at \in call[c].since .. clock /\ call[c].since \in Nat
      BY <2>4 DEF ReplayInd, CallsInd, Calls
    <3> QED BY <2>4, <3>1 DEF Matches, Asked, Shown
  <2>6. n \in Candidates(c)
    BY <2>5 DEF Candidates
  <2> QED BY <2>3, <2>6
<1> QED BY <1>1, ReplaysAreBooked, PTL DEF Spec, OwnRowIsSeen
===============================================================================
