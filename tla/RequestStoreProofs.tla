-------------------------- MODULE RequestStoreProofs --------------------------
(***************************************************************************)
(* Proofs about RequestStore, for any ids, filters, page sizes, limits and *)
(* number of restarts.  StoreInv is inductive: that the counters are ahead *)
(* of every row is what makes new numbers unique, and it survives restarts *)
(* because the constructor reads the maximum of the rows that are left.    *)
(*                                                                         *)
(* Then those about the request list of the terminal UI, for any rows,     *)
(* views, page sizes and batch limits, and users and other clients who do  *)
(* whatever they like between any two steps.  SyncInd is inductive: what a *)
(* synchronisation has got so far follows its own view up to its own       *)
(* cursor, and an answer on its way follows on that, although the table    *)
(* has changed since it was read: whatever changed is stamped above every  *)
(* cursor there is.                                                        *)
(***************************************************************************)
EXTENDS RequestSync, FiniteSetTheorems, WellFoundedInduction, TLAPS

(* The elements of a set of numbers that are above a number. *)
Above(S, m) == {s \in S : s > m}

(* A bounded non-empty set of naturals has a greatest element.             *)
LEMMA MaximumExists ==
    ASSUME NEW S, S \subseteq Nat, S # {}, NEW n \in Nat, \A s \in S : s <= n
    PROVE  \E m \in S : \A s \in S : s <= m
<1> DEFINE T == {Above(S, m) : m \in S}
<1>1. FiniteSubsetsOf(S) = SUBSET S
  BY FS_BoundedSetOfNaturals, FS_FiniteSubsetsOfFinite
<1>2. \A m \in S : Above(S, m) \in SUBSET S
  BY DEF Above
<1>3. T \subseteq FiniteSubsetsOf(S) /\ T # {}
  <2>1. \A x \in T : x \in SUBSET S
    BY <1>2
  <2>2. PICK x \in S : TRUE
    OBVIOUS
  <2>3. Above(S, x) \in T
    OBVIOUS
  <2>4. QED
    BY <1>1, <2>1, <2>3
<1>4. \E x \in T : \A y \in T : ~ (<<y, x>> \in StrictSubsetOrdering(S))
  BY <1>3, FS_StrictSubsetOrderingWellFounded, WFMin
<1>5. PICK m \in S : \A s \in S :
        ~ (<<Above(S, s), Above(S, m)>> \in StrictSubsetOrdering(S))
  BY <1>4
<1>6. ASSUME NEW s \in S, s > m PROVE FALSE
  <2>1. s \in Nat /\ m \in Nat /\ \A x \in S : x \in Nat
    OBVIOUS
  <2>2. Above(S, s) \subseteq Above(S, m)
    <3>1. ASSUME NEW x \in Above(S, s) PROVE x \in Above(S, m)
      <4>1. x \in S /\ x > s
        BY DEF Above
      <4>2. x \in Nat /\ x > m
        BY <2>1, <4>1, <1>6
      <4>3. QED
        BY <4>1, <4>2 DEF Above
    <3>2. QED
      BY <3>1
  <2>3. s \in Above(S, m) /\ s \notin Above(S, s)
    BY <2>1, <1>6 DEF Above
  <2>4. <<Above(S, s), Above(S, m)>> \in StrictSubsetOrdering(S)
    BY <1>2, <2>2, <2>3 DEF StrictSubsetOrdering
  <2>5. QED
    BY <2>4, <1>5
<1>7. QED
  <2>1. \A s \in S : s \in Nat
    OBVIOUS
  <2>2. QED
    BY <2>1, <1>6

(* ... and a least one. *)
LEMMA MinimumExists ==
    ASSUME NEW S, S \subseteq Nat, S # {}, NEW n \in Nat, \A s \in S : s <= n
    PROVE  \E m \in S : \A s \in S : m <= s
<1> DEFINE T == {n - s : s \in S}
<1>1. \A s \in S : s \in Nat /\ n - s \in T /\ n - s \in Nat /\ n - s <= n
  OBVIOUS
<1>2. T \subseteq Nat /\ T # {} /\ \A t \in T : t <= n
  <2>1. \A t \in T : t \in Nat /\ t <= n
    BY <1>1
  <2>2. PICK s \in S : TRUE
    OBVIOUS
  <2>3. QED
    BY <1>1, <2>1, <2>2
<1>3. PICK t \in T : \A u \in T : u <= t
  <2> HIDE DEF T
  <2>1. QED
    BY <1>2, MaximumExists
<1>4. PICK m \in S : t = n - m
  OBVIOUS
<1>5. ASSUME NEW s \in S PROVE m <= s
  <2>1. n - s <= n - m /\ s \in Nat /\ m \in Nat
    BY <1>1, <1>3, <1>4
  <2>2. QED
    BY <2>1
<1>6. QED
  BY <1>5

(* ReadMaxSequence returns a bound that a row reaches. *)
LEMMA MaxOrZeroBounds ==
    ASSUME NEW S, S \subseteq Nat, NEW n \in Nat, \A s \in S : s <= n
    PROVE  /\ MaxOrZero(S) \in Nat
           /\ \A s \in S : s <= MaxOrZero(S)
           /\ S # {} => MaxOrZero(S) \in S
<1>1. CASE S = {}
  BY <1>1 DEF MaxOrZero
<1>2. CASE S # {}
  <2>1. \E m \in S : \A s \in S : s <= m
    BY <1>2, MaximumExists
  <2>2. MaxOrZero(S) \in S /\ \A s \in S : s <= MaxOrZero(S)
    BY <1>2, <2>1 DEF MaxOrZero
  <2>3. QED
    BY <2>2
<1>3. QED
  BY <1>1, <1>2

-----------------------------------------------------------------------------
(* The numbering of a table t under counters o and c: unique numbers, none *)
(* above its counter.                                                      *)
Numbered(t, o, c) ==
    /\ t \in [DOMAIN t -> Row]
    /\ \A i, j \in DOMAIN t :
         i # j => t[i].orderSeq # t[j].orderSeq /\ t[i].changeSeq # t[j].changeSeq
    /\ \A i \in DOMAIN t : t[i].orderSeq <= o /\ t[i].changeSeq <= c

(* Deleting rows keeps a table numbered.                                   *)
LEMMA NumberedWithout ==
    ASSUME NEW t, NEW o \in Nat, NEW c \in Nat, Numbered(t, o, c), NEW S
    PROVE  Numbered(Without(t, S), o, c) /\ DOMAIN Without(t, S) = DOMAIN t \ S
BY DEF Numbered, Without

(* Counters read back from a numbered table number it again.               *)
LEMMA NumberedOpen ==
    ASSUME NEW t, NEW o \in Nat, NEW c \in Nat, Numbered(t, o, c)
    PROVE  /\ MaxOrZero(OrderSeqs(t)) \in Nat
           /\ MaxOrZero(ChangeSeqs(t)) \in Nat
           /\ Numbered(t, MaxOrZero(OrderSeqs(t)), MaxOrZero(ChangeSeqs(t)))
<1>1. \A i \in DOMAIN t : t[i].orderSeq \in Nat /\ t[i].changeSeq \in Nat
  BY DEF Numbered, Row
<1>2. OrderSeqs(t) \subseteq Nat /\ \A s \in OrderSeqs(t) : s <= o
  BY <1>1 DEF Numbered, OrderSeqs
<1>3. ChangeSeqs(t) \subseteq Nat /\ \A s \in ChangeSeqs(t) : s <= c
  BY <1>1 DEF Numbered, ChangeSeqs
<1>4. MaxOrZero(OrderSeqs(t)) \in Nat /\ \A s \in OrderSeqs(t) : s <= MaxOrZero(OrderSeqs(t))
  BY <1>2, MaxOrZeroBounds
<1>5. MaxOrZero(ChangeSeqs(t)) \in Nat /\ \A s \in ChangeSeqs(t) : s <= MaxOrZero(ChangeSeqs(t))
  BY <1>3, MaxOrZeroBounds
<1>6. \A i \in DOMAIN t : t[i].orderSeq \in OrderSeqs(t) /\ t[i].changeSeq \in ChangeSeqs(t)
  BY DEF OrderSeqs, ChangeSeqs
<1>7. QED
  BY <1>4, <1>5, <1>6 DEF Numbered

(* The INSERT of saveRequest uses the next numbers and keeps the table numbered. *)
LEMMA NumberedInserted ==
    ASSUME StoreInv, NEW id \in Id \ usedIds, NEW ts \in Timestamp
    PROVE  /\ DOMAIN Inserted(id, ts) = Live \cup {id}
           /\ Numbered(Inserted(id, ts), nextOrderSeq + 1, nextChangeSeq + 1)
<1> DEFINE t == Inserted(id, ts)
<1>1. DOMAIN t = Live \cup {id} /\ id \notin Live
  BY DEF Inserted, StoreInv, StoreTypeOK
<1>2. \A i \in Live : t[i] = rows[i] /\ rows[i] \in Row
  BY <1>1 DEF Inserted, StoreInv, StoreTypeOK
<1>3. /\ t[id] \in Row
      /\ t[id].orderSeq = nextOrderSeq + 1
      /\ t[id].changeSeq = nextChangeSeq + 1
  BY DEF Inserted, Row, StoreInv, StoreTypeOK
<1>4. \A i \in Live : rows[i].orderSeq <= nextOrderSeq /\ rows[i].changeSeq <= nextChangeSeq
  BY DEF StoreInv, CountersAhead
<1>5. \A i \in Live : rows[i].orderSeq \in Nat /\ rows[i].changeSeq \in Nat
  BY <1>2 DEF Row
<1>6. nextOrderSeq \in Nat /\ nextChangeSeq \in Nat
  BY DEF StoreInv, StoreTypeOK
<1>7. t \in [DOMAIN t -> Row]
  <2>1. t = [i \in DOMAIN t |-> t[i]]
    BY DEF Inserted
  <2>2. QED
    BY <1>1, <1>2, <1>3, <2>1
<1>8. \A i, j \in DOMAIN t :
        i # j => t[i].orderSeq # t[j].orderSeq /\ t[i].changeSeq # t[j].changeSeq
  BY <1>1, <1>2, <1>3, <1>4, <1>5, <1>6 DEF StoreInv, SequencesUnique
<1>9. \A i \in DOMAIN t : t[i].orderSeq <= nextOrderSeq + 1 /\ t[i].changeSeq <= nextChangeSeq + 1
  BY <1>1, <1>2, <1>3, <1>4, <1>5, <1>6
<1>10. QED
  BY <1>1, <1>7, <1>8, <1>9 DEF Numbered

(* An UPDATE keeps the numbering: it stamps one row with the next change   *)
(* number and leaves its order number.                                     *)
LEMMA UpdatePreservesInv ==
    ASSUME StoreInv, NEW id, NEW columns,
           id \in Live => columns \in Row /\ columns.orderSeq = rows[id].orderSeq,
           Update(id, columns), unchecked' \in Nat
    PROVE  StoreInv'
<1>1. nextChangeSeq \in Nat /\ nextChangeSeq' = nextChangeSeq + 1
  BY DEF Update, TakeNextChangeSeq, StoreInv, StoreTypeOK
<1>2. nextOrderSeq' = nextOrderSeq /\ nextOrderSeq \in Nat
  BY DEF Update, StoreInv, StoreTypeOK
<1>3. \A i \in Live : rows[i] \in Row /\ rows[i].orderSeq \in Nat /\ rows[i].changeSeq \in Nat
  BY DEF StoreInv, StoreTypeOK, Row
<1>4. CASE id \in Live
  <2> DEFINE r == [columns EXCEPT !.changeSeq = nextChangeSeq + 1]
  <2>1. rows' = [rows EXCEPT ![id] = r]
    BY <1>4 DEF Update
  <2>2. r \in Row /\ r.orderSeq = rows[id].orderSeq /\ r.changeSeq = nextChangeSeq + 1
    BY <1>1, <1>4 DEF Row
  <2>3. Live' = Live /\ rows'[id] = r /\ \A i \in Live \ {id} : rows'[i] = rows[i]
    BY <1>4, <2>1 DEF Live
  <2>4. rows' \in [Live' -> Row]
    <3>1. rows \in [Live -> Row]
      BY DEF StoreInv, StoreTypeOK
    <3>2. QED
      BY <2>1, <2>2, <2>3, <3>1
  <2>5. StoreTypeOK'
    BY <1>1, <1>2, <2>3, <2>4 DEF StoreInv, StoreTypeOK, Update
  <2>6. /\ rows'[id].orderSeq = rows[id].orderSeq
        /\ rows'[id].changeSeq = nextChangeSeq + 1
        /\ \A i \in Live : rows[i].orderSeq <= nextOrderSeq /\ rows[i].changeSeq <= nextChangeSeq
    BY <2>2, <2>3 DEF StoreInv, CountersAhead
  <2> HIDE DEF r
  <2>7. SequencesUnique'
    <3>1. ASSUME NEW i \in Live, NEW j \in Live, i # j
          PROVE  /\ rows'[i].orderSeq # rows'[j].orderSeq
                 /\ rows'[i].changeSeq # rows'[j].changeSeq
      <4>1. rows[i].orderSeq # rows[j].orderSeq /\ rows[i].changeSeq # rows[j].changeSeq
        BY <3>1 DEF StoreInv, SequencesUnique
      <4>2. rows'[i].orderSeq = rows[i].orderSeq /\ rows'[j].orderSeq = rows[j].orderSeq
        BY <2>3, <2>6
      <4>3. CASE i = id
        BY <1>1, <1>3, <2>3, <2>6, <3>1, <4>1, <4>2, <4>3
      <4>4. CASE j = id
        BY <1>1, <1>3, <2>3, <2>6, <3>1, <4>1, <4>2, <4>4
      <4>5. CASE i # id /\ j # id
        BY <2>3, <4>1, <4>5
      <4>6. QED
        BY <4>3, <4>4, <4>5
    <3>2. QED
      BY <2>3, <3>1 DEF SequencesUnique
  <2>8. CountersAhead'
    <3>1. ASSUME NEW i \in Live
          PROVE  rows'[i].orderSeq <= nextOrderSeq /\ rows'[i].changeSeq <= nextChangeSeq + 1
      BY <1>1, <1>2, <1>3, <1>4, <2>3, <2>6
    <3>2. QED
      BY <1>1, <1>2, <2>3, <3>1 DEF CountersAhead
  <2>9. QED
    BY <2>5, <2>7, <2>8 DEF StoreInv, Update
<1>5. CASE id \notin Live
  <2>1. rows' = rows /\ Live' = Live
    BY <1>5 DEF Update, Live
  <2>2. StoreTypeOK'
    BY <1>1, <2>1 DEF StoreInv, StoreTypeOK, Update
  <2>3. SequencesUnique' /\ CountersAhead'
    BY <1>1, <1>2, <1>3, <2>1 DEF StoreInv, SequencesUnique, CountersAhead
  <2>4. QED
    BY <2>2, <2>3 DEF StoreInv, Update
<1>6. QED
  BY <1>4, <1>5

(* A numbered table of used ids, under its counters, satisfies the         *)
(* invariant.                                                              *)
LEMMA InvFromNumbered ==
    ASSUME Numbered(rows, nextOrderSeq, nextChangeSeq)',
           nextOrderSeq' \in Nat, nextChangeSeq' \in Nat,
           usedIds' \subseteq Id, IsFiniteSet(usedIds'), Live' \subseteq usedIds',
           insertsSinceLastEvictionCheck' \in 0 .. CheckInterval - 1,
           restarts' \in 0 .. MaxRestarts,
           unchecked' \in Nat
    PROVE  StoreInv'
BY DEF Numbered, StoreInv, StoreTypeOK, SequencesUnique, CountersAhead, Live

(* The invariant says that the table is numbered by the counters.          *)
LEMMA NumberedFromInv ==
    ASSUME StoreInv
    PROVE  Numbered(rows, nextOrderSeq, nextChangeSeq)
BY DEF Numbered, StoreInv, StoreTypeOK, SequencesUnique, CountersAhead, Live

(* saveRequest preserves the invariant, whatever it evicts.                *)
LEMMA SavePreservesInv ==
    ASSUME StoreInv, NEW id \in Id, NEW ts \in Timestamp, SaveRequest(id, ts)
    PROVE  StoreInv'
<1> DEFINE t == Inserted(id, ts)
<1>1. /\ Numbered(t, nextOrderSeq + 1, nextChangeSeq + 1)
      /\ DOMAIN t = Live \cup {id}
  BY NumberedInserted DEF SaveRequest
<1>2. /\ nextOrderSeq' = nextOrderSeq + 1 /\ nextOrderSeq' \in Nat
      /\ nextChangeSeq' = nextChangeSeq + 1 /\ nextChangeSeq' \in Nat
  BY DEF SaveRequest, TakeNextChangeSeq, StoreInv, StoreTypeOK
<1>3. /\ usedIds' = usedIds \cup {id}
      /\ usedIds' \subseteq Id
      /\ IsFiniteSet(usedIds')
      /\ Live \cup {id} \subseteq usedIds'
  BY FS_AddElement DEF SaveRequest, StoreInv, StoreTypeOK
<1>4. /\ insertsSinceLastEvictionCheck' \in 0 .. CheckInterval - 1
      /\ unchecked' \in Nat
      /\ restarts' \in 0 .. MaxRestarts
  BY StoreAssumption DEF SaveRequest, EvictIfNeeded, StoreInv, StoreTypeOK
<1>5. \/ rows' = t
      \/ \E S : rows' = Without(t, S)
  BY DEF SaveRequest, EvictIfNeeded
<1>6. Numbered(rows', nextOrderSeq', nextChangeSeq') /\ Live' \subseteq Live \cup {id}
  <2>1. CASE rows' = t
    BY <1>1, <1>2, <2>1 DEF Live
  <2>2. CASE \E S : rows' = Without(t, S)
    <3>1. PICK S : rows' = Without(t, S)
      BY <2>2
    <3>2. Numbered(Without(t, S), nextOrderSeq + 1, nextChangeSeq + 1)
          /\ DOMAIN Without(t, S) = DOMAIN t \ S
      <4> HIDE DEF t
      <4>1. nextOrderSeq + 1 \in Nat /\ nextChangeSeq + 1 \in Nat
        BY <1>2
      <4>2. QED
        BY <1>1, <4>1, NumberedWithout
    <3>3. QED
      BY <1>1, <1>2, <3>1, <3>2 DEF Live
  <2>3. QED
    BY <1>5, <2>1, <2>2
<1>7. QED
  BY <1>2, <1>3, <1>4, <1>6, InvFromNumbered

(* So does a crash between its INSERT and its eviction.                    *)
LEMMA CrashPreservesInv ==
    ASSUME StoreInv, NEW id \in Id, NEW ts \in Timestamp, CrashAfterInsert(id, ts)
    PROVE  StoreInv'
<1> DEFINE t == Inserted(id, ts)
<1>1. /\ Numbered(t, nextOrderSeq + 1, nextChangeSeq + 1)
      /\ DOMAIN t = Live \cup {id}
  BY NumberedInserted DEF CrashAfterInsert
<1>2. nextOrderSeq + 1 \in Nat /\ nextChangeSeq + 1 \in Nat
  BY DEF StoreInv, StoreTypeOK
<1>3. /\ Numbered(rows', nextOrderSeq', nextChangeSeq')
      /\ nextOrderSeq' \in Nat
      /\ nextChangeSeq' \in Nat
      /\ Live' = Live \cup {id}
  BY <1>1, <1>2, NumberedOpen DEF CrashAfterInsert, Open, Live
<1>4. /\ usedIds' = usedIds \cup {id}
      /\ usedIds' \subseteq Id
      /\ IsFiniteSet(usedIds')
      /\ Live \cup {id} \subseteq usedIds'
  BY FS_AddElement DEF CrashAfterInsert, StoreInv, StoreTypeOK
<1>5. /\ insertsSinceLastEvictionCheck' \in 0 .. CheckInterval - 1
      /\ unchecked' \in Nat
      /\ restarts' \in 0 .. MaxRestarts
  BY StoreAssumption DEF CrashAfterInsert, Open, StoreInv, StoreTypeOK
<1>6. QED
  BY <1>3, <1>4, <1>5, InvFromNumbered

(* A restart preserves the invariant: the counters it reads are not behind. *)
LEMMA RestartPreservesInv ==
    ASSUME StoreInv, Restart
    PROVE  StoreInv'
<1>1. /\ Numbered(rows', nextOrderSeq', nextChangeSeq')
      /\ nextOrderSeq' \in Nat
      /\ nextChangeSeq' \in Nat
      /\ Live' = Live
  BY NumberedFromInv, NumberedOpen DEF Restart, Open, Live, StoreInv, StoreTypeOK
<1>2. /\ insertsSinceLastEvictionCheck' \in 0 .. CheckInterval - 1
      /\ unchecked' \in Nat
      /\ restarts' \in 0 .. MaxRestarts
      /\ usedIds' = usedIds
  BY StoreAssumption DEF Restart, Open, StoreInv, StoreTypeOK
<1>3. QED
  BY <1>1, <1>2, InvFromNumbered DEF StoreInv, StoreTypeOK

(* clearRequests only deletes rows.                                        *)
LEMMA ClearPreservesInv ==
    ASSUME StoreInv, ClearRequests
    PROVE  StoreInv'
<1>1. Numbered(rows', nextOrderSeq', nextChangeSeq') /\ Live' \subseteq Live
  BY NumberedFromInv, NumberedWithout DEF ClearRequests, Live, StoreInv, StoreTypeOK
<1>2. QED
  BY <1>1, InvFromNumbered DEF ClearRequests, StoreInv, StoreTypeOK

-----------------------------------------------------------------------------
(* The empty table satisfies the invariant.                                *)
LEMMA InitEstablishesInv == StoreInit => StoreInv
BY FS_EmptySet, StoreAssumption
   DEF StoreInit, StoreInv, StoreTypeOK, SequencesUnique, CountersAhead, Live

(* Every step of the store preserves the invariant.                        *)
LEMMA NextPreservesInv ==
    ASSUME StoreInv, [StoreNext]_storeVars
    PROVE  StoreInv'
<1>0. \A i \in Live : rows[i] \in Row
  BY DEF StoreInv, StoreTypeOK
<1>1. ASSUME NEW id \in Id, NEW ts \in Timestamp, SaveRequest(id, ts) PROVE StoreInv'
  BY <1>1, SavePreservesInv
<1>2. ASSUME NEW id \in usedIds, UpdateRequestResponse(id) PROVE StoreInv'
  <2>1. id \in Live => [rows[id] EXCEPT !.responded = TRUE] \in Row
    BY <1>0 DEF Row
  <2>2. QED
    BY <1>2, <2>1, UpdatePreservesInv DEF UpdateRequestResponse, Row, StoreInv, StoreTypeOK
<1>3. ASSUME NEW id \in usedIds, NEW how \in Interception, UpdateRequestInterception(id, how)
      PROVE  StoreInv'
  <2>1. id \in Live => [rows[id] EXCEPT !.interception = how] \in Row
    BY <1>0 DEF Row
  <2>2. QED
    BY <1>0, <1>3, <2>1, UpdatePreservesInv DEF UpdateRequestInterception, Row, StoreInv, StoreTypeOK
<1>4. ASSUME NEW id \in usedIds, NEW who \in Initiator, UpdateRequestReplay(id, who)
      PROVE  StoreInv'
  <2>1. CASE ~ Rejected(who)
    <3>1. id \in Live => [rows[id] EXCEPT !.replay = who] \in Row
      BY <1>0 DEF Row
    <3>2. QED
      BY <1>0, <1>4, <2>1, <3>1, UpdatePreservesInv
         DEF UpdateRequestReplay, Row, StoreInv, StoreTypeOK
  <2>2. CASE Rejected(who)
    BY <1>4, <2>2 DEF UpdateRequestReplay, TakeNextChangeSeq, StoreInv, StoreTypeOK,
                      SequencesUnique, CountersAhead, Live, Row
  <2>3. QED
    BY <2>1, <2>2
<1>5. ASSUME NEW id \in usedIds, BookmarkRequest(id) PROVE StoreInv'
  <2>1. id \in Live => [rows[id] EXCEPT !.saved = TRUE] \in Row
    BY <1>0 DEF Row
  <2>2. QED
    BY <1>0, <1>5, <2>1, UpdatePreservesInv DEF BookmarkRequest, Row, StoreInv, StoreTypeOK
<1>6. ASSUME NEW id \in usedIds, UnbookmarkRequest(id) PROVE StoreInv'
  <2>1. id \in Live => [rows[id] EXCEPT !.saved = FALSE] \in Row
    BY <1>0 DEF Row
  <2>2. QED
    BY <1>0, <1>6, <2>1, UpdatePreservesInv DEF UnbookmarkRequest, Row, StoreInv, StoreTypeOK
<1>7. CASE UNCHANGED storeVars
  BY <1>7 DEF storeVars, StoreInv, StoreTypeOK, SequencesUnique, CountersAhead, Live
<1>8. ASSUME NEW id \in Id, NEW ts \in Timestamp, CrashAfterInsert(id, ts) PROVE StoreInv'
  BY <1>8, CrashPreservesInv
<1>9. QED
  BY <1>1, <1>2, <1>3, <1>4, <1>5, <1>6, <1>7, <1>8,
     RestartPreservesInv, ClearPreservesInv DEF StoreNext

(* The types, the uniqueness of the numbers and the lead of the counters   *)
(* hold in every state of the store, through evictions, clears, crashes    *)
(* and restarts.                                                           *)
THEOREM StoreInvariant == StoreSpec => []StoreInv
<1>1. StoreInit => StoreInv
  BY InitEstablishesInv
<1>2. StoreInv /\ [StoreNext]_storeVars => StoreInv'
  BY NextPreservesInv
<1>3. QED
  BY <1>1, <1>2, PTL DEF StoreSpec

-----------------------------------------------------------------------------
(* The rows a page is taken from, and those of them that sort before one.  *)
Earlier(f, after, i) == {j \in Changed(rows, f, after) : Before(rows, j, i)}

(* The changed rows are finitely many, numbered, and no two share a change number. *)
LEMMA ChangedFacts ==
    ASSUME StoreInv, NEW f, NEW after \in Nat
    PROVE  /\ Changed(rows, f, after) \subseteq Live
           /\ IsFiniteSet(Changed(rows, f, after))
           /\ \A i \in Changed(rows, f, after) :
                /\ rows[i].changeSeq \in Nat
                /\ rows[i].orderSeq \in Nat
                /\ rows[i].changeSeq > after
                /\ rows[i].changeSeq <= nextChangeSeq
           /\ \A i, j \in Changed(rows, f, after) :
                /\ Before(rows, i, j) <=> rows[i].changeSeq < rows[j].changeSeq
                /\ i # j => rows[i].changeSeq # rows[j].changeSeq
           /\ nextChangeSeq \in Nat
<1>1. Changed(rows, f, after) \subseteq Live
  BY DEF Changed, Live
<1>2. IsFiniteSet(Live)
  BY FS_Subset DEF StoreInv, StoreTypeOK
<1>3. \A i \in Live : rows[i].changeSeq \in Nat /\ rows[i].orderSeq \in Nat
  BY DEF StoreInv, StoreTypeOK, Row
<1>4. \A i \in Changed(rows, f, after) : rows[i].changeSeq > after
  BY DEF Changed
<1>5. \A i \in Live : rows[i].changeSeq <= nextChangeSeq
  BY DEF StoreInv, CountersAhead
<1>6. \A i, j \in Live : i # j => rows[i].changeSeq # rows[j].changeSeq
  BY DEF StoreInv, SequencesUnique
<1>7. \A i, j \in Live : Before(rows, i, j) <=> rows[i].changeSeq < rows[j].changeSeq
  BY <1>3, <1>6 DEF Before
<1>8. IsFiniteSet(Changed(rows, f, after))
  BY <1>1, <1>2, FS_Subset
<1>9. QED
  BY <1>1, <1>3, <1>4, <1>5, <1>6, <1>7, <1>8 DEF StoreInv, StoreTypeOK

(* A row is in the page iff fewer than limit changed rows sort before it.  *)
LEMMA EarlierFacts ==
    ASSUME StoreInv, NEW f, NEW after \in Nat, NEW limit \in Nat,
           NEW i \in Changed(rows, f, after)
    PROVE  /\ IsFiniteSet(Earlier(f, after, i))
           /\ Cardinality(Earlier(f, after, i)) \in Nat
           /\ i \in DeltaEntries(rows, f, after, limit)
                 <=> Cardinality(Earlier(f, after, i)) < limit
<1>1. Earlier(f, after, i) \subseteq Changed(rows, f, after)
  BY DEF Earlier
<1>2. IsFiniteSet(Earlier(f, after, i))
  BY <1>1, ChangedFacts, FS_Subset
<1>3. QED
  BY <1>2, FS_CardinalityType DEF DeltaEntries, Earlier

(* The cursor of a page with entries is the change number of its last one. *)
LEMMA LastEntry ==
    ASSUME StoreInv, NEW f, NEW after \in Nat, NEW limit \in Nat \ {0},
           DeltaEntries(rows, f, after, limit) # {}
    PROVE  \E e \in DeltaEntries(rows, f, after, limit) :
              /\ rows[e].changeSeq = DeltaCursor(rows, f, after, limit)
              /\ \A i \in DeltaEntries(rows, f, after, limit) :
                    rows[i].changeSeq <= rows[e].changeSeq
<1> DEFINE E == DeltaEntries(rows, f, after, limit)
           S == {rows[i].changeSeq : i \in E}
<1>1. E \subseteq Changed(rows, f, after)
  BY DEF DeltaEntries
<1>2. S \subseteq Nat /\ S # {} /\ \A s \in S : s <= nextChangeSeq
  <2>1. \A i \in E : rows[i].changeSeq \in Nat /\ rows[i].changeSeq <= nextChangeSeq
    BY <1>1, ChangedFacts
  <2>2. QED
    BY <2>1
<1>3. nextChangeSeq \in Nat
  BY DEF StoreInv, StoreTypeOK
<1>4. MaxOrZero(S) \in S /\ \A s \in S : s <= MaxOrZero(S)
  <2> HIDE DEF S
  <2>1. QED
    BY <1>2, <1>3, MaxOrZeroBounds
<1>5. DeltaCursor(rows, f, after, limit) = MaxOrZero(S)
  BY DEF DeltaCursor
<1>6. PICK e \in E : rows[e].changeSeq = MaxOrZero(S)
  BY <1>4
<1>7. \A i \in E : rows[i].changeSeq <= rows[e].changeSeq
  BY <1>4, <1>6
<1>8. QED
  BY <1>5, <1>6, <1>7

(* No matching row up to the cursor is left out of the page. *)
LEMMA NoRowSkipped ==
    ASSUME StoreInv, NEW f, NEW after \in Nat, NEW limit \in Nat \ {0},
           NEW i \in Changed(rows, f, after),
           rows[i].changeSeq <= DeltaCursor(rows, f, after, limit)
    PROVE  i \in DeltaEntries(rows, f, after, limit)
<1> DEFINE E == DeltaEntries(rows, f, after, limit)
<1>1. CASE E = {}
  <2>1. DeltaCursor(rows, f, after, limit) = after
    BY <1>1 DEF DeltaCursor
  <2>2. rows[i].changeSeq > after /\ rows[i].changeSeq \in Nat
    BY ChangedFacts
  <2>3. QED
    BY <2>1, <2>2
<1>2. CASE E # {}
  <2>1. PICK e \in E : rows[e].changeSeq = DeltaCursor(rows, f, after, limit)
    BY <1>2, LastEntry
  <2>2. e \in Changed(rows, f, after)
    BY DEF DeltaEntries
  <2>3. CASE i = e
    BY <2>3
  <2>4. CASE i # e
    <3>1. rows[i].changeSeq < rows[e].changeSeq
      BY <2>1, <2>2, <2>4, ChangedFacts
    <3>2. Earlier(f, after, i) \subseteq Earlier(f, after, e)
      <4>1. ASSUME NEW j \in Earlier(f, after, i) PROVE j \in Earlier(f, after, e)
        <5>1. j \in Changed(rows, f, after) /\ Before(rows, j, i)
          BY DEF Earlier
        <5>2. rows[j].changeSeq < rows[i].changeSeq /\ rows[j].changeSeq \in Nat
          BY <5>1, ChangedFacts
        <5>3. rows[i].changeSeq \in Nat /\ rows[e].changeSeq \in Nat
          BY <2>2, ChangedFacts
        <5>4. rows[j].changeSeq < rows[e].changeSeq
          BY <3>1, <5>2, <5>3
        <5>5. QED
          BY <2>2, <5>1, <5>4, ChangedFacts DEF Earlier
      <4>2. QED
        BY <4>1
    <3>3. Cardinality(Earlier(f, after, i)) <= Cardinality(Earlier(f, after, e))
      BY <2>2, <3>2, EarlierFacts, FS_Subset
    <3>4. Cardinality(Earlier(f, after, e)) < limit
      BY <2>2, EarlierFacts
    <3>5. Cardinality(Earlier(f, after, i)) < limit
      BY <2>2, <3>3, <3>4, EarlierFacts
    <3>6. QED
      BY <3>5, EarlierFacts
  <2>5. QED
    BY <2>3, <2>4
<1>3. QED
  BY <1>1, <1>2

(* A page holds at most limit rows. *)
LEMMA PageIsBounded ==
    ASSUME StoreInv, NEW f, NEW after \in Nat, NEW limit \in Nat \ {0}
    PROVE  /\ IsFiniteSet(DeltaEntries(rows, f, after, limit))
           /\ Cardinality(DeltaEntries(rows, f, after, limit)) \in Nat
           /\ Cardinality(DeltaEntries(rows, f, after, limit)) <= limit
<1> DEFINE E == DeltaEntries(rows, f, after, limit)
<1>1. E \subseteq Changed(rows, f, after)
  BY DEF DeltaEntries
<1>2. IsFiniteSet(E)
  BY <1>1, ChangedFacts, FS_Subset
<1>3. Cardinality(E) \in Nat
  BY <1>2, FS_CardinalityType
<1>4. CASE E = {}
  BY <1>2, <1>3, <1>4, FS_EmptySet
<1>5. CASE E # {}
  <2>1. PICK e \in E : \A i \in E : rows[i].changeSeq <= rows[e].changeSeq
    BY <1>5, LastEntry
  <2>2. e \in Changed(rows, f, after)
    BY <1>1
  <2>3. E \ {e} \subseteq Earlier(f, after, e)
    <3>1. ASSUME NEW j \in E, j # e PROVE j \in Earlier(f, after, e)
      <4>1. j \in Changed(rows, f, after)
        BY <1>1
      <4>2. rows[j].changeSeq < rows[e].changeSeq
        BY <2>1, <2>2, <3>1, <4>1, ChangedFacts
      <4>3. QED
        BY <2>2, <4>1, <4>2, ChangedFacts DEF Earlier
    <3>2. QED
      BY <3>1
  <2>4. Cardinality(E \ {e}) <= Cardinality(Earlier(f, after, e))
    BY <2>2, <2>3, EarlierFacts, FS_Subset
  <2>5. Cardinality(E \ {e}) = Cardinality(E) - 1
    BY <1>2, <2>1, FS_RemoveElement
  <2>6. Cardinality(Earlier(f, after, e)) < limit /\ Cardinality(Earlier(f, after, e)) \in Nat
    BY <2>2, EarlierFacts
  <2>7. QED
    BY <1>2, <1>3, <2>4, <2>5, <2>6
<1>6. QED
  BY <1>4, <1>5

(* A page that is not full holds every row there is to hold. *)
LEMMA ShortPage ==
    ASSUME StoreInv, NEW f, NEW after \in Nat, NEW limit \in Nat \ {0},
           Cardinality(DeltaEntries(rows, f, after, limit)) # limit
    PROVE  Changed(rows, f, after) = DeltaEntries(rows, f, after, limit)
<1> DEFINE E == DeltaEntries(rows, f, after, limit)
           C == Changed(rows, f, after)
           S == {rows[i].changeSeq : i \in C \ E}
<1>1. E \subseteq C
  BY DEF DeltaEntries
<1>2. ASSUME C \ E # {} PROVE FALSE
  <2>1. S \subseteq Nat /\ S # {} /\ \A s \in S : s <= nextChangeSeq
    <3>1. \A i \in C : rows[i].changeSeq \in Nat /\ rows[i].changeSeq <= nextChangeSeq
      BY ChangedFacts
    <3> HIDE DEF C, E
    <3>2. QED
      BY <1>2, <3>1
  <2>2. nextChangeSeq \in Nat
    BY DEF StoreInv, StoreTypeOK
  <2>3. PICK m \in S : \A s \in S : m <= s
    <3> HIDE DEF S
    <3>1. QED
      BY <2>1, <2>2, MinimumExists
  <2>4. PICK x \in C \ E : rows[x].changeSeq = m
    BY <2>3
  <2>5. \A j \in C \ E : rows[x].changeSeq <= rows[j].changeSeq
    BY <2>3, <2>4
  <2>6. Earlier(f, after, x) \subseteq E
    <3>1. ASSUME NEW j \in Earlier(f, after, x), j \notin E PROVE FALSE
      <4>1. j \in C \ E /\ Before(rows, j, x)
        BY <3>1 DEF Earlier
      <4>2. rows[j].changeSeq < rows[x].changeSeq
        BY <4>1, <2>4, ChangedFacts
      <4>3. rows[x].changeSeq <= rows[j].changeSeq
        BY <2>5, <4>1
      <4>4. rows[x].changeSeq \in Nat /\ rows[j].changeSeq \in Nat
        BY <2>4, <4>1, ChangedFacts
      <4>5. QED
        BY <4>2, <4>3, <4>4
    <3>2. QED
      BY <3>1
  <2>7. Cardinality(Earlier(f, after, x)) <= Cardinality(E)
    BY <2>6, PageIsBounded, FS_Subset
  <2>8. /\ ~ (Cardinality(Earlier(f, after, x)) < limit)
        /\ Cardinality(Earlier(f, after, x)) \in Nat
    BY <2>4, EarlierFacts
  <2>9. Cardinality(E) \in Nat /\ Cardinality(E) <= limit
    BY PageIsBounded
  <2>10. QED
    BY <2>7, <2>8, <2>9
<1>3. QED
  BY <1>1, <1>2

(* Every page of listRequestsSummaryDelta is without gaps.                 *)
LEMMA PagesLeaveNoGaps ==
    ASSUME StoreInv, NEW f, NEW after \in Nat, NEW limit \in Nat \ {0}
    PROVE  DeltaNoGaps(f, after, limit)
<1> DEFINE E == DeltaEntries(rows, f, after, limit)
           C == Changed(rows, f, after)
           c == DeltaCursor(rows, f, after, limit)
<1>1. \A i \in C : rows[i].changeSeq <= c => i \in E
  BY NoRowSkipped
<1>2. ASSUME ~ DeltaHasMore(rows, f, after, limit) PROVE C = E
  <2>1. CASE Cardinality(E) # limit
    BY <2>1, ShortPage
  <2>2. CASE Changed(rows, f, c) = {}
    <3>1. E \subseteq C
      BY DEF DeltaEntries
    <3>2. ASSUME NEW i \in C PROVE i \in E
      <4>1. rows[i].changeSeq \in Nat /\ ~ (rows[i].changeSeq > c)
        BY <2>2, ChangedFacts DEF Changed
      <4>2. c \in Nat
        <5>1. CASE E = {}
          BY <5>1 DEF DeltaCursor
        <5>2. CASE E # {}
          <6>1. PICK e \in E : rows[e].changeSeq = c
            BY <5>2, LastEntry
          <6>2. QED
            BY <3>1, <6>1, ChangedFacts
        <5>3. QED
          BY <5>1, <5>2
      <4>3. rows[i].changeSeq <= c
        BY <4>1, <4>2
      <4>4. QED
        BY <1>1, <4>3
    <3>3. QED
      BY <3>1, <3>2
  <2>3. QED
    BY <1>2, <2>1, <2>2 DEF DeltaHasMore
<1>3. QED
  BY <1>1, <1>2 DEF DeltaNoGaps

(* Paging by change number never skips a row, for every filter, cursor,    *)
(* page size and history of the store.                                     *)
THEOREM PagingIsComplete == StoreSpec => []DeltaComplete
<1>1. StoreInv => DeltaComplete
  BY PagesLeaveNoGaps, StoreAssumption DEF DeltaComplete
<1>2. QED
  BY <1>1, StoreInvariant, PTL

-----------------------------------------------------------------------------
(* What a step does to the rows that were there. *)

(* What saveRequest's INSERT does to the table.                            *)
LEMMA InsertedRows ==
    ASSUME StoreInv, NEW id \in Id \ usedIds, NEW ts \in Timestamp
    PROVE  /\ DOMAIN Inserted(id, ts) = Live \cup {id}
           /\ id \notin Live
           /\ \A i \in Live : Inserted(id, ts)[i] = rows[i]
           /\ Inserted(id, ts)[id].orderSeq = nextOrderSeq + 1
           /\ Inserted(id, ts)[id].changeSeq = nextChangeSeq + 1
           /\ Unsaved(Inserted(id, ts)) = Unsaved(rows) \cup {id}
<1>1. DOMAIN Inserted(id, ts) = Live \cup {id} /\ id \notin Live
  BY DEF Inserted, StoreInv, StoreTypeOK
<1>2. \A i \in Live : Inserted(id, ts)[i] = rows[i]
  BY <1>1 DEF Inserted
<1>3. /\ Inserted(id, ts)[id].orderSeq = nextOrderSeq + 1
      /\ Inserted(id, ts)[id].changeSeq = nextChangeSeq + 1
      /\ Inserted(id, ts)[id].saved = FALSE
  BY DEF Inserted
<1>4. Unsaved(Inserted(id, ts)) = Unsaved(rows) \cup {id}
  BY <1>1, <1>2, <1>3 DEF Unsaved, Live
<1>5. QED
  BY <1>1, <1>2, <1>3, <1>4

(* The rows a step can change or create, and how: an insert, an update of  *)
(* one row, or a deletion of rows without a bookmark.                      *)
StepShape ==
    \/ \E S \in SUBSET Unsaved(rows) : rows' = Without(rows, S)
    \/ \E id \in Live :
         /\ Live' = Live
         /\ \A i \in Live \ {id} : rows'[i] = rows[i]
         /\ rows'[id].orderSeq = rows[id].orderSeq
         /\ rows'[id].changeSeq = nextChangeSeq + 1
    \/ \E id \in Id \ usedIds, ts \in Timestamp :
         \E S \in SUBSET (Unsaved(rows) \cup {id}) : rows' = Without(Inserted(id, ts), S)

(* Deleting no row changes nothing.                                        *)
LEMMA WithoutNothing ==
    ASSUME NEW t, t = [i \in DOMAIN t |-> t[i]]
    PROVE  Without(t, {}) = t
BY DEF Without

(* An UPDATE by id touches one row and stamps it.                          *)
LEMMA UpdateShape ==
    ASSUME StoreInv, NEW id, NEW columns, Update(id, columns),
           id \in Live => columns \in Row /\ columns.orderSeq = rows[id].orderSeq
    PROVE  StepShape
<1>1. CASE id \in Live
  <2> DEFINE r == [columns EXCEPT !.changeSeq = nextChangeSeq + 1]
  <2>1. rows' = [rows EXCEPT ![id] = r]
    BY <1>1 DEF Update
  <2>2. r.orderSeq = rows[id].orderSeq /\ r.changeSeq = nextChangeSeq + 1
    BY <1>1 DEF Row
  <2>3. Live' = Live /\ rows'[id] = r /\ \A i \in Live \ {id} : rows'[i] = rows[i]
    BY <1>1, <2>1 DEF Live
  <2>4. rows'[id].orderSeq = rows[id].orderSeq /\ rows'[id].changeSeq = nextChangeSeq + 1
    BY <2>2, <2>3
  <2> HIDE DEF r
  <2>5. QED
    BY <1>1, <2>3, <2>4 DEF StepShape
<1>2. CASE id \notin Live
  <2>1. rows' = rows
    BY <1>2 DEF Update
  <2>2. rows = Without(rows, {})
    BY WithoutNothing DEF StoreInv, StoreTypeOK, Live
  <2>3. QED
    BY <2>1, <2>2 DEF StepShape
<1>3. QED
  BY <1>1, <1>2

(* Every step of the store is one of the shapes above.                     *)
LEMMA NextShape ==
    ASSUME StoreInv, [StoreNext]_storeVars
    PROVE  StepShape
<1>1. rows = Without(rows, {}) /\ \A i \in Live : rows[i] \in Row
  BY WithoutNothing DEF StoreInv, StoreTypeOK, Live
<1>2. rows' = rows => StepShape
  BY <1>1 DEF StepShape
<1>3. ASSUME NEW id \in Id \ usedIds, NEW ts \in Timestamp,
             NEW S \in SUBSET (Unsaved(rows) \cup {id}),
             rows' = Without(Inserted(id, ts), S)
      PROVE  StepShape
  BY <1>3 DEF StepShape
<1>4. ASSUME NEW id \in Id \ usedIds, NEW ts \in Timestamp, rows' = Inserted(id, ts)
      PROVE  StepShape
  <2>1. Inserted(id, ts) = Without(Inserted(id, ts), {})
    BY WithoutNothing DEF Inserted
  <2>2. QED
    BY <1>3, <1>4, <2>1
<1>5. ASSUME NEW id \in Id, NEW ts \in Timestamp, SaveRequest(id, ts) PROVE StepShape
  <2>1. id \in Id \ usedIds
    BY <1>5 DEF SaveRequest
  <2>2. \/ rows' = Inserted(id, ts)
        \/ \E S \in SUBSET Unsaved(Inserted(id, ts)) : rows' = Without(Inserted(id, ts), S)
    BY <1>5 DEF SaveRequest, EvictIfNeeded, Oldest
  <2>3. Unsaved(Inserted(id, ts)) = Unsaved(rows) \cup {id}
    BY <2>1, InsertedRows
  <2>4. QED
    BY <1>3, <1>4, <2>1, <2>2, <2>3
<1>6. ASSUME NEW id \in Id, NEW ts \in Timestamp, CrashAfterInsert(id, ts) PROVE StepShape
  BY <1>4, <1>6 DEF CrashAfterInsert
<1>7. ASSUME NEW id \in usedIds, UpdateRequestResponse(id) PROVE StepShape
  <2>1. id \in Live => [rows[id] EXCEPT !.responded = TRUE] \in Row
    BY <1>1 DEF Row
  <2>2. QED
    BY <1>1, <1>7, <2>1, UpdateShape DEF UpdateRequestResponse, Row
<1>8. ASSUME NEW id \in usedIds, NEW how \in Interception, UpdateRequestInterception(id, how)
      PROVE  StepShape
  <2>1. id \in Live => [rows[id] EXCEPT !.interception = how] \in Row
    BY <1>1 DEF Row
  <2>2. QED
    BY <1>1, <1>8, <2>1, UpdateShape DEF UpdateRequestInterception, Row
<1>9. ASSUME NEW id \in usedIds, NEW who \in Initiator, UpdateRequestReplay(id, who)
      PROVE  StepShape
  <2>1. id \in Live => [rows[id] EXCEPT !.replay = who] \in Row
    BY <1>1 DEF Row
  <2>2. CASE ~ Rejected(who)
    BY <1>1, <1>9, <2>1, <2>2, UpdateShape DEF UpdateRequestReplay, Row
  <2>3. CASE Rejected(who)
    BY <1>2, <1>9, <2>3 DEF UpdateRequestReplay
  <2>4. QED
    BY <2>2, <2>3
<1>10. ASSUME NEW id \in usedIds, BookmarkRequest(id) PROVE StepShape
  <2>1. id \in Live => [rows[id] EXCEPT !.saved = TRUE] \in Row
    BY <1>1 DEF Row
  <2>2. QED
    BY <1>1, <1>10, <2>1, UpdateShape DEF BookmarkRequest, Row
<1>11. ASSUME NEW id \in usedIds, UnbookmarkRequest(id) PROVE StepShape
  <2>1. id \in Live => [rows[id] EXCEPT !.saved = FALSE] \in Row
    BY <1>1 DEF Row
  <2>2. QED
    BY <1>1, <1>11, <2>1, UpdateShape DEF UnbookmarkRequest, Row
<1>12. CASE ClearRequests
  BY <1>12 DEF ClearRequests, StepShape
<1>13. CASE Restart \/ UNCHANGED storeVars
  BY <1>2, <1>13 DEF Restart, storeVars
<1>14. QED
  BY <1>5, <1>6, <1>7, <1>8, <1>9, <1>10, <1>11, <1>12, <1>13 DEF StoreNext

(* Bookmarked rows survive every step. *)
THEOREM BookmarkedRowsSurvive == StoreSpec => BookmarksSurvive
<1>1. ASSUME StoreInv, [StoreNext]_storeVars
      PROVE  \A i \in Live : rows[i].saved => i \in Live'
  <2>1. CASE \E S \in SUBSET Unsaved(rows) : rows' = Without(rows, S)
    BY <2>1 DEF Without, Unsaved, Live
  <2>2. CASE Live' = Live
    BY <2>2
  <2>3. ASSUME NEW id \in Id \ usedIds, NEW ts \in Timestamp,
               NEW S \in SUBSET (Unsaved(rows) \cup {id}),
               rows' = Without(Inserted(id, ts), S)
        PROVE  \A i \in Live : rows[i].saved => i \in Live'
    <3>1. Live' = (Live \cup {id}) \ S /\ id \notin Live
      BY <1>1, <2>3, InsertedRows DEF Without, Live
    <3>2. QED
      BY <3>1 DEF Unsaved, Live
  <2>4. QED
    BY <1>1, <2>1, <2>2, <2>3, NextShape DEF StepShape
<1>2. StoreInv /\ [StoreNext]_storeVars
        => [\A i \in Live : rows[i].saved => i \in Live']_storeVars
  BY <1>1
<1>3. QED
  BY <1>2, StoreInvariant, PTL DEF StoreSpec, BookmarksSurvive

(* Every number a step writes is above every number of the table. *)
LEMMA StepNumbers ==
    ASSUME StoreInv, StepShape, NEW i \in Live'
    PROVE  /\ i \in Live => rows'[i].orderSeq = rows[i].orderSeq
           /\ i \notin Live => rows'[i].orderSeq = nextOrderSeq + 1
           /\ (i \in Live => rows'[i] # rows[i]) => rows'[i].changeSeq = nextChangeSeq + 1
<1>1. CASE \E S \in SUBSET Unsaved(rows) : rows' = Without(rows, S)
  <2>1. i \in Live /\ rows'[i] = rows[i]
    BY <1>1 DEF Without, Live
  <2>2. QED
    BY <2>1
<1>2. ASSUME NEW id \in Live,
             Live' = Live,
             \A j \in Live \ {id} : rows'[j] = rows[j],
             rows'[id].orderSeq = rows[id].orderSeq,
             rows'[id].changeSeq = nextChangeSeq + 1
      PROVE  /\ i \in Live
             /\ rows'[i].orderSeq = rows[i].orderSeq
             /\ rows'[i] # rows[i] => rows'[i].changeSeq = nextChangeSeq + 1
  <2>1. CASE i = id
    BY <1>2, <2>1
  <2>2. CASE i # id
    BY <1>2, <2>2
  <2>3. QED
    BY <2>1, <2>2
<1>3. ASSUME NEW id \in Id \ usedIds, NEW ts \in Timestamp,
             NEW S \in SUBSET (Unsaved(rows) \cup {id}),
             rows' = Without(Inserted(id, ts), S)
      PROVE  \/ i \in Live /\ rows'[i] = rows[i]
             \/ /\ i \notin Live
                /\ rows'[i].orderSeq = nextOrderSeq + 1
                /\ rows'[i].changeSeq = nextChangeSeq + 1
  <2>1. /\ DOMAIN Inserted(id, ts) = Live \cup {id}
        /\ id \notin Live
        /\ \A j \in Live : Inserted(id, ts)[j] = rows[j]
        /\ Inserted(id, ts)[id].orderSeq = nextOrderSeq + 1
        /\ Inserted(id, ts)[id].changeSeq = nextChangeSeq + 1
    BY InsertedRows
  <2>2. i \in Live \cup {id} /\ rows'[i] = Inserted(id, ts)[i]
    BY <1>3, <2>1 DEF Without, Live
  <2>3. QED
    BY <2>1, <2>2
<1>4. QED
  BY <1>1, <1>2, <1>3 DEF StepShape

(* Rows keep their place in the list and new ones go on top of it. *)
THEOREM ListOrderIsStable == StoreSpec => ListOrderStable
<1>1. ASSUME StoreInv, [StoreNext]_storeVars, NEW i \in Live'
      PROVE  IF i \in Live
             THEN rows'[i].orderSeq = rows[i].orderSeq
             ELSE \A j \in Live : rows'[i].orderSeq > rows[j].orderSeq
  <2>1. \A j \in Live : rows[j].orderSeq \in Nat /\ rows[j].orderSeq <= nextOrderSeq
    BY <1>1 DEF StoreInv, StoreTypeOK, CountersAhead, Row
  <2>2. nextOrderSeq \in Nat
    BY <1>1 DEF StoreInv, StoreTypeOK
  <2>3. /\ i \in Live => rows'[i].orderSeq = rows[i].orderSeq
        /\ i \notin Live => rows'[i].orderSeq = nextOrderSeq + 1
    BY <1>1, NextShape, StepNumbers
  <2>4. QED
    BY <2>1, <2>2, <2>3
<1>2. StoreInv /\ [StoreNext]_storeVars
        => [\A i \in Live' :
              IF i \in Live
              THEN rows'[i].orderSeq = rows[i].orderSeq
              ELSE \A j \in Live : rows'[i].orderSeq > rows[j].orderSeq]_storeVars
  BY <1>1
<1>3. QED
  BY <1>2, StoreInvariant, PTL DEF StoreSpec, ListOrderStable

(* What a step creates or alters is stamped above all there was. *)
THEOREM ChangesGetStamped == StoreSpec => ChangesAreStamped
<1>1. ASSUME StoreInv, [StoreNext]_storeVars, NEW i \in Live',
             i \in Live => rows'[i] # rows[i]
      PROVE  \A j \in Live : rows'[i].changeSeq > rows[j].changeSeq
  <2>1. \A j \in Live : rows[j].changeSeq \in Nat /\ rows[j].changeSeq <= nextChangeSeq
    BY <1>1 DEF StoreInv, StoreTypeOK, CountersAhead, Row
  <2>2. nextChangeSeq \in Nat
    BY <1>1 DEF StoreInv, StoreTypeOK
  <2>3. rows'[i].changeSeq = nextChangeSeq + 1
    BY <1>1, NextShape, StepNumbers
  <2>4. QED
    BY <2>1, <2>2, <2>3
<1>2. StoreInv /\ [StoreNext]_storeVars
        => [\A i \in Live' :
              (i \in Live => rows'[i] # rows[i])
                 => \A j \in Live : rows'[i].changeSeq > rows[j].changeSeq]_storeVars
  BY <1>1
<1>3. QED
  BY <1>2, StoreInvariant, PTL DEF StoreSpec, ChangesAreStamped

-----------------------------------------------------------------------------
(* The eviction bound: the rows that count towards it are finitely many,   *)
(* because every id they have was once given out.                          *)
LEMMA UnsavedFinite ==
    ASSUME StoreInv
    PROVE  IsFiniteSet(Unsaved(rows)) /\ Cardinality(Unsaved(rows)) \in Nat
<1>1. Unsaved(rows) \subseteq usedIds
  BY DEF Unsaved, Live, StoreInv, StoreTypeOK
<1>2. QED
  BY <1>1, FS_Subset, FS_CardinalityType DEF StoreInv

(* After the INSERT there is one more of them.                             *)
LEMMA UnsavedInserted ==
    ASSUME StoreInv, NEW id \in Id \ usedIds, NEW ts \in Timestamp
    PROVE  /\ IsFiniteSet(Unsaved(Inserted(id, ts)))
           /\ Cardinality(Unsaved(Inserted(id, ts))) = Cardinality(Unsaved(rows)) + 1
<1>1. Unsaved(Inserted(id, ts)) = Unsaved(rows) \cup {id}
  BY InsertedRows
<1>2. id \notin Unsaved(rows)
  BY DEF Unsaved, Live, StoreInv, StoreTypeOK
<1>3. QED
  BY <1>1, <1>2, UnsavedFinite, FS_AddElement

(* An UPDATE adds at most its own row to the unsaved ones, and only when   *)
(* it takes the bookmark off that row.                                     *)
LEMMA UnsavedUpdated ==
    ASSUME StoreInv, EvictionBound, NEW id, NEW columns, Update(id, columns),
           id \in Live => columns \in Row,
           unchecked' = IF id \in Live /\ rows[id].saved /\ ~ columns.saved
                        THEN unchecked + 1 ELSE unchecked
    PROVE  EvictionBound'
<1>0. unchecked \in Nat /\ MaxStored \in Nat
  BY StoreAssumption DEF StoreInv, StoreTypeOK
<1>1. CASE id \notin Live
  <2>1. rows' = rows /\ unchecked' = unchecked
    BY <1>1 DEF Update
  <2>2. QED
    BY <2>1 DEF EvictionBound
<1>2. CASE id \in Live
  <2> DEFINE r == [columns EXCEPT !.changeSeq = nextChangeSeq + 1]
  <2>1. rows' = [rows EXCEPT ![id] = r]
    BY <1>2 DEF Update
  <2>2. r.saved = columns.saved
    BY <1>2 DEF Row
  <2>3. DOMAIN rows' = DOMAIN rows /\ \A i \in DOMAIN rows \ {id} : rows'[i] = rows[i]
    BY <1>2, <2>1 DEF Live
  <2>4. rows'[id].saved = columns.saved
    BY <1>2, <2>1, <2>2 DEF Live
  <2> HIDE DEF r
  <2>5. CASE rows[id].saved /\ ~ columns.saved
    <3>1. Unsaved(rows)' = Unsaved(rows) \cup {id}
      BY <1>2, <2>3, <2>4, <2>5 DEF Unsaved, Live
    <3>2. Cardinality(Unsaved(rows) \cup {id}) <= Cardinality(Unsaved(rows)) + 1
      <4>1. IsFiniteSet(Unsaved(rows)) /\ Cardinality(Unsaved(rows)) \in Nat
        BY UnsavedFinite
      <4>2. Cardinality(Unsaved(rows) \cup {id})
              = IF id \in Unsaved(rows) THEN Cardinality(Unsaved(rows))
                                        ELSE Cardinality(Unsaved(rows)) + 1
        BY <4>1, FS_AddElement
      <4>3. QED
        BY <4>1, <4>2
    <3>3. unchecked' = unchecked + 1
      BY <1>2, <2>5
    <3>4. Cardinality(Unsaved(rows) \cup {id}) \in Nat
      BY UnsavedFinite, FS_AddElement, FS_CardinalityType
    <3>5. QED
      BY <1>0, <3>1, <3>2, <3>3, <3>4, UnsavedFinite DEF EvictionBound
  <2>6. CASE ~ (rows[id].saved /\ ~ columns.saved)
    <3>1. Unsaved(rows)' \subseteq Unsaved(rows)
      BY <1>2, <2>3, <2>4, <2>6 DEF Unsaved, Live
    <3>2. Cardinality(Unsaved(rows)') <= Cardinality(Unsaved(rows))
      BY <3>1, UnsavedFinite, FS_Subset
    <3>3. Cardinality(Unsaved(rows)') \in Nat
      BY <3>1, UnsavedFinite, FS_Subset, FS_CardinalityType
    <3>4. unchecked' = unchecked
      BY <2>6
    <3>5. QED
      BY <1>0, <3>2, <3>3, <3>4, UnsavedFinite DEF EvictionBound
  <2>7. QED
    BY <2>5, <2>6
<1>3. QED
  BY <1>1, <1>2

(* An eviction leaves MaxStored unsaved rows, or counts the insert.        *)
LEMMA EvictionMeetsBound ==
    ASSUME StoreInv, EvictionBound, NEW id \in Id, NEW ts \in Timestamp, SaveRequest(id, ts)
    PROVE  EvictionBound'
<1> DEFINE t == Inserted(id, ts)
           n == Cardinality(Unsaved(t))
<1>1. id \in Id \ usedIds /\ EvictIfNeeded(t)
  BY DEF SaveRequest
<1>2. /\ IsFiniteSet(Unsaved(t))
      /\ n = Cardinality(Unsaved(rows)) + 1
      /\ n \in Nat
      /\ Cardinality(Unsaved(rows)) \in Nat
  BY <1>1, UnsavedInserted, UnsavedFinite
<1>3. MaxStored \in Nat /\ unchecked \in Nat
  BY StoreAssumption DEF StoreInv, StoreTypeOK
<1> HIDE DEF t
<1>4. CASE rows' = t /\ unchecked' = unchecked + 1
  BY <1>2, <1>3, <1>4 DEF EvictionBound
<1>5. CASE rows' = t /\ unchecked' = 0 /\ n - MaxStored <= 0
  BY <1>2, <1>3, <1>5 DEF EvictionBound
<1>6. CASE unchecked' = 0 /\ n - MaxStored > 0
             /\ \E S \in Oldest(t, n - MaxStored) : rows' = Without(t, S)
  <2>1. PICK S \in SUBSET Unsaved(t) : Cardinality(S) = n - MaxStored /\ rows' = Without(t, S)
    BY <1>6 DEF Oldest
  <2>2. Unsaved(rows)' = Unsaved(t) \ S
    BY <2>1 DEF Unsaved, Without
  <2>3. IsFiniteSet(S)
    BY <1>2, <2>1, FS_Subset
  <2>4. Cardinality(Unsaved(t) \ S) = n - Cardinality(Unsaved(t) \cap S)
    BY <1>2, <2>3, FS_Difference
  <2>5. Unsaved(t) \cap S = S
    BY <2>1
  <2>6. Cardinality(Unsaved(rows)') = MaxStored
    <3>1. Cardinality(Unsaved(rows)') = n - (n - MaxStored)
      BY <2>1, <2>2, <2>4, <2>5
    <3> HIDE DEF n
    <3>2. QED
      BY <1>2, <1>3, <3>1
  <2>7. QED
    BY <1>3, <1>6, <2>6 DEF EvictionBound
<1>7. QED
  BY <1>1, <1>4, <1>5, <1>6 DEF EvictIfNeeded

(* Every step keeps the eviction bound.                                    *)
LEMMA NextKeepsBound ==
    ASSUME StoreInv, EvictionBound, [StoreNext]_storeVars
    PROVE  EvictionBound'
<1>1. \A i \in Live : rows[i] \in Row
  BY DEF StoreInv, StoreTypeOK
<1>2. MaxStored \in Nat /\ unchecked \in Nat /\ Cardinality(Unsaved(rows)) \in Nat
  BY UnsavedFinite, StoreAssumption DEF StoreInv, StoreTypeOK
<1>3. rows' = rows /\ unchecked' = unchecked => EvictionBound'
  BY DEF EvictionBound
<1>4. ASSUME NEW id \in Id, NEW ts \in Timestamp, CrashAfterInsert(id, ts)
      PROVE  EvictionBound'
  <2>1. Cardinality(Unsaved(Inserted(id, ts))) = Cardinality(Unsaved(rows)) + 1
    BY <1>4, UnsavedInserted DEF CrashAfterInsert
  <2>2. rows' = Inserted(id, ts) /\ unchecked' = unchecked + 1
    BY <1>4 DEF CrashAfterInsert
  <2>3. Cardinality(Unsaved(rows)') = Cardinality(Unsaved(rows)) + 1
    BY <2>1, <2>2
  <2>4. QED
    BY <1>2, <2>2, <2>3 DEF EvictionBound
<1>5. ASSUME NEW id \in usedIds, UpdateRequestResponse(id) PROVE EvictionBound'
  <2> DEFINE r == [rows[id] EXCEPT !.responded = TRUE]
  <2>1. id \in Live => r \in Row /\ r.saved = rows[id].saved
    BY <1>1 DEF Row
  <2>2. Update(id, r) /\ unchecked' = unchecked
    BY <1>5 DEF UpdateRequestResponse
  <2> HIDE DEF r
  <2>3. QED
    BY <2>1, <2>2, UnsavedUpdated
<1>6. ASSUME NEW id \in usedIds, NEW how \in Interception, UpdateRequestInterception(id, how)
      PROVE  EvictionBound'
  <2> DEFINE r == [rows[id] EXCEPT !.interception = how]
  <2>1. id \in Live => r \in Row /\ r.saved = rows[id].saved
    BY <1>1 DEF Row
  <2>2. Update(id, r) /\ unchecked' = unchecked
    BY <1>6 DEF UpdateRequestInterception
  <2> HIDE DEF r
  <2>3. QED
    BY <2>1, <2>2, UnsavedUpdated
<1>7. ASSUME NEW id \in usedIds, NEW who \in Initiator, UpdateRequestReplay(id, who)
      PROVE  EvictionBound'
  <2> DEFINE r == [rows[id] EXCEPT !.replay = who]
  <2>1. id \in Live => r \in Row /\ r.saved = rows[id].saved
    BY <1>1 DEF Row
  <2>2. \/ Update(id, r) /\ unchecked' = unchecked
        \/ rows' = rows /\ unchecked' = unchecked
    BY <1>7 DEF UpdateRequestReplay
  <2> HIDE DEF r
  <2>3. QED
    BY <1>3, <2>1, <2>2, UnsavedUpdated
<1>8. ASSUME NEW id \in usedIds, BookmarkRequest(id) PROVE EvictionBound'
  <2> DEFINE r == [rows[id] EXCEPT !.saved = TRUE]
  <2>1. id \in Live => r \in Row /\ r.saved = TRUE
    BY <1>1 DEF Row
  <2>2. Update(id, r) /\ unchecked' = unchecked
    BY <1>8 DEF BookmarkRequest
  <2> HIDE DEF r
  <2>3. QED
    BY <2>1, <2>2, UnsavedUpdated
<1>9. ASSUME NEW id \in usedIds, UnbookmarkRequest(id) PROVE EvictionBound'
  <2> DEFINE r == [rows[id] EXCEPT !.saved = FALSE]
  <2>1. id \in Live => r \in Row /\ r.saved = FALSE
    BY <1>1 DEF Row
  <2>2. /\ Update(id, r)
        /\ unchecked' = IF id \in Live /\ rows[id].saved THEN unchecked + 1 ELSE unchecked
    BY <1>9 DEF UnbookmarkRequest
  <2> HIDE DEF r
  <2>3. QED
    BY <2>1, <2>2, UnsavedUpdated
<1>10. CASE ClearRequests
  <2>1. Unsaved(rows)' = {} /\ unchecked' = unchecked
    BY <1>10 DEF ClearRequests, Unsaved, Without
  <2>2. Cardinality(Unsaved(rows)') = 0
    BY <2>1, FS_EmptySet
  <2>3. QED
    BY <1>2, <2>1, <2>2 DEF EvictionBound
<1>11. CASE Restart \/ UNCHANGED storeVars
  BY <1>3, <1>11 DEF Restart, storeVars
<1>12. QED
  BY <1>4, <1>5, <1>6, <1>7, <1>8, <1>9, <1>10, <1>11, EvictionMeetsBound DEF StoreNext

(* The unsaved rows never exceed the configured maximum by more than what  *)
(* became unsaved since the last count.                                    *)
THEOREM EvictionIsBounded == StoreSpec => []EvictionBound
<1>1. StoreInit => EvictionBound
  BY FS_EmptySet, StoreAssumption DEF StoreInit, EvictionBound, Unsaved
<1>2. StoreInv /\ EvictionBound /\ [StoreNext]_storeVars => EvictionBound'
  BY NextKeepsBound
<1>3. QED
  BY <1>1, <1>2, StoreInvariant, PTL DEF StoreSpec

-----------------------------------------------------------------------------
(* A list of rows, of ids that were handed out.                            *)
IsList(m) ==
    /\ DOMAIN m \subseteq usedIds
    /\ m = [i \in DOMAIN m |-> m[i]]
    /\ \A i \in DOMAIN m : m[i] \in Row

(* Two lists give a row the same place, whatever its version.              *)
SamePlaces(m, n) == \A i \in DOMAIN m \cap DOMAIN n : m[i].orderSeq = n[i].orderSeq

AllMatch(v, m) == \A i \in DOMAIN m : Matches(v, m[i])

(* CopySound, of any list that is followed for a view up to a cursor.      *)
Sound(v, m, c) ==
    \A i \in Live :
        v # SearchView /\ Matches(v, rows[i]) /\ rows[i].changeSeq <= c
            => (i \in DOMAIN m /\ m[i] = rows[i]) \/ CrowdedOut(m, rows[i])

Followed(v, m, c) ==
    /\ IsList(m) /\ SamePlaces(m, rows) /\ AllMatch(v, m)
    /\ c \in Nat
    /\ restarts = 0 => c <= nextChangeSeq /\ Sound(v, m, c)

(* A page that follows a list: whatever of the view is stamped between     *)
(* the cursors is in it as it is now, and nothing that is stamped earlier. *)
Covers(v, c, page) ==
    /\ c <= page.cursor /\ page.cursor <= nextChangeSeq
    /\ \A i \in Live :
          /\ Matches(v, rows[i]) /\ c < rows[i].changeSeq /\ rows[i].changeSeq <= page.cursor
                => i \in DOMAIN page.entries /\ page.entries[i] = rows[i]
          /\ i \in DOMAIN page.entries => c < rows[i].changeSeq

Page(v, m, c, page) ==
    /\ page.cursor \in Nat
    /\ SamePlaces(page.entries, rows) /\ SamePlaces(m, page.entries)
    /\ AllMatch(v, page.entries)
    /\ restarts = 0 => Covers(v, c, page)

View == Filter \cup {SearchView}

(* A synchronisation in flight while the hook is at a view, a generation   *)
(* and a copy: what it has got so far follows its own view, and its        *)
(* answer, once there, follows on that.                                    *)
Flight(s, v, g, m) ==
    /\ DOMAIN s = {"mode", "gen", "view", "draft", "cursor", "batches", "reply"}
    /\ s.mode \in {"search", "snapshot", "delta"} /\ s.view \in View
    /\ s.mode = "search" <=> s.view = SearchView
    /\ s.gen \in Nat /\ s.gen <= g
    /\ s.gen = g => s.view = v
    /\ s.batches \in Nat
    /\ s.mode = "snapshot" => s.batches < MaxSnapshotBatches
    /\ s.mode = "delta" => s.batches < MaxDeltaBatches
    /\ s.gen = g /\ s.mode = "delta" /\ s.batches = 0 => s.draft = m
    /\ Followed(s.view, s.draft, s.cursor)
    /\ \/ s.reply \in {NoReply, Lost}
       \/ /\ s.reply.kind = "rows" /\ IsList(s.reply.entries)
          /\ s.mode # "search" => Page(s.view, s.draft, s.cursor, s.reply)

(* The refs of the hook: the copy follows the view, the screen shows it.   *)
Hook(v, m, c, list, snap, g) ==
    /\ v \in View /\ g \in 0 .. MaxGeneration /\ snap \in BOOLEAN
    /\ Followed(v, m, c) /\ IsList(list)
    /\ v = SearchView => snap /\ DOMAIN m = {}
    /\ ~ snap => list = m

(* Change numbers start at 1.                                              *)
Stamped == \A i \in Live : rows[i].changeSeq > 0

SyncInd ==
    /\ StoreInv /\ Stamped
    /\ rerunRequested \in BOOLEAN
    /\ acks \subseteq {"toggle", "clear"} /\ failures \in 0 .. MaxFailures
    /\ Hook(view, mirror, cursor, shown, snapshotRequested, generation)
    /\ sync = Idle \/ Flight(sync, view, generation, mirror)

-----------------------------------------------------------------------------
(* Lists. *)

(* Lists are finite, for ids that were handed out are.                     *)
LEMMA ListsAreFinite ==
    ASSUME StoreInv, NEW m, IsList(m), NEW S \in SUBSET DOMAIN m
    PROVE  IsFiniteSet(S) /\ Cardinality(S) \in Nat
<1>1. S \subseteq usedIds /\ IsFiniteSet(usedIds)
  BY DEF IsList, StoreInv
<1> QED BY <1>1, FS_Subset, FS_CardinalityType

(* The rows of a list above an order number.                               *)
Higher(m, o) == {j \in DOMAIN m : m[j].orderSeq > o}

(* What is crowded out stays so when the list is pruned: the newest rows   *)
(* that crowd it out are kept.                                             *)
LEMMA PrunedCrowds ==
    ASSUME StoreInv, NEW m, IsList(m), NEW row \in Row, CrowdedOut(m, row)
    PROVE  CrowdedOut(Pruned(m), row)
<1> DEFINE A == Higher(m, row.orderSeq)
           above(a) == Higher(m, m[a].orderSeq)
           out == {a \in A : Cardinality(above(a)) >= ListLimit}
           kept == {j \in DOMAIN Pruned(m) : Pruned(m)[j].orderSeq > row.orderSeq}
<1>1. /\ row.orderSeq \in Nat /\ ListLimit \in Nat
      /\ \A j \in DOMAIN m : m[j].orderSeq \in Nat
  BY SyncAssumption DEF IsList, Row
<1>2. /\ DOMAIN Pruned(m) = {i \in DOMAIN m : Cardinality(above(i)) < ListLimit}
      /\ \A i \in DOMAIN Pruned(m) : Pruned(m)[i] = m[i]
  BY DEF Pruned, Newest, Higher
<1>3. /\ A \subseteq DOMAIN m /\ kept \subseteq DOMAIN m
      /\ \A a \in DOMAIN m : above(a) \subseteq DOMAIN m
  BY <1>2 DEF Higher
<1>4. /\ IsFiniteSet(A) /\ Cardinality(A) \in Nat
      /\ IsFiniteSet(kept) /\ Cardinality(kept) \in Nat
      /\ \A a \in DOMAIN m : IsFiniteSet(above(a)) /\ Cardinality(above(a)) \in Nat
  <2> HIDE DEF A, kept, above
  <2> QED BY <1>3, ListsAreFinite
<1>5. Cardinality(A) >= ListLimit
  BY DEF CrowdedOut, Higher
<1>6. Cardinality(kept) >= ListLimit
  <2>1. CASE out = {}
    <3>1. A \subseteq kept
      <4> SUFFICES ASSUME NEW a \in A PROVE a \in kept
        OBVIOUS
      <4>1. a \in DOMAIN m /\ m[a].orderSeq > row.orderSeq
        BY DEF Higher
      <4>2. ~ (Cardinality(above(a)) >= ListLimit)
        BY <2>1
      <4>3. Cardinality(above(a)) < ListLimit
        <5> HIDE DEF above
        <5> QED BY <1>1, <1>4, <4>1, <4>2
      <4>4. a \in DOMAIN Pruned(m) /\ Pruned(m)[a] = m[a]
        BY <1>2, <4>1, <4>3
      <4> QED BY <4>1, <4>4
    <3>2. Cardinality(A) <= Cardinality(kept)
      <4> HIDE DEF A, kept
      <4> QED BY <1>4, <3>1, FS_Subset
    <3> QED BY <1>1, <1>4, <1>5, <3>2
  <2>2. CASE out # {}
    <3> DEFINE ranks == {Cardinality(above(a)) : a \in out}
    <3>1. ranks \subseteq Nat /\ ranks # {}
      BY <1>3, <1>4, <2>2
    <3>2. \E x \in ranks : \A y \in ranks : ~ (<<y, x>> \in OpToRel(<, Nat))
      <4> HIDE DEF ranks
      <4> QED BY <3>1, WFMin, NatLessThanWellFounded, Zenon
    <3>3. \E x \in ranks : \A y \in ranks : ~ (y < x)
      <4> HIDE DEF ranks
      <4> QED BY <3>1, <3>2 DEF OpToRel
    <3>4. PICK a \in out : \A b \in out : ~ (Cardinality(above(b)) < Cardinality(above(a)))
      BY <3>3
    <3>5. /\ a \in DOMAIN m /\ m[a].orderSeq > row.orderSeq
          /\ Cardinality(above(a)) >= ListLimit
      BY DEF Higher
    <3>6. ASSUME NEW b \in above(a) PROVE b \in kept
      <4>1. b \in DOMAIN m /\ m[b].orderSeq > m[a].orderSeq
        BY DEF Higher
      <4>2. b \in A
        BY <1>1, <3>5, <4>1 DEF Higher
      <4>3. above(b) \subseteq above(a) /\ b \notin above(b)
        BY <1>1, <3>5, <4>1 DEF Higher
      <4>4. Cardinality(above(b)) < Cardinality(above(a))
        <5>1. above(b) # above(a)
          BY <3>6, <4>3
        <5> HIDE DEF above
        <5> QED BY <1>4, <3>5, <4>1, <4>3, <5>1, FS_Subset
      <4>5. b \notin out
        BY <3>4, <4>4
      <4>6. Cardinality(above(b)) < ListLimit
        BY <1>1, <1>4, <4>1, <4>2, <4>5
      <4> QED BY <1>1, <1>2, <3>5, <4>1, <4>6
    <3>7. Cardinality(above(a)) <= Cardinality(kept)
      <4>1. above(a) \subseteq kept
        BY <3>6
      <4> HIDE DEF above, kept
      <4> QED BY <1>4, <4>1, FS_Subset
    <3> QED BY <1>1, <1>4, <3>5, <3>7
  <2> QED BY <2>1, <2>2
<1> QED BY <1>6 DEF CrowdedOut

(* A list keeps following its view when it is pruned.                      *)
LEMMA PrunedFollows ==
    ASSUME StoreInv, NEW v, NEW m, NEW c, Followed(v, m, c)
    PROVE  Followed(v, Pruned(m), c)
<1>1. /\ DOMAIN Pruned(m) \subseteq DOMAIN m
      /\ \A i \in DOMAIN Pruned(m) : Pruned(m)[i] = m[i]
      /\ Pruned(m) = [i \in DOMAIN Pruned(m) |-> Pruned(m)[i]]
  BY DEF Pruned, Newest
<1>2. IsList(Pruned(m)) /\ SamePlaces(Pruned(m), rows) /\ AllMatch(v, Pruned(m)) /\ IsList(m)
  BY <1>1 DEF Followed, IsList, SamePlaces, AllMatch
<1>3. Sound(v, m, c) => Sound(v, Pruned(m), c)
  <2> SUFFICES ASSUME Sound(v, m, c), NEW i \in Live, v # SearchView,
                      Matches(v, rows[i]), rows[i].changeSeq <= c
               PROVE  (i \in DOMAIN Pruned(m) /\ Pruned(m)[i] = rows[i])
                         \/ CrowdedOut(Pruned(m), rows[i])
    BY DEF Sound
  <2>1. rows[i] \in Row
    BY DEF StoreInv, StoreTypeOK
  <2>2. CASE CrowdedOut(m, rows[i])
    BY <1>2, <2>1, <2>2, PrunedCrowds
  <2>3. CASE i \in DOMAIN m /\ m[i] = rows[i] /\ i \in Newest(m)
    BY <1>1, <2>3 DEF Pruned
  <2>4. CASE i \in DOMAIN m /\ m[i] = rows[i] /\ i \notin Newest(m)
    <3>1. Cardinality({j \in DOMAIN m : m[j].orderSeq > m[i].orderSeq}) \in Nat
      BY <1>2, ListsAreFinite
    <3> DEFINE n == Cardinality({j \in DOMAIN m : m[j].orderSeq > m[i].orderSeq})
    <3>2. ~ (n < ListLimit)
      BY <2>4 DEF Newest
    <3>3. n = Cardinality({j \in DOMAIN m : m[j].orderSeq > rows[i].orderSeq})
      BY <2>4
    <3>4. n >= ListLimit
      <4> HIDE DEF n
      <4> QED BY <3>1, <3>2, SyncAssumption DEF n
    <3>5. CrowdedOut(m, rows[i])
      BY <3>3, <3>4 DEF CrowdedOut
    <3> QED BY <1>2, <2>1, <3>5, PrunedCrowds
  <2> QED BY <2>2, <2>3, <2>4 DEF Sound
<1> QED BY <1>2, <1>3 DEF Followed

(* What is crowded out stays so when rows are merged.                      *)
LEMMA MergedCrowds ==
    ASSUME StoreInv, NEW m, NEW e, IsList(m), IsList(e), SamePlaces(m, e),
           NEW row \in Row, CrowdedOut(m, row)
    PROVE  CrowdedOut(Merged(m, e), row)
<1> DEFINE n == Merged(m, e)
           A == {j \in DOMAIN m : m[j].orderSeq > row.orderSeq}
           B == {j \in DOMAIN n : n[j].orderSeq > row.orderSeq}
<1>1. A \subseteq B
  BY DEF Merged, SamePlaces
<1>2. DOMAIN n \subseteq usedIds /\ IsFiniteSet(usedIds)
  BY DEF Merged, IsList, StoreInv
<1>3. IsFiniteSet(B) /\ Cardinality(B) \in Nat
  <2>1. B \subseteq usedIds
    BY <1>2
  <2> HIDE DEF B
  <2> QED BY <1>2, <2>1, FS_Subset, FS_CardinalityType
<1>4. Cardinality(A) <= Cardinality(B) /\ Cardinality(A) \in Nat
  <2> HIDE DEF A, B
  <2> QED BY <1>1, <1>3, FS_Subset, FS_CardinalityType
<1> QED BY <1>3, <1>4, SyncAssumption DEF CrowdedOut

(* A list with its next page merged follows the view up to the next cursor. *)
LEMMA MergedFollows ==
    ASSUME StoreInv, NEW v, NEW m, NEW c, NEW page,
           Followed(v, m, c), IsList(page.entries), Page(v, m, c, page)
    PROVE  Followed(v, Merged(m, page.entries), page.cursor)
<1> DEFINE e == page.entries
           n == Merged(m, e)
<1>1. /\ DOMAIN n = DOMAIN m \cup DOMAIN e /\ n = [i \in DOMAIN n |-> n[i]]
      /\ \A i \in DOMAIN n : n[i] = IF i \in DOMAIN e THEN e[i] ELSE m[i]
  BY DEF Merged
<1>2. IsList(n) /\ SamePlaces(n, rows) /\ AllMatch(v, n) /\ page.cursor \in Nat /\ IsList(m)
  BY <1>1 DEF Followed, Page, IsList, SamePlaces, AllMatch
<1>3. ASSUME restarts = 0 PROVE page.cursor <= nextChangeSeq /\ Sound(v, n, page.cursor)
  <2>1. Covers(v, c, page) /\ Sound(v, m, c) /\ c \in Nat
    BY <1>3 DEF Page, Followed
  <2>2. ASSUME NEW i \in Live, v # SearchView, Matches(v, rows[i]),
               rows[i].changeSeq <= page.cursor
        PROVE  (i \in DOMAIN n /\ n[i] = rows[i]) \/ CrowdedOut(n, rows[i])
    <3>1. rows[i] \in Row /\ rows[i].changeSeq \in Nat
      BY DEF StoreInv, StoreTypeOK, Row
    <3>2. CASE c < rows[i].changeSeq
      BY <1>1, <2>1, <2>2, <3>2 DEF Covers
    <3>3. CASE rows[i].changeSeq <= c
      <4>1. i \notin DOMAIN e
        BY <2>1, <3>1, <3>3 DEF Covers
      <4>2. CASE i \in DOMAIN m /\ m[i] = rows[i]
        BY <1>1, <4>1, <4>2
      <4>3. CASE CrowdedOut(m, rows[i])
        BY <1>2, <3>1, <4>3, MergedCrowds DEF Page
      <4> QED BY <2>1, <2>2, <3>3, <4>2, <4>3 DEF Sound
    <3> QED BY <2>1, <3>1, <3>2, <3>3
  <2> HIDE DEF n
  <2> QED BY <2>1, <2>2 DEF Covers, Sound
<1> QED BY <1>2, <1>3 DEF Followed

(* Nothing is stamped 0, so an empty list follows any view up to there.    *)
LEMMA EmptyFollows ==
    ASSUME StoreInv, Stamped, NEW v
    PROVE  Followed(v, EmptyList, 0) /\ IsList(EmptyList)
<1>1. DOMAIN EmptyList = {} /\ EmptyList = [i \in DOMAIN EmptyList |-> EmptyList[i]]
  BY DEF EmptyList
<1>2. IsList(EmptyList) /\ SamePlaces(EmptyList, rows) /\ AllMatch(v, EmptyList)
  BY <1>1 DEF IsList, SamePlaces, AllMatch
<1>3. Sound(v, EmptyList, 0)
  BY DEF Sound, Stamped, StoreInv, StoreTypeOK, Row
<1>4. 0 <= nextChangeSeq
  BY DEF StoreInv, StoreTypeOK
<1> QED BY <1>2, <1>3, <1>4 DEF Followed

-----------------------------------------------------------------------------
(* Answers. *)

(* What the daemon answers is the next page.                               *)
LEMMA AnswerIsPage ==
    ASSUME StoreInv, NEW v \in View, NEW m, NEW c, Followed(v, m, c)
    PROVE  /\ Answer(v, c).kind = "rows" /\ IsList(Answer(v, c).entries)
           /\ v # SearchView => Page(v, m, c, Answer(v, c))
<1>1. \A i \in Live : rows[i] \in Row /\ i \in usedIds
  BY DEF StoreInv, StoreTypeOK
<1>2. CASE v = SearchView
  <2> DEFINE found == [i \in Found(rows) |-> rows[i]]
  <2>1. Answer(v, c).kind = "rows" /\ Answer(v, c).entries = Pruned(found)
    BY <1>2 DEF Answer
  <2>2. IsList(Pruned(found))
    BY <1>1 DEF IsList, Pruned, Newest, Found, Live
  <2> QED BY <1>2, <2>1, <2>2
<1>3. CASE v # SearchView
  <2> DEFINE E == DeltaEntries(rows, v, c, PageSize)
             d == DeltaCursor(rows, v, c, PageSize)
             page == Answer(v, c)
  <2>1. /\ page.kind = "rows" /\ page.entries = [i \in E |-> rows[i]] /\ page.cursor = d
    BY <1>3 DEF Answer
  <2>2. /\ E \subseteq Changed(rows, v, c)
        /\ \A i \in Changed(rows, v, c) : i \in Live /\ Matches(v, rows[i]) /\ rows[i].changeSeq > c
    BY DEF DeltaEntries, Changed, Live
  <2>3. IsList(page.entries) /\ AllMatch(v, page.entries) /\ SamePlaces(page.entries, rows)
    BY <1>1, <2>1, <2>2 DEF IsList, AllMatch, SamePlaces
  <2>4. SamePlaces(m, page.entries)
    BY <1>1, <2>1, <2>2 DEF Followed, SamePlaces, Live
  <2>5. c \in Nat /\ PageSize \in Nat \ {0} /\ nextChangeSeq \in Nat
    BY SyncAssumption DEF Followed, StoreInv, StoreTypeOK
  <2>6. d \in Nat /\ c <= d /\ (c <= nextChangeSeq => d <= nextChangeSeq)
    <3>1. CASE E = {}
      BY <2>5, <3>1 DEF DeltaCursor
    <3>2. CASE E # {}
      <4>1. PICK e \in E : rows[e].changeSeq = d
        BY <2>5, <3>2, LastEntry
      <4>2. e \in Live /\ rows[e].changeSeq > c
        BY <2>2
      <4> QED BY <2>5, <4>1, <4>2 DEF StoreInv, StoreTypeOK, CountersAhead, Row
    <3> QED BY <3>1, <3>2
  <2>7. ASSUME NEW i \in Live, Matches(v, rows[i]), c < rows[i].changeSeq, rows[i].changeSeq <= d
        PROVE  i \in E
    <3>1. i \in Changed(rows, v, c)
      BY <2>7 DEF Changed, Live
    <3> QED BY <2>5, <2>7, <3>1, NoRowSkipped
  <2>8. restarts = 0 => Covers(v, c, page)
    <3> HIDE DEF page, E, d
    <3> QED BY <2>1, <2>2, <2>6, <2>7 DEF Covers, Followed
  <2>9. page.kind = "rows" /\ IsList(page.entries)
    BY <2>1, <2>3
  <2>10. Page(v, m, c, page)
    <3> HIDE DEF page, E, d
    <3> QED BY <2>1, <2>3, <2>4, <2>6, <2>8 DEF Page
  <2> QED BY <1>3, <2>9, <2>10
<1> QED BY <1>2, <1>3

-----------------------------------------------------------------------------
(* The table changes. *)

(* Rows keep their places, new ones are new, and what changes is stamped   *)
(* above every number there is, while one daemon runs.                     *)
StoreMoves ==
    /\ usedIds \subseteq usedIds'
    /\ \A i \in Live' :
          /\ i \in Live => rows'[i].orderSeq = rows[i].orderSeq
          /\ i \notin Live => i \notin usedIds
          /\ (i \in Live => rows'[i] # rows[i]) => rows'[i].changeSeq = nextChangeSeq + 1
    /\ restarts' = 0 => restarts = 0 /\ nextChangeSeq <= nextChangeSeq'
    /\ nextChangeSeq' \in Nat

(* Every step of the store is such a move.                                 *)
LEMMA StoreStepMoves ==
    ASSUME StoreInv, [StoreNext]_storeVars
    PROVE  StoreInv' /\ StoreMoves
<1>1. StoreInv' /\ StepShape
  BY NextPreservesInv, NextShape
<1>2. \A i \in Live' : /\ i \in Live => rows'[i].orderSeq = rows[i].orderSeq
                       /\ (i \in Live => rows'[i] # rows[i]) =>
                             rows'[i].changeSeq = nextChangeSeq + 1
  BY <1>1, StepNumbers
<1>3. \A i \in Live' : i \notin Live => i \notin usedIds
  <2>1. ASSUME NEW S \in SUBSET Unsaved(rows), rows' = Without(rows, S)
        PROVE  Live' \subseteq Live
    BY <2>1 DEF Without, Live
  <2>2. ASSUME NEW id \in Id \ usedIds, NEW ts \in Timestamp,
               NEW S \in SUBSET (Unsaved(rows) \cup {id}), rows' = Without(Inserted(id, ts), S)
        PROVE  Live' \subseteq Live \cup {id}
    <3>1. DOMAIN Inserted(id, ts) = Live \cup {id}
      BY InsertedRows
    <3> QED BY <2>2, <3>1 DEF Without, Live
  <2> QED BY <1>1, <2>1, <2>2 DEF StepShape
<1>4. /\ usedIds \subseteq usedIds'
      /\ restarts' = 0 => restarts = 0 /\ nextChangeSeq <= nextChangeSeq'
  <2>1. CASE UNCHANGED storeVars
    BY <2>1 DEF storeVars, StoreInv, StoreTypeOK
  <2>2. CASE Restart \/ \E id \in Id, ts \in Timestamp : CrashAfterInsert(id, ts)
    BY <2>2 DEF Restart, CrashAfterInsert, StoreInv, StoreTypeOK
  <2>3. CASE ClearRequests
    BY <2>3 DEF ClearRequests, StoreInv, StoreTypeOK
  <2>4. CASE \E id \in Id, ts \in Timestamp : SaveRequest(id, ts)
    BY <2>4 DEF SaveRequest, TakeNextChangeSeq, StoreInv, StoreTypeOK
  <2>5. ASSUME NEW id, NEW columns, Update(id, columns)
        PROVE  usedIds' = usedIds /\ restarts' = restarts /\ nextChangeSeq <= nextChangeSeq'
    BY <2>5 DEF Update, TakeNextChangeSeq, StoreInv, StoreTypeOK
  <2>6. CASE \E id \in usedIds : UpdateRequestResponse(id) \/ BookmarkRequest(id) \/ UnbookmarkRequest(id)
    BY <2>5, <2>6 DEF UpdateRequestResponse, BookmarkRequest, UnbookmarkRequest
  <2>7. CASE \E id \in usedIds, how \in Interception : UpdateRequestInterception(id, how)
    BY <2>5, <2>7 DEF UpdateRequestInterception
  <2>8. CASE \E id \in usedIds, who \in Initiator : UpdateRequestReplay(id, who)
    BY <2>5, <2>8 DEF UpdateRequestReplay, TakeNextChangeSeq, StoreInv, StoreTypeOK
  <2> QED BY <2>1, <2>2, <2>3, <2>4, <2>6, <2>7, <2>8 DEF StoreNext
<1>5. nextChangeSeq' \in Nat
  BY <1>1 DEF StoreInv, StoreTypeOK
<1> QED BY <1>1, <1>2, <1>3, <1>4, <1>5 DEF StoreMoves

(* No row is stamped 0 ever.                                               *)
LEMMA StampedStays ==
    ASSUME StoreInv, Stamped, StoreMoves
    PROVE  Stamped'
BY DEF Stamped, StoreMoves, StoreInv, StoreTypeOK

(* A list follows its view although the table changes.                     *)
LEMMA FollowedStays ==
    ASSUME StoreInv, StoreMoves, NEW v, NEW m, NEW c, Followed(v, m, c)
    PROVE  Followed(v, m, c)'
<1>1. IsList(m)' /\ AllMatch(v, m)'
  BY DEF Followed, IsList, AllMatch, StoreMoves, Matches
<1>2. SamePlaces(m, rows)'
  BY DEF Followed, IsList, SamePlaces, StoreMoves, Live
<1>3. ASSUME restarts' = 0 PROVE c <= nextChangeSeq' /\ Sound(v, m, c)'
  <2>1. c \in Nat /\ c <= nextChangeSeq /\ Sound(v, m, c) /\ nextChangeSeq \in Nat
    BY <1>3 DEF Followed, StoreMoves, StoreInv, StoreTypeOK
  <2>2. ASSUME NEW i \in Live', v # SearchView, Matches(v, rows'[i]), rows'[i].changeSeq <= c
        PROVE  (i \in DOMAIN m /\ m[i] = rows'[i]) \/ CrowdedOut(m, rows'[i])
    <3>1. i \in Live /\ rows'[i] = rows[i]
      BY <2>1, <2>2 DEF StoreMoves
    <3> QED BY <2>1, <2>2, <3>1 DEF Sound
  <2>3. nextChangeSeq <= nextChangeSeq' /\ nextChangeSeq' \in Nat
    BY <1>3 DEF StoreMoves
  <2> QED BY <2>1, <2>2, <2>3 DEF Sound
<1>4. c \in Nat
  BY DEF Followed
<1> QED BY <1>1, <1>2, <1>3, <1>4 DEF Followed

(* A page keeps following on a list although the table changes.            *)
LEMMA PageStays ==
    ASSUME StoreInv, StoreMoves, NEW v, NEW m, NEW c, NEW page,
           IsList(m), c \in Nat, IsList(page.entries), Page(v, m, c, page)
    PROVE  Page(v, m, c, page)'
<1> DEFINE e == page.entries
<1>1. /\ page.cursor \in Nat /\ SamePlaces(e, rows) /\ SamePlaces(m, e) /\ AllMatch(v, e)
      /\ DOMAIN e \subseteq usedIds
  BY DEF Page, IsList
<1>2. SamePlaces(m, e)' /\ AllMatch(v, e)'
  BY <1>1 DEF SamePlaces, AllMatch, Matches
<1>3. SamePlaces(e, rows)'
  BY <1>1 DEF SamePlaces, StoreMoves, Live
<1>4. ASSUME restarts' = 0 PROVE Covers(v, c, page)'
  <2>1. /\ Covers(v, c, page) /\ nextChangeSeq <= nextChangeSeq'
        /\ nextChangeSeq \in Nat /\ nextChangeSeq' \in Nat
    BY <1>4 DEF Page, StoreMoves, StoreInv, StoreTypeOK
  <2>2. c <= page.cursor /\ page.cursor <= nextChangeSeq
    BY <2>1 DEF Covers
  <2>3. ASSUME NEW i \in Live', Matches(v, rows'[i]), c < rows'[i].changeSeq,
               rows'[i].changeSeq <= page.cursor
        PROVE  i \in DOMAIN e /\ e[i] = rows'[i]
    <3>1. i \in Live /\ rows'[i] = rows[i]
      BY <1>1, <2>1, <2>2, <2>3 DEF StoreMoves
    <3> QED BY <2>1, <2>3, <3>1 DEF Covers
  <2>4. ASSUME NEW i \in Live', i \in DOMAIN e PROVE c < rows'[i].changeSeq
    <3>1. i \in Live
      BY <1>1, <2>4 DEF StoreMoves
    <3>2. c < rows[i].changeSeq
      BY <2>1, <2>4, <3>1 DEF Covers
    <3>3. CASE rows'[i] = rows[i]
      BY <3>2, <3>3
    <3>4. CASE rows'[i] # rows[i]
      BY <1>1, <2>1, <2>2, <3>4 DEF StoreMoves
    <3> QED BY <3>3, <3>4
  <2>5. c <= page.cursor /\ page.cursor <= nextChangeSeq'
    BY <1>1, <2>1, <2>2
  <2> QED BY <2>3, <2>4, <2>5 DEF Covers
<1> QED BY <1>1, <1>2, <1>3, <1>4 DEF Page

(* So do the hook and its synchronisation.                                 *)
LEMMA FlightStays ==
    ASSUME StoreInv, StoreMoves, NEW s, NEW v, NEW g, NEW m, Flight(s, v, g, m)
    PROVE  Flight(s, v, g, m)'
<1>1. Followed(s.view, s.draft, s.cursor)'
  BY FollowedStays DEF Flight
<1>2. IsList(s.reply.entries) => IsList(s.reply.entries)'
  BY DEF IsList, StoreMoves
<1>3. IsList(s.draft) /\ s.cursor \in Nat
  BY DEF Flight, Followed
<1>4. IsList(s.reply.entries) /\ Page(s.view, s.draft, s.cursor, s.reply)
         => Page(s.view, s.draft, s.cursor, s.reply)'
  BY <1>3, PageStays
<1> QED BY <1>1, <1>2, <1>4 DEF Flight, View, NoReply, Lost

(* A step keeps the invariant if the refs and the synchronisation it       *)
(* leaves follow the table it found.                                       *)
LEMMA StepKeeps ==
    ASSUME StoreInv, Stamped, [StoreNext]_storeVars,
           rerunRequested' \in BOOLEAN, acks' \subseteq {"toggle", "clear"},
           failures' \in 0 .. MaxFailures,
           Hook(view', mirror', cursor', shown', snapshotRequested', generation'),
           sync' = Idle \/ Flight(sync', view', generation', mirror')
    PROVE  SyncInd'
<1>1. StoreInv' /\ StoreMoves /\ Stamped'
  BY StoreStepMoves, StampedStays
<1>2. PICK v, m, c, list, snap, g, s :
          /\ v = view' /\ m = mirror' /\ c = cursor' /\ list = shown'
          /\ snap = snapshotRequested' /\ g = generation' /\ s = sync'
  OBVIOUS
<1>3. Followed(v, m, c)'
  BY <1>1, <1>2, FollowedStays DEF Hook
<1>4. IsList(list)'
  BY <1>1, <1>2 DEF Hook, IsList, StoreMoves
<1>5. Hook(view, mirror, cursor, shown, snapshotRequested, generation)'
  BY <1>2, <1>3, <1>4 DEF Hook, View
<1>6. s = Idle \/ Flight(s, v, g, m)'
  BY <1>1, <1>2, FlightStays
<1>7. (sync = Idle)' \/ Flight(sync, view, generation, mirror)'
  BY <1>2, <1>6 DEF Idle
<1> QED BY <1>1, <1>5, <1>7 DEF SyncInd

-----------------------------------------------------------------------------
(* The steps of the hook. *)

(* A synchronisation starts with the hook's copy, or with nothing.         *)
LEMMA StartedFlight ==
    ASSUME StoreInv, Stamped, NEW v, NEW m, NEW c, NEW list, NEW snap, NEW g,
           Hook(v, m, c, list, snap, g)
    PROVE  Flight(Started(v, m, c, g, snap), v, g, m)
<1> DEFINE mode == IF v = SearchView THEN "search"
                   ELSE IF snap \/ DOMAIN m = {} THEN "snapshot" ELSE "delta"
           s == Started(v, m, c, g, snap)
<1>1. /\ DOMAIN s = {"mode", "gen", "view", "draft", "cursor", "batches", "reply"}
      /\ s.mode = mode /\ s.gen = g /\ s.view = v /\ s.batches = 0 /\ s.reply = NoReply
      /\ s.draft = (IF mode = "delta" THEN m ELSE EmptyList)
      /\ s.cursor = (IF mode = "delta" THEN c ELSE 0)
  BY DEF Started
<1>2. /\ mode \in {"search", "snapshot", "delta"}
      /\ mode = "search" <=> v = SearchView
  OBVIOUS
<1>3. v \in View /\ g \in Nat /\ Followed(v, m, c)
  BY SyncAssumption DEF Hook
<1>4. Followed(s.view, s.draft, s.cursor)
  <2>1. CASE mode = "delta"
    BY <1>1, <1>3, <2>1
  <2>2. CASE mode # "delta"
    BY <1>1, <2>2, EmptyFollows
  <2> QED BY <2>1, <2>2
<1> HIDE DEF mode, s
<1>5. /\ s.gen = g => s.view = v
      /\ s.mode = "delta" => s.draft = m
      /\ s.batches < MaxSnapshotBatches /\ s.batches < MaxDeltaBatches
      /\ s.batches \in Nat /\ s.gen \in Nat /\ s.gen <= g
  BY <1>1, <1>3, SyncAssumption
<1> QED BY <1>1, <1>2, <1>3, <1>4, <1>5 DEF Flight, s

(* A synchronisation ends and leaves refs that follow the table.           *)
LEMMA EndSyncKeeps ==
    ASSUME SyncInd, NEW m, NEW c, NEW snap, NEW list, EndSync(m, c, snap), shown' = list,
           Hook(view, m, c, list, snap, generation),
           UNCHANGED <<storeVars, view, generation>>,
           acks' \subseteq {"toggle", "clear"}, failures' \in 0 .. MaxFailures
    PROVE  SyncInd'
<1>1. StoreInv /\ Stamped
  BY DEF SyncInd
<1>2. /\ mirror' = m /\ cursor' = c /\ snapshotRequested' = snap /\ rerunRequested' = FALSE
      /\ sync' = Started(view, m, c, generation, snap) \/ sync' = Idle
  BY DEF EndSync
<1>3. Flight(Started(view, m, c, generation, snap), view, generation, m)
  BY <1>1, StartedFlight
<1>4. Hook(view', mirror', cursor', shown', snapshotRequested', generation')
  BY <1>2
<1>5. sync' = Idle \/ Flight(sync', view', generation', mirror')
  BY <1>2, <1>3
<1>6. UNCHANGED storeVars
  OBVIOUS
<1> QED BY <1>1, <1>2, <1>4, <1>5, <1>6, StepKeeps

(* A call of runSync, under the generation there is or a new one.          *)
LEMMA RunSyncKeeps ==
    ASSUME SyncInd, NEW v, NEW m, NEW c, NEW snap, NEW g, RunSync(v, m, c, g, snap),
           Hook(v, m, c, shown, snap, g),
           g > generation \/ (g = generation /\ v = view /\ m = mirror),
           v = view', m = mirror', c = cursor', snap = snapshotRequested', g = generation',
           UNCHANGED <<storeVars, shown, failures>>,
           acks' \subseteq acks
    PROVE  SyncInd'
<1>1. StoreInv /\ Stamped /\ generation \in Nat /\ g \in Nat
  BY SyncAssumption DEF SyncInd, Hook
<1>2. /\ rerunRequested' \in BOOLEAN
      /\ sync' = IF sync = Idle THEN Started(v, m, c, g, snap) ELSE sync
  BY DEF RunSync
<1>3. Flight(Started(v, m, c, g, snap), v, g, m)
  BY <1>1, StartedFlight
<1>4. ASSUME sync # Idle PROVE Flight(sync, v, g, m)
  <2>1. Flight(sync, view, generation, mirror)
    BY <1>4 DEF SyncInd
  <2>2. CASE g = generation /\ v = view /\ m = mirror
    BY <2>1, <2>2
  <2>3. CASE g > generation
    BY <1>1, <2>1, <2>3 DEF Flight
  <2> QED BY <2>2, <2>3
<1>5. sync' = Idle \/ Flight(sync', v, g, m)
  BY <1>2, <1>3, <1>4
<1>6. Hook(view', mirror', cursor', shown', snapshotRequested', generation')
  OBVIOUS
<1>7. acks' \subseteq {"toggle", "clear"} /\ failures' \in 0 .. MaxFailures
  BY DEF SyncInd
<1>8. UNCHANGED storeVars
  OBVIOUS
<1> QED BY <1>1, <1>2, <1>5, <1>6, <1>7, <1>8, StepKeeps

(* An answer that is not applied leaves the refs as they were.             *)
LEMMA DropKeeps ==
    ASSUME SyncInd, EndSync(mirror, cursor, snapshotRequested),
           UNCHANGED <<storeVars, view, shown, generation, acks>>,
           failures' \in 0 .. MaxFailures
    PROVE  SyncInd'
<1>1. Hook(view, mirror, cursor, shown, snapshotRequested, generation)
  BY DEF SyncInd
<1>2. acks' \subseteq {"toggle", "clear"}
  BY DEF SyncInd
<1> QED BY <1>1, <1>2, EndSyncKeeps

(* A current answer is an answer for the view of the hook.                 *)
LEMMA CurrentAnswer ==
    ASSUME SyncInd, Received, Current
    PROVE  /\ StoreInv /\ Flight(sync, view, generation, mirror)
           /\ sync.view = view /\ IsList(sync.reply.entries)
           /\ sync.mode = "search" <=> view = SearchView
           /\ sync.mode # "search" => Page(view, sync.draft, sync.cursor, sync.reply)
           /\ Followed(view, sync.draft, sync.cursor)
<1>1. Flight(sync, view, generation, mirror)
  BY DEF SyncInd, Received
<1>2. sync.reply \notin {NoReply, Lost}
  BY DEF Received, NoReply, Lost
<1> QED BY <1>1, <1>2 DEF Flight, Current, SyncInd

(* The last page of a search: the screen alone changes.                    *)
LEMMA ApplySearchKeeps ==
    ASSUME SyncInd, ApplySearch
    PROVE  SyncInd'
<1>1. /\ Received /\ Current /\ sync.mode = "search" /\ shown' = sync.reply.entries
      /\ EndSync(mirror, cursor, snapshotRequested)
      /\ UNCHANGED <<storeVars, view, generation, acks, failures>>
  BY DEF ApplySearch
<1>2. view = SearchView /\ IsList(sync.reply.entries)
  BY <1>1, CurrentAnswer
<1>3. Hook(view, mirror, cursor, sync.reply.entries, snapshotRequested, generation)
  BY <1>2 DEF SyncInd, Hook
<1>4. acks' \subseteq {"toggle", "clear"} /\ failures' \in 0 .. MaxFailures
  BY <1>1 DEF SyncInd
<1> QED BY <1>1, <1>3, <1>4, EndSyncKeeps

(* One more page is merged into what the synchronisation has got.          *)
LEMMA ApplyPageKeeps ==
    ASSUME SyncInd, ApplyPage
    PROVE  SyncInd'
<1> DEFINE s == [sync EXCEPT !.draft = Merged(@, sync.reply.entries),
                             !.cursor = sync.reply.cursor,
                             !.batches = @ + 1,
                             !.reply = NoReply]
<1>1. /\ Received /\ Current
      /\ \/ sync.mode = "snapshot" /\ ~ LastPage(MaxSnapshotBatches)
         \/ sync.mode = "delta" /\ ~ LastPage(MaxDeltaBatches)
      /\ sync' = s
      /\ UNCHANGED <<storeVars, view, mirror, cursor, shown, generation,
                     rerunRequested, snapshotRequested, acks, failures>>
  BY DEF ApplyPage
<1>2. /\ StoreInv /\ Flight(sync, view, generation, mirror)
      /\ sync.view = view /\ IsList(sync.reply.entries)
      /\ Page(view, sync.draft, sync.cursor, sync.reply)
      /\ Followed(view, sync.draft, sync.cursor)
  BY <1>1, CurrentAnswer
<1>3. Followed(view, Merged(sync.draft, sync.reply.entries), sync.reply.cursor)
  BY <1>2, MergedFollows
<1>4. DOMAIN sync = {"mode", "gen", "view", "draft", "cursor", "batches", "reply"}
  BY <1>2 DEF Flight
<1>5. /\ DOMAIN s = DOMAIN sync /\ s.mode = sync.mode /\ s.gen = sync.gen /\ s.view = sync.view
      /\ s.draft = Merged(sync.draft, sync.reply.entries) /\ s.cursor = sync.reply.cursor
      /\ s.batches = sync.batches + 1 /\ s.reply = NoReply
  BY <1>4
<1>6. Followed(s.view, s.draft, s.cursor)
  BY <1>2, <1>3, <1>5
<1>7. /\ sync.batches \in Nat
      /\ sync.mode = "snapshot" => sync.batches + 1 < MaxSnapshotBatches
      /\ sync.mode = "delta" => sync.batches + 1 < MaxDeltaBatches
  BY <1>1, <1>2, SyncAssumption DEF Flight, LastPage
<1> HIDE DEF s
<1>8. Flight(s, view, generation, mirror)
  BY <1>2, <1>5, <1>6, <1>7 DEF Flight
<1>9. Hook(view', mirror', cursor', shown', snapshotRequested', generation')
  BY <1>1 DEF SyncInd
<1>10. Flight(sync', view', generation', mirror')
  BY <1>1, <1>8
<1>11. /\ StoreInv /\ Stamped /\ UNCHANGED storeVars /\ rerunRequested' \in BOOLEAN
       /\ acks' \subseteq {"toggle", "clear"} /\ failures' \in 0 .. MaxFailures
  BY <1>1 DEF SyncInd
<1> QED BY <1>9, <1>10, <1>11, StepKeeps

(* The last page of a snapshot: a new copy, on the screen too.             *)
LEMMA FinishSnapshotKeeps ==
    ASSUME SyncInd, FinishSnapshot
    PROVE  SyncInd'
<1> DEFINE list == Pruned(Merged(sync.draft, sync.reply.entries))
<1>1. /\ Received /\ Current /\ sync.mode = "snapshot" /\ shown' = list
      /\ EndSync(list, sync.reply.cursor, FALSE)
      /\ UNCHANGED <<storeVars, view, generation, acks, failures>>
  BY DEF FinishSnapshot
<1>2. /\ StoreInv /\ IsList(sync.reply.entries) /\ view # SearchView
      /\ Page(view, sync.draft, sync.cursor, sync.reply)
      /\ Followed(view, sync.draft, sync.cursor)
  BY <1>1, CurrentAnswer
<1>3. Followed(view, list, sync.reply.cursor)
  BY <1>2, MergedFollows, PrunedFollows
<1> HIDE DEF list
<1>4. Hook(view, list, sync.reply.cursor, list, FALSE, generation)
  BY <1>2, <1>3 DEF SyncInd, Hook, Followed
<1>5. acks' \subseteq {"toggle", "clear"} /\ failures' \in 0 .. MaxFailures
  BY <1>1 DEF SyncInd
<1> QED BY <1>1, <1>4, <1>5, EndSyncKeeps

(* Merging a page without rows changes nothing.                            *)
LEMMA MergedNothing ==
    ASSUME NEW m, NEW e, IsList(m), DOMAIN e = {}
    PROVE  Merged(m, e) = m
<1>1. Merged(m, e) = [i \in DOMAIN m |-> m[i]]
  BY DEF Merged
<1> QED BY <1>1 DEF IsList

(* The last page of a delta: the screen is redrawn if any page had rows,   *)
(* and if none had, the copy is what it was.                               *)
LEMMA FinishDeltaKeeps ==
    ASSUME SyncInd, FinishDelta
    PROVE  SyncInd'
<1> DEFINE list == Merged(sync.draft, sync.reply.entries)
           applied == sync.batches > 0 \/ DOMAIN sync.reply.entries # {}
           copy == IF applied THEN Pruned(list) ELSE list
           screen == IF applied THEN Pruned(list) ELSE shown
<1>1. /\ Received /\ Current /\ sync.mode = "delta" /\ shown' = screen
      /\ EndSync(copy, sync.reply.cursor, snapshotRequested)
      /\ UNCHANGED <<storeVars, view, generation, acks, failures>>
  BY DEF FinishDelta
<1>2. /\ StoreInv /\ IsList(sync.reply.entries) /\ view # SearchView
      /\ Page(view, sync.draft, sync.cursor, sync.reply)
      /\ Followed(view, sync.draft, sync.cursor)
      /\ Flight(sync, view, generation, mirror)
  BY <1>1, CurrentAnswer
<1>3. Followed(view, list, sync.reply.cursor) /\ Followed(view, Pruned(list), sync.reply.cursor)
  BY <1>2, MergedFollows, PrunedFollows
<1>4. Followed(view, copy, sync.reply.cursor)
  BY <1>3
<1>5. /\ ~ snapshotRequested => shown = mirror
      /\ IsList(shown) /\ IsList(mirror)
  BY DEF SyncInd, Hook, Followed
<1>6. ASSUME ~ applied PROVE copy = mirror /\ screen = shown
  <2>1. sync.batches = 0 /\ DOMAIN sync.reply.entries = {}
    BY <1>2, <1>6 DEF Flight
  <2>2. sync.draft = mirror
    BY <1>1, <1>2, <2>1 DEF Flight, Current
  <2>3. list = mirror
    BY <1>5, <2>1, <2>2, MergedNothing
  <2> QED BY <1>6, <2>3
<1>7. IsList(screen) /\ (~ snapshotRequested => screen = copy)
  <2>1. CASE applied
    BY <1>3, <2>1 DEF Followed
  <2>2. CASE ~ applied
    <3> HIDE DEF copy, screen, applied
    <3> QED BY <1>5, <1>6, <2>2
  <2> QED BY <2>1, <2>2
<1> HIDE DEF list, applied, copy, screen
<1>8. Hook(view, copy, sync.reply.cursor, screen, snapshotRequested, generation)
  BY <1>2, <1>4, <1>7 DEF SyncInd, Hook
<1>9. acks' \subseteq {"toggle", "clear"} /\ failures' \in 0 .. MaxFailures
  BY <1>1 DEF SyncInd
<1> QED BY <1>1, <1>8, <1>9, EndSyncKeeps

(* The daemon answers from the table of the moment.                        *)
LEMMA DaemonAnswersKeeps ==
    ASSUME SyncInd, DaemonAnswers
    PROVE  SyncInd'
<1> DEFINE answer == Answer(sync.view, sync.cursor)
           s == [sync EXCEPT !.reply = answer]
<1>1. /\ sync # Idle /\ sync' = s
      /\ UNCHANGED <<storeVars, view, mirror, cursor, shown, generation,
                     rerunRequested, snapshotRequested, acks, failures>>
  BY DEF DaemonAnswers
<1>2. StoreInv /\ Flight(sync, view, generation, mirror)
  BY <1>1 DEF SyncInd
<1>3. /\ answer.kind = "rows" /\ IsList(answer.entries)
      /\ sync.view # SearchView => Page(sync.view, sync.draft, sync.cursor, answer)
  <2>1. sync.view \in View /\ Followed(sync.view, sync.draft, sync.cursor)
    BY <1>2 DEF Flight
  <2> QED BY <1>2, <2>1, AnswerIsPage
<1>4. DOMAIN sync = {"mode", "gen", "view", "draft", "cursor", "batches", "reply"}
  BY <1>2 DEF Flight
<1>5. /\ DOMAIN s = DOMAIN sync /\ s.mode = sync.mode /\ s.gen = sync.gen /\ s.view = sync.view
      /\ s.draft = sync.draft /\ s.cursor = sync.cursor
      /\ s.batches = sync.batches /\ s.reply = answer
  BY <1>4
<1> HIDE DEF s, answer
<1>6. Flight(s, view, generation, mirror)
  BY <1>2, <1>3, <1>5 DEF Flight
<1>7. Hook(view', mirror', cursor', shown', snapshotRequested', generation')
  BY <1>1 DEF SyncInd
<1>8. Flight(sync', view', generation', mirror')
  BY <1>1, <1>6
<1>9. /\ StoreInv /\ Stamped /\ UNCHANGED storeVars /\ rerunRequested' \in BOOLEAN
      /\ acks' \subseteq {"toggle", "clear"} /\ failures' \in 0 .. MaxFailures
  BY <1>1 DEF SyncInd
<1> QED BY <1>7, <1>8, <1>9, StepKeeps

(* Rows, bookmarks and restarts of the daemon between the hook's steps.    *)
LEMMA StoreStepKeeps ==
    ASSUME SyncInd, StoreNext,
           UNCHANGED <<view, mirror, cursor, shown, generation, rerunRequested,
                       snapshotRequested, failures>>,
           acks' \subseteq {"toggle", "clear"},
           sync' = sync \/ (sync # Idle /\ sync' = [sync EXCEPT !.reply = Lost])
    PROVE  SyncInd'
<1>1. Hook(view', mirror', cursor', shown', snapshotRequested', generation')
  BY DEF SyncInd
<1>2. /\ StoreInv /\ Stamped /\ rerunRequested' \in BOOLEAN
      /\ failures' \in 0 .. MaxFailures
      /\ sync = Idle \/ Flight(sync, view, generation, mirror)
  BY DEF SyncInd
<1>3. ASSUME Flight(sync, view, generation, mirror)
      PROVE  Flight([sync EXCEPT !.reply = Lost], view, generation, mirror)
  <2> DEFINE s == [sync EXCEPT !.reply = Lost]
  <2>1. DOMAIN sync = {"mode", "gen", "view", "draft", "cursor", "batches", "reply"}
    BY <1>3 DEF Flight
  <2>2. /\ DOMAIN s = DOMAIN sync /\ s.mode = sync.mode /\ s.gen = sync.gen
        /\ s.view = sync.view /\ s.draft = sync.draft /\ s.cursor = sync.cursor
        /\ s.batches = sync.batches /\ s.reply = Lost
    BY <2>1
  <2> HIDE DEF s
  <2>3. Flight(s, view, generation, mirror)
    BY <1>3, <2>2 DEF Flight
  <2> QED BY <2>3 DEF s
<1>4. sync' = Idle \/ Flight(sync', view, generation, mirror)
  BY <1>2, <1>3
<1>5. sync' = Idle \/ Flight(sync', view', generation', mirror')
  BY <1>4
<1> QED BY <1>1, <1>2, <1>5, StepKeeps

(* The list starts over, under a new generation.                           *)
LEMMA ReloadKeeps ==
    ASSUME SyncInd, NEW v \in View, Reload(v),
           UNCHANGED <<storeVars, shown, failures>>, acks' \subseteq acks
    PROVE  SyncInd'
<1>1. /\ StoreInv /\ Stamped /\ IsList(shown) /\ generation \in Nat /\ MaxGeneration \in Nat
  BY SyncAssumption DEF SyncInd, Hook
<1>2. /\ generation < MaxGeneration
      /\ generation' = generation + 1 /\ view' = v /\ mirror' = EmptyList /\ cursor' = 0
      /\ snapshotRequested' = TRUE
      /\ RunSync(v, EmptyList, 0, generation + 1, TRUE)
  BY DEF Reload
<1>3. Followed(v, EmptyList, 0)
  BY <1>1, EmptyFollows
<1>4. Hook(v, EmptyList, 0, shown, TRUE, generation + 1)
  BY <1>1, <1>2, <1>3 DEF Hook, EmptyList
<1>5. generation + 1 > generation
  BY <1>1
<1>6. UNCHANGED <<storeVars, shown, failures>> /\ acks' \subseteq acks
  OBVIOUS
<1>7. /\ v = view' /\ EmptyList = mirror' /\ 0 = cursor' /\ TRUE = snapshotRequested'
      /\ generation + 1 = generation'
  BY <1>2
<1> DEFINE g == generation + 1
           empty == EmptyList
<1>8. RunSync(v, empty, 0, g, TRUE) /\ Hook(v, empty, 0, shown, TRUE, g)
  BY <1>2, <1>4
<1>9. /\ v = view' /\ empty = mirror' /\ 0 = cursor' /\ TRUE = snapshotRequested'
      /\ g = generation' /\ g > generation
  BY <1>5, <1>7
<1> HIDE DEF g, empty
<1> QED BY <1>6, <1>8, <1>9, RunSyncKeeps

(* The refs stay, the generation may move on.                              *)
LEMMA RerunKeeps ==
    ASSUME SyncInd, NEW g \in {generation, generation + 1}, g \in 0 .. MaxGeneration,
           RunSync(view, mirror, cursor, g, snapshotRequested),
           generation' = g, acks' \subseteq acks,
           UNCHANGED <<storeVars, view, mirror, cursor, shown, snapshotRequested, failures>>
    PROVE  SyncInd'
<1>1. Hook(view, mirror, cursor, shown, snapshotRequested, g)
  BY DEF SyncInd, Hook
<1>2. g > generation \/ g = generation
  BY SyncAssumption DEF SyncInd, Hook
<1>3. UNCHANGED <<storeVars, shown, failures>>
  OBVIOUS
<1> QED BY <1>1, <1>2, <1>3, RunSyncKeeps

(* Mounting: nothing followed up to 0, a synchronisation started.          *)
LEMMA InitSync == Init => SyncInd
<1> SUFFICES ASSUME Init PROVE SyncInd
  OBVIOUS
<1>1. StoreInv /\ Stamped
  BY InitEstablishesInv DEF Init, StoreInit, Stamped, Live
<1>2. /\ view \in Filter /\ mirror = EmptyList /\ cursor = 0 /\ shown = EmptyList
      /\ generation = 0 /\ snapshotRequested = TRUE
      /\ sync = Started(view, EmptyList, 0, 0, TRUE)
  BY DEF Init
<1>3. Followed(view, EmptyList, 0) /\ IsList(EmptyList)
  BY <1>1, EmptyFollows
<1>4. Hook(view, EmptyList, 0, EmptyList, TRUE, 0)
  BY <1>2, <1>3, SyncAssumption DEF Hook, View, EmptyList
<1>5. Flight(Started(view, EmptyList, 0, 0, TRUE), view, 0, EmptyList)
  BY <1>1, <1>4, StartedFlight
<1>6. /\ rerunRequested \in BOOLEAN
      /\ acks \subseteq {"toggle", "clear"} /\ failures \in 0 .. MaxFailures
  BY SyncAssumption DEF Init
<1> QED BY <1>1, <1>2, <1>4, <1>5, <1>6 DEF SyncInd

(* Every step keeps the invariant.                                         *)
LEMMA NextSync ==
    ASSUME SyncInd, [Next]_vars
    PROVE  SyncInd'
<1> USE DEF SyncInd
<1>1. /\ acks \subseteq {"toggle", "clear"} /\ failures \in 0 .. MaxFailures
      /\ generation \in 0 .. MaxGeneration /\ view \in View
      /\ MaxFailures \in Nat /\ MaxGeneration \in Nat
  BY SyncAssumption DEF Hook
<1>2. CASE Poll
  BY <1>1, <1>2, RerunKeeps DEF Poll
<1>3. CASE DropStaleAnswer
  BY <1>1, <1>3, DropKeeps DEF DropStaleAnswer
<1>4. CASE FailCall
  BY <1>1, <1>4, DropKeeps DEF FailCall
<1>5. CASE Refresh
  BY <1>1, <1>5, ReloadKeeps DEF Refresh
<1>6. ASSUME NEW v \in Filter \cup {SearchView}, ChangeView(v) PROVE SyncInd'
  BY <1>6, ReloadKeeps DEF ChangeView, View
<1>7. CASE ToggleAcked
  BY <1>1, <1>7, RerunKeeps DEF ToggleAcked
<1>8. CASE ClearAcked
  BY <1>1, <1>8, ReloadKeeps DEF ClearAcked
<1>9. CASE ClearFromTui
  BY <1>1, <1>9, StoreStepKeeps DEF ClearFromTui, StoreNext
<1>10. ASSUME NEW id \in DOMAIN shown, ToggleSaved(id) PROVE SyncInd'
  <2>1. id \in usedIds
    BY DEF Hook, IsList
  <2>2. StoreNext
    BY <1>10, <2>1 DEF ToggleSaved, StoreNext
  <2>3. /\ acks' \subseteq {"toggle", "clear"} /\ sync' = sync
        /\ UNCHANGED <<view, mirror, cursor, shown, generation, rerunRequested,
                       snapshotRequested, failures>>
    BY <1>1, <1>10 DEF ToggleSaved
  <2> QED BY <2>2, <2>3, StoreStepKeeps
<1>11. CASE StoreChanges
  <2>1. /\ StoreNext /\ acks' \subseteq {"toggle", "clear"}
        /\ sync' = sync \/ (sync # Idle /\ sync' = [sync EXCEPT !.reply = Lost])
        /\ UNCHANGED <<view, mirror, cursor, shown, generation, rerunRequested,
                       snapshotRequested, failures>>
    BY <1>1, <1>11 DEF StoreChanges
  <2> QED BY <2>1, StoreStepKeeps
<1>12. CASE UNCHANGED vars
  <2>1. /\ Hook(view', mirror', cursor', shown', snapshotRequested', generation')
        /\ sync' = Idle \/ Flight(sync', view', generation', mirror')
        /\ StoreInv /\ Stamped /\ UNCHANGED storeVars /\ rerunRequested' \in BOOLEAN
        /\ acks' \subseteq {"toggle", "clear"} /\ failures' \in 0 .. MaxFailures
    BY <1>12 DEF vars, tuiVars
  <2> QED BY <2>1, StepKeeps
<1> QED
  BY <1>2, <1>3, <1>4, <1>5, <1>6, <1>7, <1>8, <1>9, <1>10, <1>11, <1>12,
     DaemonAnswersKeeps, ApplySearchKeeps, ApplyPageKeeps, FinishSnapshotKeeps, FinishDeltaKeeps
  DEF Next

-----------------------------------------------------------------------------
(* The inductive invariant holds always: the hook and the synchronisation  *)
(* in flight follow the table, each for its own view and cursor.           *)
THEOREM SyncFollows == Spec => []SyncInd
<1> QED BY InitSync, NextSync, PTL DEF Spec

(* No change is ever skipped (useRequests.ts, syncOnce): while one daemon  *)
(* serves the list, every row of the view that changed up to the cursor is *)
(* in the copy in its present version, or newer rows fill the list.        *)
THEOREM CursorsCover == Spec => []CursorCovers
<1>1. SyncInd => CursorCovers
  BY DEF SyncInd, Hook, Followed, Sound, CursorCovers, CopySound
<1> QED BY <1>1, SyncFollows, PTL

(* The hook's refs keep their shape, the batches of a synchronisation stay *)
(* under their limits, and no row of a view that was left is in the copy   *)
(* or, once the new view is loaded, on the screen.                         *)
THEOREM ViewsAreRespected == Spec => []SyncInv
<1>1. SyncInd => SyncInv
  <2> SUFFICES ASSUME SyncInd PROVE SyncInv
    OBVIOUS
  <2>1. /\ StoreTypeOK /\ Hook(view, mirror, cursor, shown, snapshotRequested, generation)
        /\ usedIds \subseteq Id
    BY DEF SyncInd, StoreInv, StoreTypeOK
  <2>2. /\ ListType(mirror) /\ ListType(shown) /\ cursor \in Nat
        /\ AllMatch(view, mirror)
    BY <2>1 DEF Hook, Followed, IsList, ListType
  <2>3. ViewRespected
    BY <2>1, <2>2 DEF ViewRespected, AllMatch, Hook
  <2>4. sync = Idle \/ /\ sync.mode \in {"search", "snapshot", "delta"}
                       /\ sync.gen <= generation
                       /\ sync.mode = "snapshot" => sync.batches < MaxSnapshotBatches
                       /\ sync.mode = "delta" => sync.batches < MaxDeltaBatches
                       /\ ListType(sync.draft)
    BY <2>1 DEF SyncInd, Flight, Followed, IsList, ListType
  <2> QED BY <2>1, <2>2, <2>3, <2>4 DEF SyncInv, TypeOK, SyncInd, Hook, View
<1> QED BY <1>1, SyncFollows, PTL

(* Once a view is loaded, the screen and the copy the next delta is merged *)
(* into are the same list.                                                 *)
THEOREM ScreensAreMirrors == Spec => []ScreenIsMirror
<1>1. SyncInd => ScreenIsMirror
  BY DEF SyncInd, Hook, ScreenIsMirror
<1> QED BY <1>1, SyncFollows, PTL

=================================================================================
