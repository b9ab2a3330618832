---------------------------- MODULE EventLogProofs ----------------------------
(***************************************************************************)
(* Proofs about the interceptor event log and its followers, for a buffer  *)
(* of any capacity and any number of events: the totals are those of the   *)
(* events held, the ring buffer implements the window of newest events,    *)
(* and whoever follows it sees them in order and without gaps.             *)
(***************************************************************************)
EXTENDS EventFollower, FiniteSetTheorems, FunctionTheorems, SequenceTheorems, TLAPS

Events == [seq : Nat, level : Level]

(* Going around the ring once. *)
LEMMA Wraps ==
    ASSUME NEW c \in Nat \ {0}, NEW x \in 0 .. 2 * c - 1
    PROVE  x % c = IF x < c THEN x ELSE x - c
<1>1. CASE x < c
  BY <1>1, SMT
<1>2. CASE x >= c
  BY <1>2, SMT
<1> QED BY <1>1, <1>2

(* The slot of the n-th event held. *)
At(n) ==
    IF size < Capacity THEN n - 1
    ELSE IF writeIndex + n - 1 < Capacity THEN writeIndex + n - 1
    ELSE writeIndex + n - 1 - Capacity

(* The events are read from their slots. *)
LEMMA ContentsAt ==
    LogTypeOK => /\ Contents = [n \in 1 .. size |-> buffer[At(n)]]
                 /\ \A n \in 1 .. size : At(n) \in 0 .. size - 1
<1> SUFFICES ASSUME LogTypeOK
             PROVE  /\ Contents = [n \in 1 .. size |-> buffer[At(n)]]
                    /\ \A n \in 1 .. size : At(n) \in 0 .. size - 1
  OBVIOUS
<1> USE LogAssumption DEF LogTypeOK, Slot
<1>1. ASSUME NEW n \in 1 .. size
      PROVE  /\ At(n) \in 0 .. size - 1
             /\ ((IF size < Capacity THEN 0 ELSE writeIndex) + n - 1) % Capacity = At(n)
  <2>1. CASE size < Capacity
    <3>1. n - 1 \in 0 .. 2 * Capacity - 1 /\ n - 1 < Capacity
      BY <2>1
    <3>2. (n - 1) % Capacity = n - 1
      BY <3>1, Wraps
    <3> QED BY <2>1, <3>2 DEF At
  <2>2. CASE size = Capacity
    <3>1. writeIndex + n - 1 \in 0 .. 2 * Capacity - 1
      BY <2>2
    <3> DEFINE x == writeIndex + n - 1
    <3>2. (IF x < Capacity THEN x ELSE x - Capacity) = At(n) /\ At(n) \in 0 .. size - 1
      BY <2>2 DEF At
    <3>3. Capacity \in Nat \ {0} /\ x \in 0 .. 2 * Capacity - 1
      BY <3>1
    <3>4. x % Capacity = IF x < Capacity THEN x ELSE x - Capacity
      <4> HIDE DEF x, LogTypeOK, Slot
      <4> QED BY <3>3, Wraps, Zenon
    <3> QED BY <2>2, <3>2, <3>4
  <2> QED BY <2>1, <2>2
<1> QED BY <1>1 DEF Contents

(* No slot holds two events, and every slot in use holds one. *)
LEMMA SlotsAreReadOnce ==
    ASSUME LogTypeOK
    PROVE  /\ \A m, n \in 1 .. size : At(m) = At(n) => m = n
           /\ \A i \in 0 .. size - 1 : \E n \in 1 .. size : At(n) = i
<1> USE LogAssumption DEF LogTypeOK, Slot
<1>1. \A m, n \in 1 .. size : At(m) = At(n) => m = n
  BY DEF At
<1>2. ASSUME NEW i \in 0 .. size - 1 PROVE \E n \in 1 .. size : At(n) = i
  <2>1. CASE size < Capacity
    <3>1. i + 1 \in 1 .. size /\ At(i + 1) = i
      BY <2>1 DEF At
    <3> QED BY <3>1
  <2>2. CASE size = Capacity /\ i >= writeIndex
    <3>1. i - writeIndex + 1 \in 1 .. size /\ At(i - writeIndex + 1) = i
      BY <2>2 DEF At
    <3> QED BY <3>1
  <2>3. CASE size = Capacity /\ i < writeIndex
    <3>1. i - writeIndex + 1 + Capacity \in 1 .. size /\ At(i - writeIndex + 1 + Capacity) = i
      BY <2>3 DEF At
    <3> QED BY <3>1
  <2> QED BY <2>1, <2>2, <2>3
<1> QED BY <1>1, <1>2

(* What the log holds is a sequence of events. *)
LEMMA HeldAreEvents ==
    LogInv => /\ Contents \in Seq(Events) /\ Len(Contents) = size
              /\ \A i \in 0 .. size - 1 : buffer[i] \in Events
<1> SUFFICES ASSUME LogInv
             PROVE  /\ Contents \in Seq(Events) /\ Len(Contents) = size
                    /\ \A i \in 0 .. size - 1 : buffer[i] \in Events
  OBVIOUS
<1>1. \A i \in 0 .. size - 1 : buffer[i] \in Events
  BY LogAssumption DEF LogInv, LogTypeOK, Slot, Events
<1>2. \A n \in 1 .. size : buffer[At(n)] \in Events
  BY <1>1, ContentsAt DEF LogInv
<1>3. size \in Nat
  BY LogAssumption DEF LogInv, LogTypeOK
<1>4. Contents = [n \in 1 .. size |-> buffer[At(n)]]
  BY ContentsAt DEF LogInv
<1> QED BY <1>1, <1>2, <1>3, <1>4

(* The totals count what the log holds: positions and slots correspond. *)
LEMMA TotalsCountContents ==
    ASSUME LogInv
    PROVE  CountsMatch
<1> SUFFICES ASSUME NEW l \in Level
             PROVE  counts[l] = Cardinality({n \in 1 .. size : Contents[n].level = l})
  BY DEF CountsMatch
<1> DEFINE P == {n \in 1 .. size : Contents[n].level = l}
           f == [n \in P |-> At(n)]
<1>1. size \in Nat /\ IsFiniteSet(1 .. size)
  BY LogAssumption, FS_Interval DEF LogInv, LogTypeOK
<1>2. IsFiniteSet(P)
  BY <1>1, FS_Subset
<1>3. \A n \in 1 .. size : Contents[n] = buffer[At(n)] /\ At(n) \in 0 .. size - 1
  BY ContentsAt DEF LogInv
<1>4. f \in [P -> Slots(l)]
  BY <1>3 DEF Slots
<1>5. \A m, n \in P : f[m] = f[n] => m = n
  BY SlotsAreReadOnce DEF LogInv
<1>6. \A i \in Slots(l) : \E n \in P : f[n] = i
  <2> TAKE i \in Slots(l)
  <2>1. i \in 0 .. size - 1 /\ buffer[i].level = l
    BY DEF Slots
  <2>2. PICK n \in 1 .. size : At(n) = i
    BY <2>1, SlotsAreReadOnce DEF LogInv
  <2>3. n \in P
    BY <1>3, <2>1, <2>2
  <2> QED BY <2>2, <2>3
<1> HIDE DEF P, f
<1>7. f \in Bijection(P, Slots(l))
  BY <1>4, <1>5, <1>6, Fun_IsBij
<1>8. ExistsBijection(P, Slots(l))
  BY <1>7 DEF ExistsBijection
<1>9. Cardinality(Slots(l)) = Cardinality(P)
  BY <1>2, <1>8, FS_Bijection
<1> QED BY <1>9 DEF LogInv, P

-----------------------------------------------------------------------------
(* The event that AppendEvent writes. *)
New(level) == [seq |-> nextSeq, level |-> level]

(* What AppendEvent does to the slots. *)
LEMMA AppendWrites ==
    ASSUME LogInv, NEW level \in Level, AppendEvent(level)
    PROVE  /\ writeIndex \in Slot /\ buffer'[writeIndex] = New(level)
           /\ \A i \in Slot \ {writeIndex} : buffer'[i] = buffer[i]
           /\ writeIndex' = IF writeIndex + 1 < Capacity THEN writeIndex + 1 ELSE 0
           /\ buffer' \in [Slot -> Events \cup {Empty}]
<1>1. writeIndex + 1 \in 0 .. 2 * Capacity - 1 /\ Capacity \in Nat \ {0}
  BY LogAssumption DEF LogInv, LogTypeOK, Slot
<1>2. writeIndex' = IF writeIndex + 1 < Capacity THEN writeIndex + 1 ELSE 0
  <2>1. writeIndex' = (writeIndex + 1) % Capacity /\ writeIndex + 1 <= Capacity
    BY LogAssumption DEF AppendEvent, LogInv, LogTypeOK, Slot
  <2>2. CASE writeIndex + 1 < Capacity
    <3>1. (writeIndex + 1) % Capacity = writeIndex + 1
      BY <1>1, <2>2, Wraps
    <3> QED BY <2>1, <2>2, <3>1
  <2>3. CASE writeIndex + 1 = Capacity
    <3>1. Capacity % Capacity = 0
      BY <1>1
    <3> QED BY <1>1, <2>1, <2>3, <3>1
  <2> QED BY <1>1, <2>1, <2>2, <2>3
<1>4. New(level) \in Events
  BY DEF New, Events, LogInv, LogTypeOK
<1> QED BY <1>2, <1>4 DEF AppendEvent, New, LogInv, LogTypeOK, Events

(* The totals follow: one is added for the event written, and one is taken *)
(* off for the event it overwrites.                                        *)
LEMMA AppendCounts ==
    ASSUME LogInv, NEW level \in Level, AppendEvent(level), NEW l \in Level
    PROVE  counts'[l] = Cardinality(Slots(l)')
<1> DEFINE w == writeIndex
<1>1. w \in Slot /\ size \in 0 .. Capacity /\ Capacity \in Nat \ {0} /\ counts \in [Level -> Int]
      /\ (size < Capacity => w = size)
  BY LogAssumption DEF LogInv, LogTypeOK
<1>2. IsFiniteSet(Slots(l)) /\ Cardinality(Slots(l)) \in Nat /\ counts[l] = Cardinality(Slots(l))
  <2>1. IsFiniteSet(0 .. size - 1)
    BY <1>1, FS_Interval
  <2>2. Slots(l) \subseteq 0 .. size - 1
    BY DEF Slots
  <2> QED BY <2>1, <2>2, FS_Subset, FS_CardinalityType DEF LogInv
<1>3. buffer'[w] = New(level) /\ New(level).level = level
      /\ \A i \in Slot \ {w} : buffer'[i] = buffer[i]
  BY AppendWrites DEF New
<1>4. CASE size < Capacity
  <2>1. w \notin Slots(l) /\ size' = size + 1
    BY <1>1, <1>4 DEF Slots, AppendEvent
  <2>2. Slots(l)' = IF l = level THEN Slots(l) \cup {w} ELSE Slots(l)
    BY <1>1, <1>3, <1>4, <2>1 DEF Slots, Slot
  <2>3. counts'[l] = IF l = level THEN counts[l] + 1 ELSE counts[l]
    BY <1>1, <1>4 DEF AppendEvent
  <2>4. Cardinality(Slots(l) \cup {w}) = Cardinality(Slots(l)) + 1
    BY <1>2, <2>1, FS_AddElement
  <2> HIDE DEF w
  <2> QED BY <1>2, <2>2, <2>3, <2>4
<1>5. CASE size = Capacity
  <2> DEFINE old == buffer[w].level
             rest == Slots(l) \ {w}
  <2>1. size' = size /\ (w \in Slots(l) <=> old = l) /\ old \in Level
    BY <1>1, <1>5, HeldAreEvents DEF Slots, Slot, AppendEvent, Events
  <2>2. Slots(l)' = IF l = level THEN rest \cup {w} ELSE rest
    BY <1>1, <1>3, <1>5, <2>1 DEF Slots, Slot
  <2>3. counts'[l] = counts[l] - (IF old = l THEN 1 ELSE 0) + (IF l = level THEN 1 ELSE 0)
    BY <1>1, <1>5, <2>1 DEF AppendEvent
  <2>4. IsFiniteSet(rest) /\ w \notin rest
        /\ Cardinality(rest) = Cardinality(Slots(l)) - (IF old = l THEN 1 ELSE 0)
    BY <1>2, <2>1, FS_RemoveElement
  <2>5. Cardinality(rest \cup {w}) = Cardinality(rest) + 1 /\ Cardinality(rest) \in Nat
    BY <2>4, FS_AddElement, FS_CardinalityType
  <2> HIDE DEF old, rest
  <2> QED BY <1>2, <2>2, <2>3, <2>4, <2>5
<1> QED BY <1>1, <1>4, <1>5

(* The invariant of the log is inductive. *)
LEMMA LogKeepsInv ==
    ASSUME LogInv, [LogNext]_logVars
    PROVE  LogInv'
<1>1. ASSUME NEW level \in Level, AppendEvent(level) PROVE LogInv'
  <2>1. LogTypeOK'
    <3>1. counts' \in [Level -> Int]
      BY <1>1 DEF AppendEvent, LogInv, LogTypeOK
    <3>2. buffer' \in [Slot -> Events \cup {Empty}] /\ writeIndex' \in Slot
      BY <1>1, AppendWrites, LogAssumption DEF LogInv, LogTypeOK, Slot
    <3>3. nextSeq' \in Nat \ {0} /\ size' \in 0 .. Capacity
      BY <1>1, LogAssumption DEF AppendEvent, LogInv, LogTypeOK
    <3> QED BY <3>1, <3>2, <3>3 DEF LogTypeOK, Events
  <2>2. size' < Capacity => writeIndex' = size'
    BY <1>1, AppendWrites, LogAssumption DEF AppendEvent, LogInv, LogTypeOK
  <2>3. \A i \in 0 .. size' - 1 : buffer'[i] # Empty
    <3> TAKE i \in 0 .. size' - 1
    <3>1. CASE i = writeIndex
      <4>1. New(level) # Empty
        BY DEF New, Empty, LogInv, LogTypeOK
      <4> QED BY <1>1, <3>1, <4>1, AppendWrites
    <3>2. CASE i # writeIndex
      <4>1. i \in 0 .. size - 1 /\ i \in Slot
        BY <1>1, <3>2, LogAssumption DEF AppendEvent, LogInv, LogTypeOK, Slot
      <4> QED BY <1>1, <3>2, <4>1, AppendWrites DEF LogInv
    <3> QED BY <3>1, <3>2
  <2> QED BY <1>1, <2>1, <2>2, <2>3, AppendCounts DEF LogInv
<1>2. CASE ClearEvents \/ LogInit'
  <2>1. \A l \in Level : Slots(l)' = {}
    BY <1>2 DEF ClearEvents, LogInit, Slots
  <2>2. \A l \in Level : counts'[l] = Cardinality(Slots(l)')
    BY <1>2, <2>1, FS_EmptySet DEF ClearEvents, LogInit, NoCounts
  <2> QED BY <1>2, <2>2, LogAssumption
      DEF ClearEvents, LogInit, LogInv, LogTypeOK, Slot, NoCounts
<1>3. CASE UNCHANGED logVars
  BY <1>3 DEF logVars, LogInv, LogTypeOK, Slots
<1> QED BY <1>1, <1>2, <1>3 DEF LogNext

(* An empty log satisfies it. *)
LEMMA InitHasLogInv == LogInit => LogInv
<1> SUFFICES ASSUME LogInit PROVE LogInv
  OBVIOUS
<1>1. \A l \in Level : Slots(l) = {}
  BY DEF LogInit, Slots
<1>2. \A l \in Level : counts[l] = Cardinality(Slots(l))
  BY <1>1, FS_EmptySet DEF LogInit, NoCounts
<1> QED BY <1>2, LogAssumption DEF LogInit, LogInv, LogTypeOK, Slot, NoCounts

(* However often the ring is overwritten and cleared, its slots are used in *)
(* order and its running totals count what they hold.                       *)
THEOREM LogInvariant == LogSpec => []LogInv
<1>1. LogInit => LogInv
  BY InitHasLogInv
<1>2. LogInv /\ [LogNext]_logVars => LogInv'
  BY LogKeepsInv
<1> QED BY <1>1, <1>2, PTL DEF LogSpec

(* The totals the status line shows are those of the events held. *)
THEOREM TotalsAreRight == LogSpec => []CountsMatch
<1>1. LogInv => CountsMatch
  BY TotalsCountContents
<1> QED BY <1>1, LogInvariant, PTL

-----------------------------------------------------------------------------
(* An event is added behind those held; of a full ring the oldest goes.    *)
LEMMA AppendMovesOn ==
    ASSUME LogInv, NEW level \in Level, AppendEvent(level), NEW n \in 1 .. size'
    PROVE  buffer'[At(n)'] = IF n = size' THEN New(level)
                             ELSE IF size < Capacity THEN buffer[At(n)] ELSE buffer[At(n + 1)]
<1>1. /\ writeIndex \in 0 .. Capacity - 1 /\ size \in 0 .. Capacity /\ Capacity \in Nat \ {0}
      /\ size < Capacity => writeIndex = size
      /\ size' = IF size < Capacity THEN size + 1 ELSE size
  BY LogAssumption DEF LogInv, LogTypeOK, Slot, AppendEvent
<1>2. /\ writeIndex' = IF writeIndex + 1 < Capacity THEN writeIndex + 1 ELSE 0
      /\ buffer'[writeIndex] = New(level)
      /\ \A i \in 0 .. Capacity - 1 : i # writeIndex => buffer'[i] = buffer[i]
  BY AppendWrites DEF Slot
<1>3. CASE n = size'
  <2>1. At(n)' = writeIndex
    BY <1>1, <1>2, <1>3 DEF At
  <2> QED BY <1>2, <1>3, <2>1
<1>4. CASE n # size' /\ size < Capacity
  <2>1. At(n)' = At(n) /\ At(n) \in 0 .. Capacity - 1 /\ At(n) # writeIndex
    BY <1>1, <1>2, <1>4 DEF At
  <2> QED BY <1>2, <1>4, <2>1
<1>5. CASE n # size' /\ size = Capacity
  <2>1. At(n)' = At(n + 1) /\ At(n + 1) \in 0 .. Capacity - 1 /\ At(n + 1) # writeIndex
    BY <1>1, <1>2, <1>5 DEF At
  <2> QED BY <1>1, <1>2, <1>5, <2>1
<1> QED BY <1>1, <1>3, <1>4, <1>5

(* AppendEvent is a step of the window. *)
LEMMA AppendIsAppend1 ==
    ASSUME LogInv, NEW level \in Level, AppendEvent(level)
    PROVE  Window!Append1(level)
<1> DEFINE longer == Append(Contents, New(level))
<1>1. LogInv'
  BY LogKeepsInv DEF LogNext
<1>2. /\ Contents \in Seq(Events) /\ Len(Contents) = size
      /\ Contents' \in Seq(Events) /\ Len(Contents') = size'
      /\ New(level) \in Events /\ size \in 0 .. Capacity /\ Capacity \in Nat \ {0}
      /\ size' = IF size < Capacity THEN size + 1 ELSE size
  <2>1. LogInv' => (Contents \in Seq(Events) /\ Len(Contents) = size)'
    BY HeldAreEvents, PTL
  <2> QED BY <1>1, <2>1, HeldAreEvents, LogAssumption
    DEF LogInv, LogTypeOK, New, Events, AppendEvent
<1>3. /\ longer \in Seq(Events) /\ longer # <<>> /\ Len(longer) = size + 1
      /\ \A n \in 1 .. size : longer[n] = Contents[n]
      /\ longer[size + 1] = New(level)
  BY <1>2, AppendProperties
<1>4. \A n \in 1 .. size : Contents[n] = buffer[At(n)]
  BY ContentsAt DEF LogInv
<1>5. \A n \in 1 .. size' : Contents'[n] = buffer'[At(n)']
  <2>1. LogTypeOK' => (Contents = [n \in 1 .. size |-> buffer[At(n)]])'
    BY ContentsAt, PTL
  <2> QED BY <1>1, <2>1 DEF LogInv
<1>6. CASE size < Capacity
  <2>1. \A n \in 1 .. size' : Contents'[n] = longer[n]
    BY <1>2, <1>3, <1>4, <1>5, <1>6, AppendMovesOn
  <2>2. Contents' = longer
    BY <1>2, <1>3, <1>6, <2>1, SeqEqual
  <2> QED BY <1>2, <1>6, <2>2 DEF Window!Append1, Window!Event, New, AppendEvent
<1>7. CASE size = Capacity
  <2>1. /\ Tail(longer) \in Seq(Events) /\ Len(Tail(longer)) = size
        /\ \A n \in 1 .. size : Tail(longer)[n] = longer[n + 1]
    BY <1>2, <1>3, HeadTailProperties
  <2>2. \A n \in 1 .. size : Contents'[n] = Tail(longer)[n]
    BY <1>2, <1>3, <1>4, <1>5, <1>7, <2>1, AppendMovesOn
  <2>3. Contents' = Tail(longer)
    BY <1>2, <1>7, <2>1, <2>2, SeqEqual
  <2> QED BY <1>2, <1>7, <2>3 DEF Window!Append1, Window!Event, New, AppendEvent
<1> QED BY <1>2, <1>6, <1>7

(* An empty log holds nothing. *)
LEMMA EmptyHoldsNothing == size = 0 => Contents = <<>>
BY DEF Contents

(* The ring buffer implements the window of newest events. *)
THEOREM LogImplementsWindow == LogSpec => ImplementsWindow
<1>1. LogInit => Window!Init
  BY EmptyHoldsNothing DEF LogInit, Window!Init
<1>2. ASSUME LogInv, [LogNext]_logVars
      PROVE  [Window!Next]_<<Contents, nextSeq>>
  <2>1. CASE \E level \in Level : AppendEvent(level)
    BY <1>2, <2>1, AppendIsAppend1 DEF Window!Next
  <2>2. CASE ClearEvents
    <3>1. size' = 0 /\ nextSeq' = 1
      BY <2>2 DEF ClearEvents
    <3>2. (size = 0)' => (Contents = <<>>)'
      BY EmptyHoldsNothing, PTL
    <3> QED BY <3>1, <3>2 DEF Window!Next, Window!Clear
  <2>3. CASE UNCHANGED logVars
    BY <2>3 DEF logVars, Contents
  <2> QED BY <1>2, <2>1, <2>2, <2>3 DEF LogNext
<1> QED BY <1>1, <1>2, LogInvariant, PTL DEF LogSpec, ImplementsWindow, Window!Spec

-----------------------------------------------------------------------------
(* Ranks number the positions of a finite set from 1 on, in order.         *)
LEMMA RanksAreInOrder ==
    ASSUME NEW P \in SUBSET Nat, IsFiniteSet(P)
    PROVE  /\ Cardinality(P) \in Nat
           /\ \A i \in P : Rank(P, i) \in 1 .. Cardinality(P)
           /\ \A i, j \in P : i < j <=> Rank(P, i) < Rank(P, j)
<1> DEFINE Upto(i) == {j \in P : j <= i}
<1>1. \A i \in P : IsFiniteSet(Upto(i)) /\ Cardinality(Upto(i)) \in Nat
                   /\ Cardinality(Upto(i)) <= Cardinality(P)
  BY FS_Subset, FS_CardinalityType
<1>2. Cardinality(P) \in Nat
  BY FS_CardinalityType
<1>3. \A i \in P : Cardinality(Upto(i)) >= 1
  <2> TAKE i \in P
  <2>1. i \in Upto(i)
    OBVIOUS
  <2>2. Cardinality(Upto(i)) # 0
    BY <1>1, <2>1, FS_EmptySet
  <2> QED BY <1>1, <2>2
<1>4. ASSUME NEW i \in P, NEW j \in P, i < j
      PROVE  Cardinality(Upto(i)) < Cardinality(Upto(j))
  <2>0. i \in Nat /\ j \in Nat /\ \A q \in P : q \in Nat
    OBVIOUS
  <2>1. Upto(i) \in SUBSET Upto(j) /\ j \in Upto(j) /\ j \notin Upto(i)
    <3>1. \A q \in P : q <= i => q <= j
      BY <1>4, <2>0
    <3>2. j <= j /\ ~ (j <= i)
      BY <1>4, <2>0
    <3> QED BY <3>1, <3>2
  <2>2. Cardinality(Upto(i)) <= Cardinality(Upto(j)) /\ Cardinality(Upto(i)) # Cardinality(Upto(j))
    BY <1>1, <2>1, FS_Subset
  <2> HIDE DEF Upto
  <2> QED BY <1>1, <2>2
<1>5. \A i \in P : Rank(P, i) = Cardinality(Upto(i))
  BY DEF Rank
<1> HIDE DEF Upto
<1> QED BY <1>1, <1>2, <1>3, <1>4, <1>5

(* Every number up to how many there are is the rank of one of them.       *)
LEMMA NthHasItsRank ==
    ASSUME NEW P \in SUBSET Nat, IsFiniteSet(P), NEW k \in 1 .. Cardinality(P)
    PROVE  Nth(P, k) \in P /\ Rank(P, Nth(P, k)) = k
<1> DEFINE f == [i \in P |-> Rank(P, i)]
           K == 1 .. Cardinality(P)
<1>1. Cardinality(P) \in Nat /\ IsFiniteSet(K) /\ Cardinality(K) = Cardinality(P)
  BY RanksAreInOrder, FS_Interval
<1>2. f \in [P -> K] /\ \A i, j \in P : f[i] = f[j] => i = j
  BY RanksAreInOrder
<1>3. f \in Injection(P, K)
  <2> HIDE DEF f, K
  <2> QED BY <1>2, Fun_IsInj
<1>4. f \in Surjection(P, K)
  <2> HIDE DEF f, K
  <2> QED BY <1>1, <1>3, FS_Injection
<1>5. \E i \in P : f[i] = k
  BY <1>4 DEF Surjection
<1> QED BY <1>5 DEF Nth

(* What is picked stands at the positions, in their order, and nothing     *)
(* else does.                                                              *)
LEMMA PickedInOrder ==
    ASSUME NEW E, NEW s \in Seq(E), NEW P \in SUBSET (1 .. Len(s))
    PROVE  /\ Picked(s, P) \in Seq(E)
           /\ Len(Picked(s, P)) = Cardinality(P)
           /\ \A k \in 1 .. Len(Picked(s, P)) : Nth(P, k) \in P /\ Picked(s, P)[k] = s[Nth(P, k)]
           /\ \A k, l \in 1 .. Len(Picked(s, P)) : k < l => Nth(P, k) < Nth(P, l)
           /\ \A i \in P : \E k \in 1 .. Len(Picked(s, P)) : Nth(P, k) = i
<1>1. P \in SUBSET Nat /\ IsFiniteSet(P) /\ Len(s) \in Nat
  <2>1. Len(s) \in Nat /\ IsFiniteSet(1 .. Len(s))
    BY FS_Interval
  <2>2. IsFiniteSet(P)
    BY <2>1, FS_Subset
  <2> QED BY <2>1, <2>2
<1>2. Cardinality(P) \in Nat
  BY <1>1, FS_CardinalityType
<1>3. \A k \in 1 .. Cardinality(P) : Nth(P, k) \in P /\ Rank(P, Nth(P, k)) = k
  BY <1>1, NthHasItsRank
<1>4. \A k \in 1 .. Cardinality(P) : s[Nth(P, k)] \in E
  <2>1. \A i \in 1 .. Len(s) : s[i] \in E
    OBVIOUS
  <2> QED BY <1>3, <2>1
<1>5. Picked(s, P) \in Seq(E) /\ Len(Picked(s, P)) = Cardinality(P)
      /\ \A k \in 1 .. Cardinality(P) : Picked(s, P)[k] = s[Nth(P, k)]
  BY <1>2, <1>4 DEF Picked
<1>6. \A k, l \in 1 .. Cardinality(P) : k < l => Nth(P, k) < Nth(P, l)
  <2> TAKE k, l \in 1 .. Cardinality(P)
  <2>1. k < l => Rank(P, Nth(P, k)) < Rank(P, Nth(P, l))
    BY <1>3
  <2>2. \A i, j \in P : i < j <=> Rank(P, i) < Rank(P, j)
    BY <1>1, RanksAreInOrder
  <2> QED BY <1>3, <2>1, <2>2
<1>7. \A i \in P : \E k \in 1 .. Cardinality(P) : Nth(P, k) = i
  <2> TAKE i \in P
  <2>1. Rank(P, i) \in 1 .. Cardinality(P)
    BY <1>1, RanksAreInOrder
  <2>2. Nth(P, Rank(P, i)) \in P /\ Rank(P, Nth(P, Rank(P, i))) = Rank(P, i)
    BY <1>3, <2>1
  <2>3. \A j \in P : Rank(P, j) = Rank(P, i) => i = j
    BY <1>1, <1>2, RanksAreInOrder
  <2> QED BY <2>1, <2>2, <2>3
<1> QED BY <1>3, <1>5, <1>6, <1>7

-----------------------------------------------------------------------------
(* The events held are numbered without gaps up to the newest.             *)
Numbered ==
    /\ size < nextSeq
    /\ \A n \in 1 .. size : Contents[n].seq = nextSeq - 1 - size + n

(* What AppendEvent does to what is held.                                  *)
LEMMA AppendHolds ==
    ASSUME LogInv, NEW level \in Level, AppendEvent(level)
    PROVE  /\ size' = IF size < Capacity THEN size + 1 ELSE size
           /\ \A n \in 1 .. size' :
                 Contents'[n] = IF n = size' THEN New(level)
                                ELSE IF size < Capacity THEN Contents[n] ELSE Contents[n + 1]
<1>1. LogTypeOK'
  BY LogKeepsInv DEF LogNext, LogInv
<1>2. \A n \in 1 .. size' : Contents'[n] = buffer'[At(n)']
  <2>1. LogTypeOK' => (Contents = [n \in 1 .. size |-> buffer[At(n)]])'
    BY ContentsAt, PTL
  <2> QED BY <1>1, <2>1
<1>3. \A n \in 1 .. size : Contents[n] = buffer[At(n)]
  BY ContentsAt DEF LogInv
<1>4. /\ size \in 0 .. Capacity /\ Capacity \in Nat \ {0}
      /\ size' = IF size < Capacity THEN size + 1 ELSE size
  BY LogAssumption DEF LogInv, LogTypeOK, AppendEvent
<1>5. ASSUME NEW n \in 1 .. size'
      PROVE  Contents'[n] = IF n = size' THEN New(level)
                            ELSE IF size < Capacity THEN Contents[n] ELSE Contents[n + 1]
  <2>1. n # size' => n \in 1 .. size /\ (size < Capacity \/ n + 1 \in 1 .. size)
    BY <1>4
  <2> QED BY <1>2, <1>3, <2>1, AppendMovesOn
<1> QED BY <1>4, <1>5

(* Numbers go on without gaps, and only the new event is new.              *)
LEMMA AppendNumbers ==
    ASSUME LogInv, Numbered, NEW level \in Level, AppendEvent(level)
    PROVE  /\ Numbered'
           /\ nextSeq' = nextSeq + 1
           /\ \A n \in 1 .. size' : \/ Contents'[n] = New(level)
                                    \/ \E m \in 1 .. size : Contents'[n] = Contents[m]
<1>1. /\ size \in 0 .. Capacity /\ Capacity \in Nat \ {0} /\ nextSeq \in Nat \ {0}
      /\ nextSeq' = nextSeq + 1
  BY LogAssumption DEF LogInv, LogTypeOK, AppendEvent
<1>2. size' = IF size < Capacity THEN size + 1 ELSE size
  BY AppendHolds
<1>3. ASSUME NEW n \in 1 .. size'
      PROVE  /\ Contents'[n].seq = nextSeq' - 1 - size' + n
             /\ \/ Contents'[n] = New(level)
                \/ \E m \in 1 .. size : Contents'[n] = Contents[m]
  <2>1. CASE n = size'
    <3>1. Contents'[n] = New(level) /\ New(level).seq = nextSeq
      BY <2>1, AppendHolds DEF New
    <3> QED BY <1>1, <1>2, <2>1, <3>1
  <2>2. CASE n # size' /\ size < Capacity
    <3>1. n \in 1 .. size /\ Contents'[n] = Contents[n]
      BY <1>1, <1>2, <2>2, AppendHolds
    <3> QED BY <1>1, <1>2, <2>2, <3>1 DEF Numbered
  <2>3. CASE n # size' /\ size = Capacity
    <3>1. n + 1 \in 1 .. size /\ Contents'[n] = Contents[n + 1]
      BY <1>1, <1>2, <2>3, AppendHolds
    <3> QED BY <1>1, <1>2, <2>3, <3>1 DEF Numbered
  <2> QED BY <1>1, <2>1, <2>2, <2>3
<1>4. size' < nextSeq'
  BY <1>1, <1>2 DEF Numbered
<1> QED BY <1>1, <1>3, <1>4 DEF Numbered

(* A clear leaves nothing to be numbered.                                  *)
LEMMA ClearNumbers == ClearEvents \/ LogInit' => Numbered'
<1> SUFFICES ASSUME ClearEvents \/ LogInit' PROVE Numbered'
  OBVIOUS
<1> QED BY DEF Numbered, ClearEvents, LogInit

-----------------------------------------------------------------------------
(* The end of what is held, from some position on.                         *)
Cut(C) == C \in SUBSET (1 .. size) /\ \A n \in C, m \in 1 .. size : n < m => m \in C

(* The events of a level in it, in order.                                  *)
Answers(ev, C) ==
    \E g \in [1 .. Len(ev) -> C] :
        /\ \A k \in 1 .. Len(ev) : ev[k] = Contents[g[k]] /\ Wanted(Contents[g[k]])
        /\ \A k, l \in 1 .. Len(ev) : k < l => g[k] < g[l]
        /\ \A n \in C : Wanted(Contents[n]) => \E k \in 1 .. Len(ev) : g[k] = n

(* Where the answer to a question begins.                                  *)
CutOf(after, limit) ==
    IF after > 0 THEN {n \in 1 .. size : Contents[n].seq > after}
    ELSE {n \in 1 .. size : limit = 0 \/ n > size - limit}

(* They are upward closed, for the events held are numbered in order.     *)
LEMMA CutsAreCuts ==
    ASSUME LogInv, Numbered, NEW after \in Nat, NEW limit \in Nat
    PROVE  Cut(CutOf(after, limit))
<1>1. size \in Nat /\ nextSeq \in Nat
  BY LogAssumption DEF LogInv, LogTypeOK
<1>2. CASE after > 0
  BY <1>1, <1>2 DEF Cut, CutOf, Numbered
<1>3. CASE ~ (after > 0)
  BY <1>1, <1>3 DEF Cut, CutOf
<1> QED BY <1>2, <1>3

(* getInterceptorEvents answers with the events of the cut.                *)
LEMMA QueriesAnswer ==
    ASSUME LogInv, NEW after \in Nat, NEW limit \in Nat
    PROVE  /\ GetInterceptorEvents(after, limit, wanted) \in Seq(Events)
           /\ Answers(GetInterceptorEvents(after, limit, wanted), CutOf(after, limit))
<1>1. /\ Contents \in Seq(Events) /\ Len(Contents) = size /\ size \in Nat
      /\ DOMAIN Contents = 1 .. size
  BY HeldAreEvents, LogAssumption DEF LogInv, LogTypeOK
<1> DEFINE ev == GetInterceptorEvents(after, limit, wanted)
           C == CutOf(after, limit)
<1>2. CASE after > 0
  <2> DEFINE P == {n \in 1 .. size : Contents[n].seq > after /\ MatchesFilter(Contents[n], wanted)}
             g == [k \in 1 .. Len(ev) |-> Nth(P, k)]
  <2>1. ev = Picked(Contents, P) /\ P \in SUBSET (1 .. Len(Contents))
    BY <1>1, <1>2 DEF GetInterceptorEvents, Since
  <2>2. C = {n \in 1 .. size : Contents[n].seq > after}
    BY <1>2 DEF CutOf
  <2>3. P = {n \in C : Wanted(Contents[n])}
    BY <2>2 DEF Wanted
  <2> HIDE DEF P, C, ev
  <2>4. /\ ev \in Seq(Events)
        /\ \A k \in 1 .. Len(ev) : Nth(P, k) \in P /\ ev[k] = Contents[Nth(P, k)]
        /\ \A k, l \in 1 .. Len(ev) : k < l => Nth(P, k) < Nth(P, l)
        /\ \A i \in P : \E k \in 1 .. Len(ev) : Nth(P, k) = i
    BY <1>1, <2>1, PickedInOrder
  <2>5. g \in [1 .. Len(ev) -> C]
    BY <2>3, <2>4
  <2>6. /\ \A k \in 1 .. Len(ev) : ev[k] = Contents[g[k]] /\ Wanted(Contents[g[k]])
        /\ \A k, l \in 1 .. Len(ev) : k < l => g[k] < g[l]
        /\ \A n \in C : Wanted(Contents[n]) => \E k \in 1 .. Len(ev) : g[k] = n
    BY <2>3, <2>4
  <2>7. Answers(ev, C)
    <3> HIDE DEF g
    <3> QED BY <2>5, <2>6 DEF Answers
  <2> QED BY <2>4, <2>7 DEF ev, C
<1>3. CASE ~ (after > 0)
  <2> DEFINE s == Latest(limit)
             o == IF limit = 0 \/ limit >= size THEN 0 ELSE size - limit
             P == {i \in DOMAIN s : MatchesFilter(s[i], wanted)}
             g == [k \in 1 .. Len(ev) |-> o + Nth(P, k)]
  <2>1. /\ s \in Seq(Events) /\ Len(s) = size - o /\ o \in Nat
        /\ \A i \in 1 .. Len(s) : s[i] = Contents[o + i]
    <3>1. CASE limit = 0 \/ limit >= size
      BY <1>1, <3>1 DEF Latest
    <3>2. CASE ~ (limit = 0 \/ limit >= size)
      <4>1. s = SubSeq(Contents, o + 1, size) /\ o \in 0 .. size
        BY <1>1, <3>2 DEF Latest, Newest
      <4>2. o = size - limit /\ o + 1 \in 1 .. size + 1 /\ size \in o .. size
        BY <1>1, <3>2
      <4> HIDE DEF s, o
      <4>3. /\ SubSeq(Contents, o + 1, size) \in Seq(Events)
            /\ Len(SubSeq(Contents, o + 1, size)) = size - o
            /\ \A i \in 1 .. size - o : SubSeq(Contents, o + 1, size)[i] = Contents[o + i]
        <5>1. /\ SubSeq(Contents, o + 1, size) \in Seq(Events)
              /\ Len(SubSeq(Contents, o + 1, size)) = size - (o + 1) + 1
              /\ \A i \in 1 .. size - (o + 1) + 1 :
                    SubSeq(Contents, o + 1, size)[i] = Contents[(o + 1) + i - 1]
          BY <1>1, <4>1, <4>2, SubSeqProperties
        <5>2. /\ size - (o + 1) + 1 = size - o
              /\ \A i \in 1 .. size - o : (o + 1) + i - 1 = o + i
          BY <1>1, <4>1
        <5> QED BY <5>1, <5>2
      <4> QED BY <4>1, <4>3
    <3> QED BY <3>1, <3>2
  <2>2. ev = Picked(s, P)
    BY <1>3 DEF GetInterceptorEvents, AtLeast
  <2>3. C = {n \in 1 .. size : n > o}
    BY <1>1, <1>3 DEF CutOf
  <2> HIDE DEF s, ev, C, o
  <2>4. P \in SUBSET (1 .. Len(s)) /\ P = {i \in 1 .. Len(s) : Wanted(Contents[o + i])}
    BY <2>1 DEF Wanted
  <2> HIDE DEF P
  <2>5. /\ ev \in Seq(Events)
        /\ \A k \in 1 .. Len(ev) : Nth(P, k) \in P /\ ev[k] = s[Nth(P, k)]
        /\ \A k, l \in 1 .. Len(ev) : k < l => Nth(P, k) < Nth(P, l)
        /\ \A i \in P : \E k \in 1 .. Len(ev) : Nth(P, k) = i
    <3>1. s \in Seq(Events) /\ P \in SUBSET (1 .. Len(s))
      BY <2>1, <2>4
    <3> QED BY <2>2, <3>1, PickedInOrder
  <2>6. g \in [1 .. Len(ev) -> C]
    BY <1>1, <2>1, <2>3, <2>4, <2>5
  <2>7. \A k \in 1 .. Len(ev) : ev[k] = Contents[g[k]] /\ Wanted(Contents[g[k]])
    BY <2>1, <2>4, <2>5
  <2>8. \A k, l \in 1 .. Len(ev) : k < l => g[k] < g[l]
    BY <2>1, <2>4, <2>5
  <2>9. \A n \in C : Wanted(Contents[n]) => \E k \in 1 .. Len(ev) : g[k] = n
    <3> TAKE n \in C
    <3> HAVE Wanted(Contents[n])
    <3>1. n - o \in 1 .. Len(s) /\ o + (n - o) = n
      BY <1>1, <2>1, <2>3
    <3>2. n - o \in P
      BY <2>4, <3>1
    <3>3. PICK k \in 1 .. Len(ev) : Nth(P, k) = n - o
      BY <2>5, <3>2
    <3> QED BY <3>1, <3>3
  <2>10. Answers(ev, C)
    <3> HIDE DEF g
    <3> QED BY <2>6, <2>7, <2>8, <2>9 DEF Answers
  <2> QED BY <2>5, <2>10 DEF ev, C
<1> QED BY <1>2, <1>3

-----------------------------------------------------------------------------
(* The number of the last event of an answer.                              *)
Ends(ev) == ev[Len(ev)].seq

Increasing(ev) == \A k, l \in 1 .. Len(ev) : k < l => ev[k].seq < ev[l].seq

(* A number that was given out, to an event of the level asked for if the  *)
(* event is still held.                                                    *)
Shown(x) ==
    x \in 1 .. nextSeq - 1 /\ \A n \in 1 .. size : Contents[n].seq = x => Wanted(Contents[n])

(* Between its beginning and its end an answer leaves out nothing wanted   *)
(* that is still held.                                                     *)
Complete(after, ev) ==
    \A n \in 1 .. size :
        ( /\ Wanted(Contents[n]) /\ after < Contents[n].seq /\ Contents[n].seq <= Ends(ev)
          /\ after = 0 => ev[1].seq <= Contents[n].seq )
        => \E k \in 1 .. Len(ev) : ev[k].seq = Contents[n].seq

(* The numbers of an answer are numbers.                                   *)
LEMMA AnswerShape ==
    ASSUME NEW ev \in Seq(Events)
    PROVE  /\ Len(ev) \in Nat
           /\ \A k \in 1 .. Len(ev) : ev[k].seq \in Nat
           /\ ev # <<>> => 1 \in 1 .. Len(ev) /\ Len(ev) \in 1 .. Len(ev) /\ Ends(ev) \in Nat
<1>1. Len(ev) \in Nat /\ (ev # <<>> => 1 \in 1 .. Len(ev) /\ Len(ev) \in 1 .. Len(ev))
  OBVIOUS
<1>2. \A k \in 1 .. Len(ev) : ev[k] \in Events
  OBVIOUS
<1>3. \A k \in 1 .. Len(ev) : ev[k].seq \in Nat
  BY <1>2 DEF Events
<1> QED BY <1>1, <1>3 DEF Ends

(* What holds of an answer, from the moment it is given.                   *)
Sound(after, ev) ==
    /\ ev \in Seq(Events)
    /\ \A k \in 1 .. Len(ev) : after < ev[k].seq
    /\ ev # <<>> => Increasing(ev) /\ Shown(Ends(ev)) /\ Complete(after, ev)

(* Answers are sound when they are given, and end with the newest event    *)
(* wanted.                                                                 *)
LEMMA AnswersAreSound ==
    ASSUME LogInv, Numbered, NEW after \in Nat, NEW limit \in Nat,
           NEW ev, ev = GetInterceptorEvents(after, limit, wanted)
    PROVE  /\ Sound(after, ev)
           /\ ev # <<>> => \A n \in 1 .. size : Wanted(Contents[n]) => Contents[n].seq <= Ends(ev)
<1> DEFINE C == CutOf(after, limit)
<1>1. ev \in Seq(Events) /\ Answers(ev, C)
  BY QueriesAnswer
<1>2. PICK g \in [1 .. Len(ev) -> C] :
        /\ \A k \in 1 .. Len(ev) : ev[k] = Contents[g[k]] /\ Wanted(Contents[g[k]])
        /\ \A k, l \in 1 .. Len(ev) : k < l => g[k] < g[l]
        /\ \A n \in C : Wanted(Contents[n]) => \E k \in 1 .. Len(ev) : g[k] = n
  BY <1>1 DEF Answers
<1>3. Cut(C)
  BY CutsAreCuts
<1>4. /\ size \in Nat /\ nextSeq \in Nat /\ size < nextSeq /\ Len(ev) \in Nat
      /\ \A n \in 1 .. size : Contents[n].seq = nextSeq - 1 - size + n
      /\ ev # <<>> => Len(ev) # 0
  BY <1>1, LogAssumption DEF LogInv, LogTypeOK, Numbered
<1>5. /\ \A k \in 1 .. Len(ev) : g[k] \in C /\ g[k] \in 1 .. size
      /\ \A n \in C : n \in 1 .. size
  BY <1>3 DEF Cut
<1>6. after > 0 => \A n \in 1 .. size : n \in C <=> Contents[n].seq > after
  BY DEF CutOf
<1> HIDE DEF C
<1>7. \A k \in 1 .. Len(ev) : ev[k].seq = nextSeq - 1 - size + g[k]
  BY <1>2, <1>4, <1>5
<1>8. \A k \in 1 .. Len(ev) : after < ev[k].seq
  <2> TAKE k \in 1 .. Len(ev)
  <2>1. ev[k] = Contents[g[k]] /\ g[k] \in C /\ g[k] \in 1 .. size
    BY <1>2, <1>5
  <2>2. CASE after > 0
    BY <1>6, <2>1, <2>2
  <2>3. CASE after = 0
    BY <1>4, <1>7, <2>1, <2>3
  <2> QED BY <2>2, <2>3
<1>9. Increasing(ev)
  BY <1>2, <1>4, <1>5, <1>7 DEF Increasing
<1>10. ASSUME ev # <<>>, NEW n \in 1 .. size, Wanted(Contents[n])
       PROVE  Contents[n].seq <= Ends(ev)
  <2>1. Len(ev) \in 1 .. Len(ev) /\ Ends(ev) = nextSeq - 1 - size + g[Len(ev)]
    BY <1>4, <1>7, <1>10 DEF Ends
  <2>0. ASSUME g[Len(ev)] >= n PROVE Contents[n].seq <= Ends(ev)
    <3>1. g[Len(ev)] \in Nat /\ Contents[n].seq = nextSeq - 1 - size + n
      BY <1>4, <1>5, <2>1
    <3> HIDE DEF Ends
    <3> QED BY <1>4, <2>0, <2>1, <3>1
  <2>2. CASE n \in C
    <3>1. PICK k \in 1 .. Len(ev) : g[k] = n
      BY <1>2, <1>10, <2>2
    <3>2. k = Len(ev) \/ g[k] < g[Len(ev)]
      BY <1>2, <1>4, <2>1
    <3> QED BY <1>5, <2>0, <2>1, <3>1, <3>2
  <2>3. CASE n \notin C
    <3>1. ~ (g[Len(ev)] < n)
      BY <1>3, <1>5, <2>1, <2>3 DEF Cut
    <3> QED BY <1>5, <2>0, <2>1, <3>1
  <2> QED BY <2>2, <2>3
<1>11. ASSUME ev # <<>> PROVE Shown(Ends(ev))
  <2>1. /\ Len(ev) \in 1 .. Len(ev) /\ Ends(ev) = nextSeq - 1 - size + g[Len(ev)]
        /\ g[Len(ev)] \in 1 .. size /\ Wanted(Contents[g[Len(ev)]])
    BY <1>2, <1>4, <1>5, <1>7, <1>11 DEF Ends
  <2>2. \A n \in 1 .. size : Contents[n].seq = Ends(ev) => n = g[Len(ev)]
    BY <1>4, <2>1
  <2>3. Ends(ev) \in 1 .. nextSeq - 1
    BY <1>4, <2>1
  <2> QED BY <2>1, <2>2, <2>3 DEF Shown
<1>12. ASSUME ev # <<>> PROVE Complete(after, ev)
  <2> SUFFICES ASSUME NEW n \in 1 .. size, Wanted(Contents[n]), after < Contents[n].seq,
                      after = 0 => ev[1].seq <= Contents[n].seq
               PROVE  \E k \in 1 .. Len(ev) : ev[k].seq = Contents[n].seq
    BY DEF Complete
  <2>1. n \in C
    <3>1. CASE after > 0
      BY <1>6, <3>1
    <3>2. CASE ~ (after > 0)
      <4>1. 1 \in 1 .. Len(ev) /\ after = 0
        BY <1>4, <1>12, <3>2
      <4>2. g[1] <= n
        BY <1>4, <1>5, <1>7, <4>1
      <4> QED BY <1>3, <1>5, <4>1, <4>2 DEF Cut
    <3> QED BY <3>1, <3>2
  <2>2. PICK k \in 1 .. Len(ev) : g[k] = n
    BY <1>2, <2>1
  <2> QED BY <1>2, <2>2
<1> QED BY <1>1, <1>8, <1>9, <1>10, <1>11, <1>12 DEF Sound

(* What was shown stays shown while events are logged.                     *)
LEMMA ShownStays ==
    ASSUME LogInv, Numbered, NEW level \in Level, AppendEvent(level), UNCHANGED wanted,
           NEW x, Shown(x)
    PROVE  Shown(x)'
<1>1. /\ nextSeq' = nextSeq + 1 /\ nextSeq \in Nat
      /\ \A n \in 1 .. size' : \/ Contents'[n] = New(level)
                               \/ \E m \in 1 .. size : Contents'[n] = Contents[m]
  BY AppendNumbers DEF LogInv, LogTypeOK
<1>2. x \in 1 .. nextSeq - 1 /\ \A n \in 1 .. size : Contents[n].seq = x => Wanted(Contents[n])
  BY DEF Shown
<1>3. New(level).seq = nextSeq
  BY DEF New
<1>4. \A n \in 1 .. size' : Contents'[n].seq = x => Wanted(Contents'[n])
  BY <1>1, <1>2, <1>3
<1>5. x \in 1 .. nextSeq' - 1
  BY <1>1, <1>2
<1>6. \A e : Wanted(e)' <=> Wanted(e)
  BY DEF Wanted
<1> QED BY <1>4, <1>5, <1>6 DEF Shown, Wanted

(* An event that is logged comes after the end of every answer.            *)
LEMMA SoundStays ==
    ASSUME LogInv, Numbered, NEW level \in Level, AppendEvent(level), UNCHANGED wanted,
           NEW after, NEW ev, Sound(after, ev)
    PROVE  Sound(after, ev)'
<1>1. /\ nextSeq \in Nat
      /\ \A n \in 1 .. size' : \/ Contents'[n] = New(level)
                               \/ \E m \in 1 .. size : Contents'[n] = Contents[m]
  BY AppendNumbers DEF LogInv, LogTypeOK
<1>2. ASSUME ev # <<>> PROVE Shown(Ends(ev))' /\ Complete(after, ev)'
  <2>1. Shown(Ends(ev)) /\ Complete(after, ev)
    BY <1>2 DEF Sound
  <2>2. Ends(ev) < nextSeq /\ Ends(ev) \in Nat /\ New(level).seq = nextSeq
    BY <1>1, <2>1 DEF Shown, New
  <2>3. Shown(Ends(ev))'
    BY <2>1, ShownStays
  <2>4. Complete(after, ev)'
    BY <1>1, <2>1, <2>2 DEF Complete, Wanted, Ends
  <2> QED BY <2>3, <2>4
<1> QED BY <1>2 DEF Sound, Increasing

-----------------------------------------------------------------------------
(* The shape of a follower.                                                *)
Question == [after : Nat, answered : BOOLEAN, events : Seq(Events)]

FollowTypeOK ==
    /\ wanted \in Level /\ lastSeq \in Nat /\ start \in Nat /\ clears \in Nat
    /\ polls \in Seq(Question)
    /\ printed \in Seq(Nat)

(* The questions that are out: answers are sound, and each reaches at      *)
(* least as far as what is shown and as the answers before it.             *)
PollsAreSound ==
    \A i \in 1 .. Len(polls) :
        /\ polls[i].after <= lastSeq
        /\ Sound(polls[i].after, polls[i].events)
        /\ ~ polls[i].answered => polls[i].events = <<>>
        /\ polls[i].events # <<>> => lastSeq <= Ends(polls[i].events)

PollsInOrder ==
    \A i, j \in 1 .. Len(polls) : i < j =>
        /\ polls[j].answered => polls[i].answered
        /\ polls[i].events # <<>> /\ polls[j].events # <<>>
              => Ends(polls[i].events) <= Ends(polls[j].events)

(* The command has one question out, with the cursor of the moment.        *)
OneByOne ==
    follower = "command" =>
        Len(polls) <= 1 /\ \A i \in 1 .. Len(polls) : polls[i].after = lastSeq

(* What was printed ends at the cursor.                                    *)
CursorIsShown ==
    /\ lastSeq # 0 => Shown(lastSeq)
    /\ printed = <<>> => lastSeq = 0
    /\ \A n \in 1 .. Len(printed) : printed[n] \in 1 .. lastSeq

FollowInd ==
    /\ LogInv /\ Numbered /\ FollowTypeOK
    /\ clears = 0 => /\ PollsAreSound /\ PollsInOrder /\ OneByOne
                     /\ CursorIsShown /\ FollowerInv

(* While the log is as it was, so is what holds of an answer.              *)
LEMMA LogAsItWas ==
    ASSUME UNCHANGED <<logVars, wanted>>
    PROVE  /\ Contents' = Contents /\ size' = size
           /\ LogInv' = LogInv /\ Numbered' = Numbered
           /\ \A e : Wanted(e)' = Wanted(e)
           /\ \A x : Shown(x)' = Shown(x)
           /\ \A a, ev : Sound(a, ev)' = Sound(a, ev)
<1>1. Contents' = Contents /\ (\A l : Slots(l)' = Slots(l)) /\ (\A e : Wanted(e)' = Wanted(e))
  BY DEF logVars, Contents, Slots, Wanted
<1>2. LogInv' = LogInv /\ Numbered' = Numbered /\ size' = size
  BY <1>1 DEF logVars, LogInv, LogTypeOK, Numbered
<1>3. \A x : Shown(x)' = Shown(x)
  BY <1>1 DEF Shown, logVars
<1>4. \A a, ev : Complete(a, ev)' = Complete(a, ev)
  BY <1>1 DEF Complete, logVars, Ends
<1>5. \A a, ev : Sound(a, ev)' = Sound(a, ev)
  BY <1>3, <1>4 DEF Sound, Increasing, Ends
<1> QED BY <1>1, <1>2, <1>3, <1>5

(* Asking adds a question to the ones that are out.                        *)
LEMMA AskedKeeps ==
    ASSUME FollowInd, Asked, follower = "command" => polls = <<>>
    PROVE  FollowInd'
<1> DEFINE q == Unanswered(lastSeq)
<1>1. /\ polls' = Append(polls, q)
      /\ UNCHANGED <<logVars, follower, wanted, lastSeq, following, printed, start, clears, failures>>
  BY DEF Asked
<1>2. polls \in Seq(Question) /\ lastSeq \in Nat
  BY DEF FollowInd, FollowTypeOK
<1>3. q \in Question
  BY <1>2 DEF Unanswered, Question
<1>4. /\ polls' \in Seq(Question) /\ Len(polls') = Len(polls) + 1 /\ Len(polls) \in Nat
      /\ \A i \in 1 .. Len(polls) : polls'[i] = polls[i]
      /\ polls'[Len(polls) + 1] = q
  BY <1>1, <1>2, <1>3, AppendProperties
<1>5. /\ q.after = lastSeq /\ q.answered = FALSE /\ q.events = <<>>
  BY DEF Unanswered
<1> HIDE DEF q
<1>6. /\ LogInv' /\ Numbered' /\ FollowTypeOK' /\ clears' = clears
      /\ FollowerInv' = FollowerInv /\ CursorIsShown' = CursorIsShown
      /\ \A a, ev : Sound(a, ev)' = Sound(a, ev)
  <2>1. FollowTypeOK' /\ clears' = clears
    BY <1>1, <1>4 DEF FollowInd, FollowTypeOK
  <2>2. FollowerInv' = FollowerInv
    BY <1>1, LogAsItWas DEF FollowerInv, PrintedInOrder, FollowedWithoutGaps, Printed
  <2>3. CursorIsShown' = CursorIsShown
    BY <1>1, LogAsItWas DEF CursorIsShown
  <2> QED BY <1>1, <2>1, <2>2, <2>3, LogAsItWas DEF FollowInd
<1>7. ASSUME clears = 0 PROVE PollsAreSound' /\ PollsInOrder' /\ OneByOne'
  <2>1. PollsAreSound /\ PollsInOrder /\ OneByOne
    BY <1>7 DEF FollowInd
  <2>2. \A i \in 1 .. Len(polls') : i \in 1 .. Len(polls) \/ i = Len(polls) + 1
    BY <1>4
  <2>3. Sound(lastSeq, <<>>)
    BY DEF Sound
  <2>4. PollsAreSound'
    BY <1>1, <1>2, <1>4, <1>5, <1>6, <2>1, <2>2, <2>3 DEF PollsAreSound
  <2>5. PollsInOrder'
    BY <1>4, <1>5, <2>1, <2>2 DEF PollsInOrder, Ends
  <2>6. OneByOne'
    BY <1>1, <1>4, <1>5, <2>1, <2>2 DEF OneByOne
  <2> QED BY <2>4, <2>5, <2>6
<1> QED BY <1>6, <1>7 DEF FollowInd

(* The answer to the first question without one is sound, and reaches as   *)
(* far as any other, for the newest event wanted is its last.              *)
LEMMA ServerAnswersKeeps ==
    ASSUME FollowInd, ServerAnswers
    PROVE  FollowInd'
<1>1. /\ UNCHANGED <<logVars, follower, wanted, lastSeq, following, printed, start, clears, failures>>
      /\ polls \in Seq(Question) /\ lastSeq \in Nat /\ Len(polls) \in Nat
  BY DEF ServerAnswers, FollowInd, FollowTypeOK
<1>2. PICK i \in 1 .. Len(polls), limit \in Nat :
        /\ ~ polls[i].answered /\ \A j \in 1 .. i - 1 : polls[j].answered
        /\ polls' = [polls EXCEPT ![i].answered = TRUE,
                                  ![i].events = GetInterceptorEvents(polls[i].after, limit, wanted)]
  <2>1. FirstLimit \in Nat /\ LatestDefault \in Nat
    BY FollowerAssumption, LogAssumption
  <2>2. DOMAIN polls = 1 .. Len(polls)
    BY <1>1
  <2> QED BY <2>1, <2>2 DEF ServerAnswers
<1> DEFINE after == polls[i].after
           ev == GetInterceptorEvents(after, limit, wanted)
<1>3. polls[i] \in Question /\ after \in Nat /\ LogInv /\ Numbered
  <2>1. polls[i] \in Question
    BY <1>1
  <2> QED BY <2>1 DEF FollowInd, Question
<1>4. ev \in Seq(Events)
  BY <1>3, QueriesAnswer
<1>5. /\ Sound(after, ev)
      /\ ev # <<>> => \A n \in 1 .. size : Wanted(Contents[n]) => Contents[n].seq <= Ends(ev)
  BY <1>3, AnswersAreSound
<1> HIDE DEF ev
<1>6. /\ polls' \in Seq(Question) /\ Len(polls') = Len(polls)
      /\ polls'[i] = [polls[i] EXCEPT !.answered = TRUE, !.events = ev]
      /\ \A j \in 1 .. Len(polls) : j # i => polls'[j] = polls[j]
  <2>1. [polls[i] EXCEPT !.answered = TRUE, !.events = ev] \in Question
    BY <1>3, <1>4 DEF Question
  <2>2. polls' = [polls EXCEPT ![i] = [polls[i] EXCEPT !.answered = TRUE, !.events = ev]]
    BY <1>1, <1>2 DEF ev
  <2> HIDE DEF Question
  <2>3. polls' \in Seq(Question) /\ Len(polls') = Len(polls)
    BY <1>1, <2>1, <2>2, ExceptSeq
  <2>4. DOMAIN polls = 1 .. Len(polls)
    BY <1>1
  <2> QED BY <2>2, <2>3, <2>4
<1>7. polls'[i].after = after /\ polls'[i].answered = TRUE /\ polls'[i].events = ev
  BY <1>3, <1>6 DEF Question
<1>8. LogInv' /\ Numbered' /\ FollowTypeOK' /\ clears' = clears
      /\ FollowerInv' = FollowerInv /\ CursorIsShown' = CursorIsShown
  <2>1. FollowTypeOK' /\ clears' = clears
    BY <1>1, <1>6 DEF FollowInd, FollowTypeOK
  <2>2. FollowerInv' = FollowerInv
    BY <1>1, LogAsItWas DEF FollowerInv, PrintedInOrder, FollowedWithoutGaps, Printed
  <2>3. CursorIsShown' = CursorIsShown
    BY <1>1, LogAsItWas DEF CursorIsShown
  <2> QED BY <1>1, <2>1, <2>2, <2>3, LogAsItWas DEF FollowInd
(* Whatever was shown lies below the end of the answer.                    *)
<1>9. ASSUME ev # <<>>, NEW x, Shown(x) PROVE x <= Ends(ev)
  <2>1. /\ size \in Nat /\ nextSeq \in Nat /\ size < nextSeq
        /\ \A n \in 1 .. size : Contents[n].seq = nextSeq - 1 - size + n
    BY LogAssumption DEF FollowInd, LogInv, LogTypeOK, Numbered
  <2>2. Shown(Ends(ev)) /\ Len(ev) \in 1 .. Len(ev) /\ Increasing(ev) /\ Complete(after, ev)
    BY <1>4, <1>5, <1>9 DEF Sound
  <2>3. x \in 1 .. nextSeq - 1 /\ Ends(ev) \in 1 .. nextSeq - 1
    BY <1>9, <2>2 DEF Shown
  <2>4. CASE x >= nextSeq - size
    <3>1. x - (nextSeq - 1 - size) \in 1 .. size
      BY <2>1, <2>3, <2>4
    <3>2. Contents[x - (nextSeq - 1 - size)].seq = x
      BY <2>1, <2>3, <3>1
    <3>3. Wanted(Contents[x - (nextSeq - 1 - size)])
      BY <1>9, <3>1, <3>2 DEF Shown
    <3> QED BY <1>5, <1>9, <3>1, <3>2, <3>3
  <2>5. CASE x < nextSeq - size
    <3>1. PICK n \in 1 .. size : ev[Len(ev)] = Contents[n]
      <4>1. Answers(ev, CutOf(after, limit)) /\ Cut(CutOf(after, limit))
        BY <1>3, QueriesAnswer, CutsAreCuts DEF ev
      <4> QED BY <2>2, <4>1 DEF Answers, Cut
    <3> QED BY <2>1, <2>3, <2>5, <3>1 DEF Ends
  <2> QED BY <2>1, <2>3, <2>4, <2>5
<1>10. ASSUME clears = 0 PROVE PollsAreSound' /\ PollsInOrder' /\ OneByOne'
  <2>1. PollsAreSound /\ PollsInOrder /\ OneByOne /\ CursorIsShown
    BY <1>10 DEF FollowInd
  <2>2. \A j \in 1 .. Len(polls) : polls[j].events # <<>> => Shown(Ends(polls[j].events))
    BY <2>1 DEF PollsAreSound, Sound
  <2>3. PollsAreSound'
    <3>1. ev # <<>> => lastSeq <= Ends(ev)
      <4>1. CASE lastSeq # 0
        BY <1>9, <2>1, <4>1 DEF CursorIsShown
      <4>2. CASE lastSeq = 0
        <5>1. ev # <<>> => Shown(Ends(ev))
          BY <1>5 DEF Sound
        <5>2. nextSeq \in Nat
          BY <1>3 DEF LogInv, LogTypeOK
        <5> QED BY <4>2, <5>1, <5>2 DEF Shown
      <4> QED BY <4>1, <4>2
    <3>2. \A a, e : Sound(a, e)' = Sound(a, e)
      BY <1>1, LogAsItWas
    <3> QED BY <1>1, <1>5, <1>6, <1>7, <2>1, <3>1, <3>2 DEF PollsAreSound, Ends
  <2>4. PollsInOrder'
    <3> SUFFICES ASSUME NEW j \in 1 .. Len(polls), NEW k \in 1 .. Len(polls), j < k
                 PROVE  /\ polls'[k].answered => polls'[j].answered
                        /\ polls'[j].events # <<>> /\ polls'[k].events # <<>>
                              => Ends(polls'[j].events) <= Ends(polls'[k].events)
      BY <1>6 DEF PollsInOrder, Ends
    <3>1. CASE j = i
      <4>1. ~ polls[k].answered /\ polls[k].events = <<>> /\ polls'[k] = polls[k]
        BY <1>2, <1>6, <2>1, <3>1 DEF PollsAreSound, PollsInOrder
      <4> QED BY <4>1
    <3>2. CASE k = i
      <4>1. polls[j].answered /\ polls'[j] = polls[j]
        BY <1>2, <1>6, <3>2
      <4> QED BY <1>7, <1>9, <2>2, <3>2, <4>1
    <3>3. CASE j # i /\ k # i
      BY <1>6, <2>1, <3>3 DEF PollsInOrder
    <3> QED BY <3>1, <3>2, <3>3
  <2>5. OneByOne'
    BY <1>1, <1>6, <1>7, <2>1 DEF OneByOne
  <2> QED BY <2>3, <2>4, <2>5
<1> QED BY <1>8, <1>10 DEF FollowInd

(* Without the first question the others are as sound, also when its       *)
(* answer moved the cursor.                                                *)
LEMMA TailKeeps ==
    ASSUME FollowInd, polls # <<>>, polls' = Tail(polls), UNCHANGED <<logVars, wanted, follower>>,
           clears = 0,
           \/ UNCHANGED lastSeq
           \/ polls[1].events # <<>> /\ lastSeq' = Ends(polls[1].events)
    PROVE  PollsAreSound' /\ PollsInOrder' /\ OneByOne'
<1>1. polls \in Seq(Question) /\ lastSeq \in Nat /\ PollsAreSound /\ PollsInOrder /\ OneByOne
  BY DEF FollowInd, FollowTypeOK
<1>2. /\ Len(polls) \in Nat \ {0} /\ Len(polls') = Len(polls) - 1
      /\ \A i \in 1 .. Len(polls') : polls'[i] = polls[i + 1] /\ i + 1 \in 1 .. Len(polls)
  BY <1>1, HeadTailProperties
<1>3. \A i \in 1 .. Len(polls) : /\ polls[i].after \in Nat
                                 /\ polls[i].events # <<>> => Ends(polls[i].events) \in Nat
  <2> TAKE i \in 1 .. Len(polls)
  <2>1. polls[i] \in Question
    BY <1>1
  <2>2. polls[i].after \in Nat /\ polls[i].events \in Seq(Events)
    BY <2>1 DEF Question
  <2> QED BY <2>2, AnswerShape
<1>4. lastSeq' \in Nat /\ lastSeq <= lastSeq'
  <2>1. 1 \in 1 .. Len(polls)
    BY <1>2
  <2> QED BY <1>1, <1>3, <2>1 DEF PollsAreSound
<1>5. PollsAreSound'
  <2> SUFFICES ASSUME NEW i \in 1 .. Len(polls')
               PROVE  /\ polls'[i].after <= lastSeq'
                      /\ Sound(polls[i].after, polls[i].events)'
                      /\ ~ polls'[i].answered => polls'[i].events = <<>>
                      /\ polls'[i].events # <<>> => lastSeq' <= Ends(polls'[i].events)
    BY DEF PollsAreSound, Ends
  <2>1. polls'[i] = polls[i + 1] /\ i + 1 \in 1 .. Len(polls) /\ 1 \in 1 .. Len(polls) /\ 1 < i + 1
    BY <1>2
  <2>2. \A a, ev : Sound(a, ev)' = Sound(a, ev)
    BY LogAsItWas
  <2>3. polls[i + 1].events # <<>> => lastSeq' <= Ends(polls[i + 1].events)
    BY <1>1, <2>1 DEF PollsAreSound, PollsInOrder
  <2>4. polls[i + 1].after <= lastSeq'
    BY <1>1, <1>3, <1>4, <2>1 DEF PollsAreSound
  <2> QED BY <1>1, <2>1, <2>2, <2>3, <2>4 DEF PollsAreSound
<1>6. PollsInOrder'
  <2>1. \A i, j \in 1 .. Len(polls') : i < j => i + 1 < j + 1
    OBVIOUS
  <2> QED BY <1>1, <1>2, <2>1 DEF PollsInOrder, Ends
<1>7. OneByOne'
  BY <1>1, <1>2 DEF OneByOne
<1> QED BY <1>5, <1>6, <1>7

(* A poll that fails is forgotten, and the cursor stays where it is.       *)
LEMMA PollFailsKeeps ==
    ASSUME FollowInd, PollFails
    PROVE  FollowInd'
<1>1. /\ polls # <<>> /\ polls' = Tail(polls)
      /\ UNCHANGED <<logVars, follower, wanted, lastSeq, following, printed, start, clears>>
  BY DEF PollFails
<1>2. polls' \in Seq(Question)
  BY <1>1, HeadTailProperties DEF FollowInd, FollowTypeOK
<1>3. FollowTypeOK' /\ clears' = clears
  BY <1>1, <1>2 DEF FollowInd, FollowTypeOK
<1>4. FollowerInv' = FollowerInv
  BY <1>1, LogAsItWas DEF FollowerInv, PrintedInOrder, FollowedWithoutGaps, Printed
<1>5. CursorIsShown' = CursorIsShown
  BY <1>1, LogAsItWas DEF CursorIsShown
<1>6. clears = 0 => PollsAreSound' /\ PollsInOrder' /\ OneByOne'
  BY <1>1, TailKeeps
<1> QED BY <1>1, <1>3, <1>4, <1>5, <1>6, LogAsItWas DEF FollowInd

(* The answer that is shown goes on from what was printed.                 *)
LEMMA PrintAnswerKeeps ==
    ASSUME FollowInd, PrintAnswer
    PROVE  FollowInd'
<1> DEFINE after == polls[1].after
           ev == polls[1].events
           N == Len(printed)
<1>1. /\ polls # <<>> /\ polls' = Tail(polls)
      /\ printed' = printed \o Numbers(ev)
      /\ lastSeq' = (IF ev = <<>> THEN lastSeq ELSE Ends(ev))
      /\ start' = (IF after = 0 /\ ev # <<>> THEN ev[1].seq ELSE start)
      /\ UNCHANGED <<logVars, follower, wanted, clears, failures>>
  BY DEF PrintAnswer, NextCursor, Ends
<1>2. /\ FollowTypeOK /\ polls \in Seq(Question) /\ printed \in Seq(Nat) /\ N \in Nat
      /\ lastSeq \in Nat /\ start \in Nat
  BY DEF FollowInd, FollowTypeOK
<1>3. 1 \in 1 .. Len(polls) /\ polls[1] \in Question
  BY <1>1, <1>2
<1>4. /\ after \in Nat /\ ev \in Seq(Events) /\ Len(ev) \in Nat
      /\ \A k \in 1 .. Len(ev) : ev[k].seq \in Nat
      /\ ev # <<>> => 1 \in 1 .. Len(ev) /\ Len(ev) \in 1 .. Len(ev)
  <2>1. after \in Nat /\ ev \in Seq(Events)
    BY <1>3 DEF Question
  <2> QED BY <2>1, AnswerShape
<1>5. /\ Numbers(ev) \in Seq(Nat) /\ Len(Numbers(ev)) = Len(ev)
      /\ \A k \in 1 .. Len(ev) : Numbers(ev)[k] = ev[k].seq
  <2>1. DOMAIN ev = 1 .. Len(ev)
    BY <1>4
  <2>2. Numbers(ev) = [k \in 1 .. Len(ev) |-> ev[k].seq]
    BY <2>1 DEF Numbers
  <2> QED BY <1>4, <2>2
<1>6. /\ printed' \in Seq(Nat) /\ Len(printed') = N + Len(ev)
      /\ \A n \in 1 .. N : printed'[n] = printed[n]
      /\ \A n \in 1 .. Len(printed') : n > N => n - N \in 1 .. Len(ev) /\ printed'[n] = ev[n - N].seq
  <2> HIDE DEF ev
  <2>1. /\ printed' \in Seq(Nat) /\ Len(printed') = Len(printed) + Len(Numbers(ev))
        /\ \A n \in 1 .. Len(printed) + Len(Numbers(ev)) :
              printed'[n] = IF n <= Len(printed) THEN printed[n]
                            ELSE Numbers(ev)[n - Len(printed)]
    <3> DEFINE t == Numbers(ev)
    <3>1. printed' = printed \o t /\ printed \in Seq(Nat) /\ t \in Seq(Nat)
      BY <1>1, <1>2, <1>5
    <3> HIDE DEF t
    <3>2. /\ printed \o t \in Seq(Nat) /\ Len(printed \o t) = Len(printed) + Len(t)
          /\ \A n \in 1 .. Len(printed) + Len(t) :
                (printed \o t)[n] = IF n <= Len(printed) THEN printed[n] ELSE t[n - Len(printed)]
      BY <3>1, ConcatProperties
    <3> QED BY <3>1, <3>2 DEF t
  <2>2. Len(printed') = N + Len(ev)
    BY <1>5, <2>1
  <2>3. \A n \in 1 .. Len(printed') : n > N => n - N \in 1 .. Len(ev)
    BY <1>2, <1>4, <2>2
  <2>4. \A n \in 1 .. Len(printed') : printed'[n] = IF n <= N THEN printed[n] ELSE Numbers(ev)[n - N]
    BY <1>5, <2>1
  <2>5. \A n \in 1 .. N : n \in 1 .. Len(printed') /\ n <= N
    BY <1>2, <1>4, <2>2
  <2> HIDE DEF N
  <2>6. ASSUME NEW n \in 1 .. Len(printed'), n > N
        PROVE  printed'[n] = ev[n - N].seq
    <3>1. ~ (n <= N) /\ n - N \in 1 .. Len(ev)
      BY <1>2, <2>2, <2>3, <2>6
    <3> QED BY <1>5, <2>4, <3>1
  <2> QED BY <2>1, <2>2, <2>3, <2>4, <2>5, <2>6
<1> HIDE DEF ev, after, N
<1>7. FollowTypeOK'
  <2>1. polls' \in Seq(Question)
    BY <1>1, <1>2, HeadTailProperties
  <2>2. lastSeq' \in Nat /\ start' \in Nat
    BY <1>1, <1>2, <1>4 DEF Ends
  <2> QED BY <1>1, <1>2, <1>6, <2>1, <2>2 DEF FollowTypeOK
<1>8. ASSUME clears = 0
      PROVE  PollsAreSound' /\ PollsInOrder' /\ OneByOne' /\ CursorIsShown' /\ FollowerInv'
  <2>1. /\ PollsAreSound /\ PollsInOrder /\ OneByOne /\ CursorIsShown
        /\ PrintedInOrder /\ FollowedWithoutGaps
    BY <1>8 DEF FollowInd, FollowerInv
  <2>2. PollsAreSound' /\ PollsInOrder' /\ OneByOne'
    BY <1>1, <1>8, TailKeeps DEF ev
  <2>3. /\ after <= lastSeq /\ \A k \in 1 .. Len(ev) : after < ev[k].seq
        /\ ev # <<>> => /\ lastSeq <= Ends(ev) /\ Increasing(ev)
                        /\ Shown(Ends(ev)) /\ Complete(after, ev)
    BY <1>3, <2>1 DEF PollsAreSound, Sound, after, ev
  <2>4. \A k \in 1 .. Len(ev) : ev[k].seq <= Ends(ev) /\ Ends(ev) \in Nat
    <3> TAKE k \in 1 .. Len(ev)
    <3>1. ev # <<>> /\ (k = Len(ev) \/ k < Len(ev))
      BY <1>4
    <3> QED BY <1>4, <2>3, <3>1 DEF Increasing, Ends
  <2>5. lastSeq' \in Nat /\ lastSeq <= lastSeq' /\ \A k \in 1 .. Len(ev) : ev[k].seq \in 1 .. lastSeq'
    <3>1. CASE ev = <<>>
      BY <1>1, <1>2, <3>1
    <3>2. CASE ev # <<>>
      <4>1. lastSeq' = Ends(ev) /\ Ends(ev) \in Nat
        BY <1>1, <1>4, <2>4, <3>2
      <4>2. \A k \in 1 .. Len(ev) : ev[k].seq \in Nat /\ ev[k].seq > 0
        BY <1>4, <2>3
      <4> QED BY <2>3, <2>4, <3>2, <4>1, <4>2
    <3> QED BY <3>1, <3>2
  <2>6. \A n \in 1 .. N : printed[n] \in 1 .. lastSeq
    BY <2>1 DEF CursorIsShown, N
  <2>7. CursorIsShown'
    <3>1. lastSeq' # 0 => Shown(lastSeq)'
      <4>1. lastSeq' # 0 => Shown(lastSeq')
        BY <1>1, <2>1, <2>3 DEF CursorIsShown
      <4>2. \A x : Shown(x)' = Shown(x)
        BY <1>1, LogAsItWas
      <4> QED BY <4>1, <4>2
    <3>2. printed' = <<>> => lastSeq' = 0
      <4> SUFFICES ASSUME printed' = <<>> PROVE lastSeq' = 0
        OBVIOUS
      <4>1. N = 0 /\ Len(ev) = 0
        BY <1>2, <1>4, <1>6
      <4>2. printed = <<>> /\ ev = <<>>
        BY <1>2, <1>4, <4>1 DEF N
      <4> QED BY <1>1, <2>1, <4>2 DEF CursorIsShown
    <3>3. \A n \in 1 .. Len(printed') : printed'[n] \in 1 .. lastSeq'
      <4> TAKE n \in 1 .. Len(printed')
      <4>1. CASE n <= N
        BY <1>2, <1>6, <2>5, <2>6, <4>1
      <4>2. CASE n > N
        BY <1>6, <2>5, <4>2
      <4> QED BY <1>2, <1>6, <4>1, <4>2
    <3> QED BY <3>1, <3>2, <3>3 DEF CursorIsShown
  <2>8. PrintedInOrder'
    <3>1. DOMAIN printed' = 1 .. Len(printed')
      BY <1>6
    <3>2. \A n \in 1 .. Len(printed') : printed'[n] <= lastSeq'
      BY <2>5, <2>7 DEF CursorIsShown
    <3>3. ASSUME follower = "command", NEW m \in 1 .. Len(printed'), NEW n \in 1 .. Len(printed'), m < n
          PROVE  printed'[m] < printed'[n]
      <4>1. after = lastSeq
        BY <1>3, <2>1, <3>3 DEF OneByOne, after
      <4>2. CASE n <= N
        <5>1. m \in 1 .. N /\ n \in 1 .. N /\ DOMAIN printed = 1 .. N
          BY <1>2, <3>3, <4>2 DEF N
        <5> QED BY <1>6, <1>8, <2>1, <3>3, <5>1 DEF PrintedInOrder
      <4>3. CASE m <= N /\ n > N
        <5>1. printed'[m] \in 1 .. lastSeq /\ printed'[n] = ev[n - N].seq /\ n - N \in 1 .. Len(ev)
          <6>1. m \in 1 .. N
            BY <1>2, <4>3
          <6> QED BY <1>6, <2>6, <4>3, <6>1
        <5> QED BY <1>2, <1>4, <2>3, <4>1, <5>1
      <4>4. CASE m > N
        <5>1. /\ n - N \in 1 .. Len(ev) /\ m - N \in 1 .. Len(ev) /\ m - N < n - N
              /\ printed'[m] = ev[m - N].seq /\ printed'[n] = ev[n - N].seq
          <6>1. n > N
            BY <1>2, <3>3, <4>4
          <6>2. /\ n - N \in 1 .. Len(ev) /\ m - N \in 1 .. Len(ev)
                /\ printed'[m] = ev[m - N].seq /\ printed'[n] = ev[n - N].seq
            BY <1>6, <4>4, <6>1
          <6> QED BY <1>2, <3>3, <6>2
        <5>2. ev # <<>>
          BY <1>4, <5>1
        <5> QED BY <2>3, <5>1, <5>2 DEF Increasing
      <4> QED BY <1>2, <1>6, <4>2, <4>3, <4>4
    <3> QED BY <1>1, <3>1, <3>2, <3>3 DEF PrintedInOrder
  <2>9. FollowedWithoutGaps'
    <3>1. /\ \A n \in 1 .. N : printed[n] \in Printed'
          /\ \A k \in 1 .. Len(ev) : ev[k].seq \in Printed'
      <4>1. Printed' = {printed'[n] : n \in 1 .. Len(printed')}
        BY <1>6 DEF Printed
      <4>2. \A n \in 1 .. N : n \in 1 .. Len(printed') /\ printed'[n] = printed[n]
        BY <1>2, <1>4, <1>6
      <4>3. \A k \in 1 .. Len(ev) : N + k \in 1 .. Len(printed') /\ printed'[N + k] = ev[k].seq
        <5> TAKE k \in 1 .. Len(ev)
        <5>1. N + k \in 1 .. Len(printed') /\ N + k > N /\ (N + k) - N = k
          BY <1>2, <1>4, <1>6
        <5> QED BY <1>6, <5>1
      <4> QED BY <4>1, <4>2, <4>3
    <3>2. Printed \subseteq Printed'
      BY <1>2, <3>1 DEF Printed, N
    <3>3. ASSUME printed' # <<>>, follower = "command" PROVE start' = printed'[1]
      <4>1. after = lastSeq
        BY <1>3, <2>1, <3>3 DEF OneByOne, after
      <4>2. CASE after = 0 /\ ev # <<>>
        <5>1. N = 0
          BY <1>2, <2>6, <4>1, <4>2
        <5>2. 1 \in 1 .. Len(printed') /\ 1 > N /\ 1 - N = 1
          BY <1>4, <1>6, <4>2, <5>1
        <5> QED BY <1>1, <1>6, <4>2, <5>2
      <4>3. CASE ~ (after = 0 /\ ev # <<>>)
        <5>1. printed # <<>>
          <6>1. CASE after # 0
            BY <2>1, <4>1, <6>1 DEF CursorIsShown
          <6>2. CASE ev = <<>>
            <7>1. Len(ev) = 0 /\ Len(printed') # 0
              BY <1>6, <3>3, <6>2
            <7> QED BY <1>2, <1>6, <7>1 DEF N
          <6> QED BY <4>3, <6>1, <6>2
        <5>2. 1 \in 1 .. N
          BY <1>2, <5>1 DEF N
        <5>3. start = printed[1]
          BY <1>8, <2>1, <3>3, <5>1 DEF FollowedWithoutGaps
        <5> QED BY <1>1, <1>6, <4>3, <5>2, <5>3
      <4> QED BY <4>2, <4>3
    <3>4. ASSUME printed' # <<>>, NEW n \in 1 .. size, Wanted(Contents[n]),
                 start' <= Contents[n].seq, Contents[n].seq <= lastSeq'
          PROVE  Contents[n].seq \in Printed'
      <4>1. Contents[n].seq \in Nat
        <5>1. /\ size \in Nat /\ nextSeq \in Nat /\ size < nextSeq
              /\ Contents[n].seq = nextSeq - 1 - size + n
          BY LogAssumption DEF FollowInd, LogInv, LogTypeOK, Numbered
        <5> QED BY <5>1
      <4>2. CASE ev # <<>> /\ after < Contents[n].seq /\ (after = 0 => ev[1].seq <= Contents[n].seq)
        <5>1. Contents[n].seq <= Ends(ev)
          BY <1>1, <3>4, <4>2
        <5>2. PICK k \in 1 .. Len(ev) : ev[k].seq = Contents[n].seq
          BY <2>3, <3>4, <4>2, <5>1 DEF Complete
        <5> QED BY <3>1, <5>2
      <4>3. CASE ~ (ev # <<>> /\ after < Contents[n].seq /\ (after = 0 => ev[1].seq <= Contents[n].seq))
        <5>1. start' = start /\ Contents[n].seq <= lastSeq
          <6>1. CASE ev = <<>>
            BY <1>1, <3>4, <6>1
          <6>2. CASE ev # <<>> /\ after = 0
            <7>1. start' = ev[1].seq /\ ev[1].seq > 0 /\ ev[1].seq \in Nat
              BY <1>1, <1>4, <2>3, <6>2
            <7> QED BY <3>4, <4>1, <4>3, <6>2, <7>1
          <6>3. CASE ev # <<>> /\ after # 0
            <7>1. Contents[n].seq <= after
              BY <1>4, <4>1, <4>3, <6>3
            <7> QED BY <1>1, <1>2, <1>4, <2>3, <4>1, <6>3, <7>1
          <6> QED BY <6>1, <6>2, <6>3
        <5>2. printed # <<>>
          <6>1. Contents[n].seq >= 1
            <7>1. /\ size \in Nat /\ nextSeq \in Nat /\ size < nextSeq
                  /\ Contents[n].seq = nextSeq - 1 - size + n
              BY LogAssumption DEF FollowInd, LogInv, LogTypeOK, Numbered
            <7> QED BY <7>1
          <6>2. lastSeq # 0
            BY <1>2, <4>1, <5>1, <6>1
          <6> QED BY <2>1, <6>2 DEF CursorIsShown
        <5> QED BY <1>8, <2>1, <3>2, <3>4, <5>1, <5>2 DEF FollowedWithoutGaps
      <4> QED BY <4>2, <4>3
    <3>5. Contents' = Contents /\ size' = size /\ (\A e : Wanted(e)' = Wanted(e)) /\ follower' = follower
      BY <1>1, LogAsItWas
    <3> QED BY <3>3, <3>4, <3>5 DEF FollowedWithoutGaps
  <2> QED BY <2>2, <2>7, <2>8, <2>9 DEF FollowerInv
<1>9. LogInv' /\ Numbered' /\ clears' = clears
  BY <1>1, LogAsItWas DEF FollowInd
<1> QED BY <1>7, <1>8, <1>9 DEF FollowInd

(* A new event comes after everything that was shown or answered.          *)
LEMMA LogKeepsFollowers ==
    ASSUME FollowInd, NEW level \in Level, Log(level)
    PROVE  FollowInd'
<1>1. /\ AppendEvent(level)
      /\ UNCHANGED <<follower, wanted, lastSeq, following, polls, printed, start, clears, failures>>
  BY DEF Log, followVars
<1>2. LogInv /\ Numbered /\ LogInv' /\ Numbered'
  BY <1>1, LogKeepsInv, AppendNumbers DEF FollowInd, LogNext
<1>3. FollowTypeOK'
  BY <1>1 DEF FollowInd, FollowTypeOK
<1>4. ASSUME clears = 0
      PROVE  PollsAreSound' /\ PollsInOrder' /\ OneByOne' /\ CursorIsShown' /\ FollowerInv'
  <2>1. /\ PollsAreSound /\ PollsInOrder /\ OneByOne /\ CursorIsShown
        /\ PrintedInOrder /\ FollowedWithoutGaps
    BY <1>4 DEF FollowInd, FollowerInv
  <2>2. \A a, ev : Sound(a, ev) => Sound(a, ev)'
    BY <1>1, <1>2, SoundStays
  <2>3. PollsAreSound'
    BY <1>1, <2>1, <2>2 DEF PollsAreSound, Ends
  <2>4. PollsInOrder' /\ OneByOne'
    BY <1>1, <2>1 DEF PollsInOrder, OneByOne, Ends
  <2>5. CursorIsShown'
    <3>1. \A x : Shown(x) => Shown(x)'
      BY <1>1, <1>2, ShownStays
    <3> QED BY <1>1, <2>1, <3>1 DEF CursorIsShown
  <2>6. PrintedInOrder'
    BY <1>1, <2>1 DEF PrintedInOrder
  <2>7. FollowedWithoutGaps'
    <3>1. /\ nextSeq \in Nat /\ lastSeq \in Nat /\ (lastSeq # 0 => lastSeq < nextSeq)
          /\ nextSeq > 0
      BY <1>2, <2>1 DEF FollowInd, FollowTypeOK, LogInv, LogTypeOK, CursorIsShown, Shown
    <3>2. \A n \in 1 .. size' : \/ Contents'[n].seq = nextSeq
                                \/ \E m \in 1 .. size : Contents'[n] = Contents[m]
      <4>1. New(level).seq = nextSeq
        BY DEF New
      <4>2. \A n \in 1 .. size' : \/ Contents'[n] = New(level)
                                  \/ \E m \in 1 .. size : Contents'[n] = Contents[m]
        BY <1>1, <1>2, AppendNumbers
      <4> QED BY <4>1, <4>2
    <3>3. ~ (nextSeq <= lastSeq)
      BY <3>1
    <3> QED BY <1>1, <1>4, <2>1, <3>2, <3>3 DEF FollowedWithoutGaps, Printed, Wanted
  <2> QED BY <2>3, <2>4, <2>5, <2>6, <2>7 DEF FollowerInv
<1> QED BY <1>1, <1>2, <1>3, <1>4 DEF FollowInd

(* After a clear nothing is promised any more.                             *)
LEMMA ClearKeepsFollowers ==
    ASSUME FollowInd, Clear
    PROVE  FollowInd'
<1>1. LogInv' /\ Numbered'
  BY LogKeepsInv, ClearNumbers DEF FollowInd, Clear, LogNext
<1>2. FollowTypeOK' /\ clears' # 0
  BY DEF Clear, FollowInd, FollowTypeOK
<1> QED BY <1>1, <1>2 DEF FollowInd

(* At first nothing is asked or shown.                                     *)
LEMMA InitHasFollowInd == Init => FollowInd
<1> SUFFICES ASSUME Init PROVE FollowInd
  OBVIOUS
<1>1. LogInv /\ size = 0 /\ nextSeq = 1
  BY InitHasLogInv DEF Init, LogInit
<1>2. Numbered
  BY <1>1 DEF Numbered
<1>3. wanted \in Level
  BY DEF Init, Level
<1>4. polls = <<>> /\ printed = <<>> /\ lastSeq = 0 /\ start = 0 /\ clears = 0
  BY DEF Init
<1>5. FollowTypeOK
  BY <1>3, <1>4 DEF FollowTypeOK
<1>6. PollsAreSound /\ PollsInOrder /\ OneByOne /\ CursorIsShown
  BY <1>4 DEF PollsAreSound, PollsInOrder, OneByOne, CursorIsShown
<1>7. FollowerInv
  BY <1>4 DEF FollowerInv, PrintedInOrder, FollowedWithoutGaps
<1> QED BY <1>1, <1>2, <1>5, <1>6, <1>7 DEF FollowInd

(* Whoever follows the log, with a question at a time or with several that *)
(* overlap and fail, has shown the events in order and without gaps.       *)
THEOREM FollowersAreServed == Spec => []FollowInd
<1>1. Init => FollowInd
  BY InitHasFollowInd
<1>2. FollowInd /\ [Next]_vars => FollowInd'
  <2> SUFFICES ASSUME FollowInd, [Next]_vars PROVE FollowInd'
    OBVIOUS
  <2>1. CASE Ask
    BY <2>1, AskedKeeps DEF Ask
  <2>2. CASE Poll
    BY <2>2, AskedKeeps DEF Poll
  <2>3. CASE ServerAnswers
    BY <2>3, ServerAnswersKeeps
  <2>4. CASE PrintAnswer
    BY <2>4, PrintAnswerKeeps
  <2>5. CASE PollFails
    BY <2>5, PollFailsKeeps
  <2>6. CASE \E level \in Level : Log(level)
    BY <2>6, LogKeepsFollowers
  <2>7. CASE Clear
    BY <2>7, ClearKeepsFollowers
  <2>8. CASE UNCHANGED vars
    <3>1. UNCHANGED <<logVars, followVars>>
      BY <2>8 DEF vars
    <3> QED BY <3>1, LogAsItWas
        DEF followVars, FollowInd, FollowTypeOK, PollsAreSound, PollsInOrder, OneByOne, CursorIsShown,
            FollowerInv, PrintedInOrder, FollowedWithoutGaps, Printed, Ends
  <2> QED BY <2>1, <2>2, <2>3, <2>4, <2>5, <2>6, <2>7, <2>8 DEF Next
<1> QED BY <1>1, <1>2, PTL DEF Spec

(* What was printed is in order and leaves out nothing that is still held  *)
(* and was asked for (PrintedInOrder, FollowedWithoutGaps).                *)
THEOREM FollowedInOrder == Spec => []FollowerInv
<1>1. FollowInd => FollowerInv
  BY DEF FollowInd, FollowerInv, PrintedInOrder, FollowedWithoutGaps
<1> QED BY <1>1, FollowersAreServed, PTL

(* Followers only read the log: it stays a window of the newest events.    *)
THEOREM FollowedLogIsAWindow == Spec => ImplementsWindow
<1>1. Init => LogInit
  BY DEF Init
<1>2. [Next]_vars => [LogNext]_logVars
  BY DEF Next, vars, Ask, Poll, Asked, ServerAnswers, PrintAnswer, PollFails, Log, Clear, LogNext
<1> QED BY <1>1, <1>2, LogImplementsWindow, PTL DEF Spec, LogSpec

===============================================================================
