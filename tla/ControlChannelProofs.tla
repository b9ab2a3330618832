------------------------- MODULE ControlChannelProofs -------------------------
(***************************************************************************)
(* Proofs about the control channel, for any number of calls and sockets,  *)
(* answers in any number of pieces, and daemons and clients that stop and  *)
(* close any number of times.  ChannelInd is inductive: the numbers given  *)
(* out are those up to requestId and belong to one call each, and whatever *)
(* is on the wires, in a handler or in the buffer bears the number of the  *)
(* call it is about.  With that an answer can only settle its own call.    *)
(***************************************************************************)
EXTENDS ControlChannel, FiniteSetTheorems, SequenceTheorems, TLAPS

(* Messages and chunks that bear the number of their call. *)
OwnMessage == {m \in Message : number[m.of] = m.id}
OwnChunk == {k \in Chunk : number[k.of] = k.id}

(* Each number up to requestId belongs to one call; the map holds the calls *)
(* that were sent, each under its number.                                  *)
Book ==
    /\ \A c \in Call : number[c] <= requestId
    /\ \A n \in 1 .. requestId : \E c \in Call : number[c] = n
    /\ \A c, d \in Call : number[c] # 0 /\ number[c] = number[d] => c = d
    /\ \A c \in Call : state[c] \in {"idle", "waiting"} => number[c] = 0
    /\ \A c \in Call : state[c] = "sent" => number[c] \in Id /\ pending[number[c]] = c
    /\ \A i \in Id : pending[i] # None => number[pending[i]] = i /\ state[pending[i]] = "sent"

(* A call that waits, waits once. *)
Lines ==
    /\ \A s \in Socket : \A n \in DOMAIN waiting[s] : state[waiting[s][n]] = "waiting"
    /\ \A s, t \in Socket : \A m \in DOMAIN waiting[s], n \in DOMAIN waiting[t] :
          waiting[s][m] = waiting[t][n] => s = t /\ m = n

(* What is on its way is about the call whose number it bears. *)
Wires ==
    /\ toServer \in [Socket -> Seq(OwnMessage)]
    /\ running \in [Socket -> SUBSET OwnMessage]
    /\ toClient \in [Socket -> Seq(OwnChunk)]
    /\ buffer \in Seq(OwnChunk)

(* The rest of the state has its types. *)
Refs ==
    /\ up \in BOOLEAN
    /\ stops \in 0 .. MaxStops /\ closes \in 0 .. MaxCloses
    /\ sock \in [Socket -> {"unused", "connecting", "open", "ended", "failed", "closed"}]
    /\ gone \subseteq Socket
    /\ current \in Socket \cup {None} /\ connecting \in Socket \cup {None}
    /\ requestId \in Nat
    /\ state \in [Call -> {"idle", "waiting", "sent", "answered", "failed"}]
    /\ number \in [Call -> Nat]
    /\ waiting \in [Socket -> Seq(Call)]
    /\ pending \in [Id -> Call \cup {None}]
    /\ answer \in [Call -> Call \cup {None}]

ChannelInd == Refs /\ Book /\ Lines /\ Wires /\ AnswersAreOwn

-----------------------------------------------------------------------------
(* Numbers. *)

(* Numbers start at 1. *)
LEMMA Ids == \A i \in Id : i \in Nat \ {0}
<1>1. Cardinality(Call) \in Nat
  BY ChannelAssumption, FS_CardinalityType
<1> QED BY <1>1 DEF Id

(* If every number up to k is the number of a call, there are k calls.     *)
LEMMA NumbersFit ==
    ASSUME NEW k \in Nat, NEW num \in [Call -> Nat],
           \A n \in 1 .. k : \E c \in Call : num[c] = n
    PROVE  1 .. k \subseteq Id
<1> DEFINE f == [n \in 1 .. k |-> CHOOSE c \in Call : num[c] = n]
<1>1. f \in Injection(1 .. k, Call)
  BY DEF Injection, IsInjective
<1>2. IsFiniteSet(Call) /\ Cardinality(Call) \in Nat
  BY ChannelAssumption, FS_CardinalityType
<1> HIDE DEF f
<1>3. Cardinality(1 .. k) <= Cardinality(Call)
  BY <1>1, <1>2, FS_Injection
<1>4. Cardinality(1 .. k) = k
  BY FS_Interval
<1> QED BY <1>2, <1>3, <1>4 DEF Id

(* A call keeps its number, and what bears it stays its own.               *)
LEMMA OwnStaysOwn ==
    ASSUME Refs, \A c \in Call : number[c] # 0 => number'[c] = number[c]
    PROVE  /\ OwnMessage \subseteq OwnMessage'
           /\ OwnChunk \subseteq OwnChunk'
BY DEF Refs, OwnMessage, OwnChunk, Message, Chunk, Id

(* Calls that had no number get the next ones, in order.                   *)
LEMMA WriteNumbers ==
    ASSUME Refs, NEW s \in Socket, NEW calls \in Seq(Call), Write(calls, s),
           \A m, n \in DOMAIN calls : calls[m] = calls[n] => m = n
    PROVE  /\ requestId' = requestId + Len(calls)
           /\ \A n \in 1 .. Len(calls) :
                 number'[calls[n]] = requestId + n /\ state'[calls[n]] = "sent"
           /\ \A c \in Call : (\A n \in 1 .. Len(calls) : calls[n] # c)
                                 => number'[c] = number[c] /\ state'[c] = state[c]
<1> DEFINE Nth(c) == CHOOSE n \in DOMAIN calls : calls[n] = c
           sent == {calls[n] : n \in DOMAIN calls}
<1>1. /\ requestId' = requestId + Len(calls)
      /\ number' = [c \in Call |-> IF c \in sent THEN requestId + Nth(c) ELSE number[c]]
      /\ state' = [c \in Call |-> IF c \in sent THEN "sent" ELSE state[c]]
  BY DEF Write
<1>2. DOMAIN calls = 1 .. Len(calls) /\ \A n \in 1 .. Len(calls) : calls[n] \in Call
  OBVIOUS
<1>3. \A n \in 1 .. Len(calls) : Nth(calls[n]) = n
  BY <1>2
<1> QED BY <1>1, <1>2, <1>3

(* What Write leaves behind: the book is kept, the messages are their own. *)
LEMMA WriteKeepsBook ==
    ASSUME Refs, Book, toServer \in [Socket -> Seq(OwnMessage)],
           NEW s \in Socket, NEW calls \in Seq(Call), Write(calls, s),
           \A n \in DOMAIN calls : state[calls[n]] \in {"idle", "waiting"},
           \A m, n \in DOMAIN calls : calls[m] = calls[n] => m = n
    PROVE  /\ Book'
           /\ \A c \in Call : number[c] # 0 => number'[c] = number[c]
           /\ requestId' \in Nat
           /\ number' \in [Call -> Nat]
           /\ state' \in [Call -> {"idle", "waiting", "sent", "answered", "failed"}]
           /\ pending' \in [Id -> Call \cup {None}]
           /\ toServer' \in [Socket -> Seq(OwnMessage')]
<1> DEFINE len == Len(calls)
<1>1. /\ DOMAIN calls = 1 .. len /\ len \in Nat /\ requestId \in Nat
      /\ \A n \in 1 .. len : calls[n] \in Call /\ number[calls[n]] = 0
  BY DEF Refs, Book
<1>2. /\ requestId' = requestId + len
      /\ \A n \in 1 .. len : number'[calls[n]] = requestId + n /\ state'[calls[n]] = "sent"
      /\ \A c \in Call : (\A n \in 1 .. len : calls[n] # c)
                            => number'[c] = number[c] /\ state'[c] = state[c]
  BY WriteNumbers
<1>a. \A e \in Call :
         \/ /\ number'[e] = number[e] /\ state'[e] = state[e]
            /\ number[e] \in Nat /\ number[e] <= requestId
         \/ \E n \in 1 .. len : e = calls[n] /\ number'[e] = requestId + n /\ state'[e] = "sent"
  <2> TAKE e \in Call
  <2>1. number[e] \in Nat /\ number[e] <= requestId
    BY DEF Book, Refs
  <2>2. CASE \A n \in 1 .. len : calls[n] # e
    BY <1>2, <2>1, <2>2
  <2>3. CASE \E n \in 1 .. len : calls[n] = e
    BY <1>2, <2>3
  <2> QED BY <2>2, <2>3
<1>3. /\ requestId' \in Nat
      /\ number' \in [Call -> Nat]
      /\ state' \in [Call -> {"idle", "waiting", "sent", "answered", "failed"}]
  <2>1. \A c \in Call : /\ number'[c] \in Nat
                        /\ state'[c] \in {"idle", "waiting", "sent", "answered", "failed"}
    BY <1>1, <1>a DEF Refs
  <2>2. number' = [c \in Call |-> number'[c]] /\ state' = [c \in Call |-> state'[c]]
    BY DEF Write
  <2> QED BY <1>1, <1>2, <2>1, <2>2
<1>4. \A c \in Call : number[c] # 0 => number'[c] = number[c]
  BY <1>1, <1>2
<1>5. \A n \in 1 .. requestId' : \E c \in Call : number'[c] = n
  <2> SUFFICES ASSUME NEW n \in 1 .. requestId' PROVE \E c \in Call : number'[c] = n
    OBVIOUS
  <2>1. CASE n <= requestId
    BY <1>1, <1>4, <2>1 DEF Book
  <2>2. CASE n > requestId
    <3>1. n - requestId \in 1 .. len /\ n = requestId + (n - requestId)
      BY <1>1, <1>2, <2>2
    <3>2. PICK m \in 1 .. len : n = requestId + m
      BY <3>1
    <3> QED BY <1>1, <1>2, <3>2
  <2> QED BY <1>1, <1>2, <2>1, <2>2
<1>6. 1 .. requestId' \subseteq Id
  BY <1>3, <1>5, NumbersFit
<1>7. /\ pending' \in [Id -> Call \cup {None}]
      /\ \A n \in 1 .. len : requestId + n \in Id /\ pending'[requestId + n] = calls[n]
      /\ \A i \in Id : i <= requestId \/ i > requestId + len => pending'[i] = pending[i]
  <2>1. pending' = [i \in Id |-> IF i - requestId \in DOMAIN calls THEN calls[i - requestId] ELSE pending[i]]
    BY DEF Write
  <2>2. \A n \in 1 .. len : requestId + n \in Id /\ (requestId + n) - requestId = n
    BY <1>1, <1>2, <1>6
  <2>3. \A i \in Id : i - requestId \in 1 .. len <=> ~ (i <= requestId \/ i > requestId + len)
    BY <1>1 DEF Id
  <2>4. \A n \in 1 .. len : pending'[requestId + n] = calls[n]
    BY <1>1, <2>1, <2>2
  <2> QED BY <1>1, <2>1, <2>2, <2>3, <2>4 DEF Refs
<1>8. Book'
  <2>1. \A c \in Call : number'[c] <= requestId'
    BY <1>1, <1>2, <1>a
  <2>2. ASSUME NEW c \in Call, NEW d \in Call, number'[c] # 0, number'[c] = number'[d]
        PROVE  c = d
    <3>1. CASE number'[c] <= requestId
      <4>1. number'[c] = number[c] /\ number'[d] = number[d]
        BY <1>1, <1>a, <2>2, <3>1
      <4>2. number[c] # 0 /\ number[c] = number[d]
        BY <2>2, <4>1
      <4> QED BY <4>2 DEF Book
    <3>2. CASE number'[c] > requestId
      <4>1. PICK m \in 1 .. len : c = calls[m] /\ number'[c] = requestId + m
        BY <1>1, <1>a, <3>2
      <4>2. PICK n \in 1 .. len : d = calls[n] /\ number'[d] = requestId + n
        BY <1>1, <1>a, <2>2, <3>2
      <4> QED BY <1>1, <2>2, <4>1, <4>2
    <3> QED BY <1>1, <1>3, <3>1, <3>2
  <2>3. \A c \in Call : state'[c] \in {"idle", "waiting"} => number'[c] = 0
    BY <1>2 DEF Book
  <2>4. ASSUME NEW c \in Call, state'[c] = "sent"
        PROVE  number'[c] \in Id /\ pending'[number'[c]] = c
    <3>1. CASE \E n \in 1 .. len : c = calls[n]
      BY <1>2, <1>7, <3>1
    <3>2. CASE \A n \in 1 .. len : calls[n] # c
      <4>1. number'[c] = number[c] /\ state[c] = "sent"
        BY <1>2, <2>4, <3>2
      <4>2. number[c] \in Id /\ pending[number[c]] = c /\ number[c] <= requestId
        BY <4>1 DEF Book
      <4> QED BY <1>7, <4>1, <4>2
    <3> QED BY <3>1, <3>2
  <2>5. ASSUME NEW i \in Id, pending'[i] # None
        PROVE  number'[pending'[i]] = i /\ state'[pending'[i]] = "sent"
    <3>1. CASE i <= requestId \/ i > requestId + len
      <4>1. pending'[i] = pending[i] /\ pending[i] \in Call /\ i # 0
        BY <1>7, <2>5, <3>1, Ids DEF Refs
      <4>2. number[pending[i]] = i /\ state[pending[i]] = "sent"
        BY <2>5, <4>1 DEF Book
      <4>3. \A n \in 1 .. len : calls[n] # pending[i]
        BY <1>1, <4>1, <4>2
      <4> QED BY <1>2, <4>1, <4>2, <4>3
    <3>2. CASE requestId < i /\ i <= requestId + len
      <4>1. i - requestId \in 1 .. len /\ i = requestId + (i - requestId)
        BY <1>1, <3>2 DEF Id
      <4>2. PICK n \in 1 .. len : i = requestId + n
        BY <4>1
      <4> QED BY <1>2, <1>7, <4>2
    <3> QED BY <1>1, <3>1, <3>2 DEF Id
  <2> QED BY <1>5, <2>1, <2>2, <2>3, <2>4, <2>5 DEF Book
<1>9. toServer' \in [Socket -> Seq(OwnMessage')]
  <2> DEFINE sent == [n \in DOMAIN calls |-> [id |-> requestId + n, of |-> calls[n]]]
  <2>1. sent \in Seq(OwnMessage')
    <3>1. \A n \in 1 .. len : sent[n] \in OwnMessage'
      BY <1>1, <1>2, <1>7 DEF OwnMessage, Message
    <3>2. sent \in [1 .. len -> OwnMessage']
      BY <1>1, <3>1
    <3> QED BY <1>1, <3>2
  <2>2. \A t \in Socket : toServer[t] \in Seq(OwnMessage')
    BY <1>4, OwnStaysOwn, SeqMonotonic
  <2>3. toServer' = IF s \in gone THEN toServer ELSE [toServer EXCEPT ![s] = @ \o sent]
    BY DEF Write
  <2> HIDE DEF sent
  <2>4. toServer[s] \o sent \in Seq(OwnMessage')
    BY <2>1, <2>2, ConcatProperties
  <2> QED BY <2>2, <2>3, <2>4
<1> QED BY <1>3, <1>4, <1>7, <1>8, <1>9

-----------------------------------------------------------------------------
(* The map of pending calls. *)

(* The calls in the map are those that were sent and have not settled.     *)
LEMMA TrackedAreSent ==
    ASSUME Refs, Book
    PROVE  \A c \in Call : c \in Tracked <=> state[c] = "sent"
<1> SUFFICES ASSUME NEW c \in Call PROVE c \in Tracked <=> state[c] = "sent"
  OBVIOUS
<1>1. c # None
  BY ChannelAssumption
<1>2. c \in Tracked <=> \E i \in Id : pending[i] = c
  BY <1>1 DEF Tracked
<1>3. \A i \in Id : pending[i] = c => state[c] = "sent"
  BY <1>1 DEF Book
<1>4. state[c] = "sent" => number[c] \in Id /\ pending[number[c]] = c
  BY DEF Book
<1> QED BY <1>2, <1>3, <1>4

(* Rejecting what is in the map, and calls that waited, settles just those. *)
LEMMA RejectKeepsBook ==
    ASSUME Refs, Book, AnswersAreOwn, NEW also \in SUBSET Call,
           \A c \in also : state[c] = "waiting",
           RejectAllPending(also), requestId' = requestId, number' = number, answer' = answer
    PROVE  /\ Book' /\ AnswersAreOwn'
           /\ state' \in [Call -> {"idle", "waiting", "sent", "answered", "failed"}]
           /\ pending' \in [Id -> Call \cup {None}]
           /\ \A c \in Call : state[c] = "waiting" /\ c \notin also => state'[c] = "waiting"
<1>1. /\ state' = [c \in Call |-> IF c \in Tracked \cup also THEN "failed" ELSE state[c]]
      /\ pending' = [i \in Id |-> None]
  BY DEF RejectAllPending
<1>2. \A c \in Call : state'[c] = IF state[c] = "sent" \/ c \in also THEN "failed" ELSE state[c]
  BY <1>1, TrackedAreSent
<1>3. /\ state' \in [Call -> {"idle", "waiting", "sent", "answered", "failed"}]
      /\ pending' \in [Id -> Call \cup {None}]
  BY <1>1 DEF Refs
<1>4. Book'
  <2>1. \A c \in Call : state'[c] # "sent" /\ (state'[c] \in {"idle", "waiting"} => state'[c] = state[c])
    BY <1>2
  <2>2. \A i \in Id : pending'[i] = None
    BY <1>1
  <2> QED BY <2>1, <2>2 DEF Book
<1>5. AnswersAreOwn'
  BY <1>2 DEF AnswersAreOwn
<1> QED BY <1>2, <1>3, <1>4, <1>5

(* Calls leave the lines of their sockets and nothing else does.           *)
LEMMA DropKeepsLines ==
    ASSUME Refs, Lines, NEW s \in Socket, Drop(s),
           \A c \in Call : state[c] = "waiting" /\ c \notin Awaits(s) => state'[c] = "waiting"
    PROVE  Lines' /\ waiting' \in [Socket -> Seq(Call)]
<1>1. waiting' = [waiting EXCEPT ![s] = <<>>] /\ waiting \in [Socket -> Seq(Call)]
  BY DEF Drop, Refs
<1>2. waiting' \in [Socket -> Seq(Call)]
  BY <1>1
<1>3. \A t \in Socket : \A n \in DOMAIN waiting'[t] :
         t # s /\ n \in DOMAIN waiting[t] /\ waiting'[t][n] = waiting[t][n]
  BY <1>1
<1>4. \A t \in Socket : \A n \in DOMAIN waiting[t] : t # s => waiting[t][n] \notin Awaits(s)
  BY DEF Lines, Awaits
<1>5. \A t \in Socket : \A n \in DOMAIN waiting[t] :
         waiting[t][n] \in Call /\ state[waiting[t][n]] = "waiting"
  BY <1>1 DEF Lines
<1>6. \A t \in Socket : \A n \in DOMAIN waiting'[t] : state'[waiting'[t][n]] = "waiting"
  BY <1>3, <1>4, <1>5
<1>7. \A t, u \in Socket : \A m \in DOMAIN waiting'[t], n \in DOMAIN waiting'[u] :
         waiting'[t][m] = waiting'[u][n] => t = u /\ m = n
  BY <1>3 DEF Lines
<1> QED BY <1>2, <1>6, <1>7 DEF Lines

(* Lines that nobody joins or leaves. *)
LEMMA LinesStay ==
    ASSUME Refs, Lines, waiting' = waiting,
           \A c \in Call : state[c] = "waiting" => state'[c] = "waiting"
    PROVE  Lines' /\ waiting' \in [Socket -> Seq(Call)]
BY DEF Refs, Lines

(* The calls that await a socket are calls that wait. *)
LEMMA AwaitingWait ==
    ASSUME Refs, Lines, NEW s \in Socket
    PROVE  /\ Awaits(s) \in SUBSET Call /\ \A c \in Awaits(s) : state[c] = "waiting"
           /\ Rejected(s) \in SUBSET Call /\ \A c \in Rejected(s) : state[c] = "waiting"
BY DEF Refs, Lines, Awaits, Rejected

(* What is on the wires stays its own while no number is given out.        *)
LEMMA WiresStay ==
    ASSUME Wires, number' = number
    PROVE  OwnMessage' = OwnMessage /\ OwnChunk' = OwnChunk
BY DEF OwnMessage, OwnChunk

(* Messages and chunks of one's own are messages and chunks, so that all   *)
(* of the state has its types.                                             *)
LEMMA IndTypes ==
    ASSUME Refs, Wires
    PROVE  TypeOK
<1>1. OwnMessage \subseteq Message /\ OwnChunk \subseteq Chunk
  BY DEF OwnMessage, OwnChunk
<1>2. Seq(OwnMessage) \subseteq Seq(Message) /\ Seq(OwnChunk) \subseteq Seq(Chunk)
  BY <1>1, SeqMonotonic
<1>3. /\ toServer \in [Socket -> Seq(Message)]
      /\ toClient \in [Socket -> Seq(Chunk)]
      /\ running \in [Socket -> SUBSET Message]
      /\ buffer \in Seq(Chunk)
  BY <1>1, <1>2 DEF Wires
<1> QED BY <1>3 DEF Refs, TypeOK

-----------------------------------------------------------------------------
(* The steps of the client. *)

(* Calls are written to a socket: those of a line, or one that has not     *)
(* waited.                                                                 *)
LEMMA WriteKeeps ==
    ASSUME ChannelInd, NEW s \in Socket, NEW calls \in Seq(Call), Write(calls, s),
           \A n \in DOMAIN calls : state[calls[n]] \in {"idle", "waiting"},
           \A m, n \in DOMAIN calls : calls[m] = calls[n] => m = n,
           UNCHANGED <<toClient, running, answer>>,
           buffer' \in {buffer, <<>>}
    PROVE  /\ Book' /\ Wires' /\ AnswersAreOwn'
           /\ requestId' \in Nat /\ number' \in [Call -> Nat]
           /\ state' \in [Call -> {"idle", "waiting", "sent", "answered", "failed"}]
           /\ pending' \in [Id -> Call \cup {None}]
           /\ \A c \in Call : (\A n \in DOMAIN calls : calls[n] # c) => state'[c] = state[c]
<1>1. /\ Refs /\ Book /\ Lines /\ Wires /\ AnswersAreOwn
      /\ toServer \in [Socket -> Seq(OwnMessage)]
  BY DEF ChannelInd, Wires
<1>2. /\ Book'
      /\ \A c \in Call : number[c] # 0 => number'[c] = number[c]
      /\ requestId' \in Nat /\ number' \in [Call -> Nat]
      /\ state' \in [Call -> {"idle", "waiting", "sent", "answered", "failed"}]
      /\ pending' \in [Id -> Call \cup {None}]
      /\ toServer' \in [Socket -> Seq(OwnMessage')]
  BY <1>1, WriteKeepsBook
<1>3. /\ \A n \in DOMAIN calls : state'[calls[n]] = "sent"
      /\ \A c \in Call : (\A n \in DOMAIN calls : calls[n] # c) => state'[c] = state[c]
  BY <1>1, WriteNumbers
<1>4. AnswersAreOwn'
  BY <1>1, <1>3 DEF AnswersAreOwn
<1>5. Wires'
  <2>1. OwnMessage \subseteq OwnMessage' /\ OwnChunk \subseteq OwnChunk'
    BY <1>1, <1>2, OwnStaysOwn
  <2>2. Seq(OwnChunk) \subseteq Seq(OwnChunk') /\ <<>> \in Seq(OwnChunk')
    BY <2>1, SeqMonotonic
  <2> QED BY <1>1, <1>2, <2>1, <2>2 DEF Wires
<1> QED BY <1>2, <1>3, <1>4, <1>5

(* A call that finds an open socket is written to it. *)
LEMMA RequestNowKeeps ==
    ASSUME ChannelInd, NEW c \in Call, RequestNow(c)
    PROVE  ChannelInd'
<1> DEFINE calls == <<c>>
<1>1. /\ current \in Socket /\ state[c] = "idle"
      /\ Write(calls, current)
      /\ UNCHANGED <<up, stops, closes, sock, gone, current, connecting, waiting, buffer,
                     toClient, running, answer>>
  BY DEF RequestNow, Usable
<1>2. calls \in Seq(Call) /\ DOMAIN calls = {1} /\ calls[1] = c
  OBVIOUS
<1> HIDE DEF calls
<1>3. /\ Book' /\ Wires' /\ AnswersAreOwn'
      /\ requestId' \in Nat /\ number' \in [Call -> Nat]
      /\ state' \in [Call -> {"idle", "waiting", "sent", "answered", "failed"}]
      /\ pending' \in [Id -> Call \cup {None}]
      /\ \A d \in Call : d # c => state'[d] = state[d]
  BY <1>1, <1>2, WriteKeeps
<1>4. Lines' /\ waiting' \in [Socket -> Seq(Call)]
  BY <1>1, <1>3, LinesStay DEF ChannelInd
<1>5. Refs'
  BY <1>1, <1>3, <1>4 DEF ChannelInd, Refs
<1> QED BY <1>3, <1>4, <1>5 DEF ChannelInd

(* A call joins the line of a socket. *)
LEMMA AwaitKeeps ==
    ASSUME ChannelInd, NEW c \in Call, NEW s \in Socket, state[c] = "idle", Await(c, s),
           sock' \in [Socket -> {"unused", "connecting", "open", "ended", "failed", "closed"}],
           connecting' \in Socket \cup {None}
    PROVE  ChannelInd'
<1>1. /\ state' = [state EXCEPT ![c] = "waiting"]
      /\ waiting' = [waiting EXCEPT ![s] = Append(@, c)]
      /\ UNCHANGED <<up, stops, closes, gone, current, requestId, number, pending, buffer,
                     toServer, toClient, running, answer>>
  BY DEF Await
<1>2. Refs /\ Book /\ Lines /\ Wires /\ AnswersAreOwn
  BY DEF ChannelInd
<1>3. waiting[s] \in Seq(Call)
  BY <1>2 DEF Refs
<1>4. Refs'
  BY <1>1, <1>2, <1>3, AppendProperties DEF Refs
<1>5. Book'
  BY <1>1, <1>2 DEF Refs, Book
<1>6. AnswersAreOwn'
  BY <1>1, <1>2 DEF Refs, AnswersAreOwn
<1>7. Wires'
  BY <1>1, <1>2, WiresStay DEF Wires
<1>8. Lines'
  <2>1. /\ \A t \in Socket : t # s => waiting'[t] = waiting[t]
        /\ DOMAIN waiting'[s] = 1 .. Len(waiting[s]) + 1
        /\ waiting'[s][Len(waiting[s]) + 1] = c
        /\ \A n \in 1 .. Len(waiting[s]) : waiting'[s][n] = waiting[s][n]
        /\ DOMAIN waiting[s] = 1 .. Len(waiting[s]) /\ Len(waiting[s]) \in Nat
    BY <1>1, <1>2, <1>3, AppendProperties DEF Refs
  <2>2. \A t \in Socket : \A n \in DOMAIN waiting'[t] :
           \/ n \in DOMAIN waiting[t] /\ waiting'[t][n] = waiting[t][n]
           \/ t = s /\ n = Len(waiting[s]) + 1 /\ waiting'[t][n] = c
    BY <2>1
  <2>3. \A t \in Socket : \A n \in DOMAIN waiting[t] :
           waiting[t][n] \in Call /\ waiting[t][n] # c /\ state[waiting[t][n]] = "waiting"
    BY <1>2 DEF Lines, Refs
  <2>4. \A d \in Call : state'[d] = IF d = c THEN "waiting" ELSE state[d]
    BY <1>1, <1>2 DEF Refs
  <2>5. \A t \in Socket : \A n \in DOMAIN waiting'[t] : state'[waiting'[t][n]] = "waiting"
    BY <2>2, <2>3, <2>4
  <2>6. \A t, u \in Socket : \A m \in DOMAIN waiting'[t], n \in DOMAIN waiting'[u] :
           waiting'[t][m] = waiting'[u][n] => t = u /\ m = n
    BY <1>2, <2>2, <2>3 DEF Lines
  <2> QED BY <2>5, <2>6 DEF Lines
<1> QED BY <1>4, <1>5, <1>6, <1>7, <1>8 DEF ChannelInd

(* A call that finds none waits for one. *)
LEMMA RequestWaitsKeeps ==
    ASSUME ChannelInd, NEW c \in Call, RequestJoins(c) \/ RequestConnects(c)
    PROVE  ChannelInd'
<1> USE DEF ChannelInd, Refs
<1>1. CASE RequestJoins(c)
  <2>1. connecting \in Socket /\ state[c] = "idle" /\ Await(c, connecting)
        /\ UNCHANGED <<sock, connecting>>
    BY <1>1 DEF RequestJoins
  <2> QED BY <2>1, AwaitKeeps
<1>2. CASE RequestConnects(c)
  <2>1. PICK s \in Socket : /\ sock' = [sock EXCEPT ![s] = "connecting"]
                            /\ connecting' = s /\ Await(c, s) /\ state[c] = "idle"
    BY <1>2 DEF RequestConnects
  <2> QED BY <2>1, AwaitKeeps
<1> QED BY <1>1, <1>2

(* The timer of a call takes it out of the map and fails it. *)
LEMMA TimeoutKeeps ==
    ASSUME ChannelInd, NEW c \in Call, Timeout(c)
    PROVE  ChannelInd'
<1>1. /\ c \in Tracked
      /\ pending' = [i \in Id |-> IF pending[i] = c THEN None ELSE pending[i]]
      /\ state' = [state EXCEPT ![c] = "failed"]
      /\ UNCHANGED <<up, stops, closes, sock, gone, current, connecting, requestId, number,
                     waiting, buffer, toServer, toClient, running, answer>>
  BY DEF Timeout
<1>2. Refs /\ Book /\ Lines /\ Wires /\ AnswersAreOwn
  BY DEF ChannelInd
<1>3. state[c] = "sent"
  BY <1>1, <1>2, TrackedAreSent
<1>4. Refs'
  BY <1>1, <1>2 DEF Refs
<1>5. \A d \in Call : state'[d] = IF d = c THEN "failed" ELSE state[d]
  BY <1>1, <1>2 DEF Refs
<1>6. \A i \in Id : pending'[i] = IF pending[i] = c THEN None ELSE pending[i]
  BY <1>1
<1>7. Book'
  <2>1. \A d \in Call : state'[d] = "sent" => number'[d] \in Id /\ pending'[number'[d]] = d
    BY <1>1, <1>2, <1>5, <1>6 DEF Book
  <2>2. \A i \in Id : pending'[i] # None =>
           pending'[i] \in Call /\ pending'[i] # c /\ pending'[i] = pending[i]
    BY <1>2, <1>6 DEF Refs
  <2>3. \A i \in Id : pending'[i] # None =>
           number'[pending'[i]] = i /\ state'[pending'[i]] = "sent"
    BY <1>1, <1>2, <1>5, <2>2 DEF Book
  <2>4. \A d \in Call : state'[d] \in {"idle", "waiting"} => number'[d] = 0
    BY <1>1, <1>2, <1>5 DEF Book
  <2> QED BY <1>1, <1>2, <2>1, <2>3, <2>4 DEF Book
<1>8. Lines'
  BY <1>1, <1>2, <1>3, <1>5, LinesStay
<1>9. Wires' /\ AnswersAreOwn'
  BY <1>1, <1>2, <1>5, WiresStay DEF Wires, AnswersAreOwn
<1> QED BY <1>4, <1>7, <1>8, <1>9 DEF ChannelInd

(* What close() and a disconnect have in common: the map is emptied, and   *)
(* some lines with it.                                                     *)
LEMMA DisconnectKeeps ==
    ASSUME ChannelInd, NEW also \in SUBSET Call, \A c \in also : state[c] = "waiting",
           RejectAllPending(also),
           UNCHANGED <<stops, up, requestId, number, toServer, running, answer>>,
           closes' \in 0 .. MaxCloses, gone' \subseteq Socket,
           sock' \in [Socket -> {"unused", "connecting", "open", "ended", "failed", "closed"}],
           current' = None, connecting' = None, buffer' = <<>>,
           toClient' \in [Socket -> Seq(OwnChunk)],
           \/ also = {} /\ waiting' = waiting
           \/ \E s \in Socket : also = Awaits(s) /\ Drop(s)
    PROVE  ChannelInd'
<1>1. Refs /\ Book /\ Lines /\ Wires /\ AnswersAreOwn
  BY DEF ChannelInd
<1>2. /\ Book' /\ AnswersAreOwn'
      /\ state' \in [Call -> {"idle", "waiting", "sent", "answered", "failed"}]
      /\ pending' \in [Id -> Call \cup {None}]
      /\ \A c \in Call : state[c] = "waiting" /\ c \notin also => state'[c] = "waiting"
  BY <1>1, RejectKeepsBook
<1>3. Lines' /\ waiting' \in [Socket -> Seq(Call)]
  <2>1. CASE also = {} /\ waiting' = waiting
    BY <1>1, <1>2, <2>1, LinesStay
  <2>2. CASE \E s \in Socket : also = Awaits(s) /\ Drop(s)
    BY <1>1, <1>2, <2>2, DropKeepsLines
  <2> QED BY <2>1, <2>2
<1>4. Refs'
  BY <1>1, <1>2, <1>3 DEF Refs
<1>5. Wires'
  BY <1>1, WiresStay, EmptySeq DEF Wires
<1> QED BY <1>2, <1>3, <1>4, <1>5 DEF ChannelInd

(* close() gives out no number anew. *)
LEMMA CloseKeeps ==
    ASSUME ChannelInd, Close
    PROVE  ChannelInd'
<1> DEFINE nobody == {}
<1>1. /\ closes' \in 0 .. MaxCloses /\ gone' \subseteq Socket
      /\ sock' \in [Socket -> {"unused", "connecting", "open", "ended", "failed", "closed"}]
      /\ toClient' \in [Socket -> Seq(OwnChunk)]
  BY ChannelAssumption DEF Close, ChannelInd, Refs, Wires
<1>2. /\ RejectAllPending(nobody)
      /\ UNCHANGED <<stops, up, requestId, number, toServer, running, answer, waiting>>
      /\ current' = None /\ connecting' = None /\ buffer' = <<>>
  BY DEF Close
<1>3. nobody \in SUBSET Call /\ nobody = {}
  OBVIOUS
<1> HIDE DEF nobody
<1> QED BY <1>1, <1>2, <1>3, DisconnectKeeps

(* The line of a socket that has connected is written in one go. *)
LEMMA ConnectedKeeps ==
    ASSUME ChannelInd, NEW s \in Socket, Connected(s)
    PROVE  ChannelInd'
<1>1. /\ sock' = [sock EXCEPT ![s] = "open"]
      /\ current' = s /\ connecting' = None /\ buffer' = <<>>
      /\ Write(waiting[s], s)
      /\ Drop(s)
      /\ UNCHANGED <<up, stops, closes, gone, toClient, running, answer>>
  BY DEF Connected
<1>2. Refs /\ Book /\ Lines /\ Wires /\ AnswersAreOwn
  BY DEF ChannelInd
<1>3. /\ waiting[s] \in Seq(Call)
      /\ \A n \in DOMAIN waiting[s] : state[waiting[s][n]] \in {"idle", "waiting"}
      /\ \A m, n \in DOMAIN waiting[s] : waiting[s][m] = waiting[s][n] => m = n
  BY <1>2 DEF Refs, Lines
<1>4. /\ Book' /\ Wires' /\ AnswersAreOwn'
      /\ requestId' \in Nat /\ number' \in [Call -> Nat]
      /\ state' \in [Call -> {"idle", "waiting", "sent", "answered", "failed"}]
      /\ pending' \in [Id -> Call \cup {None}]
      /\ \A c \in Call : (\A n \in DOMAIN waiting[s] : waiting[s][n] # c) => state'[c] = state[c]
  BY <1>1, <1>3, WriteKeeps
<1>5. Lines' /\ waiting' \in [Socket -> Seq(Call)]
  <2>1. \A c \in Call : state[c] = "waiting" /\ c \notin Awaits(s) => state'[c] = "waiting"
    BY <1>4 DEF Awaits
  <2> QED BY <1>1, <1>2, <2>1, DropKeepsLines
<1>6. Refs'
  BY <1>1, <1>2, <1>4, <1>5 DEF Refs
<1> QED BY <1>4, <1>5, <1>6 DEF ChannelInd

(* An error fails the line of its socket and all that is in the map. *)
LEMMA SocketErrorKeeps ==
    ASSUME ChannelInd, NEW s \in Socket, SocketError(s)
    PROVE  ChannelInd'
<1>1. /\ sock' = [sock EXCEPT ![s] = "failed"]
      /\ IF connecting # None THEN Drop(s) ELSE waiting' = waiting
      /\ HandleDisconnect(Rejected(s))
      /\ UNCHANGED <<up, stops, closes, gone, number, toServer, toClient, running, answer>>
  BY DEF SocketError
<1>2. Refs /\ Book /\ Lines /\ Wires /\ AnswersAreOwn
  BY DEF ChannelInd
<1>3. /\ Rejected(s) \in SUBSET Call
      /\ \A c \in Rejected(s) : state[c] = "waiting"
  BY <1>2, AwaitingWait
<1>4. /\ RejectAllPending(Rejected(s))
      /\ UNCHANGED <<stops, up, requestId, number, toServer, running, answer>>
      /\ current' = None /\ connecting' = None /\ buffer' = <<>>
  BY <1>1 DEF HandleDisconnect
<1>5. /\ closes' \in 0 .. MaxCloses /\ gone' \subseteq Socket
      /\ sock' \in [Socket -> {"unused", "connecting", "open", "ended", "failed", "closed"}]
      /\ toClient' \in [Socket -> Seq(OwnChunk)]
  BY <1>1, <1>2 DEF Refs, Wires
<1>6. \/ Rejected(s) = {} /\ waiting' = waiting
      \/ Rejected(s) = Awaits(s) /\ Drop(s)
  BY <1>1 DEF Rejected
<1> QED BY <1>3, <1>4, <1>5, <1>6, DisconnectKeeps

(* A socket that times out fails its line. *)
LEMMA SocketTimeoutKeeps ==
    ASSUME ChannelInd, NEW s \in Socket, SocketTimeout(s)
    PROVE  ChannelInd'
<1>1. /\ connecting' = None /\ sock' = [sock EXCEPT ![s] = "failed"]
      /\ gone' = gone \cup {s}
      /\ Drop(s)
      /\ state' = [c \in Call |-> IF c \in Awaits(s) THEN "failed" ELSE state[c]]
      /\ UNCHANGED <<up, stops, closes, current, requestId, number, pending, buffer,
                     toServer, toClient, running, answer>>
  BY DEF SocketTimeout
<1>2. Refs /\ Book /\ Lines /\ Wires /\ AnswersAreOwn
  BY DEF ChannelInd
<1>3. \A c \in Awaits(s) : state[c] = "waiting"
  BY <1>2, AwaitingWait
<1>4. \A c \in Call : state'[c] = IF c \in Awaits(s) THEN "failed" ELSE state[c]
  BY <1>1
<1>5. Lines' /\ waiting' \in [Socket -> Seq(Call)]
  BY <1>1, <1>2, <1>4, DropKeepsLines
<1>6. Refs'
  BY <1>1, <1>2, <1>5 DEF Refs
<1>7. Book'
  <2>1. \A i \in Id : pending[i] # None => pending[i] \in Call /\ pending[i] \notin Awaits(s)
    BY <1>2, <1>3 DEF Refs, Book
  <2> QED BY <1>1, <1>2, <1>4, <2>1 DEF Book
<1>8. Wires' /\ AnswersAreOwn'
  BY <1>1, <1>2, <1>4, WiresStay DEF Wires, AnswersAreOwn
<1> QED BY <1>5, <1>6, <1>7, <1>8 DEF ChannelInd

(* A close event, late as it may be, fails what is in the map. *)
LEMMA SocketCloseKeeps ==
    ASSUME ChannelInd, NEW s \in Socket, SocketClose(s)
    PROVE  ChannelInd'
<1> DEFINE nobody == {}
<1>1. /\ RejectAllPending(nobody)
      /\ UNCHANGED <<stops, up, requestId, number, toServer, running, answer, waiting>>
      /\ current' = None /\ connecting' = None /\ buffer' = <<>>
  BY DEF SocketClose, HandleDisconnect
<1>2. /\ closes' \in 0 .. MaxCloses /\ gone' \subseteq Socket
      /\ sock' \in [Socket -> {"unused", "connecting", "open", "ended", "failed", "closed"}]
      /\ toClient' \in [Socket -> Seq(OwnChunk)]
  BY DEF SocketClose, ChannelInd, Refs, Wires
<1>3. nobody \in SUBSET Call /\ nobody = {}
  OBVIOUS
<1> HIDE DEF nobody
<1> QED BY <1>1, <1>2, <1>3, DisconnectKeeps

(* An answer settles the call it is about: the number of its first chunk   *)
(* is that of the call in the map, and no other call has that number.      *)
LEMMA SettleKeeps ==
    ASSUME Refs, Book, Wires, AnswersAreOwn,
           NEW line \in Seq(OwnChunk), Len(line) > 0, Settle(line),
           UNCHANGED <<requestId, number>>
    PROVE  /\ Book' /\ AnswersAreOwn'
           /\ pending' \in [Id -> Call \cup {None}]
           /\ answer' \in [Call -> Call \cup {None}]
           /\ state' \in [Call -> {"idle", "waiting", "sent", "answered", "failed"}]
           /\ \A c \in Call : state[c] = "waiting" => state'[c] = "waiting"
<1> DEFINE id == line[1].id
           c == pending[id]
           d == line[1].of
<1>1. line[1] \in OwnChunk
  BY ElementOfSeq
<1>2. id \in Id /\ d \in Call /\ number[d] = id /\ id # 0
  BY <1>1, Ids DEF OwnChunk, Chunk
<1> HIDE DEF id, d
<1>3. CASE ~ (Parses(line) /\ c # None)
  <2>1. UNCHANGED <<pending, state, answer>>
    BY <1>3 DEF Settle, id
  <2>2. UNCHANGED <<requestId, number, pending, state, answer>>
    BY <2>1
  <2> QED BY <2>2 DEF Refs, Book, AnswersAreOwn
<1>4. CASE Parses(line) /\ c # None
  <2>1. /\ pending' = [pending EXCEPT ![id] = None]
        /\ state' = [state EXCEPT ![c] = "answered"]
        /\ answer' = [answer EXCEPT ![c] = d]
    BY <1>4 DEF Settle, id, d
  <2>2. c \in Call /\ number[c] = id /\ state[c] = "sent"
    BY <1>2, <1>4 DEF Refs, Book
  <2>3. c = d
    BY <1>2, <2>2 DEF Book
  <2> HIDE DEF c
  <2>4. /\ \A e \in Call : state'[e] = IF e = c THEN "answered" ELSE state[e]
        /\ \A e \in Call : answer'[e] = IF e = c THEN c ELSE answer[e]
        /\ \A i \in Id : pending'[i] = IF i = id THEN None ELSE pending[i]
    BY <2>1, <2>2, <2>3, <1>2 DEF Refs
  <2>5. Book'
    <3>1. \A e \in Call : state'[e] = "sent" => number'[e] \in Id /\ pending'[number'[e]] = e
      BY <1>2, <2>2, <2>3, <2>4 DEF Book
    <3>2. \A i \in Id : pending'[i] # None => number'[pending'[i]] = i /\ state'[pending'[i]] = "sent"
      <4> SUFFICES ASSUME NEW i \in Id, pending'[i] # None
                   PROVE  number'[pending'[i]] = i /\ state'[pending'[i]] = "sent"
        OBVIOUS
      <4>1. i # id /\ pending'[i] = pending[i] /\ pending[i] \in Call
        BY <2>4 DEF Refs
      <4>2. number[pending[i]] = i /\ state[pending[i]] = "sent"
        BY <4>1 DEF Book
      <4> QED BY <2>2, <2>4, <4>1, <4>2
    <3>3. \A e \in Call : state'[e] \in {"idle", "waiting"} => number'[e] = 0
      BY <2>4 DEF Book
    <3> QED BY <3>1, <3>2, <3>3 DEF Book
  <2>6. AnswersAreOwn'
    BY <2>4 DEF AnswersAreOwn
  <2>7. /\ pending' \in [Id -> Call \cup {None}]
        /\ answer' \in [Call -> Call \cup {None}]
        /\ state' \in [Call -> {"idle", "waiting", "sent", "answered", "failed"}]
    BY <2>1, <2>2, <2>3 DEF Refs
  <2> QED BY <2>2, <2>4, <2>5, <2>6, <2>7
<1> QED BY <1>3, <1>4

(* A chunk settles a call, fills the buffer, or is one too many. *)
LEMMA DataKeeps ==
    ASSUME ChannelInd, NEW s \in Socket, Data(s)
    PROVE  ChannelInd'
<1> DEFINE grown == Append(buffer, Head(toClient[s]))
           nobody == {}
<1>1. Refs /\ Book /\ Lines /\ Wires /\ AnswersAreOwn
  BY DEF ChannelInd
<1>2. /\ toClient[s] \in Seq(OwnChunk) /\ toClient[s] # <<>>
      /\ toClient' = [toClient EXCEPT ![s] = Tail(@)]
      /\ UNCHANGED <<up, stops, closes, number, waiting, toServer, running>>
  BY <1>1 DEF Data, Wires
<1>3. /\ Head(toClient[s]) \in OwnChunk /\ Tail(toClient[s]) \in Seq(OwnChunk)
      /\ grown \in Seq(OwnChunk) /\ Len(grown) > 0
  BY <1>1, <1>2, HeadTailProperties, AppendProperties DEF Wires
<1>4. toClient' \in [Socket -> Seq(OwnChunk)]
  BY <1>1, <1>2, <1>3 DEF Wires
<1>5. CASE Len(grown) > MaxBuffer
  <2>1. /\ sock' = IF current = None THEN sock ELSE [sock EXCEPT ![current] = "failed"]
        /\ gone' = IF current = None THEN gone ELSE gone \cup {current}
        /\ HandleDisconnect(nobody)
        /\ UNCHANGED answer
    BY <1>5 DEF Data
  <2>2. /\ RejectAllPending(nobody)
        /\ UNCHANGED <<stops, up, requestId, number, toServer, running, answer>>
        /\ current' = None /\ connecting' = None /\ buffer' = <<>>
    BY <1>2, <2>1 DEF HandleDisconnect
  <2>3. /\ closes' \in 0 .. MaxCloses /\ gone' \subseteq Socket
        /\ sock' \in [Socket -> {"unused", "connecting", "open", "ended", "failed", "closed"}]
    BY <1>1, <1>2, <2>1 DEF Refs
  <2>4. nobody \in SUBSET Call /\ nobody = {} /\ waiting' = waiting
    BY <1>2
  <2> HIDE DEF nobody
  <2> QED BY <1>4, <2>2, <2>3, <2>4, DisconnectKeeps
<1>6. CASE Len(grown) <= MaxBuffer
  <2>1. /\ UNCHANGED <<sock, gone, current, connecting, requestId>>
        /\ \/ buffer' = <<>> /\ Settle(grown)
           \/ buffer' = grown /\ UNCHANGED <<pending, state, answer>>
    <3>1. ~ (Len(grown) > MaxBuffer)
      BY <1>3, <1>6, ChannelAssumption
    <3> QED BY <3>1 DEF Data
  <2> HIDE DEF grown
  <2>2. /\ Book' /\ AnswersAreOwn'
        /\ pending' \in [Id -> Call \cup {None}]
        /\ answer' \in [Call -> Call \cup {None}]
        /\ state' \in [Call -> {"idle", "waiting", "sent", "answered", "failed"}]
        /\ \A c \in Call : state[c] = "waiting" => state'[c] = "waiting"
    <3>1. CASE Settle(grown)
      BY <1>1, <1>2, <1>3, <2>1, <3>1, SettleKeeps
    <3>2. CASE UNCHANGED <<pending, state, answer>>
      BY <1>1, <1>2, <2>1, <3>2 DEF Refs, Book, AnswersAreOwn
    <3> QED BY <2>1, <3>1, <3>2
  <2>3. Lines' /\ waiting' \in [Socket -> Seq(Call)]
    BY <1>1, <1>2, <2>2, LinesStay
  <2>4. Refs'
    BY <1>1, <1>2, <2>1, <2>2, <2>3 DEF Refs
  <2>5. Wires'
    BY <1>1, <1>2, <1>3, <1>4, <2>1, WiresStay, EmptySeq DEF Wires
  <2> QED BY <2>2, <2>3, <2>4, <2>5 DEF ChannelInd
<1>7. Len(grown) \in Nat /\ MaxBuffer \in Nat
  BY <1>3, ChannelAssumption
<1> QED BY <1>5, <1>6, <1>7

-----------------------------------------------------------------------------
(* The steps of the server: nothing of the client changes but what is on   *)
(* the wires, and who is gone.                                             *)

(* The answer to a message bears the number of the message. *)
LEMMA ChunksAreOwn ==
    ASSUME NEW m \in OwnMessage
    PROVE  Chunks(m) \in Seq(OwnChunk)
<1>1. m.of \in Call /\ m.id \in Id /\ number[m.of] = m.id /\ Pieces[m.of] \in Nat \ {0}
  BY ChannelAssumption DEF OwnMessage, Message
<1>2. \A n \in 1 .. Pieces[m.of] : Chunks(m)[n] \in OwnChunk
  BY <1>1 DEF Chunks, OwnChunk, Chunk
<1>3. Chunks(m) \in [1 .. Pieces[m.of] -> OwnChunk]
  BY <1>1, <1>2 DEF Chunks
<1> QED BY <1>1, <1>3, SeqDef

(* Steps of the server leave the client as it is. *)
LEMMA ServerKeeps ==
    ASSUME ChannelInd, UNCHANGED client,
           up' \in BOOLEAN, stops' \in 0 .. MaxStops, closes' = closes, gone' \subseteq Socket,
           toServer' \in [Socket -> Seq(OwnMessage)],
           running' \in [Socket -> SUBSET OwnMessage],
           toClient' \in [Socket -> Seq(OwnChunk)]
    PROVE  ChannelInd'
<1>1. Refs /\ Book /\ Lines /\ Wires /\ AnswersAreOwn
  BY DEF ChannelInd
<1>2. UNCHANGED <<sock, current, connecting, requestId, state, number, waiting, pending, buffer, answer>>
  BY DEF client
<1>3. Refs' /\ AnswersAreOwn'
  BY <1>1, <1>2 DEF Refs, AnswersAreOwn
<1>4. Book' /\ Lines'
  BY <1>1, <1>2 DEF Book, Lines
<1>5. Wires'
  BY <1>1, <1>2, WiresStay DEF Wires
<1> QED BY <1>3, <1>4, <1>5 DEF ChannelInd

(* What the server reads and answers keeps its number. *)
LEMMA ServerStepKeeps ==
    ASSUME ChannelInd, ServerStep
    PROVE  ChannelInd'
<1>1. Refs /\ Wires
  BY DEF ChannelInd
<1>2. ASSUME NEW s \in Socket, ServerReads(s) PROVE ChannelInd'
  <2> DEFINE m == Head(toServer[s])
  <2>1. /\ toServer[s] \in Seq(OwnMessage) /\ toServer[s] # <<>>
        /\ toClient[s] \in Seq(OwnChunk)
    BY <1>1, <1>2 DEF ServerReads, Wires
  <2>2. m \in OwnMessage /\ Tail(toServer[s]) \in Seq(OwnMessage)
    BY <2>1, HeadTailProperties
  <2>3. /\ UNCHANGED <<up, stops, closes, client>>
        /\ \/ /\ gone' = gone \cup {s}
              /\ toServer' = [toServer EXCEPT ![s] = <<>>]
              /\ UNCHANGED <<running, toClient>>
           \/ /\ toServer' = [toServer EXCEPT ![s] = Tail(@)]
              /\ gone' = gone
              /\ \/ running' = [running EXCEPT ![s] = @ \cup {m}] /\ toClient' = toClient
                 \/ toClient' = [toClient EXCEPT ![s] = @ \o Chunks(m)] /\ running' = running
    BY <1>2 DEF ServerReads
  <2> HIDE DEF m
  <2>4. toClient[s] \o Chunks(m) \in Seq(OwnChunk)
    BY <2>1, <2>2, ChunksAreOwn, ConcatProperties
  <2>5. /\ toServer \in [Socket -> Seq(OwnMessage)] /\ toClient \in [Socket -> Seq(OwnChunk)]
        /\ running \in [Socket -> SUBSET OwnMessage] /\ gone \subseteq Socket
    BY <1>1 DEF Refs, Wires
  <2>6. toServer' \in [Socket -> Seq(OwnMessage)]
    BY <2>2, <2>3, <2>5, EmptySeq
  <2>7. running' \in [Socket -> SUBSET OwnMessage]
    BY <2>2, <2>3, <2>5
  <2>8. toClient' \in [Socket -> Seq(OwnChunk)]
    BY <2>3, <2>4, <2>5
  <2>9. gone' \subseteq Socket
    BY <2>3, <2>5
  <2> QED BY <1>1, <2>3, <2>6, <2>7, <2>8, <2>9, ServerKeeps DEF Refs
<1>3. ASSUME NEW s \in Socket, NEW m \in Message, ServerAnswers(s, m) PROVE ChannelInd'
  <2>1. /\ m \in OwnMessage
        /\ running' = [running EXCEPT ![s] = @ \ {m}]
        /\ toClient' = IF s \in gone THEN toClient ELSE [toClient EXCEPT ![s] = @ \o Chunks(m)]
        /\ UNCHANGED <<up, stops, closes, gone, toServer, client>>
    BY <1>1, <1>3 DEF ServerAnswers, Wires
  <2>2. toClient[s] \o Chunks(m) \in Seq(OwnChunk)
    BY <1>1, <2>1, ChunksAreOwn, ConcatProperties DEF Wires
  <2>3. /\ toServer' \in [Socket -> Seq(OwnMessage)]
        /\ running' \in [Socket -> SUBSET OwnMessage]
        /\ toClient' \in [Socket -> Seq(OwnChunk)]
    BY <1>1, <2>1, <2>2 DEF Wires
  <2> QED BY <1>1, <2>1, <2>3, ServerKeeps DEF Refs
<1>4. CASE DaemonStops
  <2>1. /\ toServer' = [s \in Socket |-> <<>>]
        /\ running' = [s \in Socket |-> {}]
        /\ UNCHANGED <<closes, toClient, client>>
    BY <1>4 DEF DaemonStops
  <2>2. /\ toServer' \in [Socket -> Seq(OwnMessage)]
        /\ running' \in [Socket -> SUBSET OwnMessage]
        /\ toClient' \in [Socket -> Seq(OwnChunk)]
    BY <1>1, <2>1, EmptySeq DEF Wires
  <2>3. up' \in BOOLEAN /\ stops' \in 0 .. MaxStops /\ gone' \subseteq Socket
    <3>1. up' = FALSE /\ stops < MaxStops /\ stops' = stops + 1
      BY <1>4 DEF DaemonStops
    <3>2. stops' \in 0 .. MaxStops
      BY <1>1, <3>1, ChannelAssumption DEF Refs
    <3>3. gone' \subseteq Socket
      BY <1>1, <1>4 DEF DaemonStops, Refs
    <3> QED BY <3>1, <3>2, <3>3
  <2> QED BY <2>1, <2>2, <2>3, ServerKeeps
<1>5. CASE DaemonStarts
  <2>1. /\ up' \in BOOLEAN
        /\ UNCHANGED <<stops, closes, gone, toServer, toClient, running, client>>
    BY <1>5 DEF DaemonStarts
  <2> QED BY <1>1, <2>1, ServerKeeps DEF Refs, Wires
<1> QED BY <1>2, <1>3, <1>4, <1>5 DEF ServerStep

-----------------------------------------------------------------------------
(* The invariant. *)

(* It holds before the first call. *)
LEMMA InitHasChannelInd == Init => ChannelInd
<1> SUFFICES ASSUME Init PROVE ChannelInd
  OBVIOUS
<1>1. Refs
  BY ChannelAssumption, EmptySeq DEF Init, Refs
<1>2. Book
  BY DEF Init, Book
<1>3. Lines
  BY DEF Init, Lines
<1>4. Wires
  BY EmptySeq DEF Init, Wires
<1>5. AnswersAreOwn
  BY DEF Init, AnswersAreOwn
<1> QED BY <1>1, <1>2, <1>3, <1>4, <1>5 DEF ChannelInd

(* Every step keeps it. *)
LEMMA NextKeepsChannelInd == ChannelInd /\ [Next]_vars => ChannelInd'
<1> SUFFICES ASSUME ChannelInd, [Next]_vars PROVE ChannelInd'
  OBVIOUS
<1>1. ASSUME NEW c \in Call, RequestNow(c) \/ RequestJoins(c) \/ RequestConnects(c) \/ Timeout(c)
      PROVE  ChannelInd'
  BY <1>1, RequestNowKeeps, RequestWaitsKeeps, TimeoutKeeps
<1>2. CASE Close
  BY <1>2, CloseKeeps
<1>3. ASSUME NEW s \in Socket,
             Connected(s) \/ SocketError(s) \/ SocketTimeout(s) \/ SocketClose(s) \/ Data(s)
      PROVE  ChannelInd'
  BY <1>3, ConnectedKeeps, SocketErrorKeeps, SocketTimeoutKeeps, SocketCloseKeeps, DataKeeps
<1>4. CASE ServerStep
  BY <1>4, ServerStepKeeps
<1>5. CASE UNCHANGED vars
  <2>1. UNCHANGED <<up, stops, closes, gone, toServer, toClient, running, client>>
    BY <1>5 DEF vars
  <2> QED BY <2>1, ServerKeeps DEF ChannelInd, Refs, Wires
<1> QED BY <1>1, <1>2, <1>3, <1>4, <1>5 DEF Next, ClientStep

(* Numbers belong to one call each, and what is under way bears the number *)
(* of the call it is about, whatever fails, stops or is closed.            *)
THEOREM ChannelIsNumbered == Spec => []ChannelInd
BY InitHasChannelInd, NextKeepsChannelInd, PTL DEF Spec

(* A call resolves to the answer to that very call, for any number of      *)
(* calls, sockets, pieces, stops and closes.                               *)
THEOREM AnswersNeverCross == Spec => []AnswersAreOwn
<1>1. ChannelInd => AnswersAreOwn
  BY DEF ChannelInd
<1> QED BY <1>1, ChannelIsNumbered, PTL

(* The map holds exactly the calls that were sent and have not settled,    *)
(* each under its number, and the state has its types.                     *)
THEOREM ChannelInvariant == Spec => []ChannelInv
<1>1. ChannelInd => ChannelInv
  <2> SUFFICES ASSUME ChannelInd PROVE ChannelInv
    OBVIOUS
  <2>1. TypeOK
    BY IndTypes DEF ChannelInd
  <2>2. \A c \in Call : state[c] = "sent" <=> c \in Tracked
    BY TrackedAreSent DEF ChannelInd
  <2>3. \A i \in Id : pending[i] # None => number[pending[i]] = i
    BY DEF ChannelInd, Book
  <2> QED BY <2>1, <2>2, <2>3 DEF ChannelInv, SentCallsAreTracked
<1> QED BY <1>1, ChannelIsNumbered, PTL

===============================================================================
