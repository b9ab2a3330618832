---------------------------- MODULE ControlChannel ----------------------------
(***************************************************************************)
(* The control channel: the client that every command, hook and tool uses  *)
(* (control-client.ts) and the socket server of the daemon (control.ts).   *)
(*                                                                         *)
(* One client object multiplexes its calls over a connection it opens when *)
(* it needs one.  Its steps are the callbacks of its sockets and timers.   *)
(* The net module is external: a socket that fails has an error event and, *)
(* some steps later, a close event; bytes arrive in order and in pieces.   *)
(* A message is the number and the call it is about; what the calls do is  *)
(* modelled with the components that handle them.                          *)
(***************************************************************************)
EXTENDS Naturals, Sequences, FiniteSets

CONSTANTS
    Call,           \* calls the owner of the client makes
    Socket,         \* sockets the client may open
    Pieces,         \* Pieces[c]: in how many chunks the answer to c arrives
    Slow,           \* calls whose handlers await: replays and reloads
    Oversized,      \* calls whose message is longer than MAX_BUFFER_SIZE
    MaxBuffer,      \* MAX_BUFFER_SIZE, in chunks of an answer
    MaxStops,       \* bound: how often the daemon stops
    MaxCloses,      \* bound: how often the owner closes the client
    None

ASSUME ChannelAssumption ==
    /\ IsFiniteSet(Call)
    /\ Pieces \in [Call -> Nat \ {0}]
    /\ Slow \subseteq Call /\ Oversized \subseteq Call
    /\ MaxBuffer \in Nat \ {0} /\ MaxStops \in Nat /\ MaxCloses \in Nat
    /\ None \notin Call \cup Socket

VARIABLES
    up,             \* the daemon listens
    stops, closes,  \* bounded counters
    sock,           \* the client's end of each socket
    gone,           \* sockets whose other end is gone
    current,        \* this.socket
    connecting,     \* the socket whose promise is this.connectPromise
    requestId,
    state,          \* of each call: what its promise has come to
    number,         \* the id a call was sent with, 0 before
    waiting,        \* calls that await the promise of each socket, in order
    pending,        \* this.pending: the call of each id
    buffer,         \* this.buffer, in chunks
    toServer, toClient,
    running,        \* messages whose handlers await
    answer          \* history: the call that what a call resolved to was about

client == <<sock, current, connecting, requestId, state, number, waiting, pending, buffer, answer>>
vars == <<up, stops, closes, gone, toServer, toClient, running, client>>

Id == 1 .. Cardinality(Call)
Message == [id : Id, of : Call]
Chunk == [id : Id, of : Call, part : Nat \ {0}, last : BOOLEAN]

(* this.socket && !this.socket.destroyed *)
Usable == current \in {s \in Socket : sock[s] \notin {"failed", "closed"}}

-----------------------------------------------------------------------------
(* Statements of the client. *)

(* Every entry of the map is rejected and taken out: rejectAllPending. *)
Tracked == {pending[i] : i \in Id} \ {None}
RejectAllPending(also) ==
    /\ state' = [c \in Call |-> IF c \in Tracked \cup also THEN "failed" ELSE state[c]]
    /\ pending' = [i \in Id |-> None]

(* Mutant of HandleDisconnect: the entries go and nobody hears of it.      *)
HandleDisconnect_Forgets(also) ==
    /\ current' = None
    /\ connecting' = None
    /\ buffer' = <<>>
    /\ state' = [c \in Call |-> IF c \in also THEN "failed" ELSE state[c]]
    /\ pending' = [i \in Id |-> None]
    /\ requestId' = requestId

(* handleDisconnect, and the rejection of a promise for a connection. *)
HandleDisconnect(also) ==
    /\ current' = None
    /\ connecting' = None
    /\ buffer' = <<>>
    /\ RejectAllPending(also)
    /\ requestId' = requestId

(* The calls that await the promise of socket s.  Its rejection is skipped *)
(* when connectPromise is null, whosever promise that was.                 *)
Awaits(s) == {waiting[s][n] : n \in DOMAIN waiting[s]}
Rejected(s) == IF connecting # None THEN Awaits(s) ELSE {}

(* The promise of socket s is settled. *)
Drop(s) == waiting' = [waiting EXCEPT ![s] = <<>>]

(* request() from its await on, for calls in order. *)
Write(calls, s) ==
    LET Nth(c) == CHOOSE n \in DOMAIN calls : calls[n] = c
        IdOf(c) == requestId + Nth(c)
        sent == {calls[n] : n \in DOMAIN calls}
    IN  /\ requestId' = requestId + Len(calls)
        /\ number' = [c \in Call |-> IF c \in sent THEN IdOf(c) ELSE number[c]]
        /\ state' = [c \in Call |-> IF c \in sent THEN "sent" ELSE state[c]]
        /\ pending' = [i \in Id |-> IF i - requestId \in DOMAIN calls THEN calls[i - requestId] ELSE pending[i]]
        /\ toServer' = IF s \in gone THEN toServer
                       ELSE [toServer EXCEPT ![s] = @ \o [n \in DOMAIN calls |->
                                [id |-> requestId + n, of |-> calls[n]]]]

-----------------------------------------------------------------------------
(* Calls. *)

(* request(): the open socket is used, a connection attempt is joined, or  *)
(* one is begun (getSocket).                                               *)
RequestNow(c) ==
    /\ state[c] = "idle"
    /\ Usable
    /\ Write(<<c>>, current)
    /\ UNCHANGED <<up, stops, closes, sock, gone, current, connecting, waiting, buffer,
                   toClient, running, answer>>

Await(c, s) ==
    /\ state' = [state EXCEPT ![c] = "waiting"]
    /\ waiting' = [waiting EXCEPT ![s] = Append(@, c)]
    /\ UNCHANGED <<up, stops, closes, gone, current, requestId, number, pending, buffer,
                   toServer, toClient, running, answer>>

RequestJoins(c) ==
    /\ state[c] = "idle"
    /\ ~ Usable
    /\ connecting # None
    /\ Await(c, connecting)
    /\ UNCHANGED <<sock, connecting>>

RequestConnects(c) ==
    /\ state[c] = "idle"
    /\ ~ Usable
    /\ connecting = None
    /\ \E s \in Socket :
          /\ sock[s] = "unused"
          /\ sock' = [sock EXCEPT ![s] = "connecting"]
          /\ connecting' = s
          /\ Await(c, s)

(* The timer of a call. *)
Timeout(c) ==
    /\ c \in Tracked
    /\ pending' = [i \in Id |-> IF pending[i] = c THEN None ELSE pending[i]]
    /\ state' = [state EXCEPT ![c] = "failed"]
    /\ UNCHANGED <<up, stops, closes, sock, gone, current, connecting, requestId, number,
                   waiting, buffer, toServer, toClient, running, answer>>

(* Mutant of Close: the numbers start again. *)
Close_Renumbers ==
    /\ closes < MaxCloses
    /\ closes' = closes + 1
    /\ sock' = IF current = None THEN sock ELSE [sock EXCEPT ![current] = "ended"]
    /\ current' = None
    /\ connecting' = None
    /\ buffer' = <<>>
    /\ RejectAllPending({})
    /\ requestId' = 0
    /\ UNCHANGED <<up, stops, gone, number, waiting, toServer, toClient,
                   running, answer>>

(* close(). *)
Close ==
    /\ closes < MaxCloses
    /\ closes' = closes + 1
    /\ sock' = IF current = None THEN sock ELSE [sock EXCEPT ![current] = "ended"]
    /\ current' = None
    /\ connecting' = None
    /\ buffer' = <<>>
    /\ RejectAllPending({})
    /\ UNCHANGED <<up, stops, gone, requestId, number, waiting, toServer, toClient,
                   running, answer>>

-----------------------------------------------------------------------------
(* Events of the client's sockets. *)

Connected(s) ==
    /\ sock[s] = "connecting"
    /\ up
    /\ sock' = [sock EXCEPT ![s] = "open"]
    /\ current' = s
    /\ connecting' = None
    /\ buffer' = <<>>
    /\ Write(waiting[s], s)
    /\ Drop(s)
    /\ UNCHANGED <<up, stops, closes, gone, toClient, running, answer>>

(* The error event, of a connection attempt or of an open connection. *)
SocketError(s) ==
    /\ \/ sock[s] = "connecting" /\ ~ up
       \/ sock[s] \in {"open", "ended"} /\ s \in gone
    /\ sock' = [sock EXCEPT ![s] = "failed"]
    /\ IF connecting # None THEN Drop(s) ELSE waiting' = waiting
    /\ HandleDisconnect(Rejected(s))
    /\ UNCHANGED <<up, stops, closes, gone, number, toServer, toClient, running, answer>>

(* The timeout of a socket, which tells by connectPromise whether that     *)
(* socket is still connecting.                                             *)
SocketTimeout(s) ==
    /\ sock[s] \in {"connecting", "open", "ended"}
    /\ connecting # None
    /\ connecting' = None
    /\ sock' = [sock EXCEPT ![s] = "failed"]
    /\ gone' = gone \cup {s}
    /\ Drop(s)
    /\ state' = [c \in Call |-> IF c \in Awaits(s) THEN "failed" ELSE state[c]]
    /\ UNCHANGED <<up, stops, closes, current, requestId, number, pending, buffer,
                   toServer, toClient, running, answer>>

(* The close event: of a socket that failed, that the daemon has ended, or *)
(* that close() has ended.                                                 *)
SocketClose(s) ==
    /\ \/ sock[s] = "failed"
       \/ sock[s] = "open" /\ s \in gone /\ toClient[s] = <<>>
       \/ sock[s] = "ended" /\ toClient[s] = <<>>
    /\ sock' = [sock EXCEPT ![s] = "closed"]
    /\ gone' = gone \cup {s}
    /\ HandleDisconnect({})
    /\ UNCHANGED <<up, stops, closes, number, waiting, toServer, toClient, running, answer>>

(* A line can be parsed if it is one answer, whole. *)
Parses(line) ==
    \A n \in DOMAIN line : line[n].of = line[1].of /\ line[n].id = line[1].id /\ line[n].part = n

(* An answer to a call that is tracked settles it; others are skipped. *)
Settle(line) ==
    LET id == line[1].id
        c == pending[id]
    IN  IF Parses(line) /\ c # None
        THEN /\ pending' = [pending EXCEPT ![id] = None]
             /\ state' = [state EXCEPT ![c] = "answered"]
             /\ answer' = [answer EXCEPT ![c] = line[1].of]
        ELSE UNCHANGED <<pending, state, answer>>

(* handleData: all sockets share the buffer, and one that grows too long   *)
(* has the current socket destroyed.                                       *)
Data(s) ==
    /\ sock[s] \in {"open", "ended"}
    /\ toClient[s] # <<>>
    /\ toClient' = [toClient EXCEPT ![s] = Tail(@)]
    /\ LET grown == Append(buffer, Head(toClient[s]))
       IN  IF Len(grown) > MaxBuffer
           THEN /\ sock' = IF current = None THEN sock ELSE [sock EXCEPT ![current] = "failed"]
                /\ gone' = IF current = None THEN gone ELSE gone \cup {current}
                /\ HandleDisconnect({})
                /\ UNCHANGED answer
           ELSE /\ UNCHANGED <<sock, gone, current, connecting, requestId>>
                /\ IF Head(toClient[s]).last
                   THEN buffer' = <<>> /\ Settle(grown)
                   ELSE buffer' = grown /\ UNCHANGED <<pending, state, answer>>
    /\ UNCHANGED <<up, stops, closes, number, waiting, toServer, running>>

-----------------------------------------------------------------------------
(* The server. *)

Chunks(m) == [n \in 1 .. Pieces[m.of] |->
                [id |-> m.id, of |-> m.of, part |-> n, last |-> n = Pieces[m.of]]]

(* A message is read: a connection whose buffer grows too long is dropped, *)
(* a handler that does not await is answered at once.                      *)
ServerReads(s) ==
    /\ toServer[s] # <<>> /\ s \notin gone
    /\ LET m == Head(toServer[s])
       IN  IF m.of \in Oversized
           THEN /\ gone' = gone \cup {s}
                /\ toServer' = [toServer EXCEPT ![s] = <<>>]
                /\ UNCHANGED <<running, toClient>>
           ELSE /\ toServer' = [toServer EXCEPT ![s] = Tail(@)]
                /\ gone' = gone
                /\ IF m.of \in Slow
                   THEN running' = [running EXCEPT ![s] = @ \cup {m}] /\ toClient' = toClient
                   ELSE toClient' = [toClient EXCEPT ![s] = @ \o Chunks(m)] /\ running' = running
    /\ UNCHANGED <<up, stops, closes, client>>

(* A handler that awaited ends. *)
ServerAnswers(s, m) ==
    /\ m \in running[s]
    /\ running' = [running EXCEPT ![s] = @ \ {m}]
    /\ toClient' = IF s \in gone THEN toClient
                   ELSE [toClient EXCEPT ![s] = @ \o Chunks(m)]
    /\ UNCHANGED <<up, stops, closes, gone, toServer, client>>

DaemonStops ==
    /\ up /\ stops < MaxStops
    /\ up' = FALSE
    /\ stops' = stops + 1
    /\ gone' = gone \cup {s \in Socket : sock[s] \in {"open", "ended"}}
    /\ toServer' = [s \in Socket |-> <<>>]
    /\ running' = [s \in Socket |-> {}]
    /\ UNCHANGED <<closes, toClient, client>>

DaemonStarts ==
    /\ ~ up
    /\ up' = TRUE
    /\ UNCHANGED <<stops, closes, gone, toServer, toClient, running, client>>

-----------------------------------------------------------------------------
Init ==
    /\ up = TRUE
    /\ stops = 0 /\ closes = 0
    /\ sock = [s \in Socket |-> "unused"]
    /\ gone = {}
    /\ current = None /\ connecting = None
    /\ requestId = 0
    /\ state = [c \in Call |-> "idle"]
    /\ number = [c \in Call |-> 0]
    /\ waiting = [s \in Socket |-> <<>>]
    /\ pending = [i \in Id |-> None]
    /\ buffer = <<>>
    /\ toServer = [s \in Socket |-> <<>>] /\ toClient = [s \in Socket |-> <<>>]
    /\ running = [s \in Socket |-> {}]
    /\ answer = [c \in Call |-> None]

ClientStep ==
    \/ \E c \in Call : RequestNow(c) \/ RequestJoins(c) \/ RequestConnects(c) \/ Timeout(c)
    \/ Close
    \/ \E s \in Socket : Connected(s) \/ SocketError(s) \/ SocketTimeout(s) \/ SocketClose(s) \/ Data(s)

ServerStep ==
    \/ \E s \in Socket : ServerReads(s) \/ \E m \in Message : ServerAnswers(s, m)
    \/ DaemonStops
    \/ DaemonStarts

Next == ClientStep \/ ServerStep

(* Timers fire, and a socket's events come. *)
Fairness ==
    /\ \A c \in Call : WF_vars(Timeout(c))
    /\ \A s \in Socket : WF_vars(Connected(s) \/ SocketError(s)) /\ WF_vars(SocketClose(s))

Spec == Init /\ [][Next]_vars /\ Fairness

-----------------------------------------------------------------------------
(* Properties. *)

(* The shape of the state. *)
TypeOK ==
    /\ up \in BOOLEAN
    /\ stops \in 0 .. MaxStops /\ closes \in 0 .. MaxCloses
    /\ sock \in [Socket -> {"unused", "connecting", "open", "ended", "failed", "closed"}]
    /\ gone \subseteq Socket
    /\ current \in Socket \cup {None} /\ connecting \in Socket \cup {None}
    /\ requestId \in Nat
    /\ state \in [Call -> {"idle", "waiting", "sent", "answered", "failed"}]
    /\ number \in [Call -> Nat]
    /\ waiting \in [Socket -> Seq(Call)]
    /\ pending \in [Id -> Call \cup {None}]
    /\ buffer \in Seq(Chunk)
    /\ toServer \in [Socket -> Seq(Message)]
    /\ toClient \in [Socket -> Seq(Chunk)]
    /\ running \in [Socket -> SUBSET Message]
    /\ answer \in [Call -> Call \cup {None}]

(* A call resolves to the answer to that very call, however late answers   *)
(* come, on whichever of several open connections, and over restarts.      *)
AnswersAreOwn == \A c \in Call : state[c] = "answered" => answer[c] = c

(* A call that was sent and has not settled is in the map under its id, so *)
(* that its answer, its timer or a disconnect will find it; and nothing    *)
(* else is in the map.                                                     *)
SentCallsAreTracked ==
    /\ \A c \in Call : state[c] = "sent" <=> c \in Tracked
    /\ \A i \in Id : pending[i] # None => number[pending[i]] = i

ChannelInv == TypeOK /\ SentCallsAreTracked

(* Every call that was sent settles, whatever becomes of its connection.   *)
SentCallsSettle ==
    \A c \in Call : state[c] = "sent" ~> state[c] \in {"answered", "failed"}

=============================================================================
