--------------------------- MODULE InterceptedProxy ---------------------------
(***************************************************************************)
(* A request on its way through the proxy (proxy.ts) and the interceptor   *)
(* runner (interceptor-runner.ts).  The callbacks of the proxy, the runner *)
(* and the handlers share one thread: a step runs to its next await, and   *)
(* clients, upstream servers, handlers and timers act in between.          *)
(*                                                                         *)
(* A handler is the user's code: it may call forward(), wait for it or     *)
(* not, and return or throw at any time.  Clients, upstream servers and    *)
(* the mockttp library between them and the callbacks are external.        *)
(* Headers and bodies are left out; a response is what it stems from.      *)
(***************************************************************************)
EXTENDS Naturals, Sequences, FiniteSets

CONSTANTS
    Req,            \* requests: the ids of mockttp and of the table, one to one
    Interceptors,   \* what the loader has loaded, in file order
    None

Interceptor == {Interceptors[n] : n \in 1 .. Len(Interceptors)}

(* What the request table tells of a captured request. *)
Row == [by       : Interceptor \cup {None},
        type     : {None, "mocked", "modified"},
        response : {None, "mock", "upstream", "override"}]

ASSUME ProxyAssumption ==
    /\ Interceptors \in Seq(STRING)
    /\ None \notin Req \cup Interceptor \cup Row
    /\ None \notin {"mocked", "modified", "mock", "upstream", "override"}

VARIABLES
    alive,          \* the daemon's process runs
    phase,          \* the await at which the callbacks of a request stand
    client,         \* what the client has got, or that it went away
    requestInfo,    \* requests the proxy will correlate a response with
    trying,         \* position of the interceptor being matched
    handler,        \* the handler of a request and the promises it shares
    pending,        \* requests whose handler waits for the upstream response
    stale,          \* those that have been pending for too long
    row,            \* what the request table says of a request
    captured,       \* requests written to the table
    events          \* events logged that tell how an interception ended

vars == <<alive, phase, client, requestInfo, trying, handler, pending, stale,
          row, captured, events>>

(* What a handler's promise can come to, after forward() and without.      *)
Result == {"nothing", "invalid", "threw", "upstream", "override"}

(* The kinds of events that tell how an interception ended; the log's     *)
(* other kinds are left out.                                               *)
Outcome == {"mocked", "modified", "observed", "handler_timeout", "handler_error",
            "invalid_response"}

(* A handler's promise, with what handleRequest closes over, and the       *)
(* promise that its forward() hands out.                                   *)
Handler == [run       : {"none", "running", "done"},
            forwarded : BOOLEAN,
            attached  : BOOLEAN,    \* someone awaits the promise of forward()
            completed : BOOLEAN,    \* forward() is no longer allowed
            upstream  : {"open", "resolved", "rejected"},
            result    : Result \cup {None}]

NoHandler == [run |-> "none", forwarded |-> FALSE, attached |-> FALSE,
              completed |-> FALSE, upstream |-> "open", result |-> None]

Fresh == [by |-> None, type |-> None, response |-> None]

-----------------------------------------------------------------------------
(* Statements of the callbacks, as the values they give to the variables.  *)

(* The UPDATEs of interception and response find no row once it is deleted. *)
Intercepted(w, by, type) == IF w = None THEN None ELSE [w EXCEPT !.by = by, !.type = type]
Responded(w, response) == IF w = None THEN None ELSE [w EXCEPT !.response = response]

Logged(r, kinds) == events' = [events EXCEPT ![r] = @ \cup kinds]

Delivered(r, what) ==
    client' = [client EXCEPT ![r] = IF @ = "waiting" THEN what ELSE @]

MovesTo(r, where) == phase' = [phase EXCEPT ![r] = where]

Name(r) == Interceptors[trying[r]]

(* Rejecting a promise to which nothing reacts ends a Node process. *)
Unhandled(S) == \E r \in S : ~ handler[r].attached

(* rejectUpstream for a set of pending entries. *)
Rejected(S) ==
    /\ handler' = [r \in Req |-> IF r \in S THEN [handler[r] EXCEPT !.upstream = "rejected"]
                                 ELSE handler[r]]
    /\ alive' = ~ Unhandled(S)

-----------------------------------------------------------------------------
(* beforeRequest. *)

Arrive(r) ==
    /\ phase[r] = "new"
    /\ MovesTo(r, "decoding")
    /\ UNCHANGED <<alive, client, requestInfo, trying, handler, pending, stale, row,
                   captured, events>>

(* saveRequest and requestInfo.set, up to the first await of handleRequest *)
(* or, without a runner or without interceptors, to the end.               *)
Save(r) ==
    /\ phase[r] = "decoding"
    /\ row' = [row EXCEPT ![r] = Fresh]
    /\ captured' = captured \cup {r}
    /\ requestInfo' = requestInfo \cup {r}
    /\ \/ /\ Interceptors # <<>>
          /\ trying' = [trying EXCEPT ![r] = 1]
          /\ MovesTo(r, "matching")
       \/ /\ trying' = trying
          /\ MovesTo(r, "upstream")
    /\ UNCHANGED <<alive, client, handler, pending, stale, events>>

(* updateRequestReplay throws: beforeRequest rejects before the request is *)
(* tracked, and mockttp answers with an error.                             *)
SaveFails(r) ==
    /\ phase[r] = "decoding"
    /\ row' = [row EXCEPT ![r] = Fresh]
    /\ captured' = captured \cup {r}
    /\ MovesTo(r, "failed")
    /\ Delivered(r, "error")
    /\ UNCHANGED <<alive, requestInfo, trying, handler, pending, stale, events>>

(* findMatchingInterceptor: the match function of one interceptor says no, *)
(* throws, or is given up after its timeout.                               *)
NoMatch(r) ==
    /\ phase[r] = "matching"
    /\ IF trying[r] < Len(Interceptors)
       THEN trying' = [trying EXCEPT ![r] = @ + 1] /\ phase' = phase
       ELSE trying' = trying /\ MovesTo(r, "upstream")
    /\ UNCHANGED <<alive, client, requestInfo, handler, pending, stale, row, captured, events>>

(* The handler is called, and returns a promise. *)
Match(r) ==
    /\ phase[r] = "matching"
    /\ handler' = [handler EXCEPT ![r].run = "running"]
    /\ MovesTo(r, "racing")
    /\ UNCHANGED <<alive, client, requestInfo, trying, pending, stale, row, captured, events>>

(* The handler is called, and throws before it returns a promise: nothing  *)
(* catches that in handleRequest.                                          *)
MatchThrows(r) ==
    /\ phase[r] = "matching"
    /\ MovesTo(r, "failed")
    /\ Delivered(r, "error")
    /\ UNCHANGED <<alive, requestInfo, trying, handler, pending, stale, row, captured, events>>

(* The handler is called, and returns something that is no promise. *)
MatchNoPromise(r) ==
    /\ phase[r] = "matching"
    /\ Logged(r, {"handler_error"})
    /\ handler' = [handler EXCEPT ![r].run = "done", ![r].result = "threw",
                                  ![r].completed = TRUE]
    /\ MovesTo(r, "upstream")
    /\ UNCHANGED <<alive, client, requestInfo, trying, pending, stale, row, captured>>

-----------------------------------------------------------------------------
(* The race of handleRequest: the handler's end, its first forward(), or   *)
(* the timeout.  beforeRequest runs to its end in the same step.           *)

Passes(r, kinds) ==
    /\ Logged(r, kinds)
    /\ MovesTo(r, "upstream")
    /\ UNCHANGED <<client, row>>

Mocks(r) ==
    /\ Logged(r, {"mocked"})
    /\ row' = [row EXCEPT ![r] = Responded(Intercepted(@, Name(r), "mocked"), "mock")]
    /\ Delivered(r, "mock")
    /\ MovesTo(r, "done")

(* The handler ended first; a rejection counts as a timeout. *)
RaceEnds(r, result) ==
    \/ result = "nothing"  /\ Passes(r, {})
    \/ result = "invalid"  /\ Passes(r, {"invalid_response"})
    \/ result = "threw"    /\ Passes(r, {"handler_timeout"})
    \/ result = "override" /\ Mocks(r)

(* The handler calls forward() and ends before its first await: the race   *)
(* looks at its end first, and forward()'s promise is never settled.       *)
MatchForwardsAndEnds(r, result) ==
    /\ phase[r] = "matching"
    /\ handler' = [handler EXCEPT ![r].run = "done", ![r].result = result,
                                  ![r].forwarded = TRUE, ![r].completed = TRUE]
    /\ RaceEnds(r, result)
    /\ UNCHANGED <<alive, requestInfo, trying, pending, stale, captured>>

HandlerEndsRace(r, result) ==
    /\ phase[r] = "racing"
    /\ handler' = [handler EXCEPT ![r].run = "done", ![r].result = result,
                                  ![r].completed = TRUE]
    /\ RaceEnds(r, result)
    /\ UNCHANGED <<alive, requestInfo, trying, pending, stale, captured>>

(* The first forward() of a handler that was not given up: the entry is   *)
(* stored, and the proxy, which awaits the race, goes on.                  *)
Forward(r, attached) ==
    /\ handler[r].run # "none"
    /\ ~ handler[r].completed
    /\ ~ handler[r].forwarded
    /\ handler' = [handler EXCEPT ![r].forwarded = TRUE, ![r].attached = attached]
    /\ pending' = pending \cup {r}
    /\ IF phase[r] = "racing"
       THEN /\ row' = [row EXCEPT ![r] = Intercepted(@, Name(r), None)]
            /\ MovesTo(r, "upstream")
       ELSE UNCHANGED <<row, phase>>
    /\ UNCHANGED <<alive, client, requestInfo, trying, stale, captured, events>>

(* A later forward() hands out the same promise. *)
ForwardAgain(r) ==
    /\ handler[r].forwarded
    /\ ~ handler[r].completed
    /\ ~ handler[r].attached
    /\ handler' = [handler EXCEPT ![r].attached = TRUE]
    /\ UNCHANGED <<alive, phase, client, requestInfo, trying, pending, stale, row,
                   captured, events>>

(* A forward() of a handler that was given up, or of code it left behind:  *)
(* it gets a rejected promise.                                             *)
ForwardTooLate(r, attached) ==
    /\ handler[r].run # "none"
    /\ handler[r].completed
    /\ alive' = attached
    /\ UNCHANGED <<phase, client, requestInfo, trying, handler, pending, stale, row,
                   captured, events>>

(* Mutant of RaceTimeout: forward() stays allowed. *)
RaceTimeout_StaysOpen(r) ==
    /\ phase[r] = "racing"
    /\ Logged(r, {"handler_timeout"})
    /\ MovesTo(r, "upstream")
    /\ UNCHANGED <<alive, client, requestInfo, trying, handler, pending, stale, row, captured>>

RaceTimeout(r) ==
    /\ phase[r] = "racing"
    /\ handler' = [handler EXCEPT ![r].completed = TRUE]
    /\ Logged(r, {"handler_timeout"})
    /\ MovesTo(r, "upstream")
    /\ UNCHANGED <<alive, client, requestInfo, trying, pending, stale, row, captured>>

-----------------------------------------------------------------------------
(* beforeResponse. *)

(* The request is correlated, up to the await of the body's decoding; an   *)
(* answer to a request that is not tracked passes as it is.                *)
UpstreamResponds(r) ==
    /\ phase[r] = "upstream"
    /\ requestInfo' = requestInfo \ {r}
    /\ IF r \in requestInfo
       THEN MovesTo(r, "responding") /\ UNCHANGED client
       ELSE MovesTo(r, "done") /\ Delivered(r, "upstream")
    /\ UNCHANGED <<alive, trying, handler, pending, stale, row, captured, events>>

(* No beforeResponse follows. *)
UpstreamFails(r) ==
    /\ phase[r] = "upstream"
    /\ MovesTo(r, "failed")
    /\ Delivered(r, "error")
    /\ UNCHANGED <<alive, requestInfo, trying, handler, pending, stale, row, captured, events>>

(* Mutants of Relays and Overrides: the credit of the interceptor is lost; *)
(* the row keeps what the upstream server sent.                            *)
Relays_DropsCredit(r, w) ==
    /\ row' = [row EXCEPT ![r] = Responded(Intercepted(w, None, None), "upstream")]
    /\ Delivered(r, "upstream")
    /\ MovesTo(r, "done")

Overrides_StoresUpstream(r, result) ==
    /\ row' = [row EXCEPT ![r] = Responded(Intercepted(@, Name(r), "modified"), "upstream")]
    /\ Delivered(r, result)
    /\ MovesTo(r, "done")

(* The end of beforeResponse without an override. *)
Relays(r, w) ==
    /\ row' = [row EXCEPT ![r] = Responded(w, "upstream")]
    /\ Delivered(r, "upstream")
    /\ MovesTo(r, "done")

Overrides(r, result) ==
    /\ row' = [row EXCEPT ![r] = Responded(Intercepted(@, Name(r), "modified"), result)]
    /\ Delivered(r, result)
    /\ MovesTo(r, "done")

(* handleResponse and beforeResponse once the handler has ended. *)
ResponseEnds(r, result) ==
    \/ /\ result = "nothing"
       /\ Logged(r, {"observed"})
       /\ Relays(r, Intercepted(row[r], Name(r), None))
    \/ /\ result = "invalid"
       /\ Logged(r, {"invalid_response"})
       /\ Relays(r, Intercepted(row[r], Name(r), None))
    \/ /\ result = "threw"
       /\ Logged(r, {"handler_timeout"})
       /\ Relays(r, row[r])
    \/ /\ result \in {"upstream", "override"}
       /\ Logged(r, {"modified"})
       /\ Overrides(r, result)

(* handleResponse: without an entry the response is recorded and relayed.  *)
RespondPlain(r) ==
    /\ phase[r] = "responding"
    /\ r \notin pending
    /\ Relays(r, row[r])
    /\ UNCHANGED <<alive, requestInfo, trying, handler, pending, stale, captured, events>>

(* With one, forward() returns, and the handler has its remaining time.    *)
Respond(r) ==
    /\ phase[r] = "responding"
    /\ r \in pending
    /\ pending' = pending \ {r}
    /\ stale' = stale \ {r}
    /\ handler' = [handler EXCEPT ![r].upstream = "resolved"]
    /\ \/ /\ handler[r].run = "running"
          /\ MovesTo(r, "finishing")
          /\ UNCHANGED <<client, row, events>>
       \/ /\ handler[r].run = "done"
          /\ ResponseEnds(r, handler[r].result)
    /\ UNCHANGED <<alive, requestInfo, trying, captured>>

HandlerEndsResponse(r, result) ==
    /\ phase[r] = "finishing"
    /\ result = "upstream" => handler[r].attached
    /\ handler' = [handler EXCEPT ![r].run = "done", ![r].result = result]
    /\ ResponseEnds(r, result)
    /\ UNCHANGED <<alive, requestInfo, trying, pending, stale, captured>>

(* Mutants of FinishTimeout: the row says modified all the same; a handler *)
(* that waited for forward() has no timeout.                               *)
FinishTimeout_Modified(r) ==
    /\ phase[r] = "finishing"
    /\ Logged(r, {"handler_timeout"})
    /\ Relays(r, Intercepted(row[r], Name(r), "modified"))
    /\ UNCHANGED <<alive, requestInfo, trying, handler, pending, stale, captured>>

FinishTimeout_UnlessForwarded(r) ==
    /\ phase[r] = "finishing"
    /\ ~ handler[r].attached
    /\ Logged(r, {"handler_timeout"})
    /\ Relays(r, row[r])
    /\ UNCHANGED <<alive, requestInfo, trying, handler, pending, stale, captured>>

FinishTimeout(r) ==
    /\ phase[r] = "finishing"
    /\ Logged(r, {"handler_timeout"})
    /\ Relays(r, row[r])
    /\ UNCHANGED <<alive, requestInfo, trying, handler, pending, stale, captured>>

(* The handler ends while nobody awaits it: it was given up, or it did not *)
(* wait for forward().                                                     *)
HandlerEndsUnawaited(r, result) ==
    /\ handler[r].run = "running"
    /\ phase[r] \notin {"racing", "finishing"}
    /\ result = "upstream" => handler[r].attached /\ handler[r].upstream = "resolved"
    /\ handler' = [handler EXCEPT ![r].run = "done", ![r].result = result]
    /\ UNCHANGED <<alive, phase, client, requestInfo, trying, pending, stale, row,
                   captured, events>>

-----------------------------------------------------------------------------
(* The client goes away: mockttp's abort event. *)
Abort(r) ==
    /\ client[r] = "waiting"
    /\ phase[r] # "new"
    /\ client' = [client EXCEPT ![r] = "gone"]
    /\ Rejected(pending \cap requestInfo \cap {r})
    /\ pending' = pending \ (requestInfo \cap {r})
    /\ stale' = stale \ (requestInfo \cap {r})
    /\ requestInfo' = requestInfo \ {r}
    /\ UNCHANGED <<phase, trying, row, captured, events>>

(* Twice the handler's timeout passes. *)
GrowStale(r) ==
    /\ r \in pending \ stale
    /\ stale' = stale \cup {r}
    /\ UNCHANGED <<alive, phase, client, requestInfo, trying, handler, pending, row,
                   captured, events>>

(* Mutant of Sweep: the entries go, and nobody tells the handlers that     *)
(* wait for them.                                                          *)
Sweep_TellsNobody ==
    /\ stale # {}
    /\ pending' = pending \ stale
    /\ stale' = {}
    /\ UNCHANGED <<alive, handler, phase, client, requestInfo, trying, row, captured, events>>

(* The interval that cleans up. *)
Sweep ==
    /\ stale # {}
    /\ pending' = pending \ stale
    /\ stale' = {}
    /\ Rejected(stale)
    /\ UNCHANGED <<phase, client, requestInfo, trying, row, captured, events>>

(* Eviction or clear deletes the row, wherever its request stands. *)
RowDeleted(r) ==
    /\ row[r] # None
    /\ row' = [row EXCEPT ![r] = None]
    /\ UNCHANGED <<alive, phase, client, requestInfo, trying, handler, pending, stale,
                   captured, events>>

-----------------------------------------------------------------------------
Init ==
    /\ alive = TRUE
    /\ phase = [r \in Req |-> "new"]
    /\ client = [r \in Req |-> "waiting"]
    /\ requestInfo = {}
    /\ trying = [r \in Req |-> 0]
    /\ handler = [r \in Req |-> NoHandler]
    /\ pending = {}
    /\ stale = {}
    /\ row = [r \in Req |-> None]
    /\ captured = {}
    /\ events = [r \in Req |-> {}]

Step(r) ==
    \/ Arrive(r)
    \/ Save(r)
    \/ SaveFails(r)
    \/ NoMatch(r)
    \/ Match(r)
    \/ MatchThrows(r)
    \/ MatchNoPromise(r)
    \/ RaceTimeout(r)
    \/ UpstreamResponds(r)
    \/ UpstreamFails(r)
    \/ RespondPlain(r)
    \/ Respond(r)
    \/ FinishTimeout(r)
    \/ Abort(r)
    \/ GrowStale(r)
    \/ RowDeleted(r)

HandlerStep(r) ==
    \/ \E result \in Result \ {"upstream"} : MatchForwardsAndEnds(r, result)
    \/ \E result \in Result \ {"upstream"} : HandlerEndsRace(r, result)
    \/ \E attached \in BOOLEAN : Forward(r, attached)
    \/ ForwardAgain(r)
    \/ \E attached \in BOOLEAN : ForwardTooLate(r, attached)
    \/ \E result \in Result : HandlerEndsResponse(r, result)
    \/ \E result \in Result : HandlerEndsUnawaited(r, result)

Next ==
    /\ alive
    /\ \/ \E r \in Req : Step(r)
       \/ \E r \in Req : HandlerStep(r)
       \/ Sweep

(* Promises of the library and timers come; clients, upstream servers and  *)
(* handlers promise nothing.                                               *)
Fairness ==
    /\ \A r \in Req :
          /\ WF_vars(alive /\ (Save(r) \/ SaveFails(r)))
          /\ WF_vars(alive /\ (NoMatch(r) \/ Match(r) \/ MatchThrows(r) \/ MatchNoPromise(r)))
          /\ WF_vars(alive /\ RaceTimeout(r))
          /\ WF_vars(alive /\ (Respond(r) \/ RespondPlain(r)))
          /\ WF_vars(alive /\ FinishTimeout(r))
          /\ WF_vars(alive /\ GrowStale(r))
    /\ WF_vars(alive /\ Sweep)

Spec == Init /\ [][Next]_vars /\ Fairness

-----------------------------------------------------------------------------
(* Properties. *)

(* The shape of the state. *)
TypeOK ==
    /\ alive \in BOOLEAN
    /\ phase \in [Req -> {"new", "decoding", "matching", "racing", "upstream", "responding",
                          "finishing", "done", "failed"}]
    /\ client \in [Req -> {"waiting", "gone", "mock", "upstream", "override", "error"}]
    /\ requestInfo \subseteq captured /\ captured \cup pending \subseteq Req
    /\ trying \in [Req -> 0 .. Len(Interceptors)]
    /\ handler \in [Req -> Handler]
    /\ stale \subseteq pending
    /\ \A r \in pending : handler[r].forwarded /\ handler[r].upstream = "open"
    /\ row \in [Req -> Row \cup {None}]
    /\ events \in [Req -> SUBSET Outcome]

(* What the table says was answered is what the client was sent, whatever  *)
(* handlers, timeouts and the stale cleanup did on the way.                *)
StoredIsDelivered ==
    \A r \in Req :
        client[r] \in {"mock", "upstream", "override"} /\ row[r] # None
            => row[r].response = client[r]

(* The event log and the table tell the same story: an interception ends   *)
(* once, and a handler that was given up has changed nothing.              *)
EventsMatchRow ==
    \A r \in Req :
        /\ Cardinality(events[r]) <= 1
        /\ row[r] # None =>
             /\ ("mocked" \in events[r]) <=> (row[r].type = "mocked")
             /\ ("modified" \in events[r]) <=> (row[r].type = "modified")
             /\ "observed" \in events[r] => row[r].by # None /\ row[r].response = "upstream"

(* What still holds of a request at each await, whoever acted while the    *)
(* callbacks waited: the facts they use after an await without a look.     *)
Unseen(r) ==
    phase[r] \in {"new", "decoding"} =>
        /\ row[r] = None
        /\ events[r] = {}
        /\ handler[r] = NoHandler
        /\ r \notin captured \cup pending

(* Until its end a request has no answer, and it is tracked for as long as *)
(* a client waits for the upstream server.                                 *)
Unended(r) ==
    /\ phase[r] \notin {"done", "failed"} =>
          /\ client[r] \in {"waiting", "gone"}
          /\ row[r] # None => row[r].type = None /\ row[r].response = None
          /\ events[r] \cap {"mocked", "modified", "observed"} = {}
    /\ phase[r] \in {"matching", "racing", "upstream"} /\ client[r] = "waiting"
          => r \in requestInfo

Undecided(r) ==
    phase[r] \in {"matching", "racing"} =>
        /\ trying[r] # 0
        /\ row[r] # None => row[r].by = None
        /\ events[r] = {}
        /\ r \notin pending
        /\ handler[r] = IF phase[r] = "racing" THEN [NoHandler EXCEPT !.run = "running"] ELSE NoHandler

(* A first forward() is possible during the race only, and whoever waits   *)
(* for a handler's second half has seen one.                               *)
ForwardsInRace(r) ==
    /\ handler[r].run # "none" /\ ~ handler[r].completed /\ ~ handler[r].forwarded
          => phase[r] = "racing"
    /\ phase[r] = "finishing" => handler[r].forwarded

(* Whoever waits for a handler's second half has credited its interceptor. *)
Credited(r) ==
    /\ phase[r] = "finishing" \/ r \in pending => trying[r] # 0 /\ events[r] = {}
    /\ phase[r] = "finishing" => r \notin pending
    /\ phase[r] = "finishing" \/ (r \in pending /\ phase[r] \in {"upstream", "responding"})
          => row[r] = None \/ row[r].by = Name(r)

(* The inductive invariant of the proxy. *)
ProxyInv ==
    /\ TypeOK
    /\ StoredIsDelivered
    /\ EventsMatchRow
    /\ \A r \in Req : Unseen(r) /\ Unended(r) /\ Undecided(r) /\ ForwardsInRace(r) /\ Credited(r)

(* The proxy implements the life of a row that readers rely on.            *)
Exchange == INSTANCE CapturedExchange
ImplementsExchange == Exchange!Spec

(* Interceptors cannot hold up a request: from every await of the          *)
(* callbacks the request moves on, whether matches and handlers end or not. *)
InterceptorsCannotHang ==
    \A r \in Req :
        phase[r] \in {"decoding", "matching", "racing", "responding", "finishing"}
            ~> phase[r] \in {"upstream", "done", "failed"} \/ ~ alive

(* A running handler that waits for forward() does not wait forever, even  *)
(* when the client has gone or the upstream server never answers.          *)
Waits(r) ==
    /\ handler[r].run = "running"
    /\ handler[r].forwarded /\ handler[r].attached
    /\ handler[r].upstream = "open"

ForwardSettles == \A r \in Req : Waits(r) ~> ~ Waits(r) \/ ~ alive

(* src/docs/interceptors.md:150 says of interceptors "Errors fall through  *)
(* gracefully (never crashes the proxy)".                                  *)
NeverCrashesProxy == alive

=============================================================================
