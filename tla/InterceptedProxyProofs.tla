------------------------- MODULE InterceptedProxyProofs -------------------------
(***************************************************************************)
(* Proofs about the proxy, for any set of requests and any list of         *)
(* interceptors: its inductive invariant, that what is stored is what was  *)
(* delivered and what was logged, and that every step is a step of the     *)
(* life CapturedExchange promises, or changes no row.                      *)
(*                                                                         *)
(* Every step but the cleanup acts on one request.  What the invariant     *)
(* says of one request is Local(r).  A step of request q changes Only(q),  *)
(* so that Local of the other requests is kept (Frame) and the type of the *)
(* state follows from the Shape of q; that it keeps Local(q) is shown      *)
(* action by action, for the two halves of Local apart: Rest(q), what      *)
(* holds at each await, and Told(q), what the log and the row tell.        *)
(***************************************************************************)
EXTENDS InterceptedProxy, FiniteSetTheorems, TLAPS

Stored(r) ==
    client[r] \in {"mock", "upstream", "override"} /\ row[r] # None
        => row[r].response = client[r]

Told(r) ==
    /\ Cardinality(events[r]) <= 1
    /\ row[r] # None =>
         /\ ("mocked" \in events[r]) <=> (row[r].type = "mocked")
         /\ ("modified" \in events[r]) <=> (row[r].type = "modified")
         /\ "observed" \in events[r] => row[r].by # None /\ row[r].response = "upstream"

Rest(r) == Unseen(r) /\ Unended(r) /\ Undecided(r) /\ Credited(r) /\ Stored(r)

Local(r) == Unseen(r) /\ Unended(r) /\ Undecided(r) /\ ForwardsInRace(r) /\ Credited(r)
            /\ Stored(r) /\ Told(r)

Shape(r) ==
    /\ phase[r] \in {"new", "decoding", "matching", "racing", "upstream", "responding",
                     "finishing", "done", "failed"}
    /\ client[r] \in {"waiting", "gone", "mock", "upstream", "override", "error"}
    /\ trying[r] \in 0 .. Len(Interceptors)
    /\ handler[r] \in Handler
    /\ row[r] \in Row \cup {None}
    /\ events[r] \in SUBSET Outcome
    /\ r \in requestInfo => r \in captured
    /\ r \in stale => r \in pending
    /\ r \in pending => handler[r].forwarded /\ handler[r].upstream = "open"
Only(q) ==
    /\ alive' \in BOOLEAN
    /\ phase' = [phase EXCEPT ![q] = phase'[q]]
    /\ client' = [client EXCEPT ![q] = client'[q]]
    /\ trying' = [trying EXCEPT ![q] = trying'[q]]
    /\ handler' = [handler EXCEPT ![q] = handler'[q]]
    /\ row' = [row EXCEPT ![q] = row'[q]]
    /\ events' = [events EXCEPT ![q] = events'[q]]
    /\ requestInfo' \ {q} = requestInfo \ {q}
    /\ captured' \ {q} = captured \ {q}
    /\ pending' \ {q} = pending \ {q}
    /\ stale' \ {q} = stale \ {q}

Same(r) ==
    /\ phase'[r] = phase[r] /\ client'[r] = client[r] /\ trying'[r] = trying[r]
    /\ handler'[r] = handler[r] /\ row'[r] = row[r] /\ events'[r] = events[r]
    /\ r \in requestInfo' <=> r \in requestInfo
    /\ r \in pending' <=> r \in pending
    /\ r \in captured' <=> r \in captured

(* ProxyInv is TypeOK and Local of every request. *)
LEMMA InvIsLocal == ProxyInv <=> TypeOK /\ \A r \in Req : Local(r)
BY DEF ProxyInv, StoredIsDelivered, EventsMatchRow, Local, Stored, Told

(* A request whose state is the same keeps what holds of it. *)
LEMMA Frame ==
    ASSUME NEW r \in Req, Local(r), Same(r)
    PROVE  Local(r)'
BY DEF Local, Same, Unseen, Unended, Undecided, ForwardsInRace, Credited, Stored, Told, Name

(* A step that changes only one request leaves the others the same. *)
LEMMA OthersAreSame ==
    ASSUME TypeOK, NEW q \in Req, Only(q), NEW r \in Req \ {q}
    PROVE  Same(r)
BY DEF Only, Same, TypeOK

(* It keeps the type of the state if it keeps the shape of its request. *)
LEMMA TypeKept ==
    ASSUME TypeOK, NEW q \in Req, Only(q), Shape(q)'
    PROVE  TypeOK'
<1> DEFINE Phase == {"new", "decoding", "matching", "racing", "upstream", "responding",
                     "finishing", "done", "failed"}
           Client == {"waiting", "gone", "mock", "upstream", "override", "error"}
<1>a. /\ phase \in [Req -> Phase] /\ client \in [Req -> Client]
      /\ trying \in [Req -> 0 .. Len(Interceptors)] /\ handler \in [Req -> Handler]
      /\ row \in [Req -> Row \cup {None}] /\ events \in [Req -> SUBSET Outcome]
  BY DEF TypeOK
<1>b. /\ phase'[q] \in Phase /\ client'[q] \in Client /\ trying'[q] \in 0 .. Len(Interceptors)
      /\ handler'[q] \in Handler /\ row'[q] \in Row \cup {None} /\ events'[q] \in SUBSET Outcome
  BY DEF Shape
<1> HIDE DEF Phase, Client
<1>c. ASSUME NEW f, NEW g, NEW T, f \in [Req -> T], g = [f EXCEPT ![q] = g[q]], g[q] \in T
      PROVE  g \in [Req -> T]
  BY <1>c
<1>1. phase' \in [Req -> Phase] /\ client' \in [Req -> Client]
      /\ trying' \in [Req -> 0 .. Len(Interceptors)]
  <2>1. phase' = [phase EXCEPT ![q] = phase'[q]] /\ client' = [client EXCEPT ![q] = client'[q]]
        /\ trying' = [trying EXCEPT ![q] = trying'[q]]
    BY DEF Only
  <2> QED BY <1>a, <1>b, <1>c, <2>1
<1>2. handler' \in [Req -> Handler] /\ row' \in [Req -> Row \cup {None}]
      /\ events' \in [Req -> SUBSET Outcome]
  <2>1. handler' = [handler EXCEPT ![q] = handler'[q]] /\ row' = [row EXCEPT ![q] = row'[q]]
        /\ events' = [events EXCEPT ![q] = events'[q]]
    BY DEF Only
  <2> QED BY <1>a, <1>b, <1>c, <2>1
<1>3. /\ requestInfo' \subseteq captured' /\ captured' \cup pending' \subseteq Req
      /\ stale' \subseteq pending'
  <2>1. /\ requestInfo \subseteq captured /\ captured \cup pending \subseteq Req
        /\ stale \subseteq pending
    BY DEF TypeOK
  <2>2. /\ requestInfo' \ {q} = requestInfo \ {q} /\ captured' \ {q} = captured \ {q}
        /\ pending' \ {q} = pending \ {q} /\ stale' \ {q} = stale \ {q}
    BY DEF Only
  <2>3. (q \in requestInfo' => q \in captured') /\ (q \in stale' => q \in pending')
    BY DEF Shape
  <2>4. ASSUME NEW r, r # q
        PROVE  /\ r \in requestInfo' <=> r \in requestInfo
               /\ r \in captured' <=> r \in captured
               /\ r \in pending' <=> r \in pending
               /\ r \in stale' <=> r \in stale
    <3>1. \A S, T : S \ {q} = T \ {q} => (r \in S <=> r \in T)
      BY <2>4
    <3> QED BY <2>2, <3>1
  <2>5. requestInfo' \subseteq captured'
    BY <2>1, <2>3, <2>4
  <2>6. stale' \subseteq pending'
    BY <2>1, <2>3, <2>4
  <2>7. captured' \cup pending' \subseteq Req
    BY <2>1, <2>4
  <2> QED BY <2>5, <2>6, <2>7
<1>4. ASSUME NEW r \in pending' PROVE handler'[r].forwarded /\ handler'[r].upstream = "open"
  <2>1. CASE r = q
    BY <2>1, <1>4 DEF Shape
  <2>2. CASE r # q
    <3>1. r \in Req /\ r \in pending
      BY <2>2, <1>3, <1>4 DEF Only, TypeOK
    <3>2. handler'[r] = handler[r]
      BY <2>2, <3>1, OthersAreSame DEF Same
    <3> QED BY <3>1, <3>2 DEF TypeOK
  <2> QED BY <2>1, <2>2
<1> QED BY <1>1, <1>2, <1>3, <1>4 DEF TypeOK, Only, Phase, Client

-----------------------------------------------------------------------------
(* Handlers and rows keep their shape when fields of theirs are set.  A    *)
(* handler is called.                                                      *)
LEMMA HandlerRuns ==
    ASSUME NEW h \in Handler, NEW x \in {"none", "running", "done"}
    PROVE  [h EXCEPT !.run = x] \in Handler
BY DEF Handler

(* It ends. *)
LEMMA HandlerEnds ==
    ASSUME NEW h \in Handler, NEW y \in Result, NEW c \in BOOLEAN
    PROVE  /\ [h EXCEPT !.run = "done", !.result = y] \in Handler
           /\ [h EXCEPT !.run = "done", !.result = y, !.completed = c] \in Handler
BY DEF Handler

(* It calls forward(), someone waits for it, or it may no longer call it. *)
LEMMA HandlerForwards ==
    ASSUME NEW h \in Handler, NEW a \in BOOLEAN
    PROVE  /\ [h EXCEPT !.forwarded = TRUE, !.attached = a] \in Handler
           /\ [h EXCEPT !.attached = a] \in Handler
           /\ [h EXCEPT !.completed = a] \in Handler
BY DEF Handler

(* It calls forward() and ends at once. *)
LEMMA HandlerForwardsAndEnds ==
    ASSUME NEW h \in Handler, NEW y \in Result
    PROVE  [h EXCEPT !.run = "done", !.result = y, !.forwarded = TRUE, !.completed = TRUE]
             \in Handler
BY DEF Handler

(* The promise of forward() settles. *)
LEMMA HandlerHears ==
    ASSUME NEW h \in Handler, NEW u \in {"open", "resolved", "rejected"}
    PROVE  [h EXCEPT !.upstream = u] \in Handler
BY DEF Handler

(* The UPDATEs of interception and response. *)
LEMMA RowsKeepShape ==
    ASSUME NEW w \in Row \cup {None}, NEW i \in Interceptor \cup {None},
           NEW t \in {None, "mocked", "modified"},
           NEW p \in {None, "mock", "upstream", "override"}
    PROVE  /\ Intercepted(w, i, t) \in Row \cup {None}
           /\ Responded(w, p) \in Row \cup {None}
BY DEF Intercepted, Responded, Row

(* Two columns are set one after the other. *)
LEMMA ColumnByColumn ==
    ASSUME NEW w, NEW i, NEW t, NEW p
    PROVE  /\ [w EXCEPT !.by = i, !.type = t] = [[w EXCEPT !.by = i] EXCEPT !.type = t]
           /\ [w EXCEPT !.type = t, !.response = p] = [[w EXCEPT !.type = t] EXCEPT !.response = p]
OBVIOUS

(* The two UPDATEs of an interception that answers, on a row without one. *)
LEMMA Intercepts ==
    ASSUME NEW i \in Interceptor, NEW b \in {None, i},
           NEW t \in {"mocked", "modified"}, NEW p \in {"mock", "upstream", "override"}
    PROVE  LET w == [by |-> b, type |-> None, response |-> None]
           IN  /\ Responded(Intercepted(w, i, t), p) = [by |-> i, type |-> t, response |-> p]
               /\ [w EXCEPT !.type = t, !.response = p] = [by |-> b, type |-> t, response |-> p]
<1> DEFINE w == [by |-> b, type |-> None, response |-> None]
           v == [by |-> i, type |-> t, response |-> None]
<1>1. w \in Row /\ v \in Row
  BY DEF Row
<1>2. w # None /\ v # None
  BY <1>1, ProxyAssumption
<1>3. [w EXCEPT !.by = i, !.type = t] = v
  <2>1. [w EXCEPT !.by = i] = [by |-> i, type |-> None, response |-> None]
    OBVIOUS
  <2>2. [[by |-> i, type |-> None, response |-> None] EXCEPT !.type = t] = v
    OBVIOUS
  <2> HIDE DEF w, v
  <2> QED BY <2>1, <2>2, ColumnByColumn
<1>4. Intercepted(w, i, t) = v
  BY <1>2, <1>3 DEF Intercepted
<1>5. [v EXCEPT !.response = p] = [by |-> i, type |-> t, response |-> p]
  OBVIOUS
<1>6. Responded(v, p) = [by |-> i, type |-> t, response |-> p]
  BY <1>2, <1>5 DEF Responded
<1>7. [w EXCEPT !.type = t, !.response = p] = [by |-> b, type |-> t, response |-> p]
  <2>1. [w EXCEPT !.type = t] = [by |-> b, type |-> t, response |-> None]
    OBVIOUS
  <2>2. [[by |-> b, type |-> t, response |-> None] EXCEPT !.response = p]
          = [by |-> b, type |-> t, response |-> p]
    OBVIOUS
  <2> HIDE DEF w
  <2> QED BY <2>1, <2>2, ColumnByColumn
<1> QED BY <1>4, <1>6, <1>7

(* A row is its three columns. *)
LEMMA RowFields ==
    ASSUME NEW w \in Row
    PROVE  w = [by |-> w.by, type |-> w.type, response |-> w.response]
BY DEF Row

(* Once an interceptor is tried, it has a name. *)
LEMMA Named ==
    ASSUME TypeOK, NEW r \in Req, trying[r] # 0
    PROVE  Name(r) \in Interceptor /\ Name(r) # None
BY ProxyAssumption DEF TypeOK, Name, Interceptor

-----------------------------------------------------------------------------
(* What is logged of a request, and what its row says: both unchanged. *)
LEMMA ToldKept ==
    ASSUME NEW r, Told(r), events'[r] = events[r], row'[r] = row[r]
    PROVE  Told(r)'
BY DEF Told

(* A row that is deleted tells nothing. *)
LEMMA ToldDropped ==
    ASSUME NEW r, Told(r), events'[r] = events[r], row'[r] = None
    PROVE  Told(r)'
BY DEF Told

(* Nothing is logged, and the row tells of no interception. *)
LEMMA ToldNothing ==
    ASSUME NEW r \in Req, events \in [Req -> SUBSET Outcome], events[r] = {}, Logged(r, {}),
           row'[r] # None => row'[r].type = None,
           None \notin {"mocked", "modified"}
    PROVE  Told(r)'
<1>1. events'[r] = {}
  BY DEF Logged
<1>2. Cardinality(events'[r]) = 0
  BY <1>1, FS_EmptySet
<1> QED BY <1>1, <1>2 DEF Told

(* The first event of a request, which the row agrees with. *)
LEMMA ToldOnce ==
    ASSUME NEW r \in Req, NEW k \in Outcome,
           events \in [Req -> SUBSET Outcome], events[r] = {}, Logged(r, {k}),
           row'[r] # None => /\ k = "mocked" <=> row'[r].type = "mocked"
                             /\ k = "modified" <=> row'[r].type = "modified"
                             /\ k = "observed" => row'[r].by # None /\ row'[r].response = "upstream"
    PROVE  Told(r)'
<1>1. events'[r] = {k}
  BY DEF Logged
<1>2. Cardinality(events'[r]) = 1
  BY <1>1, FS_Singleton
<1> QED BY <1>1, <1>2 DEF Told

(* The end of the race by the handler's end. *)
LEMMA RaceIsTold ==
    ASSUME TypeOK, NEW q \in Req, NEW x \in Result, RaceEnds(q, x),
           events[q] = {}, trying[q] # 0, row[q] # None => row[q].type = None
    PROVE  /\ Told(q)' /\ row'[q] \in Row \cup {None} /\ events'[q] \in SUBSET Outcome
           /\ \/ /\ phase'[q] = "upstream"
                 /\ client'[q] = client[q] /\ row'[q] = row[q]
                 /\ events'[q] \cap {"mocked", "modified", "observed"} = {}
              \/ phase'[q] = "done" /\ client'[q] \in {client[q], "mock"}
                 /\ (client[q] \in {"waiting", "gone"} => Stored(q)')
<1>1. row[q] \in Row \cup {None}
  BY DEF TypeOK
<1>2. ASSUME NEW kinds \in {{}, {"invalid_response"}, {"handler_timeout"}}, Passes(q, kinds)
      PROVE  /\ phase'[q] = "upstream" /\ client'[q] = client[q] /\ row'[q] = row[q]
             /\ events'[q] \cap {"mocked", "modified", "observed"} = {}
             /\ events'[q] \in SUBSET Outcome /\ Told(q)'
  <2>1. events'[q] = kinds
    BY <1>2 DEF Passes, Logged, TypeOK
  <2>2. Told(q)'
    <3>1. CASE kinds = {}
      BY <1>2, <3>1, ToldNothing, ProxyAssumption DEF Passes, TypeOK
    <3>2. ASSUME NEW k \in {"invalid_response", "handler_timeout"}, kinds = {k}
          PROVE  Told(q)'
      BY <1>2, <3>2, ToldOnce, ProxyAssumption DEF Passes, TypeOK, Outcome
    <3> QED BY <3>1, <3>2
  <2> QED BY <1>2, <2>1, <2>2 DEF Passes, MovesTo, TypeOK, Outcome
<1>3. CASE Mocks(q)
  <2>1. Told(q)'
    BY <1>3, ToldOnce DEF Mocks, Responded, Intercepted, TypeOK, Row, Outcome
  <2>2. Intercepted(row[q], Name(q), "mocked") \in Row \cup {None}
    BY <1>1, Named, RowsKeepShape
  <2>3. Responded(Intercepted(row[q], Name(q), "mocked"), "mock") \in Row \cup {None}
    BY <2>2, RowsKeepShape
  <2>4. row'[q] = Responded(Intercepted(row[q], Name(q), "mocked"), "mock")
    BY <1>3 DEF Mocks, TypeOK
  <2>5. /\ client'[q] = IF client[q] = "waiting" THEN "mock" ELSE client[q]
        /\ phase'[q] = "done" /\ events'[q] \in SUBSET Outcome
    BY <1>3 DEF Mocks, Delivered, MovesTo, Logged, TypeOK, Outcome
  <2>6. row'[q] # None => row'[q].response = "mock"
    BY <1>1, <2>2, <2>4 DEF Responded, Row
  <2> QED BY <2>1, <2>3, <2>4, <2>5, <2>6 DEF Stored
<1> QED BY <1>1, <1>2, <1>3 DEF RaceEnds

(* The end of beforeResponse leaves a row, if there was one. *)
LEMMA ResponseKeepsRow ==
    ASSUME TypeOK, NEW q \in Req, NEW x \in Result, ResponseEnds(q, x), trying[q] # 0
    PROVE  row'[q] \in Row \cup {None}
<1>1. row[q] \in Row \cup {None} /\ Name(q) \in Interceptor \cup {None}
  BY Named DEF TypeOK
<1>2. \A t \in {None, "modified"} : Intercepted(row[q], Name(q), t) \in Row \cup {None}
  BY <1>1, RowsKeepShape
<1>3. ASSUME NEW w \in Row \cup {None}, Relays(q, w) PROVE row'[q] \in Row \cup {None}
  <2>1. Responded(w, "upstream") \in Row \cup {None}
    BY RowsKeepShape
  <2> QED BY <1>3, <2>1 DEF Relays, TypeOK
<1>4. CASE x \in {"upstream", "override"} /\ Overrides(q, x)
  <2>1. Responded(Intercepted(row[q], Name(q), "modified"), x) \in Row \cup {None}
    BY <1>2, <1>4, RowsKeepShape
  <2> QED BY <2>1, <1>4 DEF Overrides, TypeOK
<1> QED BY <1>1, <1>2, <1>3, <1>4 DEF ResponseEnds
(* A handler that is given up after the response leaves no trace in the row. *)
LEMMA GivenUpIsTold ==
    ASSUME TypeOK, NEW q \in Req, events[q] = {}, row[q] # None => row[q].type = None,
           Logged(q, {"handler_timeout"}), Relays(q, row[q])
    PROVE  Told(q)'
<1>1. row'[q] = Responded(row[q], "upstream")
  BY DEF Relays, TypeOK
<1>2. row'[q] # None => row[q] # None /\ row'[q] = [row[q] EXCEPT !.response = "upstream"]
  BY <1>1 DEF Responded
<1>3. row'[q] # None => row'[q].type = row[q].type
  BY <1>2 DEF TypeOK, Row
<1>4. row[q] # None => row[q].type \notin {"mocked", "modified"}
  BY ProxyAssumption
<1>5. "handler_timeout" \in Outcome /\ events \in [Req -> SUBSET Outcome]
  BY DEF Outcome, TypeOK
<1> QED BY <1>2, <1>3, <1>4, <1>5, ToldOnce

(* The end of beforeResponse with an entry of the runner: row, log and client agree. *)
LEMMA ResponseIsTold ==
    ASSUME TypeOK, NEW q \in Req, NEW x \in Result, ResponseEnds(q, x),
           events[q] = {}, trying[q] # 0, client[q] \in {"waiting", "gone"},
           row[q] # None => row[q].type = None /\ row[q].by = Name(q)
    PROVE  /\ Told(q)' /\ Stored(q)'
           /\ phase'[q] = "done"
<1>1. Name(q) # None
  BY Named
<1>2. CASE x = "nothing" /\ Logged(q, {"observed"}) /\ Relays(q, Intercepted(row[q], Name(q), None))
  <2>1. Told(q)'
    BY <1>1, <1>2, ToldOnce, ProxyAssumption
    DEF Relays, Responded, Intercepted, TypeOK, Row, Outcome
  <2> QED BY <2>1, <1>2, ProxyAssumption
    DEF Stored, Relays, Delivered, MovesTo, Responded, Intercepted, TypeOK, Row
<1>3. CASE x = "invalid" /\ Logged(q, {"invalid_response"})
           /\ Relays(q, Intercepted(row[q], Name(q), None))
  <2>1. Told(q)'
    BY <1>1, <1>3, ToldOnce, ProxyAssumption
    DEF Relays, Responded, Intercepted, TypeOK, Row, Outcome
  <2> QED BY <2>1, <1>3, ProxyAssumption
    DEF Stored, Relays, Delivered, MovesTo, Responded, Intercepted, TypeOK, Row
<1>4. CASE x = "threw" /\ Logged(q, {"handler_timeout"}) /\ Relays(q, row[q])
  <2>1. Told(q)'
    BY <1>4, GivenUpIsTold
  <2> QED BY <2>1, <1>4, ProxyAssumption
    DEF Stored, Relays, Delivered, MovesTo, Responded, TypeOK, Row
<1>5. CASE x \in {"upstream", "override"} /\ Logged(q, {"modified"}) /\ Overrides(q, x)
  <2>1. Told(q)'
    BY <1>5, ToldOnce, ProxyAssumption
    DEF Overrides, Responded, Intercepted, TypeOK, Row, Outcome
  <2> QED BY <2>1, <1>5, ProxyAssumption
    DEF Stored, Overrides, Delivered, MovesTo, Responded, Intercepted, TypeOK, Row
<1> QED BY <1>2, <1>3, <1>4, <1>5 DEF ResponseEnds

-----------------------------------------------------------------------------
(* A first forward() happens in the race. *)
LEMMA ForwardRaces ==
    ASSUME NEW q \in Req, ForwardsInRace(q), NEW a \in BOOLEAN, Forward(q, a)
    PROVE  /\ phase[q] = "racing" /\ MovesTo(q, "upstream")
           /\ row' = [row EXCEPT ![q] = Intercepted(@, Name(q), None)]
BY DEF Forward, ForwardsInRace

(* A step of a request changes no other. *)
LEMMA StepIsLocal ==
    ASSUME TypeOK, NEW q \in Req, Local(q), Step(q) \/ HandlerStep(q)
    PROVE  Only(q)
<1>e. ASSUME NEW x \in Result, RaceEnds(q, x)
      PROVE  /\ phase' = [phase EXCEPT ![q] = phase'[q]] /\ client' = [client EXCEPT ![q] = client'[q]]
             /\ row' = [row EXCEPT ![q] = row'[q]] /\ events' = [events EXCEPT ![q] = events'[q]]
  <2>1. CASE \E kinds : Passes(q, kinds)
    BY <2>1 DEF Passes, MovesTo, Logged, TypeOK
  <2>2. CASE Mocks(q)
    BY <2>2 DEF Mocks, MovesTo, Delivered, Logged, TypeOK
  <2> QED BY <1>e, <2>1, <2>2 DEF RaceEnds
<1> USE DEF Only, TypeOK, MovesTo, Delivered, Logged, Unhandled
<1>1. CASE Arrive(q)
  BY <1>1 DEF Arrive
<1>2. CASE Save(q)
  BY <1>2 DEF Save
<1>3. CASE SaveFails(q)
  BY <1>3 DEF SaveFails
<1>4. CASE NoMatch(q)
  BY <1>4 DEF NoMatch
<1>5. CASE Match(q)
  BY <1>5 DEF Match
<1>6. CASE MatchThrows(q)
  BY <1>6 DEF MatchThrows
<1>7. CASE MatchNoPromise(q)
  BY <1>7 DEF MatchNoPromise
<1>8. CASE RaceTimeout(q)
  BY <1>8 DEF RaceTimeout
<1>9. CASE UpstreamResponds(q)
  BY <1>9 DEF UpstreamResponds
<1>10. CASE UpstreamFails(q)
  BY <1>10 DEF UpstreamFails
<1>11. CASE RespondPlain(q)
  BY <1>11 DEF RespondPlain, Relays, Responded
<1>12. CASE Respond(q)
  BY <1>12 DEF Respond, ResponseEnds, Relays, Overrides, Responded, Intercepted
<1>13. CASE FinishTimeout(q)
  BY <1>13 DEF FinishTimeout, Relays, Responded
<1>14. CASE Abort(q)
  BY <1>14 DEF Abort, Rejected
<1>15. CASE GrowStale(q)
  BY <1>15 DEF GrowStale
<1>16. CASE RowDeleted(q)
  BY <1>16 DEF RowDeleted
<1>17. ASSUME NEW x \in Result \ {"upstream"}, MatchForwardsAndEnds(q, x) PROVE Only(q)
  <2>1. /\ phase' = [phase EXCEPT ![q] = phase'[q]] /\ client' = [client EXCEPT ![q] = client'[q]]
        /\ row' = [row EXCEPT ![q] = row'[q]] /\ events' = [events EXCEPT ![q] = events'[q]]
    BY <1>17, <1>e DEF MatchForwardsAndEnds
  <2> QED BY <1>17, <2>1 DEF MatchForwardsAndEnds
<1>18. ASSUME NEW x \in Result \ {"upstream"}, HandlerEndsRace(q, x) PROVE Only(q)
  <2>1. /\ phase' = [phase EXCEPT ![q] = phase'[q]] /\ client' = [client EXCEPT ![q] = client'[q]]
        /\ row' = [row EXCEPT ![q] = row'[q]] /\ events' = [events EXCEPT ![q] = events'[q]]
    BY <1>18, <1>e DEF HandlerEndsRace
  <2> QED BY <1>18, <2>1 DEF HandlerEndsRace
<1>19. ASSUME NEW a \in BOOLEAN, Forward(q, a) PROVE Only(q)
  BY <1>19 DEF Forward, Intercepted
<1>20. CASE ForwardAgain(q)
  BY <1>20 DEF ForwardAgain
<1>21. ASSUME NEW a \in BOOLEAN, ForwardTooLate(q, a) PROVE Only(q)
  BY <1>21 DEF ForwardTooLate
<1>22. ASSUME NEW x \in Result, HandlerEndsResponse(q, x) PROVE Only(q)
  BY <1>22 DEF HandlerEndsResponse, ResponseEnds, Relays, Overrides, Responded, Intercepted
<1>23. ASSUME NEW x \in Result, HandlerEndsUnawaited(q, x) PROVE Only(q)
  BY <1>23 DEF HandlerEndsUnawaited
<1> QED BY <1>1, <1>2, <1>3, <1>4, <1>5, <1>6, <1>7, <1>8, <1>9, <1>10, <1>11, <1>12,
       <1>13, <1>14, <1>15, <1>16, <1>17, <1>18, <1>19, <1>20, <1>21, <1>22, <1>23 DEF
       Step, HandlerStep

(* It keeps the handler and the row of its request what they are. *)
LEMMA StepKeepsRecords ==
    ASSUME TypeOK, NEW q \in Req, Local(q), Step(q) \/ HandlerStep(q)
    PROVE  handler'[q] \in Handler /\ row'[q] \in Row \cup {None}
<1>h. handler[q] \in Handler
  BY DEF TypeOK
<1>r. row[q] \in Row \cup {None}
  BY DEF TypeOK
<1>1. CASE Arrive(q)
  <2>2. handler'[q] \in Handler
    BY <1>1, <1>h DEF Arrive
  <2>3. row'[q] \in Row \cup {None}
    BY <1>1, <1>r DEF Arrive, TypeOK, Fresh, Row
  <2> QED BY <2>2, <2>3
<1>2. CASE Save(q)
  <2>2. handler'[q] \in Handler
    BY <1>2, <1>h DEF Save
  <2>3. row'[q] \in Row \cup {None}
    BY <1>2, <1>r DEF Save, TypeOK, Fresh, Row
  <2> QED BY <2>2, <2>3
<1>3. CASE SaveFails(q)
  <2>2. handler'[q] \in Handler
    BY <1>3, <1>h DEF SaveFails
  <2>3. row'[q] \in Row \cup {None}
    BY <1>3, <1>r DEF SaveFails, TypeOK, Fresh, Row
  <2> QED BY <2>2, <2>3
<1>4. CASE NoMatch(q)
  <2>2. handler'[q] \in Handler
    BY <1>4, <1>h DEF NoMatch
  <2>3. row'[q] \in Row \cup {None}
    BY <1>4, <1>r DEF NoMatch, TypeOK, Fresh, Row
  <2> QED BY <2>2, <2>3
<1>5. CASE Match(q)
  <2>1. handler'[q] = [handler[q] EXCEPT !.run = "running"]
    BY <1>5 DEF Match, TypeOK
  <2>2. handler'[q] \in Handler
    BY <2>1, <1>5, <1>h, HandlerRuns DEF Result
  <2>3. row'[q] \in Row \cup {None}
    BY <1>5, <1>r DEF Match, TypeOK, Fresh, Row
  <2> QED BY <2>2, <2>3
<1>6. CASE MatchThrows(q)
  <2>2. handler'[q] \in Handler
    BY <1>6, <1>h DEF MatchThrows
  <2>3. row'[q] \in Row \cup {None}
    BY <1>6, <1>r DEF MatchThrows, TypeOK, Fresh, Row
  <2> QED BY <2>2, <2>3
<1>7. CASE MatchNoPromise(q)
  <2>1. handler'[q] = [handler[q] EXCEPT !.run = "done", !.result = "threw", !.completed = TRUE]
    BY <1>7 DEF MatchNoPromise, TypeOK
  <2>2. handler'[q] \in Handler
    BY <2>1, <1>7, <1>h, HandlerEnds DEF Result
  <2>3. row'[q] \in Row \cup {None}
    BY <1>7, <1>r DEF MatchNoPromise, TypeOK, Fresh, Row
  <2> QED BY <2>2, <2>3
<1>8. CASE RaceTimeout(q)
  <2>1. handler'[q] = [handler[q] EXCEPT !.completed = TRUE]
    BY <1>8 DEF RaceTimeout, TypeOK
  <2>2. handler'[q] \in Handler
    BY <2>1, <1>8, <1>h, HandlerForwards DEF Result
  <2>3. row'[q] \in Row \cup {None}
    BY <1>8, <1>r DEF RaceTimeout, TypeOK, Fresh, Row
  <2> QED BY <2>2, <2>3
<1>9. CASE UpstreamResponds(q)
  <2>2. handler'[q] \in Handler
    BY <1>9, <1>h DEF UpstreamResponds
  <2>3. row'[q] \in Row \cup {None}
    BY <1>9, <1>r DEF UpstreamResponds, TypeOK, Fresh, Row
  <2> QED BY <2>2, <2>3
<1>10. CASE UpstreamFails(q)
  <2>2. handler'[q] \in Handler
    BY <1>10, <1>h DEF UpstreamFails
  <2>3. row'[q] \in Row \cup {None}
    BY <1>10, <1>r DEF UpstreamFails, TypeOK, Fresh, Row
  <2> QED BY <2>2, <2>3
<1>11. CASE RespondPlain(q)
  <2>2. handler'[q] \in Handler
    BY <1>11, <1>h DEF RespondPlain
  <2>3. row'[q] \in Row \cup {None}
    BY <1>11, <1>r, RowsKeepShape DEF RespondPlain, Relays, TypeOK
  <2> QED BY <2>2, <2>3
<1>12. CASE Respond(q)
  <2>1. handler'[q] = [handler[q] EXCEPT !.upstream = "resolved"]
    BY <1>12 DEF Respond, TypeOK
  <2>2. handler'[q] \in Handler
    BY <2>1, <1>12, <1>h, HandlerHears DEF Result
  <2>3. CASE row' = row
    BY <2>2, <2>3, <1>r
  <2>4. CASE ResponseEnds(q, handler[q].result)
    <3>1. handler[q].result \in Result
      BY <2>4 DEF ResponseEnds, Result
    <3> QED BY <2>2, <2>4, <3>1, <1>12, ResponseKeepsRow DEF Local, Credited, Respond
  <2> QED BY <2>3, <2>4, <1>12 DEF Respond
<1>13. CASE FinishTimeout(q)
  <2>2. handler'[q] \in Handler
    BY <1>13, <1>h DEF FinishTimeout
  <2>3. row'[q] \in Row \cup {None}
    BY <1>13, <1>r, RowsKeepShape DEF FinishTimeout, Relays, TypeOK
  <2> QED BY <2>2, <2>3
<1>14. CASE Abort(q)
  <2>1. handler'[q] = handler[q] \/ handler'[q] = [handler[q] EXCEPT !.upstream = "rejected"]
    BY <1>14 DEF Abort, Rejected, TypeOK
  <2>2. handler'[q] \in Handler
    BY <2>1, <1>h, HandlerHears
  <2>3. row'[q] \in Row \cup {None}
    BY <1>14, <1>r DEF Abort, TypeOK, Fresh, Row
  <2> QED BY <2>2, <2>3
<1>15. CASE GrowStale(q)
  <2>2. handler'[q] \in Handler
    BY <1>15, <1>h DEF GrowStale
  <2>3. row'[q] \in Row \cup {None}
    BY <1>15, <1>r DEF GrowStale, TypeOK, Fresh, Row
  <2> QED BY <2>2, <2>3
<1>16. CASE RowDeleted(q)
  <2>2. handler'[q] \in Handler
    BY <1>16, <1>h DEF RowDeleted
  <2>3. row'[q] \in Row \cup {None}
    BY <1>16, <1>r DEF RowDeleted, TypeOK, Fresh, Row
  <2> QED BY <2>2, <2>3
<1>17. ASSUME NEW x \in Result \ {"upstream"}, MatchForwardsAndEnds(q, x)
      PROVE  handler'[q] \in Handler /\ row'[q] \in Row \cup {None}
  <2>1. handler'[q] = [handler[q] EXCEPT !.run = "done", !.result = x, !.forwarded = TRUE, !.completed = TRUE]
    BY <1>17 DEF MatchForwardsAndEnds, TypeOK
  <2>2. handler'[q] \in Handler
    BY <2>1, <1>17, <1>h, HandlerForwardsAndEnds DEF Result
  <2>3. row'[q] \in Row \cup {None}
    BY <1>17, RaceIsTold DEF Local, Undecided, Unended, MatchForwardsAndEnds
  <2> QED BY <2>2, <2>3
<1>18. ASSUME NEW x \in Result \ {"upstream"}, HandlerEndsRace(q, x)
      PROVE  handler'[q] \in Handler /\ row'[q] \in Row \cup {None}
  <2>1. handler'[q] = [handler[q] EXCEPT !.run = "done", !.result = x, !.completed = TRUE]
    BY <1>18 DEF HandlerEndsRace, TypeOK
  <2>2. handler'[q] \in Handler
    BY <2>1, <1>18, <1>h, HandlerEnds DEF Result
  <2>3. row'[q] \in Row \cup {None}
    BY <1>18, RaceIsTold DEF Local, Undecided, Unended, HandlerEndsRace
  <2> QED BY <2>2, <2>3
<1>19. ASSUME NEW a \in BOOLEAN, Forward(q, a)
      PROVE  handler'[q] \in Handler /\ row'[q] \in Row \cup {None}
  <2>1. handler'[q] = [handler[q] EXCEPT !.forwarded = TRUE, !.attached = a]
    BY <1>19 DEF Forward, TypeOK
  <2>2. handler'[q] \in Handler
    BY <2>1, <1>19, <1>h, HandlerForwards DEF Result
  <2>4. Name(q) \in Interceptor \cup {None}
    BY <1>19, ForwardRaces, Named DEF Local, Undecided
  <2>5. row'[q] = Intercepted(row[q], Name(q), None)
    BY <1>19, ForwardRaces DEF Local, TypeOK
  <2>3. row'[q] \in Row \cup {None}
    BY <2>4, <2>5, <1>r, RowsKeepShape
  <2> QED BY <2>2, <2>3
<1>20. CASE ForwardAgain(q)
  <2>1. handler'[q] = [handler[q] EXCEPT !.attached = TRUE]
    BY <1>20 DEF ForwardAgain, TypeOK
  <2>2. handler'[q] \in Handler
    BY <2>1, <1>20, <1>h, HandlerForwards DEF Result
  <2>3. row'[q] \in Row \cup {None}
    BY <1>20, <1>r DEF ForwardAgain, TypeOK, Fresh, Row
  <2> QED BY <2>2, <2>3
<1>21. ASSUME NEW a \in BOOLEAN, ForwardTooLate(q, a)
      PROVE  handler'[q] \in Handler /\ row'[q] \in Row \cup {None}
  <2>2. handler'[q] \in Handler
    BY <1>21, <1>h DEF ForwardTooLate
  <2>3. row'[q] \in Row \cup {None}
    BY <1>21, <1>r DEF ForwardTooLate, TypeOK, Fresh, Row
  <2> QED BY <2>2, <2>3
<1>22. ASSUME NEW x \in Result, HandlerEndsResponse(q, x)
      PROVE  handler'[q] \in Handler /\ row'[q] \in Row \cup {None}
  <2>1. handler'[q] = [handler[q] EXCEPT !.run = "done", !.result = x]
    BY <1>22 DEF HandlerEndsResponse, TypeOK
  <2>2. handler'[q] \in Handler
    BY <2>1, <1>22, <1>h, HandlerEnds DEF Result
  <2>3. row'[q] \in Row \cup {None}
    BY <1>22, ResponseKeepsRow DEF Local, Credited, HandlerEndsResponse
  <2> QED BY <2>2, <2>3
<1>23. ASSUME NEW x \in Result, HandlerEndsUnawaited(q, x)
      PROVE  handler'[q] \in Handler /\ row'[q] \in Row \cup {None}
  <2>1. handler'[q] = [handler[q] EXCEPT !.run = "done", !.result = x]
    BY <1>23 DEF HandlerEndsUnawaited, TypeOK
  <2>2. handler'[q] \in Handler
    BY <2>1, <1>23, <1>h, HandlerEnds DEF Result
  <2>3. row'[q] \in Row \cup {None}
    BY <1>23, <1>r DEF HandlerEndsUnawaited, TypeOK, Fresh, Row
  <2> QED BY <2>2, <2>3
<1> QED BY <1>1, <1>2, <1>3, <1>4, <1>5, <1>6, <1>7, <1>8, <1>9, <1>10, <1>11, <1>12,
       <1>13, <1>14, <1>15, <1>16, <1>17, <1>18, <1>19, <1>20, <1>21, <1>22, <1>23 DEF
       Step, HandlerStep

(* It keeps the shape of its request. *)
LEMMA StepKeepsShape ==
    ASSUME TypeOK, NEW q \in Req, Local(q), Step(q) \/ HandlerStep(q)
    PROVE  Shape(q)'
<1>f. ASSUME NEW a \in BOOLEAN, Forward(q, a)
      PROVE  /\ handler'[q].forwarded /\ handler'[q].upstream = "open"
             /\ phase'[q] = "upstream"
  <2>1. phase[q] = "racing" /\ phase'[q] = "upstream"
    BY <1>f, ForwardRaces DEF Local, MovesTo, TypeOK
  <2>2. handler[q].upstream = "open"
    BY <2>1 DEF Local, Undecided, NoHandler
  <2>3. handler'[q] = [handler[q] EXCEPT !.forwarded = TRUE, !.attached = a]
    BY <1>f DEF Forward, TypeOK
  <2> QED BY <2>1, <2>2, <2>3 DEF TypeOK, Handler
<1>e. ASSUME NEW x \in Result, RaceEnds(q, x), phase[q] \in {"matching", "racing"}
      PROVE  /\ phase'[q] \in {"upstream", "done"} /\ events'[q] \in SUBSET Outcome
             /\ client'[q] \in {client[q], "mock"}
  BY <1>e, RaceIsTold DEF Local, Undecided, Unended
<1>k. handler'[q] \in Handler /\ row'[q] \in Row \cup {None}
  BY StepKeepsRecords
<1> USE <1>k DEF Shape, TypeOK, Local, Unseen, Undecided, MovesTo, Delivered, Logged, Handler, Outcome
<1>1. CASE Arrive(q)
  BY <1>1 DEF Arrive
<1>2. CASE Save(q)
  BY <1>2 DEF Save
<1>3. CASE SaveFails(q)
  BY <1>3 DEF SaveFails
<1>4. CASE NoMatch(q)
  BY <1>4 DEF NoMatch
<1>5. CASE Match(q)
  BY <1>5 DEF Match
<1>6. CASE MatchThrows(q)
  BY <1>6 DEF MatchThrows
<1>7. CASE MatchNoPromise(q)
  BY <1>7 DEF MatchNoPromise
<1>8. CASE RaceTimeout(q)
  BY <1>8 DEF RaceTimeout
<1>9. CASE UpstreamResponds(q)
  BY <1>9 DEF UpstreamResponds
<1>10. CASE UpstreamFails(q)
  BY <1>10 DEF UpstreamFails
<1>11. CASE RespondPlain(q)
  BY <1>11 DEF RespondPlain, Relays, Responded
<1>12. CASE Respond(q)
  BY <1>12 DEF Respond, ResponseEnds, Relays, Overrides, Responded, Intercepted
<1>13. CASE FinishTimeout(q)
  BY <1>13 DEF FinishTimeout, Relays, Responded
<1>14. CASE Abort(q)
  BY <1>14 DEF Abort, Rejected
<1>15. CASE GrowStale(q)
  BY <1>15 DEF GrowStale
<1>16. CASE RowDeleted(q)
  BY <1>16 DEF RowDeleted
<1>17. ASSUME NEW x \in Result \ {"upstream"}, MatchForwardsAndEnds(q, x) PROVE Shape(q)'
  BY <1>17, <1>e DEF MatchForwardsAndEnds
<1>18. ASSUME NEW x \in Result \ {"upstream"}, HandlerEndsRace(q, x) PROVE Shape(q)'
  BY <1>18, <1>e DEF HandlerEndsRace
<1>19. ASSUME NEW a \in BOOLEAN, Forward(q, a) PROVE Shape(q)'
  BY <1>19, <1>f DEF Forward
<1>20. CASE ForwardAgain(q)
  BY <1>20 DEF ForwardAgain
<1>21. ASSUME NEW a \in BOOLEAN, ForwardTooLate(q, a) PROVE Shape(q)'
  BY <1>21 DEF ForwardTooLate
<1>22. ASSUME NEW x \in Result, HandlerEndsResponse(q, x) PROVE Shape(q)'
  BY <1>22 DEF HandlerEndsResponse, ResponseEnds, Relays, Overrides, Responded, Intercepted
<1>23. ASSUME NEW x \in Result, HandlerEndsUnawaited(q, x) PROVE Shape(q)'
  BY <1>23 DEF HandlerEndsUnawaited
<1> QED BY <1>1, <1>2, <1>3, <1>4, <1>5, <1>6, <1>7, <1>8, <1>9, <1>10, <1>11, <1>12,
       <1>13, <1>14, <1>15, <1>16, <1>17, <1>18, <1>19, <1>20, <1>21, <1>22, <1>23 DEF
       Step, HandlerStep

(* The response comes to a request: its handler goes on, or has ended. *)
LEMMA RespondRest ==
    ASSUME TypeOK, NEW q \in Req, Local(q), Respond(q)
    PROVE  Rest(q)' /\ Told(q)'
<1>1. events[q] = {} /\ trying[q] # 0
  BY DEF Local, Credited, Respond
<1>2. q \notin pending'
  BY DEF Respond
<1>3. CASE handler[q].run = "running" /\ MovesTo(q, "finishing") /\ UNCHANGED <<client, row, events>>
  <2>1. Told(q)' /\ Stored(q)'
    BY <1>3, ToldKept DEF Local, Stored
  <2>2. phase'[q] = "finishing" /\ Name(q)' = Name(q)
    BY <1>3 DEF MovesTo, TypeOK, Name, Respond
  <2> QED BY <1>1, <1>2, <1>3, <2>1, <2>2
    DEF Local, Rest, Respond, Unseen, Unended, Undecided, Credited
<1>4. CASE handler[q].run = "done" /\ ResponseEnds(q, handler[q].result)
  <2>1. handler[q].result \in Result
    BY <1>4 DEF TypeOK, Handler, ResponseEnds, Result
  <2>2. Told(q)' /\ Stored(q)' /\ phase'[q] = "done"
    BY <1>1, <1>4, <2>1, ResponseIsTold DEF Local, Credited, Unended, Respond
  <2> QED BY <1>2, <2>2 DEF Rest, Local, Unseen, Unended, Undecided, Credited
<1> QED BY <1>3, <1>4 DEF Respond

(* The handler calls forward(): its interceptor is credited. *)
LEMMA ForwardRest ==
    ASSUME TypeOK, NEW q \in Req, Local(q), NEW a \in BOOLEAN, Forward(q, a)
    PROVE  Rest(q)' /\ Told(q)'
<1>1. /\ phase[q] = "racing" /\ phase'[q] = "upstream"
      /\ row'[q] = Intercepted(row[q], Name(q), None)
  BY ForwardRaces DEF Local, MovesTo, TypeOK
<1>2. /\ events[q] = {} /\ trying[q] # 0 /\ client[q] \in {"waiting", "gone"}
      /\ client[q] = "waiting" => q \in requestInfo
      /\ row[q] # None => row[q].type = None /\ row[q].response = None
  BY <1>1 DEF Local, Undecided, Unended
<1>3. row'[q] # None => /\ row[q] # None /\ row'[q].by = Name(q)
                        /\ row'[q].type = None /\ row'[q].response = None
  BY <1>1, <1>2 DEF Intercepted, TypeOK, Row
<1>4. UNCHANGED <<client, requestInfo, trying, events>>
  BY DEF Forward
<1>5. Cardinality(events[q]) = 0
  BY <1>2, FS_EmptySet
<1>6. Rest(q)'
  <2>1. Unseen(q)' /\ Unended(q)' /\ Undecided(q)' /\ Stored(q)'
    BY <1>1, <1>2, <1>3, <1>4 DEF Unseen, Unended, Undecided, Stored
  <2>2. Name(q)' = Name(q)
    BY <1>4 DEF Name
  <2>3. Credited(q)'
    BY <1>1, <1>2, <1>3, <1>4, <2>2 DEF Credited
  <2> QED BY <2>1, <2>3 DEF Rest
<1>7. Told(q)'
  <2>1. events'[q] = {} /\ Cardinality(events'[q]) = 0
    BY <1>2, <1>4, <1>5
  <2>2. Cardinality(events'[q]) <= 1
    BY <2>1
  <2>3. row'[q] # None => row'[q].type # "mocked" /\ row'[q].type # "modified"
    BY <1>3, ProxyAssumption
  <2> QED BY <2>1, <2>2, <2>3 DEF Told
<1> QED BY <1>6, <1>7

(* The handler ends before the request goes upstream. *)
LEMMA RaceRest ==
    ASSUME TypeOK, NEW q \in Req, Local(q), NEW x \in Result, RaceEnds(q, x),
           phase[q] \in {"matching", "racing"},
           UNCHANGED <<requestInfo, trying, pending>>
    PROVE  Rest(q)' /\ Told(q)'
<1>1. /\ events[q] = {} /\ trying[q] # 0 /\ q \notin pending
      /\ row[q] # None => row[q].type = None /\ row[q].response = None
      /\ client[q] \in {"waiting", "gone"}
      /\ client[q] = "waiting" => q \in requestInfo
  BY DEF Local, Undecided, Unended
<1>2. Told(q)'
  BY <1>1, RaceIsTold
<1>3. CASE /\ phase'[q] = "upstream" /\ client'[q] = client[q] /\ row'[q] = row[q]
           /\ events'[q] \cap {"mocked", "modified", "observed"} = {}
  BY <1>1, <1>2, <1>3 DEF Rest, Unseen, Unended, Undecided, Credited, Stored
<1>4. CASE phase'[q] = "done" /\ Stored(q)'
  BY <1>1, <1>2, <1>4 DEF Rest, Unseen, Unended, Undecided, Credited
<1> QED BY <1>1, <1>3, <1>4, RaceIsTold

(* The handler ends in the time that it has after the response. *)
LEMMA HandlerEndsResponseRest ==
    ASSUME TypeOK, NEW q \in Req, Local(q), NEW x \in Result, HandlerEndsResponse(q, x)
    PROVE  Rest(q)' /\ Told(q)'
<1>1. Told(q)' /\ Stored(q)' /\ phase'[q] = "done"
  BY ResponseIsTold DEF Local, Credited, Unended, HandlerEndsResponse
<1>2. q \notin pending'
  BY DEF Local, Credited, HandlerEndsResponse
<1> QED BY <1>1, <1>2 DEF Rest, Unseen, Unended, Undecided, Credited

(* A step of a request keeps what holds of it at each await. *)
LEMMA StepKeepsRest ==
    ASSUME TypeOK, NEW q \in Req, Local(q), Step(q) \/ HandlerStep(q)
    PROVE  Rest(q)'
<1>f. ForwardAgain(q) => phase[q] \notin {"new", "decoding", "matching", "racing"}
  BY DEF ForwardAgain, Local, Unseen, Undecided, NoHandler
<1>e. ASSUME NEW x \in Result, MatchForwardsAndEnds(q, x) \/ HandlerEndsRace(q, x)
      PROVE  Rest(q)'
  BY <1>e, RaceRest DEF MatchForwardsAndEnds, HandlerEndsRace
<1>w. ASSUME NEW a \in BOOLEAN, Forward(q, a) PROVE Rest(q)'
  BY <1>w, ForwardRest
<1>r. ASSUME NEW x \in Result, HandlerEndsResponse(q, x) PROVE Rest(q)'
  BY <1>r, HandlerEndsResponseRest
<1>d. RowDeleted(q) => Undecided(q)' /\ Credited(q)'
  <2>1. RowDeleted(q) => row'[q] = None
    BY DEF RowDeleted, TypeOK
  <2> QED BY <2>1 DEF RowDeleted, Local, Undecided, Credited, Name
<1>m. Match(q) => Undecided(q)' /\ Credited(q)'
  <2> SUFFICES ASSUME Match(q) PROVE Undecided(q)' /\ Credited(q)'
    OBVIOUS
  <2>1. handler[q] = NoHandler /\ q \notin pending /\ trying[q] # 0 /\ events[q] = {}
        /\ (row[q] # None => row[q].by = None)
    BY DEF Match, Local, Undecided
  <2>2. handler'[q] = [NoHandler EXCEPT !.run = "running"] /\ phase'[q] = "racing"
    BY <2>1 DEF Match, MovesTo, TypeOK
  <2> QED BY <2>1, <2>2 DEF Match, Undecided, Credited
<1> USE ProxyAssumption DEF Local, Unseen, Unended, Undecided, Credited, Stored, Logged, TypeOK,
        Name, Interceptor, Row, Handler, Fresh, NoHandler, MovesTo, Delivered, Result, Outcome
<1>1. CASE Arrive(q)
  <2>1. Unseen(q)' /\ Unended(q)' /\ Stored(q)'
    BY <1>1 DEF Arrive
  <2>2. Undecided(q)' /\ Credited(q)'
    BY <1>1 DEF Arrive
  <2> QED BY <2>1, <2>2 DEF Rest
<1>2. CASE Save(q)
  <2>1. Unseen(q)' /\ Unended(q)' /\ Stored(q)'
    BY <1>2 DEF Save
  <2>2. Undecided(q)' /\ Credited(q)'
    BY <1>2 DEF Save
  <2> QED BY <2>1, <2>2 DEF Rest
<1>3. CASE SaveFails(q)
  <2>1. Unseen(q)' /\ Unended(q)' /\ Stored(q)'
    BY <1>3 DEF SaveFails
  <2>2. Undecided(q)' /\ Credited(q)'
    BY <1>3 DEF SaveFails
  <2> QED BY <2>1, <2>2 DEF Rest
<1>4. CASE NoMatch(q)
  <2>1. Unseen(q)' /\ Unended(q)' /\ Stored(q)'
    BY <1>4 DEF NoMatch
  <2>2. Undecided(q)' /\ Credited(q)'
    BY <1>4 DEF NoMatch
  <2> QED BY <2>1, <2>2 DEF Rest
<1>5. CASE Match(q)
  <2>1. Unseen(q)' /\ Unended(q)' /\ Stored(q)'
    BY <1>5 DEF Match
  <2>2. Undecided(q)' /\ Credited(q)'
    BY <1>5, <1>m
  <2> QED BY <2>1, <2>2 DEF Rest
<1>6. CASE MatchThrows(q)
  <2>1. Unseen(q)' /\ Unended(q)' /\ Stored(q)'
    BY <1>6 DEF MatchThrows
  <2>2. Undecided(q)' /\ Credited(q)'
    BY <1>6 DEF MatchThrows
  <2> QED BY <2>1, <2>2 DEF Rest
<1>7. CASE MatchNoPromise(q)
  <2>1. Unseen(q)' /\ Unended(q)' /\ Stored(q)'
    BY <1>7 DEF MatchNoPromise
  <2>2. Undecided(q)' /\ Credited(q)'
    BY <1>7 DEF MatchNoPromise
  <2> QED BY <2>1, <2>2 DEF Rest
<1>8. CASE RaceTimeout(q)
  <2>1. Unseen(q)' /\ Unended(q)' /\ Stored(q)'
    BY <1>8 DEF RaceTimeout
  <2>2. Undecided(q)' /\ Credited(q)'
    BY <1>8 DEF RaceTimeout
  <2> QED BY <2>1, <2>2 DEF Rest
<1>9. CASE UpstreamResponds(q)
  <2>1. Unseen(q)' /\ Unended(q)' /\ Stored(q)'
    BY <1>9 DEF UpstreamResponds
  <2>2. Undecided(q)' /\ Credited(q)'
    BY <1>9 DEF UpstreamResponds
  <2> QED BY <2>1, <2>2 DEF Rest
<1>10. CASE UpstreamFails(q)
  <2>1. Unseen(q)' /\ Unended(q)' /\ Stored(q)'
    BY <1>10 DEF UpstreamFails
  <2>2. Undecided(q)' /\ Credited(q)'
    BY <1>10 DEF UpstreamFails
  <2> QED BY <2>1, <2>2 DEF Rest
<1>11. CASE RespondPlain(q)
  <2>1. Unseen(q)' /\ Unended(q)' /\ Stored(q)'
    BY <1>11 DEF RespondPlain, Relays, Responded
  <2>2. Undecided(q)' /\ Credited(q)'
    BY <1>11 DEF RespondPlain, Relays, Responded
  <2> QED BY <2>1, <2>2 DEF Rest
<1>12. CASE Respond(q)
  BY <1>12, RespondRest
<1>13. CASE FinishTimeout(q)
  <2>1. Unseen(q)' /\ Unended(q)' /\ Stored(q)'
    BY <1>13 DEF FinishTimeout, Relays, Responded
  <2>2. Undecided(q)' /\ Credited(q)'
    BY <1>13 DEF FinishTimeout, Relays, Responded
  <2> QED BY <2>1, <2>2 DEF Rest
<1>14. CASE Abort(q)
  <2>1. Unseen(q)' /\ Unended(q)' /\ Stored(q)'
    BY <1>14 DEF Abort, Rejected
  <2>2. Undecided(q)' /\ Credited(q)'
    BY <1>14 DEF Abort, Rejected
  <2> QED BY <2>1, <2>2 DEF Rest
<1>15. CASE GrowStale(q)
  <2>1. Unseen(q)' /\ Unended(q)' /\ Stored(q)'
    BY <1>15 DEF GrowStale
  <2>2. Undecided(q)' /\ Credited(q)'
    BY <1>15 DEF GrowStale
  <2> QED BY <2>1, <2>2 DEF Rest
<1>16. CASE RowDeleted(q)
  <2>1. Unseen(q)' /\ Unended(q)' /\ Stored(q)'
    BY <1>16 DEF RowDeleted
  <2>2. Undecided(q)' /\ Credited(q)'
    BY <1>16, <1>d
  <2> QED BY <2>1, <2>2 DEF Rest
<1>17. ASSUME NEW x \in Result \ {"upstream"}, MatchForwardsAndEnds(q, x) PROVE Rest(q)'
  BY <1>17, <1>e
<1>18. ASSUME NEW x \in Result \ {"upstream"}, HandlerEndsRace(q, x) PROVE Rest(q)'
  BY <1>18, <1>e
<1>19. ASSUME NEW a \in BOOLEAN, Forward(q, a) PROVE Rest(q)'
  BY <1>19, <1>w
<1>20. CASE ForwardAgain(q)
  <2>2. Unseen(q)' /\ Unended(q)' /\ Undecided(q)' /\ Credited(q)' /\ Stored(q)'
    BY <1>20, <1>f DEF ForwardAgain
  <2> QED BY <2>2 DEF Rest
<1>21. ASSUME NEW a \in BOOLEAN, ForwardTooLate(q, a) PROVE Rest(q)'
  <2>1. Unseen(q)' /\ Unended(q)' /\ Stored(q)'
    BY <1>21 DEF ForwardTooLate
  <2>2. Undecided(q)' /\ Credited(q)'
    BY <1>21 DEF ForwardTooLate
  <2> QED BY <2>1, <2>2 DEF Rest
<1>22. ASSUME NEW x \in Result, HandlerEndsResponse(q, x) PROVE Rest(q)'
  BY <1>22, <1>r
<1>23. ASSUME NEW x \in Result, HandlerEndsUnawaited(q, x) PROVE Rest(q)'
  <2>1. Unseen(q)' /\ Unended(q)' /\ Stored(q)'
    BY <1>23 DEF HandlerEndsUnawaited
  <2>2. Undecided(q)' /\ Credited(q)'
    BY <1>23 DEF HandlerEndsUnawaited
  <2> QED BY <2>1, <2>2 DEF Rest
<1> QED BY <1>1, <1>2, <1>3, <1>4, <1>5, <1>6, <1>7, <1>8, <1>9, <1>10, <1>11, <1>12,
       <1>13, <1>14, <1>15, <1>16, <1>17, <1>18, <1>19, <1>20, <1>21, <1>22, <1>23 DEF
       Step, HandlerStep

(* It keeps what log and row tell of it. *)
LEMMA StepKeepsTold ==
    ASSUME TypeOK, NEW q \in Req, Local(q), Step(q) \/ HandlerStep(q)
    PROVE  Told(q)'
<1>1. CASE Arrive(q)
  BY <1>1, ToldKept DEF Local, Arrive
<1>2. CASE Save(q)
  BY <1>2, ProxyAssumption DEF Local, Told, Unseen, Fresh, Save, TypeOK
<1>3. CASE SaveFails(q)
  BY <1>3, ProxyAssumption DEF Local, Told, Unseen, Fresh, SaveFails, TypeOK
<1>4. CASE NoMatch(q)
  BY <1>4, ToldKept DEF Local, NoMatch
<1>5. CASE Match(q)
  BY <1>5, ToldKept DEF Local, Match
<1>6. CASE MatchThrows(q)
  BY <1>6, ToldKept DEF Local, MatchThrows
<1>7. CASE MatchNoPromise(q)
  BY <1>7, ToldOnce, ProxyAssumption DEF Local, Undecided, Unended, Outcome, MatchNoPromise, TypeOK
<1>8. CASE RaceTimeout(q)
  BY <1>8, ToldOnce, ProxyAssumption DEF Local, Undecided, Unended, Outcome, RaceTimeout, TypeOK
<1>9. CASE UpstreamResponds(q)
  BY <1>9, ToldKept DEF Local, UpstreamResponds
<1>10. CASE UpstreamFails(q)
  BY <1>10, ToldKept DEF Local, UpstreamFails
<1>11. CASE RespondPlain(q)
  BY <1>11, ProxyAssumption DEF Local, Told, Unended, RespondPlain, Relays, Responded, TypeOK, Row
<1>12. CASE Respond(q)
  BY <1>12, RespondRest
<1>13. CASE FinishTimeout(q)
  BY <1>13, GivenUpIsTold DEF Local, Credited, Unended, FinishTimeout
<1>14. CASE Abort(q)
  BY <1>14, ToldKept DEF Local, Abort
<1>15. CASE GrowStale(q)
  BY <1>15, ToldKept DEF Local, GrowStale
<1>16. CASE RowDeleted(q)
  BY <1>16, ToldDropped DEF Local, RowDeleted, TypeOK
<1>17. ASSUME NEW x \in Result \ {"upstream"}, MatchForwardsAndEnds(q, x) PROVE Told(q)'
  BY <1>17, RaceIsTold DEF Local, Undecided, Unended, MatchForwardsAndEnds
<1>18. ASSUME NEW x \in Result \ {"upstream"}, HandlerEndsRace(q, x) PROVE Told(q)'
  BY <1>18, RaceIsTold DEF Local, Undecided, Unended, HandlerEndsRace
<1>19. ASSUME NEW a \in BOOLEAN, Forward(q, a) PROVE Told(q)'
  BY <1>19, ForwardRest
<1>20. CASE ForwardAgain(q)
  BY <1>20, ToldKept DEF Local, ForwardAgain
<1>21. ASSUME NEW a \in BOOLEAN, ForwardTooLate(q, a) PROVE Told(q)'
  BY <1>21, ToldKept DEF Local, ForwardTooLate
<1>22. ASSUME NEW x \in Result, HandlerEndsResponse(q, x) PROVE Told(q)'
  BY <1>22, HandlerEndsResponseRest
<1>23. ASSUME NEW x \in Result, HandlerEndsUnawaited(q, x) PROVE Told(q)'
  BY <1>23, ToldKept DEF Local, HandlerEndsUnawaited
<1> QED BY <1>1, <1>2, <1>3, <1>4, <1>5, <1>6, <1>7, <1>8, <1>9, <1>10, <1>11, <1>12,
       <1>13, <1>14, <1>15, <1>16, <1>17, <1>18, <1>19, <1>20, <1>21, <1>22, <1>23 DEF
       Step, HandlerStep

(* Only a step of the race opens or closes it for forward(). *)
LEMMA StepKeepsForwards ==
    ASSUME TypeOK, NEW q \in Req, Local(q), Step(q) \/ HandlerStep(q)
    PROVE  ForwardsInRace(q)'
<1> USE DEF Local, ForwardsInRace, Unseen, Undecided, Credited, NoHandler, MovesTo, TypeOK, Handler
<1>1. CASE Arrive(q)
  BY <1>1 DEF Arrive
<1>2. CASE Save(q)
  BY <1>2 DEF Save
<1>3. CASE SaveFails(q)
  BY <1>3 DEF SaveFails
<1>4. CASE NoMatch(q)
  BY <1>4 DEF NoMatch
<1>5. CASE Match(q)
  BY <1>5 DEF Match
<1>6. CASE MatchThrows(q)
  BY <1>6 DEF MatchThrows
<1>7. CASE MatchNoPromise(q)
  BY <1>7 DEF MatchNoPromise
<1>8. CASE RaceTimeout(q)
  BY <1>8 DEF RaceTimeout
<1>9. CASE UpstreamResponds(q)
  BY <1>9 DEF UpstreamResponds
<1>10. CASE UpstreamFails(q)
  BY <1>10 DEF UpstreamFails
<1>11. CASE RespondPlain(q)
  BY <1>11 DEF RespondPlain, Relays
<1>12. CASE Respond(q)
  BY <1>12 DEF Respond
<1>13. CASE FinishTimeout(q)
  BY <1>13 DEF FinishTimeout
<1>14. CASE Abort(q)
  BY <1>14 DEF Abort, Rejected
<1>15. CASE GrowStale(q)
  BY <1>15 DEF GrowStale
<1>16. CASE RowDeleted(q)
  BY <1>16 DEF RowDeleted
<1>17. ASSUME NEW x \in Result \ {"upstream"}, MatchForwardsAndEnds(q, x) PROVE ForwardsInRace(q)'
  BY <1>17 DEF MatchForwardsAndEnds
<1>18. ASSUME NEW x \in Result \ {"upstream"}, HandlerEndsRace(q, x) PROVE ForwardsInRace(q)'
  BY <1>18 DEF HandlerEndsRace
<1>19. ASSUME NEW a \in BOOLEAN, Forward(q, a) PROVE ForwardsInRace(q)'
  BY <1>19 DEF Forward
<1>20. CASE ForwardAgain(q)
  BY <1>20 DEF ForwardAgain
<1>21. ASSUME NEW a \in BOOLEAN, ForwardTooLate(q, a) PROVE ForwardsInRace(q)'
  BY <1>21 DEF ForwardTooLate
<1>22. ASSUME NEW x \in Result, HandlerEndsResponse(q, x) PROVE ForwardsInRace(q)'
  BY <1>22 DEF HandlerEndsResponse
<1>23. ASSUME NEW x \in Result, HandlerEndsUnawaited(q, x) PROVE ForwardsInRace(q)'
  BY <1>23 DEF HandlerEndsUnawaited
<1> QED BY <1>1, <1>2, <1>3, <1>4, <1>5, <1>6, <1>7, <1>8, <1>9, <1>10, <1>11, <1>12,
       <1>13, <1>14, <1>15, <1>16, <1>17, <1>18, <1>19, <1>20, <1>21, <1>22, <1>23 DEF
       Step, HandlerStep

-----------------------------------------------------------------------------
(* A step of a request keeps the invariant. *)
LEMMA StepKeepsInv ==
    ASSUME ProxyInv, NEW q \in Req, Step(q) \/ HandlerStep(q)
    PROVE  ProxyInv'
<1>1. TypeOK /\ \A r \in Req : Local(r)
  BY InvIsLocal
<1>2. Only(q)
  BY <1>1, StepIsLocal
<1>3. TypeOK'
  BY <1>1, <1>2, StepKeepsShape, TypeKept
<1>4. ASSUME NEW r \in Req PROVE Local(r)'
  <2>1. CASE r = q
    <3>1. Rest(q)' /\ Told(q)' /\ ForwardsInRace(q)'
      BY <1>1, StepKeepsRest, StepKeepsTold, StepKeepsForwards
    <3> QED BY <2>1, <3>1 DEF Rest, Local
  <2>2. CASE r # q
    BY <1>1, <1>2, <2>2, OthersAreSame, Frame
  <2> QED BY <2>1, <2>2
<1> QED BY <1>3, <1>4 DEF ProxyInv, StoredIsDelivered, EventsMatchRow, Local, Stored, Told

(* The cleanup settles promises of forward() and takes entries out, of     *)
(* requests that no longer race.                                           *)
LEMMA SweepKeepsInv ==
    ASSUME ProxyInv, Sweep
    PROVE  ProxyInv'
<1>1. TypeOK /\ \A r \in Req : Local(r)
  BY InvIsLocal
<1>2. ASSUME NEW r \in Req PROVE handler'[r] \in Handler
  <2>1. handler[r] \in Handler
    BY <1>1 DEF TypeOK
  <2>2. handler'[r] = handler[r] \/ handler'[r] = [handler[r] EXCEPT !.upstream = "rejected"]
    BY DEF Sweep, Rejected
  <2> QED BY <2>1, <2>2, HandlerHears
<1>3. TypeOK'
  <2>1. handler' \in [Req -> Handler]
    BY <1>2 DEF Sweep, Rejected
  <2>2. ASSUME NEW r \in pending' PROVE handler'[r].forwarded /\ handler'[r].upstream = "open"
    <3>1. r \in Req /\ r \in pending /\ r \notin stale
      BY <1>1, <2>2 DEF Sweep, TypeOK
    <3>2. handler'[r] = handler[r]
      BY <3>1 DEF Sweep, Rejected
    <3> QED BY <1>1, <3>1, <3>2 DEF TypeOK
  <2>3. alive' \in BOOLEAN
    BY DEF Sweep, Rejected, Unhandled
  <2> QED BY <1>1, <2>1, <2>2, <2>3 DEF TypeOK, Sweep
<1>4. ASSUME NEW r \in Req PROVE Local(r)'
  <2>1. CASE r \in stale
    <3>1. Local(r) /\ r \in pending
      BY <1>1, <2>1 DEF TypeOK
    <3>2. phase[r] \notin {"new", "decoding", "matching", "racing"}
      BY <3>1 DEF Local, Unseen, Undecided
    <3>3. r \notin pending'
      BY <2>1 DEF Sweep
    <3>4. phase[r] # "finishing"
      BY <3>1 DEF Local, Credited
    <3>5. ForwardsInRace(r)'
      <4>1. handler'[r].forwarded = handler[r].forwarded /\ handler[r].forwarded
        BY <1>1, <2>1, <3>1 DEF Sweep, Rejected, TypeOK, Handler
      <4> QED BY <4>1, <1>2 DEF ForwardsInRace, Handler
    <3> QED BY <3>1, <3>2, <3>3, <3>4, <3>5
        DEF Local, Unseen, Unended, Undecided, Credited, Stored, Told, Name, Sweep
  <2>2. CASE r \notin stale
    <3>1. Same(r)
      BY <2>2 DEF Same, Sweep, Rejected
    <3> QED BY <1>1, <3>1, Frame
  <2> QED BY <2>1, <2>2
<1> QED BY <1>3, <1>4 DEF ProxyInv, StoredIsDelivered, EventsMatchRow, Local, Stored, Told

(* Initially no request has come. *)
LEMMA InitHasInv == Init => ProxyInv
<1> SUFFICES ASSUME Init PROVE ProxyInv
  OBVIOUS
<1>1. TypeOK
  <2>1. NoHandler \in Handler
    BY DEF NoHandler, Handler
  <2>2. Len(Interceptors) \in Nat
    BY ProxyAssumption
  <2> QED BY <2>1, <2>2 DEF Init, TypeOK
<1>2. ASSUME NEW r \in Req PROVE Local(r)
  <2>1. Cardinality(events[r]) = 0
    BY FS_EmptySet DEF Init
  <2>2. ForwardsInRace(r)
    BY DEF Init, ForwardsInRace, NoHandler
  <2> QED BY <2>1, <2>2 DEF Init, Local, Unseen, Unended, Undecided, Credited, Stored, Told
<1> QED BY <1>1, <1>2, InvIsLocal

(* So does every step of the proxy, and a stuttering step. *)
LEMMA NextKeepsInv ==
    ASSUME ProxyInv, [Next]_vars
    PROVE  ProxyInv'
<1>1. CASE UNCHANGED vars
  BY <1>1 DEF vars, ProxyInv, TypeOK, StoredIsDelivered, EventsMatchRow, Unseen, Unended,
     Undecided, ForwardsInRace, Credited, Name
<1>2. CASE Next
  BY <1>2, StepKeepsInv, SweepKeepsInv DEF Next
<1> QED BY <1>1, <1>2

(* At every await of the callbacks, whoever acted in between, what they    *)
(* rely on after the await still holds.                                    *)
THEOREM ProxyInvariant == Spec => []ProxyInv
<1>1. Init => ProxyInv
  BY InitHasInv
<1>2. ProxyInv /\ [Next]_vars => ProxyInv'
  BY NextKeepsInv
<1> QED BY <1>1, <1>2, PTL DEF Spec

(* The table says of no request that it was answered in another way than   *)
(* its client was.                                                         *)
THEOREM StoredAsDelivered == Spec => []StoredIsDelivered
<1>1. ProxyInv => StoredIsDelivered
  BY DEF ProxyInv
<1> QED BY <1>1, ProxyInvariant, PTL

(* The event log and the table never contradict each other.                *)
THEOREM EventsTellOfRow == Spec => []EventsMatchRow
<1>1. ProxyInv => EventsMatchRow
  BY DEF ProxyInv
<1> QED BY <1>1, ProxyInvariant, PTL

-----------------------------------------------------------------------------
(* The race leaves the row alone, or answers with a mock. *)
LEMMA RaceIsExchange ==
    ASSUME ProxyInv, NEW q \in Req, NEW x \in Result, RaceEnds(q, x), Undecided(q),
           phase[q] \in {"matching", "racing"}, UNCHANGED captured
    PROVE  Exchange!Next \/ UNCHANGED <<row, captured>>
<1>1. CASE row' = row
  BY <1>1
<1>2. CASE Mocks(q) /\ row[q] = None
  BY <1>2 DEF Mocks, Responded, Intercepted, ProxyInv, TypeOK
<1>3. CASE Mocks(q) /\ row[q] # None
  <2>1. row[q].response = None /\ row[q].by = None /\ row[q] \in Row
    BY <1>3 DEF ProxyInv, TypeOK, Unended, Undecided
  <2>4. row[q].type = None
    BY <1>3 DEF ProxyInv, Unended
  <2>2. Name(q) \in Interceptor
    BY Named DEF ProxyInv, Undecided
  <2>3. row' = [row EXCEPT ![q] = [by |-> Name(q), type |-> "mocked", response |-> "mock"]]
    <3>1. row[q] = [by |-> None, type |-> None, response |-> None]
      BY <2>1, <2>4, RowFields
    <3>2. Responded(Intercepted(row[q], Name(q), "mocked"), "mock")
            = [by |-> Name(q), type |-> "mocked", response |-> "mock"]
      BY <1>3, <2>2, <3>1, Intercepts
    <3> QED BY <1>3, <3>2 DEF Mocks
  <2> QED BY <1>3, <2>1, <2>2, <2>3 DEF Exchange!Next, Exchange!AnswerMocked, Exchange!Unanswered
<1> QED BY <1>1, <1>2, <1>3 DEF RaceEnds, Passes

(* The end of beforeResponse without an override adds the response. *)
LEMMA RelayIsExchange ==
    ASSUME ProxyInv, NEW q \in Req, phase[q] \notin {"done", "failed"},
           Relays(q, row[q]), UNCHANGED captured
    PROVE  Exchange!Next \/ UNCHANGED <<row, captured>>
<1>1. CASE row[q] = None
  BY <1>1 DEF Relays, Responded, ProxyInv, TypeOK
<1>2. CASE row[q] # None
  <2>1. row[q].response = None
    BY <1>2 DEF ProxyInv, Unended
  <2> QED BY <1>2, <2>1 DEF Relays, Responded, Exchange!Next, Exchange!AnswerPlain, Exchange!Unanswered
<1> QED BY <1>1, <1>2

(* After a forward() the interceptor is credited, and its end only decides *)
(* on the response and on what is said of it.                              *)
LEMMA ResponseIsExchange ==
    ASSUME ProxyInv, NEW q \in Req, NEW x \in Result, ResponseEnds(q, x),
           phase[q] \notin {"done", "failed"}, trying[q] # 0,
           row[q] = None \/ row[q].by = Name(q), UNCHANGED captured
    PROVE  Exchange!Next \/ UNCHANGED <<row, captured>>
<1>1. Name(q) \in Interceptor /\ Name(q) # None
  BY Named DEF ProxyInv
<1>2. row[q] # None => row[q] \in Row /\ row[q].type = None /\ row[q].response = None
  BY DEF ProxyInv, TypeOK, Unended
<1>3. Intercepted(row[q], Name(q), None) = row[q]
  BY <1>2 DEF Intercepted, Row
<1>4. CASE Relays(q, row[q])
  BY <1>4, RelayIsExchange
<1>5. CASE x \in {"upstream", "override"} /\ Overrides(q, x)
  <2>1. CASE row[q] = None
    BY <1>5, <2>1 DEF Overrides, Responded, Intercepted, ProxyInv, TypeOK
  <2>2. CASE row[q] # None
    <3>1. row[q] = [by |-> Name(q), type |-> None, response |-> None]
      BY <1>2, <2>2, RowFields
    <3> DEFINE new == [by |-> Name(q), type |-> "modified", response |-> x]
    <3>2. /\ Responded(Intercepted(row[q], Name(q), "modified"), x) = new
          /\ [row[q] EXCEPT !.type = "modified", !.response = x] = new
      BY <1>1, <1>5, <2>2, <3>1, Intercepts
    <3>3. row' = [row EXCEPT ![q].type = "modified", ![q].response = x]
      BY <1>5, <3>1, <3>2 DEF Overrides, ProxyInv, TypeOK
    <3> QED BY <1>1, <1>2, <1>5, <2>2, <3>3
        DEF Exchange!Next, Exchange!AnswerModified, Exchange!Unanswered
  <2> QED BY <2>1, <2>2
<1> QED BY <1>3, <1>4, <1>5 DEF ResponseEnds

(* The first forward() credits the interceptor. *)
LEMMA ForwardIsExchange ==
    ASSUME ProxyInv, NEW q \in Req, NEW a \in BOOLEAN, Forward(q, a)
    PROVE  Exchange!Next \/ UNCHANGED <<row, captured>>
<1>1. /\ Undecided(q) /\ Unended(q) /\ row \in [Req -> Row \cup {None}]
      /\ phase[q] = "racing" /\ row' = [row EXCEPT ![q] = Intercepted(@, Name(q), None)]
      /\ UNCHANGED captured
  BY ForwardRaces DEF ProxyInv, TypeOK, Forward
<1>2. CASE row[q] = None
  BY <1>1, <1>2 DEF Intercepted
<1>3. CASE row[q] # None
  <2>1. row[q] \in Row /\ row[q].by = None /\ row[q].type = None /\ row[q].response = None
    BY <1>1, <1>3 DEF Undecided, Unended
  <2>2. Name(q) \in Interceptor
    BY <1>1, Named DEF ProxyInv, Undecided
  <2>3. [row[q] EXCEPT !.by = Name(q), !.type = None] = [row[q] EXCEPT !.by = Name(q)]
    BY <2>1 DEF Row
  <2>4. row' = [row EXCEPT ![q].by = Name(q)]
    BY <1>1, <1>3, <2>3 DEF Intercepted
  <2> QED BY <1>1, <1>3, <2>1, <2>2, <2>4
      DEF Exchange!Next, Exchange!Credit, Exchange!Unanswered
<1> QED BY <1>2, <1>3

(* Every step is a step in the life of one row, or changes none. *)
LEMMA NextIsExchange ==
    ASSUME ProxyInv, [Next]_vars
    PROVE  [Exchange!Next]_<<row, captured>>
<1>1. CASE UNCHANGED <<row, captured>>
  BY <1>1
<1>2. ASSUME NEW q \in Req, Save(q) \/ SaveFails(q) PROVE Exchange!Next
  <2>1. q \notin captured
    BY <1>2 DEF ProxyInv, Unseen, Save, SaveFails
  <2> QED BY <1>2, <2>1
      DEF Save, SaveFails, Fresh, Exchange!Next, Exchange!Capture, Exchange!Fresh
<1>3. ASSUME NEW q \in Req, NEW a \in BOOLEAN, Forward(q, a)
      PROVE  Exchange!Next \/ UNCHANGED <<row, captured>>
  BY <1>3, ForwardIsExchange
<1>4. ASSUME NEW q \in Req, NEW x \in Result,
             MatchForwardsAndEnds(q, x) \/ HandlerEndsRace(q, x)
      PROVE  Exchange!Next \/ UNCHANGED <<row, captured>>
  BY <1>4, RaceIsExchange DEF MatchForwardsAndEnds, HandlerEndsRace, ProxyInv
<1>5. ASSUME NEW q \in Req, RespondPlain(q) \/ FinishTimeout(q)
      PROVE  Exchange!Next \/ UNCHANGED <<row, captured>>
  BY <1>5, RelayIsExchange DEF RespondPlain, FinishTimeout
<1>6. ASSUME NEW q \in Req, NEW x \in Result, HandlerEndsResponse(q, x)
      PROVE  Exchange!Next \/ UNCHANGED <<row, captured>>
  <2>1. Credited(q) /\ phase[q] = "finishing"
    BY <1>6 DEF ProxyInv, HandlerEndsResponse
  <2> QED BY <1>6, <2>1, ResponseIsExchange DEF Credited, HandlerEndsResponse
<1>7. ASSUME NEW q \in Req, Respond(q)
      PROVE  Exchange!Next \/ UNCHANGED <<row, captured>>
  <2>1. Credited(q) /\ phase[q] = "responding" /\ q \in pending
    BY <1>7 DEF ProxyInv, Respond
  <2>2. CASE ResponseEnds(q, handler[q].result)
    <3>1. handler[q].result \in Result
      BY <2>2 DEF ResponseEnds, Result
    <3> QED BY <1>7, <2>1, <2>2, <3>1, ResponseIsExchange DEF Credited, Respond
  <2>3. CASE UNCHANGED row
    BY <1>7, <2>3 DEF Respond
  <2> QED BY <1>7, <2>2, <2>3 DEF Respond
<1>8. ASSUME NEW q \in Req, RowDeleted(q) PROVE Exchange!Next
  BY <1>8 DEF RowDeleted, Exchange!Next, Exchange!Drop
<1>9. ASSUME NEW q \in Req, Step(q)
      PROVE  Exchange!Next \/ UNCHANGED <<row, captured>>
  BY <1>9, <1>2, <1>5, <1>7, <1>8
  DEF Step, Arrive, NoMatch, Match, MatchThrows, MatchNoPromise, RaceTimeout, UpstreamResponds,
      UpstreamFails, Abort, GrowStale
<1>10. ASSUME NEW q \in Req, HandlerStep(q)
       PROVE  Exchange!Next \/ UNCHANGED <<row, captured>>
  BY <1>10, <1>3, <1>4, <1>6 DEF HandlerStep, ForwardAgain, ForwardTooLate, HandlerEndsUnawaited
<1>11. CASE Sweep
  BY <1>11 DEF Sweep
<1> QED BY <1>1, <1>9, <1>10, <1>11 DEF Next, vars

(* The proxy implements the life of a row that readers rely on: captured   *)
(* once, credited before the answer, answered once and for all.            *)
THEOREM ProxyImplementsExchange == Spec => ImplementsExchange
<1>1. Init => Exchange!Init
  BY DEF Init, Exchange!Init
<1>2. ProxyInv /\ [Next]_vars => [Exchange!Next]_<<row, captured>>
  BY NextIsExchange
<1> QED BY <1>1, <1>2, ProxyInvariant, PTL DEF Spec, ImplementsExchange, Exchange!Spec

=============================================================================
