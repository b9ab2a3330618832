----------------------------- MODULE RequestQuery ----------------------------
(***************************************************************************)
(* Asking the daemon for captured requests.  A question is typed at one of *)
(* three doors - a tool of src/mcp/server.ts, a command of src/cli/        *)
(* commands/requests.ts, the filter bar of the terminal UI - which turns   *)
(* it into a RequestFilter; src/daemon/control.ts checks the shape of the  *)
(* filter and src/daemon/storage.ts turns it into the WHERE clause of one  *)
(* of four queries.  A reader pages through the answer with offsets while  *)
(* traffic is captured, answered, bookmarked, cleared and evicted.         *)
(*                                                                         *)
(* An optional parameter is a set of at most one value.  A url is the set  *)
(* of the terms it contains and of the patterns it matches, a host its     *)
(* labels, a path its pieces, a body its content type, the terms it        *)
(* contains and the value of the one field that is asked for, which has a  *)
(* type besides its text.  Letter case is kept only for methods; the       *)
(* escaping of LIKE wildcards, the checks of a pattern's syntax and the    *)
(* layout of what is printed are left out.                                 *)
(*                                                                         *)
(* Commander, which splits the command line, is external.  A flag that a   *)
(* command and its subcommand both declare goes to the command, wherever   *)
(* it stands, unless enablePositionalOptions is called, which it is not.   *)
(***************************************************************************)
EXTENDS Integers, Sequences, FiniteSets, SequencesExt

CONSTANTS
    Traffics,       \* what may be captured: sequences of exchanges
    Questions,      \* what may be asked about each of them
    UpperCase,      \* toUpperCase, on the method names that are typed
    Now,            \* the time a question is asked at
    Day,            \* ticks of the clock in a day
    DefaultLimit,   \* DEFAULT_LIST_LIMIT of the tools
    MaxLimit,       \* MAX_LIST_LIMIT of the tools
    CommandLimit,   \* DEFAULT_LIMIT of the command line
    PrefixLimit,    \* PREFIX_MATCH_SEARCH_LIMIT of httap request
    MaxToggles      \* bound: changes of bookmarks

(* The epoch is more than a week ago.                                      *)
ASSUME QueryAssumption ==
    /\ Now \in Nat /\ Day \in Nat \ {0} /\ Now >= 7 * Day
    /\ DefaultLimit \in Nat \ {0} /\ MaxLimit \in Nat \ {0}
    /\ CommandLimit \in Nat \ {0} /\ PrefixLimit \in Nat \ {0} /\ MaxToggles \in Nat

AtMostOne(S) == \A x, y \in S : x = y

(* What json_extract gives: a text, or a number, which true and false are  *)
(* too; and how it is printed.                                             *)
FieldType  == [type : {"text", "number"}, text : STRING]

HeaderType == [name : STRING, value : STRING]
BodyType   == [type : {"none", "text", "json", "binary"}, words : SUBSET STRING,
               field : SUBSET FieldType, valid : BOOLEAN]

(* What is stored of an exchange.                                          *)
Exchange ==
    [method : STRING \ {""}, words : SUBSET STRING, patterns : SUBSET STRING,
     host : Seq(STRING), path : Seq(STRING), timestamp : Int, source : SUBSET STRING,
     by : SUBSET STRING, status : Int, reqHeaders : SUBSET HeaderType,
     resHeaders : SUBSET HeaderType, reqBody : SUBSET BodyType, resBody : SUBSET BodyType]

ASSUME TrafficAssumption ==
    \A t \in Traffics :
        /\ Len(t) \in Nat
        /\ \A i \in 1 .. Len(t) :
              t[i] \in Exchange /\ AtMostOne(t[i].source) /\ AtMostOne(t[i].by)

(* A limit is a number; the bar, which asks for no single request, has a   *)
(* limit of its own.  An id begins with itself.                            *)
ASSUME QuestionAssumption ==
    \A t \in Traffics : \A q \in Questions[t] :
        /\ q.limit \subseteq Int
        /\ q.door = "bar" => q.limit # {} /\ q.limit \subseteq Nat /\ q.kind # "get"
        /\ q.kind = "get" =>
              /\ q.batch \in Seq(Nat)
              /\ q.prefixed \subseteq Nat /\ IsFiniteSet(q.prefixed)
              /\ q.exact \subseteq q.prefixed /\ Cardinality(q.exact) <= 1

Targets == {"request", "response", "both"}

(* What a status, a text, a host, a time and a flag may look like.  The    *)
(* tools' schema knows the targets; the bar has a text, a method, a        *)
(* status, a flag for saved requests and a source.                         *)
ASSUME FormAssumption ==
    \A t \in Traffics : \A q \in Questions[t] :
        /\ q.door \in {"mcp", "cli", "bar"} /\ q.kind \in {"list", "search", "count", "json", "get"}
        /\ AtMostOne(q.search) /\ AtMostOne(q.headerValue) /\ AtMostOne(q.headerTarget)
        /\ AtMostOne(q.by) /\ AtMostOne(q.saved) /\ AtMostOne(q.source)
        /\ AtMostOne(q.bodyTarget) /\ AtMostOne(q.value) /\ AtMostOne(q.limit)
        /\ \A s \in q.status : s.form = "range" => s.n \in Int /\ s.to \in Int
        /\ \A y \in q.search : y.form \in {"words", "literal", "body"}
        /\ \A h \in q.host : h.labels \in Seq(STRING) \ {<<>>} /\ h.suffix \in BOOLEAN
        /\ q.path \subseteq Seq(STRING)
        /\ \A w \in q.since \cup q.before :
              /\ w.form \in {"ago", "today", "yesterday", "weekday", "clock", "date", "word"}
              /\ w.form \in {"ago", "clock", "date"} => w.n \in Int
              /\ w.form = "weekday" => w.n \in 0 .. 6
        /\ q.saved \subseteq BOOLEAN /\ (q.door # "mcp" => q.saved \subseteq {TRUE})
        /\ q.door = "mcp" => q.headerTarget \cup q.bodyTarget \subseteq Targets
        /\ q.door = "bar" => /\ q.kind = "list" /\ q.regex = {} /\ q.since = {} /\ q.before = {}
                            /\ q.headerTarget = {}

VARIABLES
    traffic,    \* the exchanges of this behaviour, in the order of capture
    recorded,   \* how many of them were captured
    table,      \* the rows: [id, answered, saved], numbered by capture
    toggles,    \* changes of bookmarks so far
    ask,        \* the question being answered, a set of at most one
    call,       \* the call it became, a set of at most one
    phase,      \* idle, the call that is out, shown, refused or failed
    offset,     \* of the page asked for, or into a batch of ids
    page,       \* ids of the last page, or of the single requests found
    total,      \* the last count
    seen,       \* history: ids shown in this reading
    there,      \* history: ids that matched ever since its first page
    left        \* history: how often a row left the answer since then

storeVars  == <<traffic, recorded, table, toggles>>
readerVars == <<ask, call, phase, offset, page, total, seen, there, left>>
queryVars == <<storeVars, readerVars>>

NoStatus == 0

-----------------------------------------------------------------------------
(* From the words typed to a RequestFilter.                                *)

MinHttpStatus == 100
MaxHttpStatus == 599

(* A status is typed as a class (4xx), a range (500-503), a code or junk.  *)
ValidateStatusRange(s) ==
    \/ s.form = "class" /\ s.n \in 1 .. 5
    \/ s.form = "range" /\ MinHttpStatus <= s.n /\ s.n <= s.to /\ s.to <= MaxHttpStatus
    \/ s.form = "code"  /\ s.n \in MinHttpStatus .. MaxHttpStatus

Midnight(t) == (t \div Day) * Day

(* The days since a weekday last was; today counts as a week ago.          *)
DaysBack(w) ==
    LET back == ((Now \div Day) % 7) - w
    IN  IF back <= 0 THEN back + 7 ELSE back

(* parseTime: 5m, now, today, yesterday, monday, 10am, 2024-01-01.         *)
ParseTime(t) ==
    CASE t.form = "ago"       -> Now - t.n
      [] t.form = "today"     -> Midnight(Now)
      [] t.form = "yesterday" -> Midnight(Now - Day)
      [] t.form = "weekday"   -> Midnight(Now) - DaysBack(t.n) * Day
      [] t.form = "clock"     -> Midnight(Now) + t.n
      [] t.form = "date"      -> t.n

(* The tools take dates only; the command line refuses what resolves to    *)
(* before the epoch and what it does not recognise.                        *)
TimeRefused(door, t) ==
    \/ t.form = "word"
    \/ door = "mcp" /\ t.form # "date"
    \/ door = "cli" /\ t.form = "ago" /\ t.n > Now

(* parseIntFlag. *)
LimitRefused(n) == n < 0

(* A text is plain words, a pattern between slashes or a text for bodies.  *)
(* A pattern that does not compile, or could run away, is not valid.       *)
IsLiteral(y) == y.form = "literal"

(* parseBodySearchTarget. *)
ParseBodySearchTarget(t) ==
    CASE t \in {"req", "request"}  -> {"request"}
      [] t \in {"res", "response"} -> {"response"}
      [] t = "both"                -> {"both"}
      [] OTHER                     -> {}

(* The subcommands of httap requests: of its flags they see only those it  *)
(* does not declare itself, a target and a value.                          *)
Subcommands == {"search", "json", "count"}

FlagsRefused(q) ==
    \/ \E t \in q.since \cup q.before : TimeRefused("cli", t)
    \/ q.search # {} /\ q.regex # {}
    \/ \E y \in q.search : IsLiteral(y) /\ ~ y.valid
    \/ \E r \in q.regex : ~ r.valid
    \/ ~ (q.headerTarget \subseteq Targets)
    \/ \E n \in q.limit : LimitRefused(n)

(* What a command refuses with an error instead of asking the daemon.      *)
RefusedByCommand(q) ==
    \/ q.kind \notin Subcommands /\ FlagsRefused(q)
    \/ q.kind = "search" /\ \E t \in q.bodyTarget : ParseBodySearchTarget(t) = {}
    \/ q.kind = "json" /\ ~ (q.bodyTarget \subseteq Targets)

(* What a tool refuses.                                                    *)
RefusedByTool(q) ==
    \/ \E t \in q.since \cup q.before : TimeRefused("mcp", t)
    \/ \E s \in q.status : ~ ValidateStatusRange(s)
    \/ \E r \in q.regex : ~ r.valid

(* Nothing between the commas where ids are asked for.                     *)
NoValidIds(q) == q.kind = "get" /\ q.batch = <<>>

(* The names between the commas.                                           *)
MethodNames(q) == {UpperCase[w] : w \in Range(q.methods)}

(* parseUrlSearchInput: a text between slashes is a pattern, the others    *)
(* are the words they are made of.                                         *)
PatternOf(y) == IF IsLiteral(y) THEN {y.pattern} ELSE {}
WordsOf(y)   == IF IsLiteral(y) THEN {} ELSE y.words

(* A pattern given as such may be wrapped in slashes all the same.         *)
NormaliseRegexFilterInput(r) == r.pattern

(* body:res:alice in the filter bar.  When what stands between the colons  *)
(* is no target, all the rest after the first one is looked for; without a *)
(* text it is no search of bodies.                                         *)
ParseBodyScopeInput(y) ==
    LET target == ParseBodySearchTarget(y.target)
        query  == IF target = {} THEN y.rest ELSE y.query
    IN  IF y.form # "body" \/ query = {} THEN {}
        ELSE {[query |-> query, target |-> IF target = {} THEN {"both"} ELSE target]}

(* The conditions every door hands on as they are typed.                   *)
Common(q) ==
    [methods |-> MethodNames(q), status |-> q.status, words |-> {}, regex |-> {},
     host |-> q.host, path |-> q.path,
     since |-> {ParseTime(t) : t \in q.since}, before |-> {ParseTime(t) : t \in q.before},
     headerName |-> q.headerName, headerValue |-> q.headerValue, target |-> q.headerTarget,
     by |-> q.by, saved |-> q.saved, source |-> q.source]

(* buildFilter of the tools: a search is never a pattern, and empty names  *)
(* of methods are dropped.                                                 *)
FilterOfTool(q) ==
    [Common(q) EXCEPT
        !.methods = @ \ {""},
        !.words = UNION {y.words : y \in q.search},
        !.regex = {NormaliseRegexFilterInput(r) : r \in q.regex}]

(* buildFilter of the command line. *)
FilterOfCommand(q) ==
    [Common(q) EXCEPT
        !.words = UNION {WordsOf(y) : y \in q.search},
        !.regex = (UNION {PatternOf(y) : y \in q.search})
                  \cup {NormaliseRegexFilterInput(r) : r \in q.regex},
        !.saved = @ \cap {TRUE}]

(* buildFilterState of the filter bar: an invalid pattern is plain text, a *)
(* search of bodies is no condition.                                       *)
FilterOfBar(q) ==
    LET texts  == {y \in q.search : ParseBodyScopeInput(y) = {}}
        failed == {y \in texts : IsLiteral(y) /\ ~ y.valid}
    IN  [Common(q) EXCEPT
            !.words = UNION ({WordsOf(y) : y \in texts} \cup {y.words : y \in failed}),
            !.regex = UNION {PatternOf(y) : y \in texts \ failed},
            !.saved = @ \cap {TRUE}]

(* optionalFilter of the control server keeps what has the right shape: a  *)
(* target it does not know is dropped.                                     *)
OptionalFilter(f) == [f EXCEPT !.target = @ \cap Targets]

(* clampLimit of the tools. *)
ClampLimit(n) == IF n < 1 THEN 1 ELSE IF n > MaxLimit THEN MaxLimit ELSE n

(* The call a question ends in: which query, its filter, what it looks for *)
(* in bodies and where, the size of a page.                                *)
Call(kind, f, n) ==
    [kind |-> kind, filter |-> f, body |-> {}, target |-> {}, value |-> {}, limit |-> n,
     ids |-> {}]

(* The tools. *)
PageOfTool(q) == IF q.limit = {} THEN DefaultLimit ELSE ClampLimit(CHOOSE n \in q.limit : TRUE)

ListRequestsTool(q)  == Call("list", FilterOfTool(q), PageOfTool(q))
CountRequestsTool(q) == Call("count", FilterOfTool(q), 0)
SearchBodiesTool(q)  ==
    [Call("search", FilterOfTool(q), PageOfTool(q)) EXCEPT !.body = q.body, !.target = q.bodyTarget]
QueryJsonTool(q) ==
    [Call("json", FilterOfTool(q), PageOfTool(q)) EXCEPT !.value = q.value, !.target = q.bodyTarget]

(* Single requests by their ids, several at once.                          *)
GetRequestTool(q) == [Call("get", FilterOfTool(q), 0) EXCEPT !.ids = Range(q.batch)]

(* The command for lists; the flag of the page's size has a default.       *)
PageOfCommand(q) == IF q.limit = {} THEN CommandLimit ELSE CHOOSE n \in q.limit : TRUE

RequestsCommand(q) == Call("list", FilterOfCommand(q), PageOfCommand(q))

(* The filter, and the page, of a subcommand: the defaults of its flags,   *)
(* whatever is typed.                                                      *)
DefaultFilter ==
    [methods |-> {}, status |-> {}, words |-> {}, regex |-> {}, host |-> {}, path |-> {},
     since |-> {}, before |-> {}, headerName |-> {}, headerValue |-> {}, target |-> {"both"},
     by |-> {}, saved |-> {}, source |-> {}]

CountSubcommand(q) == Call("count", DefaultFilter, 0)
SearchSubcommand(q) ==
    [Call("search", DefaultFilter, CommandLimit) EXCEPT
        !.body = q.body, !.target = UNION {ParseBodySearchTarget(t) : t \in q.bodyTarget}]
QuerySubcommand(q) ==
    [Call("json", DefaultFilter, CommandLimit) EXCEPT
        !.value = q.value, !.target = q.bodyTarget]

(* A single request by its id or the beginning of it.                      *)
RequestCommand(q) == [Call("get", FilterOfCommand(q), 0) EXCEPT !.ids = q.exact \cup q.prefixed]

(* The bar asks for a list, or for a search when a text scopes it.         *)
CallOfBar(q) ==
    LET scopes == UNION {ParseBodyScopeInput(y) : y \in q.search}
    IN  [Call(IF scopes = {} THEN "list" ELSE "search", FilterOfBar(q), CHOOSE n \in q.limit : TRUE)
         EXCEPT !.body = UNION {s.query : s \in scopes}, !.target = UNION {s.target : s \in scopes}]

-----------------------------------------------------------------------------
(* The WHERE clauses of storage.ts, on the columns of a row.               *)

(* What the row of an exchange holds: the response and the interceptor's   *)
(* name come with the answer.                                              *)
Columns(row) ==
    LET e == traffic[row.id]
    IN  IF row.answered THEN e
        ELSE [e EXCEPT !.status = NoStatus, !.resHeaders = {}, !.resBody = {}, !.by = {}]

(* Mutant of ApplyStatusCondition: the upper bound of a class is included. *)
ApplyStatusCondition_UpTo(s, status) ==
    IF ValidateStatusRange(s)
    THEN /\ s.form = "class" => status >= s.n * 100 /\ status <= (s.n + 1) * 100
         /\ s.form = "range" => status >= s.n /\ status <= s.to
         /\ s.form = "code"  => status = s.n
    ELSE TRUE

(* A format it does not recognise adds no condition at all.  The column of *)
(* a request without a response is NULL and compares with nothing.         *)
ApplyStatusCondition(s, status) ==
    \/ s.form = "class" /\ s.n \in 1 .. 5 /\ status >= s.n * 100 /\ status < (s.n + 1) * 100
    \/ s.form = "range" /\ ValidateStatusRange(s) /\ status >= s.n /\ status <= s.to
    \/ s.form = "code"  /\ ValidateStatusRange(s) /\ status = s.n
    \/ ~ ValidateStatusRange(s)

(* With a leading dot the host must end in what follows it, after a dot of *)
(* its own; without one it must be equal.                                  *)
HostMatches(h, host) ==
    IF h.suffix THEN Len(host) > Len(h.labels) /\ IsSuffix(h.labels, host)
    ELSE host = h.labels

(* json_extract of a header's name, IS NOT NULL or equal to the value.     *)
HasHeader(headers, name, value) ==
    \E h \in headers : h.name = name /\ \A v \in value : h.value = v

HeaderMatches(f, x, name) ==
    \/ f.target \in {{}, {"both"}} /\ HasHeader(x.reqHeaders \cup x.resHeaders, name, f.headerValue)
    \/ f.target = {"request"}      /\ HasHeader(x.reqHeaders, name, f.headerValue)
    \/ f.target = {"response"}     /\ HasHeader(x.resHeaders, name, f.headerValue)

(* A value without a name is ignored.                                      *)
ApplyFilterConditions(f, row) ==
    LET x == Columns(row)
    IN  /\ f.methods # {} => x.method \in f.methods
        /\ \A s \in f.status : ApplyStatusCondition(s, x.status)
        /\ f.words \subseteq x.words
        /\ f.regex \subseteq x.patterns
        /\ \A h \in f.host : HostMatches(h, x.host)
        /\ \A p \in f.path : IsPrefix(p, x.path)
        /\ \A t \in f.since : x.timestamp >= t
        /\ \A t \in f.before : x.timestamp < t
        /\ f.by \subseteq x.by
        /\ \A b \in f.saved : row.saved = b
        /\ f.source \subseteq x.source
        /\ \A n \in f.headerName : HeaderMatches(f, x, n)

(* The bodies a target names, the request's first.                         *)
Bodies(target, x) ==
    CASE target = {"request"}  -> <<x.reqBody>>
      [] target = {"response"} -> <<x.resBody>>
      [] OTHER                 -> <<x.reqBody, x.resBody>>

(* A type of text, or no type at all; a type of JSON.                      *)
TextContent(b) == b.type \in {"none", "text", "json"}
JsonContent(b) == b.type = "json"

(* searchBodies: a body that may be text contains the text.                *)
BodyContains(c, row) ==
    \E b \in UNION Range(Bodies(c.target, Columns(row))) :
        TextContent(b) /\ c.body \subseteq b.words

(* queryJsonBodies: at least one of the bodies is declared as JSON.        *)
DeclaredJson(c, row) ==
    \E b \in UNION Range(Bodies(c.target, Columns(row))) : JsonContent(b)

(* The bodies json_extract is applied to, in order: the response's only    *)
(* when the request's gave nothing.                                        *)
Extracted(c, row) ==
    LET bodies == Bodies(c.target, Columns(row))
        declared == [i \in DOMAIN bodies |-> {b \in bodies[i] : JsonContent(b)}]
    IN  UNION {declared[i] : i \in {j \in DOMAIN bodies :
                  \A k \in 1 .. j - 1 : \A b \in declared[k] : b.field = {}}}

(* The rows of the WHERE clause.                                           *)
Selected(c) ==
    LET f == OptionalFilter(c.filter)
    IN  {r \in table :
            /\ ApplyFilterConditions(f, r)
            /\ c.kind = "search" => BodyContains(c, r)
            /\ c.kind = "json"   => DeclaredJson(c, r)
            /\ c.kind = "get"    => r.id \in c.ids}

(* json_extract of a text that is no JSON is an error of the statement.    *)
Malformed(c) == c.kind = "json" /\ \E r \in Selected(c) : \E b \in Extracted(c, r) : ~ b.valid

(* extracted_value IS NOT NULL, or equal to the value asked for, which is  *)
(* bound as a text: a number equals no text.                               *)
FieldMatches(c, row) ==
    LET V == UNION {b.field : b \in Extracted(c, row)}
    IN  V # {} /\ \A v \in c.value : V = {[type |-> "text", text |-> v]}

(* What is left of the rows when a field is asked for.                     *)
Answer(c) == IF c.kind = "json" THEN {r \in Selected(c) : FieldMatches(c, r)} ELSE Selected(c)

(* ORDER BY order_seq DESC; a query for a field sorts by the time of       *)
(* capture (rows of one time by their random ids: here, by capture).       *)
Above(kind, i, j) ==
    IF kind = "json" /\ traffic[i].timestamp # traffic[j].timestamp
    THEN traffic[i].timestamp > traffic[j].timestamp
    ELSE i > j

Ids(rows) == {r.id : r \in rows}

Place(kind, ids, i) == Cardinality({j \in ids : Above(kind, j, i)}) + 1

InOrder(kind, ids) ==
    [n \in 1 .. Cardinality(ids) |-> CHOOSE i \in ids : Place(kind, ids, i) = n]

(* Mutant of Page: the offset counts from one.                             *)
Page_FromOne(s, n, from) == SubSeq(s, from + 2, IF from + 1 + n < Len(s) THEN from + 1 + n ELSE Len(s))

(* LIMIT n OFFSET from.                                                    *)
Page(s, n, from) == SubSeq(s, from + 1, IF from + n < Len(s) THEN from + n ELSE Len(s))

(* countRequests. *)
Count(c) == Cardinality(Selected(c))

-----------------------------------------------------------------------------
(* The table changes; a reader's history follows what leaves its answer.   *)

(* A page that is not full is the last one.                                *)
LastPage == \E c \in call : c.kind \in {"count", "get"} \/ Len(page) < c.limit

(* Between the first page and the last one, or the calls for one request.  *)
Reading ==
    \/ phase = "list" /\ offset > 0
    \/ phase \in {"get", "exact", "prefix", "fetch"}
    \/ phase \in {"count", "shown"} /\ ~ LastPage

(* Every change of the table is one of these steps; t is the new table.    *)
Changed(t) ==
    /\ table' = t
    /\ UNCHANGED <<traffic, ask, call, phase, offset, page, total, seen>>
    /\ IF Reading
       THEN LET gone == UNION {Ids(Answer(c)) \ Ids(Answer(c))' : c \in call}
            IN  there' = there \ gone /\ left' = left + Cardinality(gone)
       ELSE UNCHANGED <<there, left>>

(* saveRequest.                                                            *)
Capture ==
    /\ recorded < Len(traffic)
    /\ recorded' = recorded + 1
    /\ Changed(table \cup {[id |-> recorded + 1, answered |-> FALSE, saved |-> FALSE]})
    /\ UNCHANGED toggles

(* updateRequestInterception and updateRequestResponse.                    *)
Respond(r) ==
    /\ ~ r.answered
    /\ Changed((table \ {r}) \cup {[r EXCEPT !.answered = TRUE]})
    /\ UNCHANGED <<recorded, toggles>>

(* bookmarkRequest and unbookmarkRequest.                                  *)
Toggle(r) ==
    /\ toggles < MaxToggles
    /\ toggles' = toggles + 1
    /\ Changed((table \ {r}) \cup {[r EXCEPT !.saved = ~ @]})
    /\ UNCHANGED recorded

(* clearRequests.                                                          *)
ClearRequests ==
    /\ Changed({r \in table : r.saved})
    /\ UNCHANGED <<recorded, toggles>>

(* evictIfNeeded removes unsaved rows from the oldest on.                  *)
Evict(r) ==
    /\ ~ r.saved
    /\ \A s \in table : s.id < r.id => s.saved
    /\ Changed(table \ {r})
    /\ UNCHANGED <<recorded, toggles>>

-----------------------------------------------------------------------------
(* A reader asks and pages.                                                *)

Asked(q, c) ==
    /\ ask' = {q} /\ call' = {c}
    /\ phase' = CASE c.kind = "count" -> "count"
                  [] c.kind = "get"   -> IF q.door = "mcp" THEN "get" ELSE "exact"
                  [] OTHER            -> "list"
    /\ there' = IF c.kind = "get" THEN Ids(Answer(c)) ELSE there
    /\ UNCHANGED <<storeVars, offset, page, total, seen, left>>

Refuse(q) ==
    /\ ask' = {q} /\ phase' = "refused"
    /\ UNCHANGED <<storeVars, call, offset, page, total, seen, there, left>>

(* A tool: httap_list_requests, httap_search_bodies, httap_count_requests, *)
(* httap_query_json or httap_get_request.                                  *)
AskTool(q) ==
    /\ phase = "idle" /\ q.door = "mcp"
    /\ \/ (RefusedByTool(q) \/ NoValidIds(q)) /\ Refuse(q)
       \/ /\ ~ RefusedByTool(q) /\ ~ NoValidIds(q)
          /\ \/ q.kind = "list"   /\ Asked(q, ListRequestsTool(q))
             \/ q.kind = "search" /\ Asked(q, SearchBodiesTool(q))
             \/ q.kind = "count"  /\ Asked(q, CountRequestsTool(q))
             \/ q.kind = "json"   /\ Asked(q, QueryJsonTool(q))
             \/ q.kind = "get"    /\ Asked(q, GetRequestTool(q))

(* httap requests and its search, query and count; httap request <id>.     *)
AskCommand(q) ==
    /\ phase = "idle" /\ q.door = "cli"
    /\ \/ RefusedByCommand(q) /\ Refuse(q)
       \/ /\ ~ RefusedByCommand(q)
          /\ \/ q.kind = "list"   /\ Asked(q, RequestsCommand(q))
             \/ q.kind = "search" /\ Asked(q, SearchSubcommand(q))
             \/ q.kind = "count"  /\ Asked(q, CountSubcommand(q))
             \/ q.kind = "json"   /\ Asked(q, QuerySubcommand(q))
             \/ q.kind = "get"    /\ Asked(q, RequestCommand(q))

(* The filter the bar hands to the request list.                           *)
AskBar(q) ==
    /\ phase = "idle" /\ q.door = "bar"
    /\ Asked(q, CallOfBar(q))

(* The daemon answers with a page of listRequestsSummary, searchBodies or  *)
(* queryJsonBodies.  A list at the tools and the command line comes with a *)
(* second call for the count.                                              *)
AnswerList ==
    /\ phase = "list"
    /\ \E q \in ask, c \in call :
          \/ /\ Malformed(c)
             /\ phase' = "failed"
             /\ UNCHANGED <<page, seen, there>>
          \/ /\ ~ Malformed(c)
             /\ page' = Page(InOrder(c.kind, Ids(Answer(c))), c.limit, offset)
             /\ seen' = seen \cup Range(page')
             /\ there' = IF offset = 0 THEN Ids(Answer(c)) ELSE there
             /\ phase' = IF c.kind = "list" /\ q.door # "bar" THEN "count" ELSE "shown"
    /\ UNCHANGED <<storeVars, ask, call, offset, total, left>>

(* countRequests.                                                          *)
AnswerCount ==
    /\ phase = "count"
    /\ \E c \in call : total' = Count(c)
    /\ phase' = "shown"
    /\ UNCHANGED <<storeVars, ask, call, offset, page, seen, there, left>>

(* httap_get_request calls getRequest for one id after the other.          *)
GetRequest ==
    /\ phase = "get"
    /\ \E q \in ask :
          /\ offset' = offset + 1
          /\ page' = IF q.batch[offset + 1] \in Ids(table)
                     THEN Append(page, q.batch[offset + 1]) ELSE page
          /\ phase' = IF offset' = Len(q.batch) THEN "shown" ELSE "get"
    /\ UNCHANGED <<storeVars, ask, call, total, seen, there, left>>

(* resolveRequest of the command: the id as typed first;                   *)
GetExact ==
    /\ phase = "exact"
    /\ \E q \in ask :
          IF q.exact # {} /\ q.exact \subseteq Ids(table)
          THEN page' = SetToSeq(q.exact) /\ phase' = "shown"
          ELSE phase' = "prefix" /\ UNCHANGED page
    /\ UNCHANGED <<storeVars, ask, call, offset, total, seen, there, left>>

(* then as the beginning of one of the newest ids;                         *)
Newest == Ids({r \in table : Cardinality({s \in table : s.id > r.id}) < PrefixLimit})

MatchPrefix ==
    /\ phase = "prefix"
    /\ \E q \in ask :
          LET matches == Newest \cap q.prefixed
          IN  IF Cardinality(matches) = 1
              THEN page' = SetToSeq(matches) /\ phase' = "fetch"
              ELSE phase' = "refused" /\ UNCHANGED page
    /\ UNCHANGED <<storeVars, ask, call, offset, total, seen, there, left>>

(* then the request itself, which may be gone by now.                      *)
FetchMatch ==
    /\ phase = "fetch"
    /\ phase' = IF Range(page) \subseteq Ids(table) THEN "shown" ELSE "refused"
    /\ UNCHANGED <<storeVars, ask, call, offset, page, total, seen, there, left>>

(* Asking again with the next offset.  What the filter bar asks for is     *)
(* paged by the synchronisation of RequestSync instead; a subcommand does  *)
(* not see the flag for the offset and shows its first page only.          *)
NextPage ==
    /\ phase = "shown" /\ ~ LastPage
    /\ \A q \in ask : q.door # "bar" /\ ~ (q.door = "cli" /\ q.kind \in Subcommands)
    /\ \E c \in call : offset' = offset + c.limit
    /\ phase' = "list"
    /\ UNCHANGED <<storeVars, ask, call, page, total, seen, there, left>>

EndReading ==
    /\ phase \in {"shown", "refused", "failed"}
    /\ ask' = {} /\ call' = {} /\ phase' = "idle" /\ offset' = 0 /\ page' = <<>> /\ total' = 0
    /\ seen' = {} /\ there' = {} /\ left' = 0
    /\ UNCHANGED storeVars

-----------------------------------------------------------------------------
QueryInit ==
    /\ traffic \in Traffics
    /\ recorded = 0 /\ table = {} /\ toggles = 0
    /\ ask = {} /\ call = {} /\ phase = "idle" /\ offset = 0 /\ page = <<>> /\ total = 0
    /\ seen = {} /\ there = {} /\ left = 0

QueryNext ==
    \/ Capture
    \/ \E r \in table : Respond(r) \/ Toggle(r) \/ Evict(r)
    \/ ClearRequests
    \/ \E q \in Questions[traffic] : AskTool(q) \/ AskCommand(q) \/ AskBar(q)
    \/ AnswerList
    \/ AnswerCount
    \/ GetRequest
    \/ GetExact
    \/ MatchPrefix
    \/ FetchMatch
    \/ NextPage
    \/ EndReading

QuerySpec == QueryInit /\ [][QueryNext]_queryVars

-----------------------------------------------------------------------------
(* What a question means, from the words typed and the columns of a row.   *)

MeansTime(t) ==
    LET midnights == {d * Day : d \in 0 .. (Now \div Day)}
        today == Midnight(Now)
    IN  CASE t.form = "ago"       -> Now - t.n
          [] t.form = "today"     -> today
          [] t.form = "yesterday" -> CHOOSE m \in midnights : m + Day = today
          [] t.form = "weekday"   ->
                CHOOSE m \in midnights :
                    m < today /\ m + 7 * Day >= today /\ (m \div Day) % 7 = t.n
          [] t.form = "clock"     -> today + t.n
          [] t.form = "date"      -> t.n

MeansStatus(s, status) ==
    CASE s.form = "class" -> status \div 100 = s.n
      [] s.form = "range" -> status \in s.n .. s.to
      [] s.form = "code"  -> status = s.n

(* The request's or the response's part of what a target names. *)
MeansOf(target, req, res) ==
    {x \in req : target \cap {"res", "response"} = {}}
        \cup {x \in res : target \cap {"req", "request"} = {}}

(* A body that is text contains the text that is looked for.               *)
MeansBody(query, target, x) ==
    \E b \in MeansOf(target, x.reqBody, x.resBody) : b.type # "binary" /\ query \subseteq b.words

(* The field a body has: a question about both prefers the request's.  To  *)
(* ask for a value is to ask for a text that equals it (mcp/server.ts:     *)
(* 908).                                                                   *)
MeansField(q, x) ==
    LET of(bs) == UNION {b.field : b \in {c \in bs : c.type = "json"}}
        req == of({b \in x.reqBody : q.bodyTarget # {"response"}})
        res == of({b \in x.resBody : q.bodyTarget # {"request"}})
    IN  IF req # {} THEN req ELSE res

(* What a text about bodies looks for: what follows the body that it names *)
(* or, if it names none, all of it.                                        *)
MeansWords(y) ==
    IF y.target \in {"req", "request", "res", "response", "both"} THEN y.query ELSE y.rest

(* A text typed for urls; in the filter bar it may be about bodies.        *)
MeansText(q, y, x) ==
    IF q.door # "mcp" /\ y.form = "literal" /\ y.valid THEN y.pattern \in x.patterns
    ELSE IF q.door = "bar" /\ y.form = "body" /\ MeansWords(y) # {}
    THEN MeansBody(MeansWords(y), {y.target}, x)
    ELSE y.words \subseteq x.words

Meets(q, row) ==
    LET x == Columns(row)
    IN  /\ (\E w \in Range(q.methods) : UpperCase[w] # "")
              => \E w \in Range(q.methods) : UpperCase[w] = x.method
        /\ \A s \in q.status : MeansStatus(s, x.status)
        /\ \A y \in q.search : MeansText(q, y, x)
        /\ \A r \in q.regex : r.pattern \in x.patterns
        /\ \A h \in q.host :
              \E i \in 1 .. Len(x.host) :
                  SubSeq(x.host, i, Len(x.host)) = h.labels /\ (h.suffix <=> i > 1)
        /\ \A p \in q.path : \E i \in 0 .. Len(x.path) : SubSeq(x.path, 1, i) = p
        /\ \A t \in q.since : MeansTime(t) <= x.timestamp
        /\ \A t \in q.before : x.timestamp < MeansTime(t)
        /\ \A n \in q.headerName :
              \E h \in MeansOf(q.headerTarget, x.reqHeaders, x.resHeaders) :
                  h.name = n /\ q.headerValue \in {{}, {h.value}}
        /\ q.by \in {{}, x.by}
        /\ q.saved \in {{}, {row.saved}}
        /\ q.source \in {{}, x.source}
        /\ q.kind = "search" => MeansBody(q.body, q.bodyTarget, x)
        /\ q.kind = "json" =>
              /\ MeansField(q, x) # {}
              /\ q.value = {} \/ MeansField(q, x) = {[type |-> "text", text |-> v] : v \in q.value}

(* Nothing of what httap requests declares as well.                        *)
Unflagged(q) ==
    /\ q.methods = <<>> /\ q.status = {} /\ q.search = {} /\ q.regex = {} /\ q.host = {}
    /\ q.path = {} /\ q.since = {} /\ q.before = {} /\ q.headerName = {} /\ q.by = {}
    /\ q.saved = {} /\ q.source = {} /\ q.limit = {}

(* The command line hands any status on, and methods without a name: what  *)
(* it means by a status that is none, or by nothing but commas, is         *)
(* nobody's promise.  What docs/cli-reference.md:149 promises of a         *)
(* subcommand with flags is not kept.                                      *)
WellAsked(q) ==
    /\ \A s \in q.status : ValidateStatusRange(s)
    /\ q.door = "mcp" \/ MethodNames(q) # {""}
    /\ q.door = "cli" /\ q.kind \in Subcommands => Unflagged(q)

(* The rows a question is about, in the order they are listed.             *)
Meant(q) == InOrder(q.kind, Ids({r \in table : Meets(q, r)}))

(* The size of a page: the tools keep it between one and their maximum.    *)
MeansLimit(q) ==
    IF q.limit = {} THEN IF q.door = "cli" THEN CommandLimit ELSE DefaultLimit
    ELSE IF q.door = "mcp"
    THEN CHOOSE n \in 1 .. MaxLimit :
            \A k \in q.limit, o \in 1 .. MaxLimit : (k - n) * (k - n) <= (k - o) * (k - o)
    ELSE CHOOSE n \in q.limit : TRUE

-----------------------------------------------------------------------------
(* Properties. *)

(* The shape of the state. *)
QueryTypeOK ==
    /\ recorded \in 0 .. Len(traffic)
    /\ Ids(table) \subseteq 1 .. recorded
    /\ toggles \in 0 .. MaxToggles
    /\ ask \subseteq Questions[traffic] /\ Cardinality(ask) <= 1 /\ Cardinality(call) <= 1
    /\ \A c \in call : c.kind \in {"list", "search", "count", "json", "get"} /\ c.limit \in Nat
    /\ phase \in {"idle", "list", "count", "get", "exact", "prefix", "fetch",
                  "shown", "refused", "failed"}
    /\ seen \cup there \subseteq 1 .. recorded

(* Reading page after page with growing offsets, while rows are captured,  *)
(* answered, bookmarked, cleared and evicted between the pages: a row that *)
(* matched from the first page to the last is on one of them, unless a row *)
(* left the answer meanwhile, and every departure hides at most one.  New  *)
(* traffic can repeat a row but never hide one.                            *)
PagingMissesOnlyWhatLeaves ==
    (phase = "shown" /\ LastPage /\ \A q \in ask : q.kind # "get")
        => Cardinality(there \ seen) <= left

(* Requests asked for by id, with several calls between which rows come    *)
(* and go: the tool shows every one that was there from the question to    *)
(* the answer; the command shows one whose id begins as typed, and says    *)
(* there is none only if none was there all the time, or more than one was *)
(* meant, or more were captured than the rows it looks through.            *)
NamedIsFound ==
    \A q \in ask : q.kind = "get" =>
        /\ q.door = "mcp" /\ phase = "shown" => there \subseteq Range(page)
        /\ q.door = "cli" /\ phase = "shown" =>
              Len(page) = 1 /\ page[1] \in q.prefixed
        /\ q.door = "cli" /\ phase = "refused" /\ there # {} =>
              \/ Cardinality(q.prefixed) > 1
              \/ recorded > PrefixLimit

(* The invariant of the module: types, paging and single requests.         *)
QueryInv == QueryTypeOK /\ PagingMissesOnlyWhatLeaves /\ NamedIsFound

(* What is printed is what was asked for: through the door's parser, the   *)
(* control server's filter and the WHERE clause, a page is the right cut   *)
(* of the rows that meet the words typed at the moment of the answer, and  *)
(* a count their number - at every edge of a status class, a weekday, a    *)
(* suffix or a prefix, and with requests that have no response yet.        *)
AnswersAreTrue ==
    [][\A q \in ask : WellAsked(q) =>
          /\ phase = "list" /\ phase' \in {"count", "shown"}
                => page' = Page(Meant(q), MeansLimit(q), offset)
          /\ phase = "count" /\ phase' = "shown" => total' = Len(Meant(q))]_queryVars

(* src/src/mcp/server.ts:897 says of httap_query_json "Use this to find    *)
(* requests where a specific JSON field exists or has a particular value": *)
(* a call that ends in an error leaves no such request unfound.            *)
FieldsAreFound ==
    phase = "failed" => \A q \in ask : ~ \E r \in table : Meets(q, r)

=============================================================================
