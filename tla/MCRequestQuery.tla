---------------------------- MODULE MCRequestQuery ---------------------------
(***************************************************************************)
(* Instances of RequestQuery: three mixes of traffic, one for the numbers  *)
(* (statuses and times), one for the text of urls and names, one for       *)
(* headers and bodies, and the questions that meet their edges.            *)
(***************************************************************************)
EXTENDS RequestQuery, TLC

MCDay == 4
MCNow == 42     \* the third tick of day 10, a weekday 3

MCUpperCase == [w \in {"get", "GET", "POST", ""} |-> IF w = "get" THEN "GET" ELSE w]

(* An exchange like most of them. *)
Usual ==
    [method |-> "GET", words |-> {"api"}, patterns |-> {}, host |-> <<"api", "example", "com">>,
     path |-> <<"/api", "/users">>, timestamp |-> 41, source |-> {"node"}, by |-> {},
     status |-> 200, reqHeaders |-> {}, resHeaders |-> {}, reqBody |-> {}, resBody |-> {}]

Numbers ==
    <<[Usual EXCEPT !.status = 399, !.timestamp = 11],
      [Usual EXCEPT !.status = 400, !.timestamp = 12],
      [Usual EXCEPT !.status = 499, !.timestamp = 36],
      [Usual EXCEPT !.status = 500, !.timestamp = 40]>>

Names ==
    <<[Usual EXCEPT !.method = "POST", !.host = <<"example", "com">>],
      [Usual EXCEPT !.words = {"api", "users"}, !.patterns = {"ends"}, !.path = <<"/api">>],
      [Usual EXCEPT !.host = <<"x", "example", "com">>, !.source = {}, !.words = {"slashed"}],
      [Usual EXCEPT !.method = "POST", !.by = {"mock"}, !.path = <<"/api", "v2">>, !.patterns = {"ends"}]>>

Field(t, v) == {[type |-> t, text |-> v]}
Body(type, words, field) == {[type |-> type, words |-> words, field |-> field, valid |-> TRUE]}
Broken == {[type |-> "json", words |-> {"oops"}, field |-> {}, valid |-> FALSE]}
Header(n, v) == [name |-> n, value |-> v]

Contents ==
    <<[Usual EXCEPT !.reqBody = Body("json", {"alice"}, Field("text", "alice")),
                    !.resHeaders = {Header("etag", "1")}],
      [Usual EXCEPT !.resBody = Body("binary", {"alice"}, {}), !.reqHeaders = {Header("etag", "2")},
                    !.reqBody = Body("json", {"7"}, Field("number", "7")), !.timestamp = 40],
      [Usual EXCEPT !.resBody = Broken, !.timestamp = 38, !.reqBody = Body("text", {"bob"}, {})],
      [Usual EXCEPT !.reqBody = Body("json", {"7", "no-target"}, Field("text", "7")),
                    !.resBody = Body("json", {"alice"}, Field("text", "alice")), !.timestamp = 39]>>

MCTraffics == {Numbers, Names, Contents}

-----------------------------------------------------------------------------
(* A question with nothing typed. *)
Plain(door, kind) ==
    [door |-> door, kind |-> kind, methods |-> <<>>, status |-> {}, search |-> {}, regex |-> {},
     host |-> {}, path |-> {}, since |-> {}, before |-> {}, headerName |-> {}, headerValue |-> {},
     headerTarget |-> {}, by |-> {}, saved |-> {}, source |-> {}, body |-> {}, bodyTarget |-> {},
     value |-> {}, limit |-> {9}, batch |-> <<>>, exact |-> {}, prefixed |-> {}]

Mcp  == [Plain("mcp", "list") EXCEPT !.limit = {}]
Cli  == Plain("cli", "list")
Bar  == Plain("bar", "list")

(* A subcommand without the flags of its command. *)
Sub(kind) == [Plain("cli", kind) EXCEPT !.limit = {}]

Class(n)    == {[form |-> "class", n |-> n]}
Between(a, b) == {[form |-> "range", n |-> a, to |-> b]}
Code(n)     == {[form |-> "code", n |-> n]}
When(f, n)  == {[form |-> f, n |-> n]}
Text(S)     == {[form |-> "words", words |-> S]}
Slashed(p, ok) == {[form |-> "literal", words |-> {"slashed"}, pattern |-> p, valid |-> ok]}
Scoped(t, q)   == {[form |-> "body", words |-> {"body"}, target |-> t, query |-> q, rest |-> q \cup {t}]}
Pattern(p, ok) == {[pattern |-> p, valid |-> ok]}
Host(dot, ls)  == {[suffix |-> dot, labels |-> ls]}

NumberQuestions ==
    {[Cli EXCEPT !.status = Class(4), !.limit = {2}],
     [Mcp EXCEPT !.status = Between(400, 499), !.limit = {0}],
     [Mcp EXCEPT !.status = Between(500, 400)],
     [Mcp EXCEPT !.status = Code(600)],
     [Cli EXCEPT !.status = Code(600)],
     [Bar EXCEPT !.status = Class(5), !.saved = {TRUE}],
     [Cli EXCEPT !.since = When("weekday", 3)],
     [Cli EXCEPT !.limit = {-1}],
     [Plain("mcp", "get") EXCEPT !.batch = <<4, 9, 1>>],
     Plain("mcp", "get"),
     [Plain("cli", "get") EXCEPT !.exact = {2}, !.prefixed = {2}],
     [Plain("cli", "get") EXCEPT !.prefixed = {1}],
     [Plain("cli", "get") EXCEPT !.prefixed = {2, 4}],
     [Cli EXCEPT !.since = When("yesterday", 0), !.before = When("today", 0)],
     [Cli EXCEPT !.since = When("clock", 0), !.before = When("ago", 1)],
     [Cli EXCEPT !.since = When("ago", 99)],
     [Mcp EXCEPT !.since = When("date", 12), !.kind = "count"],
     [Mcp EXCEPT !.since = When("today", 0)],
     [Cli EXCEPT !.before = When("word", 0)]}

NameQuestions ==
    {[Cli EXCEPT !.methods = <<"get", "POST">>, !.host = Host(TRUE, <<"example", "com">>), !.limit = {1}],
     [Mcp EXCEPT !.methods = <<"", "get">>, !.host = Host(FALSE, <<"example", "com">>)],
     [Cli EXCEPT !.search = Slashed("ends", TRUE)],
     [Cli EXCEPT !.search = Slashed("(", FALSE)],
     [Cli EXCEPT !.search = Text({"api"}), !.regex = Pattern("ends", TRUE)],
     [Mcp EXCEPT !.search = Slashed("ends", TRUE), !.limit = {9}],
     [Bar EXCEPT !.search = Slashed("(", FALSE)],
     [Mcp EXCEPT !.regex = Pattern("ends", TRUE), !.saved = {FALSE}, !.limit = {9}],
     [Cli EXCEPT !.path = {<<"/api">>}, !.source = {"node"}, !.saved = {TRUE}],
     [Cli EXCEPT !.by = {"mock"}, !.kind = "count"],
     Sub("count"),
     [Cli EXCEPT !.search = Text({"api", "users"})]}

ContentQuestions ==
    {[Cli EXCEPT !.headerName = {"etag"}],
     [Cli EXCEPT !.headerName = {"etag"}, !.headerTarget = {"request"}],
     [Mcp EXCEPT !.headerName = {"etag"}, !.headerValue = {"1"}, !.headerTarget = {"response"}],
     [Mcp EXCEPT !.headerValue = {"1"}, !.saved = {FALSE}],
     [Plain("mcp", "search") EXCEPT !.body = {"alice"}, !.bodyTarget = {"response"}],
     [Sub("search") EXCEPT !.body = {"alice"}, !.bodyTarget = {"both"}],
     [Sub("search") EXCEPT !.body = {"alice"}, !.bodyTarget = {"both"}, !.saved = {TRUE}, !.limit = {1}],
     [Bar EXCEPT !.search = Scoped("req", {"bob"})],
     [Bar EXCEPT !.search = Scoped("no-target", {"alice"})],
     [Bar EXCEPT !.search = Scoped("res", {})],
     [Sub("search") EXCEPT !.body = {"bob"}, !.bodyTarget = {"req"}],
     [Sub("search") EXCEPT !.body = {"bob"}, !.bodyTarget = {"body"}],
     [Sub("json") EXCEPT !.bodyTarget = {"req"}],
     [Cli EXCEPT !.headerName = {"etag"}, !.headerTarget = {"trailer"}],
     [Plain("mcp", "json") EXCEPT !.value = {"alice"}, !.limit = {1}],
     [Plain("mcp", "json") EXCEPT !.value = {"7"}, !.bodyTarget = {"request"}],
     [Sub("json") EXCEPT !.bodyTarget = {"both"}],
     [Sub("json") EXCEPT !.bodyTarget = {"response"}, !.value = {"alice"}]}

MCQuestions ==
    (Numbers :> NumberQuestions) @@ (Names :> NameQuestions) @@ (Contents :> ContentQuestions)

=============================================================================
