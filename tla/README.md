# A formal model of httap

httap shows a developer the HTTP traffic of the processes they run. A daemon per
project runs an intercepting proxy, stores what passes in a SQLite file, lets
TypeScript interceptors answer or change requests, and serves a terminal UI, a
command line and an MCP server over a unix socket. This directory holds TLA+
modules for the parts that are hard to get right, the TLC runs that check them on
small instances, and proofs, checked by TLAPS, for every value of the constants.
Paths such as `storage.ts:407` are below `src/daemon/`, `src/shared/` or `src/cli/`.

## The system

| Part | State it keeps | Operations | Talks to |
|---|---|---|---|
| request store, `daemon/storage.ts` | the requests table; two counters, `order_seq` and `change_seq`; inserts since the last eviction check | capture, four updates, bookmark, clear, eviction, lists, deltas, searches | called synchronously by the proxy and the control server |
| intercepting proxy, `daemon/proxy.ts` | the map from live requests to their rows; caches of processes and sessions | `beforeRequest`, `beforeResponse`, abort | mockttp, store, runner, replay tracker |
| interceptor runner, `daemon/interceptor-runner.ts` | the map of handlers that wait for an upstream response | matching, `handleRequest`, `handleResponse`, cleanup | proxy, the user's handlers, loader, event log |
| interceptor event log, `daemon/interceptor-event-log.ts` | a ring buffer, a number, totals per level | append, since, latest, clear | runner, loader, control server |
| replay, `daemon/replay*.ts`, `daemon/control.ts` | tokens of replays on their way | register, consume, expire; send through the proxy and find the new row | control server, proxy, store |
| interceptor loader, `daemon/interceptor-loader.ts` | the list of loaded interceptors, a watcher | load, watch, reload | runner, control server |
| control server, `daemon/control.ts` | a buffer per connection | one handler per method | every part of the daemon |
| control client, `shared/control-client.ts` | one socket, calls in flight, a buffer | request, timeout, disconnect, close | control server |
| daemon lifecycle, `daemon/index.ts`, `shared/daemon.ts`, `commands/on.ts`, `off.ts`, `daemon.ts` | pid, port, preferred-port and socket files; the variables of a shell | start, stop, restart, on, off, shutdown | every command |
| request list of the terminal UI, `useRequests.ts` | copies of rows, a cursor, a generation, one synchronisation in flight | poll, refresh, filter, bookmark, clear, replay | control client |
| events of the terminal UI, `useInterceptorEvents.ts` | events, a cursor | poll, refresh | control client |
| screen of the terminal UI, `App.tsx`, `useRequestListState.ts` | anchors of the selection and the view, details, panels, modals | keys, mouse, arrivals, answers | the two hooks above, control client |
| questions about requests, `mcp/server.ts`, `commands/requests.ts`, `request.ts`, `FilterBar.tsx` | nothing but the question being answered | list, count, search, query a field, get, page | control client, store |
| `interceptors logs --follow`, `commands/interceptors.ts` | the last number printed | query, print | control client |

All of the daemon runs in one JavaScript thread. A step of a model is therefore
the code from one `await` or callback to the next; two steps interleave wherever
the code awaits, and SQLite statements, which are synchronous, never do. Clients
are processes of their own: a call is sent, answered from the state of that moment,
and received, in three steps.

What is hard here, and what the properties are for: state read before an await and
used after it (list refreshes, interceptors, replays); counters that are read back
from a table that lost its newest rows; user code that hangs, ends twice or ends
late; rows that are deleted while their request is under way; readers that page
with a cursor or an offset while pages change; calls multiplexed over connections that
fail; processes that share nothing but files; effects that chase rows that move. `PROJECT.json` lists each hazard at its line.

## The modules

**RequestStore** models `RequestRepository` (`storage.ts`). `rows` is the table as a
function from ids to columns; `nextOrderSeq`, `nextChangeSeq` and
`insertsSinceLastEvictionCheck` are the fields of those names. There is one action
per method that writes, each the whole method: `SaveRequest` inserts and evicts,
every update spends a change number first, also when the row is gone or the CHECK
of a column rejects it. `Restart` is a constructor on the file as it is;
`CrashAfterInsert` a crash between the INSERT of `saveRequest` and its eviction,
followed by a constructor. `DeltaEntries`, `DeltaCursor` and `DeltaHasMore` are the
query of `listRequestsSummaryDelta`. Rows keep only columns a property tells apart.
`unchecked` and `restarts` are history variables.

**RequestSync** composes the store with the hook `useRequests.ts`. The refs of the
hook are variables (`mirror`, `cursor`, `generation`, `snapshotRequested`,
`rerunRequested`), `shown` is the React state on the screen, and `sync` is the one
synchronisation in flight with the copies it made of the refs. Each await of
`syncOnce` is a call that the daemon answers (`DaemonAnswers`) and the hook then
applies or drops, or that fails. Keys, polls, other clients, the proxy, evictions
and restarts act between any two of these steps.

**InterceptedProxy** models a request on its way through the two callbacks of
`proxy.ts` and through `interceptor-runner.ts`. `phase` says at which await the
callbacks stand; `handler` is the promise of the user's handler with the flags
`handleRequest` closes over (`forwarded`, `completed`) and the promise `forward()`
hands out; `pending` is the runner's map. A handler is arbitrary code: it calls
`forward()` or not, once or again, awaits it or not, and ends when and how it likes.
A request shares nothing with other requests but the cleanup timer and the process
(rows, map entries and handlers are keyed by the request), so the runs use one; the
proofs are for any number. `Unseen`, `Unended`, `Undecided`, `ForwardsInRace` and `Credited` say what is
true of a request at each await, which the code then relies on without a look.

**CapturedExchange** is what readers of the table may rely on: a row is captured
once, an interceptor is credited before the response comes, and the response and
what was done to it are written together, once. The proxy implements it
(`ImplementsExchange`).

**Replay** models `replayRequest` of the control server (`control.ts`), the replay
tracker and the part of the proxy that trades a token for the lineage of a row. `call`
is a call as its caller sees it, `wire` where its request is, `pending` the tracker's
map as the set of its tokens, each inserted in the turn that its call remembers, `table`
the rows, newest last. The fetch is split where it
awaits: sent, reached the proxy, captured, located. A fetch may fail or be aborted at
any of these points while its request goes on to the proxy all the same. Tokens expire
and are pushed out, other requests are captured, and rows are deleted from the old end.

**EventLog** is the ring buffer of `interceptor-event-log.ts` with its running
totals; **EventWindow** is the abstract log, a sequence of the newest events, which
it implements under the mapping `log <- Contents, next <- nextSeq`.
**EventFollower** composes the log with those who follow it: the loop of
`interceptors logs --follow`, one query at a time, and the panel of the terminal UI
(`useInterceptorEvents.ts`), whose timer sends a poll whether or not the one before it
is still out, and whose polls may fail. `follower` says which of the two it is.

**ControlChannel** is the client that every command, hook and tool uses
(`control-client.ts`) and the socket server (`createControlServer`). `sock`, `current`
and `connecting` are the client's sockets, `this.socket` and `this.connectPromise`;
`pending` is its map, `waiting` the calls that wait for a connection, `buffer` the bytes
it could not parse yet. The steps are the
callbacks of sockets and timers: a socket that fails has its error event first and its
close event later, when another one may already be in use.

**DaemonLifecycle** has daemons (`stage`, from choosing a port to serving and through
the awaits of `shutdown`) and commands (`pc`, from the first check to the last wait) as
processes of their own, the files of `.httap` between them, and the shells whose
variables `on` and `off` set and unset. Daemons crash, are sent signals by hand, find
their port taken, or cannot close because a terminal UI stays connected.

**InterceptorLoader** has the directory, the watcher with its debounce, and `loadAll`
split at its awaits: the listing of the directory and the import of each file, in
alphabetical order (`First` of what is still to do). Clients
write and delete interceptors and ask for reloads (`mcp/server.ts`), an editor changes
files, and loads overlap. Each load makes a fresh jiti (`interceptor-loader.ts:167`), whose
module cache, an option that is on by default, is the one of the process: `cache` holds what
each path gave when it was evaluated first, and `Found` is what an import of it gives from
then on, whatever the file holds. A file that fails to evaluate is not kept and is read
again. The cache belongs to jiti and Node and is external; that it exists is assumed from how
jiti documents `moduleCache`. The repository's test of a reload
(`interceptor-loader.test.ts:444`) writes a file of a new name, which says nothing of it.

**TerminalUI** is the screen. Rows are numbers in the order of capture, so the list is
a set; `list` holds the anchors of `useRequestListState.ts`, which are rows and not
positions. React runs effects after each render until nothing changes, before the next
key: `Settled` runs them, and each action ends in `Commit`. What a synchronisation puts
into the list is any set of rows captured so far; `RequestSync` says which.

**RequestQuery** follows a question from the words that are typed to what is printed.
Each door has its own parser (`FilterOfTool`, `FilterOfCommand`, `FilterOfBar`),
`OptionalFilter` is what the control server lets through, `ApplyFilterConditions` the
WHERE clause. The reference is `Meets`, which says what the words mean without any of
these, and `AnswersAreTrue` compares the two. Commander, which splits the command line, is
external: a flag that a command and its subcommand both declare goes to the command, wherever
it stands, since `enablePositionalOptions` is not called. `search`, `query` and `count` therefore
ask with the defaults of the flags they share with `requests` (`DefaultFilter`, `CommandLimit`).
A field of a body has a type besides its text, and a value that is asked for is a text. The reader pages while the table changes: `table` is the set of its rows,
`there` and `left` follow what leaves the answer, and `Place` is where a row stands in it.
Texts are sets of the terms they contain and the patterns they match.

The `MC*` modules instantiate these for TLC. The `*Proofs` modules hold the proofs about the
module they are named after; `RequestStoreProofs` also those about `RequestSync`,
`EventLogProofs` those about `EventFollower`, and `RequestViewProofs` those about the two
views of captured requests, `TerminalUI` and `RequestQuery`.

## The runs

| Run | Question | Bounds |
|---|---|---|
| `store` | are the table and its counters sound under every mix of operations, a restart and a crash? | 3 ids, 2 capture times, 5 change numbers, one restart, eviction over 1 unsaved row every 2 inserts, pages of 1 to 3 |
| `sync` | can the list of the terminal UI lose or mix up rows, and does it catch up? | 2 ids, 3 change numbers, room for 1 row, pages of 1 row, at most 2 pages per round, one reload, one failed call, one restart, eviction as above, two filters and the search |
| `proxy` | is every request answered, stored as answered and logged as stored? | one request, two interceptors |
| `proxy_crash` | (violation) can an interceptor end the daemon? | as `proxy` |
| `replay` | do replays end, mark the right rows, and never return a row that was there before? | two calls, two originals, two initiators (one that the schema rejects), one token, one other request, the search over 2 rows, one tick |
| `follower` | is the ring a window of the newest events, and do the command and the panel show them in order, without gaps, up to the newest? | capacity 2, 4 events, one clear, two polls out together, one failed poll |
| `channel` | does a call get its own answer, and does every call that was sent settle? | three calls, one whose handler awaits and one too large, two sockets, answers in 1 to 3 pieces, one stop of the daemon, one close |
| `daemon` | do the files lead to the one daemon there is, do shells keep a working port, and do commands end? | two processes, one shell, two ports, two releases, two commands, one mishap |
| `loader` | are the interceptors that run those in the directory, each as it was first evaluated? | two files, one nested name, contents that export an interceptor, export none, or fail, one client, one edit |
| `tui` | does the selection stay on the screen and its details its own? | three rows, two lines of list (none under the filter bar), two keys |
| `query` | is what is printed what was asked for, and what does paging miss? | three mixes of 3 or 4 exchanges, 49 questions at the edges of the conditions, one change of bookmarks |
| `query_json` | (violation) is a request with a field found? | as `query` |

Why these bounds are enough. Ids, requests and filters are used symmetrically, so
two or three of them show every relation of two rows a property speaks of. Page
size 1 makes every row a page boundary, room for one row makes every second row a
pruned one, room for one token makes the second replay push the first one's out, and a ring of
two that takes four events overwrites every slot, or wraps after a clear. Three
calls on two sockets give a call before, across and after a reconnect. Two processes
are an old daemon and its successor, and with one shell two commands still overlap the
daemons that they start and stop; with more shells commands would overlap each other,
which every property of that module but `OffRestores` and `CommandsEnd` excepts
(`orderly`). One crash, signal or lost port can fall between any two steps of a command and of
a boot; one edit, beside what the client writes, falls before, into or after a load, and
meets the watcher at each of its stages; what holds after more of them is proved. Three rows and a list of two lines have a row above, on and below the
screen, and two keys, each followed by effects, answers and new rows, move the selection off
an anchor and back. The questions of `query` are one per clause and edge, each met by some exchange and
missed by its neighbour; conditions are conjoined, so that one of a kind shows it.
Change numbers bound the number of writes of a behaviour: three or five are enough
for a write before, during and after a synchronisation, or for a capture, a deletion
and a reuse of numbers around a restart.

Deadlock is checked except for the proxy, replay, the channel, the daemon, the loader and
the screen, whose finite sets of requests, calls, commands, edits and keys end.

### Fairness

`RequestSync` assumes that the poll timer fires, that a running daemon answers and
that an answer or an error reaches the hook: the hook's `setInterval`, the
synchronous handlers of the control server, and the timeout the control client puts
on each call. It assumes nothing of users, traffic and crashes. `InterceptedProxy`
assumes that promises of Node and mockttp settle and that timers fire
(`withTimeout`, the cleanup interval). It assumes nothing of clients, upstream
servers and handlers; that is the point of `InterceptorsCannotHang` and
`ForwardSettles`. `Replay` assumes only that the abort timer of a call fires
(`replay.ts:125`). `EventFollower` assumes that its loop goes on and the daemon answers.
`ControlChannel` assumes that timers fire and that a socket connects or fails; it
assumes nothing of the daemon, which may leave a call without an answer.
`DaemonLifecycle` assumes that processes take their steps, and that a wait whose time
is up ends (strongly, since each look at the pid or port file is a step in which the
wait could also end); it does not assume that a shutdown gets past its open
connections. `InterceptorLoader` assumes that loads go on and the timer fires,
`TerminalUI` that calls are answered or fail. `RequestQuery` states no fairness: its
properties are about safety.

### What the violation runs show

* `proxy_crash`: a `forward()` that nobody awaits has its promise rejected when it
  comes too late, when the client aborts or when its entry goes stale. Nothing
  handles the rejection, and Node ends the daemon; `docs/interceptors.md:150` says
  that interceptors never crash the proxy.
* `query_json`: `queryJsonBodies` applies `json_extract` to every body that is declared
  as JSON (`storage.ts:1070`). One that is not JSON raises an error for the whole
  statement, and requests that do have the field are not found;
  `mcp/server.ts:897` says that the tool finds them.

### What the properties except

Where the code does less than a reader might expect, the property says how far it goes,
with the exception in its text. The exceptions, each met while modelling:

* `CursorCovers` is about one daemon. A new one reads the change counter back from the
  rows that are left (`storage.ts:407`); after a clear or an eviction of the newest rows it
  hands numbers out again, below the cursor of a client that is still running, although
  `storage.ts:871` speaks of cursors that "advance without gaps".
* `ScreenIsMirror` does not say that the screen is the table: a bookmark removed under the
  filter for saved rows stays there, since the delta that follows (`useRequests.ts:409`)
  cannot mention a row that no longer matches. Rows that were deleted stay likewise.
* `EventsMatchRow` counts a response that a handler returns unchanged as modified, as the
  code does (`interceptor-runner.ts:531`); `docs/PLAN.md:52` reserves the marker for mutation.
* `FoundIsNew` does not say that a replay returns its own row. The row is looked for by
  original, initiator and time, newest first (`control.ts:546`), so two replays of one
  request that overlap are both answered with the newer row.
* `ReplayInv` allows a replay without lineage. The control server accepts the initiator
  "cli", which the CHECK of the column rejects (`storage.ts:67`): the row is saved, the
  update of its lineage throws, and the request fails.
* `FollowerInv` lets the panel show an event twice, when two polls with one cursor
  overlap, and skip what lies between two answers to polls that went out without a cursor.
  Both properties of followers stop at a clear, which starts the numbers again.
* `OneDaemon` and its companions speak of commands that wait for each other. When they
  overlap, or a boot takes longer than its command waits, two daemons may run, and the
  shutdown of one removes the files of the other (`index.ts:194`).
* `ShellsKeepWorking` excepts shells that were given the port of a daemon that crashed,
  and `StartedPortIsLive` a port read from its file (`daemon.ts:219`).
* `LoaderInv` and `ReloadsSettle` say that the files of the directory come to be loaded, each
  as it was when it was first evaluated. A file that was loaded and then changed, or deleted and
  written again, is loaded with its old content, because the module is kept by the process. The
  comment at `interceptor-loader.ts:166` ("Fresh jiti instance each load to avoid
  serving stale cached modules on reload") and `docs/interceptors.md:148` ("Hot-reloads on file changes") say
  otherwise. `WrittenIsLoaded` excepts files of a name that was loaded before for the same
  reason: a client that overwrites one and reloads gets the old interceptor.
* The same two properties except loads that overlapped, of which the last to end wins
  (`interceptor-loader.ts:328`), changes between the first load and the start of the
  watcher, and a watcher that failed, which also takes all interceptors down. A
  file in a subdirectory, which the tools may write, is never loaded.
* `DetailsAreOfSelection` excepts the state after the wheel in follow mode, in which no row
  is anchored and the accordion keeps the details of an earlier row (`App.tsx:272`).
* `AnswersAreTrue` is about statuses that are statuses: the command line hands any word
  on, and the store then adds no condition (`storage.ts:242`). Of the subcommands of
  `requests` it speaks only when none of the flags is typed that `requests` declares as well
  (`requests.ts:351-361`): with one, `count --intercepted-by logger` counts every request, and
  `search` and `query` ignore filters, `--limit` and `--offset`, against
  `docs/cli-reference.md:149`. A value that is asked for is a text and equals no number and no
  boolean of a body, since `storage.ts:1146` compares what `json_extract` gives with a text;
  `mcp/server.ts:908` says as much ("equals this string"), while `docs/mcp.md:104` says
  "Exact value match". It is not about methods that
  are nothing but commas at the command line, where the empty name is kept and no request
  has it (`requests.ts:69`); the tools drop it.
* `QueryInv` allows a page to miss as many rows as left the answer since the first page,
  and `request <id>` to miss a prefix beyond the newest thousand rows.

## The proofs

`RequestStoreProofs` proves, for all constants that satisfy `StoreAssumption`:

* `StoreInvariant`: `StoreSpec => []StoreInv`. `StoreInv` is inductive as it stands.
  Uniqueness of the two sequence numbers alone is not: a counter behind some row
  would hand out a number again, so `CountersAhead` is part of it, and since
  `MAX` and the eviction need a finite table, so is `IsFiniteSet(usedIds)`. The
  case of interest is `Open`, which reads the counters back.
* `PagingIsComplete`: `[]DeltaComplete`, from uniqueness: on a table without ties
  the rows of a page are exactly the matching rows up to its cursor. The proof goes
  through the cardinality of the set of rows before a given one.
* `BookmarkedRowsSurvive`, `ListOrderIsStable`, `ChangesGetStamped`: the three action
  properties, each from the invariant, one step per action.
* `EvictionIsBounded`: `[]EvictionBound`, by cardinalities of the set of unsaved rows
  under each action.

`InterceptedProxyProofs` proves, for any requests and any list of interceptors:

* `ProxyInvariant`: `Spec => []ProxyInv`. The two properties of interest,
  `StoredIsDelivered` and `EventsMatchRow`, relate a request's row, events and client
  at its end; they are not inductive, because what a step writes depends on what the
  request brought along. `ProxyInv` adds what holds at each await: nothing was written
  yet (`Unseen`), nothing was answered yet (`Unended`), no interceptor is credited
  while the race is on (`Undecided`), a first `forward()` is possible during the race
  only (`ForwardsInRace`), and an interceptor is credited when its second half is
  awaited (`Credited`). A step changes one request only, so that each action is shown to keep
  the invariant of its own request, and a frame lemma does the rest; the cleanup, which
  touches many requests, is a case of its own.
* `StoredAsDelivered`, `EventsTellOfRow`: the two properties, from the invariant.
* `ProxyImplementsExchange`: `Spec => Exchange!Spec`, a refinement by step simulation.
  The variables of `CapturedExchange` are variables of the proxy, so that the mapping
  is the identity on them; the invariant provides the guards of the abstract steps.

`ProxyAssumption` says that `None` is neither a name nor a row.

`EventLogProofs` proves, for a ring of any capacity that satisfies `LogAssumption`:

* `LogInvariant`: `LogSpec => []LogInv`. The totals are right (`CountsMatch`) because
  they are right for the slots in use, which `LogInv` says slot by slot, together with
  what makes the write index the next free slot until the ring is full.
* `TotalsAreRight`: `[]CountsMatch`. The positions of what the log returns and the slots
  in use correspond one to one (`SlotsAreReadOnce`), so the two counts are the same.
* `LogImplementsWindow`: every append to the ring is an `Append1` of the window. The
  lemma `AppendMovesOn` says where each position is read from before and after.

The step from `(start + n - 1) % Capacity` to arithmetic without `%` is the lemma `Wraps`.

And of those who follow the log, for any number of polls that overlap and fail:

* `FollowersAreServed`: `Spec => []FollowInd`. What is shown grows by answers that were made
  at some earlier time, so the invariant is about the answers: each one on its way is of
  events that were held (`Picked`, the matching ones by their rank), from its cursor on
  without a gap, and reaches at least as far as what is shown and as the answers before it.
* `FollowedInOrder`: `[]FollowerInv`, from it. `FollowedLogIsAWindow`: the ring still
  implements `EventWindow` in the composition.

`RequestStoreProofs` proves of the list of the terminal UI, for any rows, views, page sizes,
limits, failures and restarts that satisfy `SyncAssumption`, with users and other clients who
do what they like:

* `SyncFollows`: `Spec => []SyncInd`. `CopySound` says that the copy follows the table up
  to the cursor, and is not inductive: the copy is replaced by what a synchronisation has
  got, which was read over several calls. `SyncInd` says the same of that draft, for its own
  view and up to its own cursor (`Followed`), and of an answer on its way that it holds all of
  the view that is stamped between the two cursors and nothing stamped before (`Page`).
  Both survive changes of the table because whatever changes is stamped above every
  cursor there is (`StoreMoves`, from the theorems about the store), and merging a page
  or pruning the list keeps what is crowded out crowded out (`MergedCrowds`,
  `PrunedCrowds`).
* `CursorsCover`, `ViewsAreRespected`, `ScreensAreMirrors`: `[]CursorCovers`,
  `[]SyncInv` and `[]ScreenIsMirror`, from that invariant. The last rests on a delta whose
  pages were all empty leaving the copy what it was (`MergedNothing`).

`ControlChannelProofs` proves, for any calls, sockets, pieces, stops and closes:

* `ChannelIsNumbered`: `Spec => []ChannelInd`. That an answer is one's own is a statement
  about the last step of its way; the invariant follows the number: it belongs to one
  call, and every message towards the server, every handler that runs, every piece on its
  way back and the buffer bear the number of the call they are about.
* `AnswersNeverCross`, `ChannelInvariant`: `[]AnswersAreOwn`, `[]ChannelInv`.

`ReplayProofs` proves, for any calls, requests, initiators, capacity and expiry:

* `ReplaysAreBooked`: `Spec => []ReplayInd`. A row that says it is a replay got its lineage
  from a token that is gone by then; the invariant says where the request of every
  registered token is, and dates every row by the arrival of its request.
* `ReplayInvariant`, `ReplaysFindTheirOwn`: `[]ReplayInv`, `[]FoundIsNew`;
  `OwnRowsAreSeen`: `OwnRowIsSeen`, for a table that has the CHECKs of `SCHEMA`. That the
  registry stays within its capacity needs that pushing out the oldest token removes one.

`InterceptorLoaderProofs` proves, for any files, contents, edits and clients:

* `LoadsAreTrue`: `Spec => []LoaderInd`. What is loaded was gathered over several reads;
  the invariant says what a load that is alone has gathered so far and has still to
  read, and the same of the one file that a waiting client wrote, for loads that overlap. The
  cache only grows, so that what a load found of a file is what the file serves later on
  (`FoundIsServed`, `ImportKeeps`).
* `LoaderInvariant`, `WritesAreLoaded`: `[]LoaderInv`, `WrittenIsLoaded`.

`DaemonLifecycleProofs` proves, for any processes, shells, ports and releases:

* `CommandsAreInStep`: `Spec => []LifeInd`. Of commands that do not overlap it says in which
  stages the one daemon may be at each point of a command (`InStep`), which notes a daemon has
  written so far (`Notes`), that every port read from a file was left by a daemon that has it
  or crashed with it (`PortsAreLeft`), and that the port of a shell is the one the next daemon
  will prefer (`PortKept`). A command that is typed while anything is on its way ends `orderly`, and
  with it all of this; the types and the variables of shells go on.
* `LifecycleInvariant`, `ShellsAreServed`, `OffGivesBack`, `StartedPortsAreLive`: `[]DaemonInv`,
  `[]ShellsKeepWorking`, `[]OffRestores`, `StartedPortIsLive`.

`RequestViewProofs` proves of the screen, for any number of requests, any height and any keys
that satisfy `UIAssumption`:

* `TheScreenIsSettled`: `Spec => []UIInd`. `SelectionOnScreen` is not inductive: the effects
  that keep the selected row visible start from the list of the render before, so the
  invariant says that the anchors are rows that were captured, that a selected row is in the
  list and on the screen, and that one more render changes nothing (`Render(list, h) = list`).
  The lemmas follow the three effects (`Fallback`, `KeepVisible`, the offset): whatever list they start from, three
  renders leave one they have nothing left to do for. `DetailsFollow` says what the last
  call for details was about.
* `SelectionStaysOnScreen`, `DetailsAreTheSelectedRows`: `[]SelectionOnScreen`,
  `[]DetailsAreOfSelection`; `ArrivalsLeaveTheView`: `ArrivalsKeepTheView`, for which the
  rows above an anchor are counted before and after rows arrive.

And of those who ask, for any traffic, questions and limits that satisfy `QueryAssumption`,
`TrafficAssumption`, `QuestionAssumption` and `FormAssumption` (what a clock, a column and
the words typed may look like: an option is given at most once, the clock is more than a
week past the epoch):

* `ReadingsAreTracked`: `QuerySpec => []QueryInd`. That a reading missed no more rows than
  left the answer is a statement about its end; in between, `PagingOK` says that of the
  rows that matched all the time and were not shown no more stand before the next page
  than left. It holds on because a row moves up by no more places than rows leave
  (`LeavingMovesUp`), so that a departure hides at most as many rows as it takes
  (`LeavingHidesFew`), and because a page shows every place it spans (`PagesShowPlaces`).
  `NamedOK` says the same of the calls for single requests.
* `NothingAskedForIsMissed`: `[]QueryInv`, from it.
* `PagesAndCountsAreTrue`: `AnswersAreTrue`. Every condition has a lemma of its own that the
  code's reading of the words and their meaning agree: the bounds of a status class
  (`StatusMeans`), the arithmetic of `parseTime` and the one moment that is meant
  (`TimeMeans`, `DaysBackFacts`), endings of hosts and beginnings of paths (`HostMeans`,
  `PrefixMeans`), headers, texts and bodies (`HeadersMean`, `BarTextsMean`, `BodyMeans`),
  the field of a body (`FieldMeans`), the nearest limit (`ClampIsNearest`). They meet in
  `QueryMeans`, once the three doors are shown to hand on the same (`HandedOn`), a subcommand
  because none of what it loses was typed (`CommandFilterMeans`). The
  invariant `AskingOK` says that the call that is out is the one its question's door made.
  The proof found the methods that are nothing but commas.

The inductive invariants were checked with TLC, as invariants of the runs' instances, before
they were proved.

Only model-checked: liveness under fairness, `ENABLED`, and what recursive definitions
compute, which are out of the prover's reach.

## The plan

Every safety invariant and action property of the passing runs is stated by a theorem. Five
hazards are listed without a property, with the reason. What could be added are the parts
below, and the paths of `replay`, `proxy` and `storage` that their components leave out.

## Not modelled

* Formatting and drawing: tables, exports (curl, HAR, ...), syntax highlighting, the tree of
  a JSON body and the scrolling of a text. They depend on one request that does not
  change under them; that a viewer takes the keyboard is part of `TerminalUI`.
* Decompression, header and body handling of the proxy, certificates.
* Argument parsing of the command line (but for which command a flag goes to), configuration, the log file and its rotation.
* Browser launching and the scripts preloaded into other processes: platform commands.
* Schema migrations and the attribution of requests to sessions and processes, which are
  columns no property tells apart.
* `scripts/`: invented traffic for demonstrations.
