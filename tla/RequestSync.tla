------------------------------ MODULE RequestSync ------------------------------
(***************************************************************************)
(* The request list of the terminal UI (useRequests.ts) following the      *)
(* request table of the daemon (RequestStore) over the control socket.     *)
(*                                                                         *)
(* The hook keeps a copy of the rows that match its view, pages through    *)
(* changes with a cursor and has one synchronisation in flight at a time.  *)
(* Every await of that synchronisation is a point where keys, polls, other *)
(* clients and the proxy run: a call is sent, answered by the daemon from  *)
(* the table of that moment, and received, in three separate steps.        *)
(*                                                                         *)
(* A view is a filter of the store, or a search through the bodies.        *)
(***************************************************************************)
EXTENDS RequestStore

CONSTANTS
    SearchView,         \* the view of a body search; a view is a filter else
    PageSize,           \* DEFAULT_DELTA_LIMIT
    ListLimit,          \* DEFAULT_QUERY_LIMIT
    MaxSnapshotBatches, \* MAX_SNAPSHOT_BATCHES
    MaxDeltaBatches,    \* MAX_DELTA_BATCHES_PER_SYNC
    OtherClients,       \* whether other clients set and remove bookmarks too
    UserActions,        \* what the user does in this instance
    MaxGeneration,      \* bound: how often the user restarts the list
    MaxFailures         \* bound: calls that fail while the daemon runs

ASSUME SyncAssumption ==
    /\ SearchView \notin Filter
    /\ PageSize \in Nat \ {0}
    /\ ListLimit \in Nat \ {0}
    /\ MaxSnapshotBatches \in Nat \ {0}
    /\ MaxDeltaBatches \in Nat \ {0}
    /\ OtherClients \in BOOLEAN
    /\ UserActions \subseteq {"refresh", "view", "toggle", "clear"}
    /\ MaxGeneration \in Nat
    /\ MaxFailures \in Nat

VARIABLES
    view,               \* filterRef and bodySearchRef
    mirror,             \* summaryByIdRef with orderSeqByIdRef
    cursor,             \* cursorRef
    shown,              \* the rows on the screen (state "requests")
    generation,         \* syncGenerationRef
    rerunRequested,     \* rerunRequestedRef
    snapshotRequested,  \* snapshotRequestedRef
    sync,               \* the synchronisation in flight, or Idle
    acks,               \* answers to the user's own commands, on their way
    failures            \* history: calls that failed so far

tuiVars == <<view, mirror, cursor, shown, generation, rerunRequested,
             snapshotRequested, sync, acks, failures>>
vars == <<storeVars, tuiVars>>

Idle == [mode |-> "idle"]
NoReply == [kind |-> "none"]
Lost == [kind |-> "lost"]
EmptyList == [i \in {} |-> 0]

-----------------------------------------------------------------------------
(* Lists of rows. *)

(* buildOrderedList: the list and the maps keep the newest ListLimit rows. *)
Newest(m) ==
    {i \in DOMAIN m : Cardinality({j \in DOMAIN m : m[j].orderSeq > m[i].orderSeq}) < ListLimit}

Pruned(m) == [i \in Newest(m) |-> m[i]]

Merged(m, entries) ==
    [i \in DOMAIN m \cup DOMAIN entries |->
        IF i \in DOMAIN entries THEN entries[i] ELSE m[i]]

(* Bodies of answered requests are what a search can find. *)
Found(t) == {i \in DOMAIN t : t[i].responded}

(* Mutant of Answer: the cursor is the newest change number of the table,  *)
(* not that of the last row of the page.                                   *)
Answer_NewestCursor(v, after) ==
    [kind |-> "rows",
     entries |-> IF v = SearchView THEN Pruned([i \in Found(rows) |-> rows[i]])
                 ELSE [i \in DeltaEntries(rows, v, after, PageSize) |-> rows[i]],
     cursor |-> IF v = SearchView THEN after ELSE nextChangeSeq,
     hasMore |-> FALSE]

(* What the daemon answers from the table of the moment. *)
Answer(v, after) ==
    IF v = SearchView
    THEN [kind |-> "rows",
          entries |-> Pruned([i \in Found(rows) |-> rows[i]]),
          cursor |-> after,
          hasMore |-> FALSE]
    ELSE [kind |-> "rows",
          entries |-> [i \in DeltaEntries(rows, v, after, PageSize) |-> rows[i]],
          cursor |-> DeltaCursor(rows, v, after, PageSize),
          hasMore |-> DeltaHasMore(rows, v, after, PageSize)]

-----------------------------------------------------------------------------
(* Starting and ending a synchronisation. *)

(* syncOnce up to its first await: copies of the refs and a call sent. *)
Started(v, m, c, g, snap) ==
    LET mode == IF v = SearchView THEN "search"
                ELSE IF snap \/ DOMAIN m = {} THEN "snapshot" ELSE "delta"
    IN  [mode    |-> mode,
         gen     |-> g,
         view    |-> v,
         draft   |-> IF mode = "delta" THEN m ELSE EmptyList,
         cursor  |-> IF mode = "delta" THEN c ELSE 0,
         batches |-> 0,
         reply   |-> NoReply]

(* runSync: one synchronisation at a time; a call made while one is in     *)
(* flight asks for another round when it ends.                             *)
RunSync(v, m, c, g, snap) ==
    /\ rerunRequested' = (sync # Idle)
    /\ sync' = IF sync = Idle THEN Started(v, m, c, g, snap) ELSE sync

(* The end of syncOnce, with the refs as it leaves them: the loop of       *)
(* runSync goes round again if it was asked to.                            *)
EndSync(m, c, snap) ==
    /\ mirror' = m
    /\ cursor' = c
    /\ snapshotRequested' = snap
    /\ rerunRequested' = FALSE
    /\ sync' = IF rerunRequested THEN Started(view, m, c, generation, snap) ELSE Idle

-----------------------------------------------------------------------------
(* Steps of the synchronisation. *)

Poll ==
    /\ RunSync(view, mirror, cursor, generation, snapshotRequested)
    /\ UNCHANGED <<storeVars, view, mirror, cursor, shown, generation,
                   snapshotRequested, acks, failures>>

DaemonAnswers ==
    /\ sync # Idle
    /\ sync.reply = NoReply
    /\ sync' = [sync EXCEPT !.reply = Answer(sync.view, sync.cursor)]
    /\ UNCHANGED <<storeVars, view, mirror, cursor, shown, generation,
                   rerunRequested, snapshotRequested, acks, failures>>

(* Mutant of Current: an answer is applied under any generation. *)
Current_Always == TRUE

Received == sync # Idle /\ sync.reply.kind = "rows"
Current == sync.gen = generation

(* The generation moved on while the call was out: the answer is dropped.  *)
DropStaleAnswer ==
    /\ Received /\ ~ Current
    /\ EndSync(mirror, cursor, snapshotRequested)
    /\ UNCHANGED <<storeVars, view, shown, generation, acks, failures>>

ApplySearch ==
    /\ Received /\ Current
    /\ sync.mode = "search"
    /\ shown' = sync.reply.entries
    /\ EndSync(mirror, cursor, snapshotRequested)
    /\ UNCHANGED <<storeVars, view, generation, acks, failures>>

(* One more page of a snapshot or of a delta, kept until the last page.    *)
LastPage(max) ==
    \/ DOMAIN sync.reply.entries = {}
    \/ ~ sync.reply.hasMore
    \/ sync.batches + 1 >= max

ApplyPage ==
    /\ Received /\ Current
    /\ \/ sync.mode = "snapshot" /\ ~ LastPage(MaxSnapshotBatches)
       \/ sync.mode = "delta" /\ ~ LastPage(MaxDeltaBatches)
    /\ sync' = [sync EXCEPT !.draft = Merged(@, sync.reply.entries),
                            !.cursor = sync.reply.cursor,
                            !.batches = @ + 1,
                            !.reply = NoReply]
    /\ UNCHANGED <<storeVars, view, mirror, cursor, shown, generation,
                   rerunRequested, snapshotRequested, acks, failures>>

FinishSnapshot ==
    /\ Received /\ Current
    /\ sync.mode = "snapshot" /\ LastPage(MaxSnapshotBatches)
    /\ LET list == Pruned(Merged(sync.draft, sync.reply.entries))
       IN  /\ shown' = list
           /\ EndSync(list, sync.reply.cursor, FALSE)
    /\ UNCHANGED <<storeVars, view, generation, acks, failures>>

(* Mutant of FinishDelta: the screen is redrawn only for the last page. *)
FinishDelta_LastPageOnly ==
    /\ Received /\ Current
    /\ sync.mode = "delta" /\ LastPage(MaxDeltaBatches)
    /\ LET list == Merged(sync.draft, sync.reply.entries)
           applied == sync.batches = 0 /\ DOMAIN sync.reply.entries # {}
       IN  /\ shown' = IF applied THEN Pruned(list) ELSE shown
           /\ EndSync(IF applied THEN Pruned(list) ELSE list, sync.reply.cursor, snapshotRequested)
    /\ UNCHANGED <<storeVars, view, generation, acks, failures>>

(* The screen is redrawn, and the maps pruned, only if a page had rows. *)
FinishDelta ==
    /\ Received /\ Current
    /\ sync.mode = "delta" /\ LastPage(MaxDeltaBatches)
    /\ LET list == Merged(sync.draft, sync.reply.entries)
           applied == sync.batches > 0 \/ DOMAIN sync.reply.entries # {}
       IN  /\ shown' = IF applied THEN Pruned(list) ELSE shown
           /\ EndSync(IF applied THEN Pruned(list) ELSE list, sync.reply.cursor, snapshotRequested)
    /\ UNCHANGED <<storeVars, view, generation, acks, failures>>

(* A call that times out, or whose connection or daemon went away: syncOnce *)
(* leaves the refs as they were.                                            *)
FailCall ==
    /\ sync # Idle
    /\ \/ sync.reply = Lost /\ failures' = failures
       \/ sync.reply # Lost /\ failures < MaxFailures /\ failures' = failures + 1
    /\ EndSync(mirror, cursor, snapshotRequested)
    /\ UNCHANGED <<storeVars, view, shown, generation, acks>>

-----------------------------------------------------------------------------
(* The user. *)

(* resetDeltaState and runSync(true) under a new generation. *)
Reload(v) ==
    /\ generation < MaxGeneration
    /\ generation' = generation + 1
    /\ view' = v
    /\ mirror' = EmptyList
    /\ cursor' = 0
    /\ snapshotRequested' = TRUE
    /\ RunSync(v, EmptyList, 0, generation + 1, TRUE)

Refresh ==
    /\ "refresh" \in UserActions
    /\ Reload(view)
    /\ UNCHANGED <<storeVars, shown, acks, failures>>

ChangeView(v) ==
    /\ "view" \in UserActions
    /\ v # view
    /\ Reload(v)
    /\ UNCHANGED <<storeVars, shown, acks, failures>>

(* The b key on a row of the screen: the command runs at the daemon and    *)
(* tells whether a row was affected; only then the hook acts on it.        *)
ToggleSaved(id) ==
    /\ "toggle" \in UserActions \ acks
    /\ id \in DOMAIN shown
    /\ IF shown[id].saved THEN UnbookmarkRequest(id) ELSE BookmarkRequest(id)
    /\ acks' = IF id \in Live THEN acks \cup {"toggle"} ELSE acks
    /\ UNCHANGED <<view, mirror, cursor, shown, generation, rerunRequested,
                   snapshotRequested, sync, failures>>

ToggleAcked ==
    /\ "toggle" \in acks
    /\ generation < MaxGeneration
    /\ acks' = acks \ {"toggle"}
    /\ generation' = generation + 1
    /\ RunSync(view, mirror, cursor, generation + 1, snapshotRequested)
    /\ UNCHANGED <<storeVars, view, mirror, cursor, shown, snapshotRequested, failures>>

ClearFromTui ==
    /\ "clear" \in UserActions \ acks
    /\ ClearRequests
    /\ acks' = acks \cup {"clear"}
    /\ UNCHANGED <<view, mirror, cursor, shown, generation, rerunRequested,
                   snapshotRequested, sync, failures>>

ClearAcked ==
    /\ "clear" \in acks
    /\ acks' = acks \ {"clear"}
    /\ Reload(view)
    /\ UNCHANGED <<storeVars, shown, failures>>

-----------------------------------------------------------------------------
(* The proxy, other clients and restarts of the daemon.  A call the daemon *)
(* has not answered when it goes away is never answered.                   *)
StoreChanges ==
    /\ StoreNext
    /\ OtherClients \/ \A i \in Live \cap Live' : rows'[i].saved = rows[i].saved
    /\ sync' = IF restarts' # restarts /\ sync # Idle /\ sync.reply = NoReply
               THEN [sync EXCEPT !.reply = Lost] ELSE sync
    /\ UNCHANGED <<view, mirror, cursor, shown, generation, rerunRequested,
                   snapshotRequested, acks, failures>>

(* The effects of mounting: the filter effect starts a synchronisation,    *)
(* the initial fetch finds it in flight.                                   *)
Init ==
    /\ StoreInit
    /\ view \in Filter
    /\ mirror = EmptyList
    /\ cursor = 0
    /\ shown = EmptyList
    /\ generation = 0
    /\ rerunRequested = TRUE
    /\ snapshotRequested = TRUE
    /\ sync = Started(view, EmptyList, 0, 0, TRUE)
    /\ acks = {}
    /\ failures = 0

Next ==
    \/ Poll
    \/ DaemonAnswers
    \/ DropStaleAnswer
    \/ ApplySearch
    \/ ApplyPage
    \/ FinishSnapshot
    \/ FinishDelta
    \/ FailCall
    \/ Refresh
    \/ \E v \in Filter \cup {SearchView} : ChangeView(v)
    \/ \E id \in DOMAIN shown : ToggleSaved(id)
    \/ ToggleAcked
    \/ ClearFromTui
    \/ ClearAcked
    \/ StoreChanges

Apply == DropStaleAnswer \/ ApplySearch \/ ApplyPage \/ FinishSnapshot \/ FinishDelta

(* setInterval keeps polling, a running daemon answers, an answer or an    *)
(* error reaches the hook.  Nothing is assumed of users, traffic, crashes. *)
Fairness ==
    /\ WF_vars(Poll)
    /\ WF_vars(DaemonAnswers)
    /\ WF_vars(Apply)
    /\ WF_vars(FailCall /\ sync.reply = Lost)
    /\ WF_vars(ToggleAcked)
    /\ WF_vars(ClearAcked)

Spec == Init /\ [][Next]_vars /\ Fairness

-----------------------------------------------------------------------------
(* Properties. *)

ListType(m) == DOMAIN m \subseteq Id /\ \A i \in DOMAIN m : m[i] \in Row

(* The shape of the hook's refs and of the synchronisation in flight. *)
TypeOK ==
    /\ StoreTypeOK
    /\ view \in Filter \cup {SearchView}
    /\ ListType(mirror) /\ ListType(shown)
    /\ cursor \in Nat
    /\ generation \in 0 .. MaxGeneration
    /\ rerunRequested \in BOOLEAN
    /\ snapshotRequested \in BOOLEAN
    /\ acks \subseteq {"toggle", "clear"}
    /\ failures \in 0 .. MaxFailures
    /\ sync = Idle \/ /\ sync.mode \in {"search", "snapshot", "delta"}
                      /\ sync.gen <= generation
                      /\ sync.mode = "snapshot" => sync.batches < MaxSnapshotBatches
                      /\ sync.mode = "delta" => sync.batches < MaxDeltaBatches
                      /\ ListType(sync.draft)

(* A row that the list has no room for: newer rows fill it. *)
CrowdedOut(m, row) == Cardinality({j \in DOMAIN m : m[j].orderSeq > row.orderSeq}) >= ListLimit

(* The hook's copy is sound up to its cursor: every row of the view that   *)
(* changed up to there is in the copy, in its present version.             *)
CopySound ==
    \A i \in Live :
        view # SearchView /\ Matches(view, rows[i]) /\ rows[i].changeSeq <= cursor
            => \/ i \in DOMAIN mirror /\ mirror[i] = rows[i]
               \/ CrowdedOut(mirror, rows[i])

(* While one daemon serves the list no change is ever skipped: whatever    *)
(* ran between the pages of the synchronisations, and whichever of them    *)
(* were dropped, failed or cut at their batch limit, the copy stays sound. *)
CursorCovers == restarts = 0 => CopySound

(* Answers to an abandoned view are never shown: once a view is loaded,    *)
(* what is on the screen and in the copy matched that view when read.      *)
ViewRespected ==
    /\ \A i \in DOMAIN mirror : Matches(view, mirror[i])
    /\ ~ snapshotRequested => \A i \in DOMAIN shown : Matches(view, shown[i])

(* Types, and no row of a view that was left.                              *)
SyncInv == TypeOK /\ ViewRespected

(* The screen and the copy the next delta is merged into never drift       *)
(* apart, whichever synchronisations were dropped or failed in between.    *)
ScreenIsMirror == ~ snapshotRequested => shown = mirror

(* When the traffic stops, the list of one daemon catches up: every row of *)
(* the view is on the screen in its present version, or is crowded out by  *)
(* newer ones.                                                             *)
ListConverges ==
    <>[](\A i \in Live :
            restarts = 0 /\ view # SearchView /\ Matches(view, rows[i])
                => \/ i \in DOMAIN shown /\ shown[i] = rows[i]
                   \/ CrowdedOut(shown, rows[i]))

=============================================================================
