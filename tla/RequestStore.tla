----------------------------- MODULE RequestStore -----------------------------
(***************************************************************************)
(* The request table of src/daemon/storage.ts and the counters its class   *)
(* RequestRepository keeps in memory.  SQLite runs one statement at a time *)
(* in one process, so an operation is one atomic step, except that a crash *)
(* can fall between the INSERT of a request and the eviction that follows. *)
(*                                                                         *)
(* A row keeps what the properties tell apart: its two sequence numbers,   *)
(* its capture time, whether it is bookmarked, whether its response is in, *)
(* how it was intercepted and who replayed it.  Bodies, headers and the    *)
(* text of urls are left out.                                              *)
(***************************************************************************)
EXTENDS Integers, FiniteSets

CONSTANTS
    Id,             \* request ids; a uuid is never handed out twice
    Timestamp,      \* capture times, taken before the row is inserted
    Interception,   \* what an interceptor can leave on a row
    NoInterception,
    Initiator,      \* who can ask for a replay
    NoReplay,
    Filter,         \* the filters readers use
    Limit,          \* the page sizes readers ask for
    MaxStored,      \* options.maxStoredRequests
    CheckInterval,  \* EVICTION_CHECK_INTERVAL
    CheckedSchema,  \* the table was created by SCHEMA and has its CHECKs
    MaxRestarts,    \* bound: how often the daemon is restarted
    MaxChange       \* bound: the highest change number handed out

ASSUME StoreAssumption ==
    /\ Timestamp \subseteq Nat
    /\ Limit \subseteq Nat \ {0}
    /\ MaxStored \in Nat
    /\ CheckInterval \in Nat \ {0}
    /\ CheckedSchema \in BOOLEAN
    /\ MaxRestarts \in Nat
    /\ MaxChange \in Nat
    /\ NoInterception \notin Interception
    /\ NoReplay \notin Initiator

VARIABLES
    rows,           \* the table, as a function from the ids it holds
    usedIds,        \* ids handed out so far
    nextOrderSeq,   \* last order number handed out
    nextChangeSeq,  \* last change number handed out
    insertsSinceLastEvictionCheck,
    restarts,       \* history: restarts so far
    unchecked       \* history: rows that became unsaved since the last count

storeVars == <<rows, usedIds, nextOrderSeq, nextChangeSeq,
               insertsSinceLastEvictionCheck, restarts, unchecked>>

(* The columns of a row. *)
Row == [orderSeq     : Nat,
        changeSeq    : Nat,
        timestamp    : Timestamp,
        saved        : BOOLEAN,
        responded    : BOOLEAN,
        interception : Interception \cup {NoInterception},
        replay       : Initiator \cup {NoReplay}]

-----------------------------------------------------------------------------
(* Reading the table. *)

Live == DOMAIN rows

(* The initiators the CHECK of the replay_initiator column accepts. *)
CheckedInitiator == {"mcp", "tui"}

(* A column's highest value, 0 for the empty table. *)
MaxOrZero(S) == IF S = {} THEN 0 ELSE CHOOSE m \in S : \A s \in S : s <= m

OrderSeqs(t)  == {t[i].orderSeq  : i \in DOMAIN t}
ChangeSeqs(t) == {t[i].changeSeq : i \in DOMAIN t}

Unsaved(t) == {i \in DOMAIN t : ~ t[i].saved}

(* applyFilterConditions, for the conditions whose outcome an update of a  *)
(* row can change; every other condition is fixed when the row is created. *)
Matches(f, row) ==
    \/ f = "all"
    \/ f = "saved"       /\ row.saved
    \/ f = "unsaved"     /\ ~ row.saved
    \/ f = "responded"   /\ row.responded
    \/ f = "intercepted" /\ row.interception # NoInterception

(* Mutant of Before: the page is sorted by order_seq alone. *)
Before_ByOrderSeq(t, i, j) == t[i].orderSeq < t[j].orderSeq

(* ORDER BY change_seq ASC, order_seq ASC. *)
Before(t, i, j) ==
    \/ t[i].changeSeq < t[j].changeSeq
    \/ t[i].changeSeq = t[j].changeSeq /\ t[i].orderSeq < t[j].orderSeq

(* The rows that match a filter and changed after a cursor. *)
Changed(t, f, after) ==
    {i \in DOMAIN t : Matches(f, t[i]) /\ t[i].changeSeq > after}

(* The first limit of them. *)
DeltaEntries(t, f, after, limit) ==
    LET C == Changed(t, f, after)
    IN  {i \in C : Cardinality({j \in C : Before(t, j, i)}) < limit}

(* The change number of the last entry, the old cursor if there is none. *)
DeltaCursor(t, f, after, limit) ==
    LET E == DeltaEntries(t, f, after, limit)
    IN  IF E = {} THEN after ELSE MaxOrZero({t[i].changeSeq : i \in E})

(* A full page is followed by a query for one more row past the cursor. *)
DeltaHasMore(t, f, after, limit) ==
    /\ Cardinality(DeltaEntries(t, f, after, limit)) = limit
    /\ Changed(t, f, DeltaCursor(t, f, after, limit)) # {}

-----------------------------------------------------------------------------
(* Writing the table. *)

Without(t, S) == [i \in DOMAIN t \ S |-> t[i]]

(* Mutant of Oldest: WHERE saved = 0 is forgotten. *)
Oldest_SavedToo(t, n) ==
    {S \in SUBSET DOMAIN t :
        /\ Cardinality(S) = n
        /\ \A i \in S, j \in DOMAIN t \ S : t[i].timestamp <= t[j].timestamp}

(* The sets of rows "ORDER BY timestamp ASC LIMIT n" can select among the  *)
(* unsaved rows: ties are broken by the query plan.                        *)
Oldest(t, n) ==
    {S \in SUBSET Unsaved(t) :
        /\ Cardinality(S) = n
        /\ \A i \in S, j \in Unsaved(t) \ S : t[i].timestamp <= t[j].timestamp}

(* takeNextOrderSeq and takeNextChangeSeq only ever count up; the bound    *)
(* keeps the model finite.                                                 *)
TakeNextChangeSeq ==
    /\ nextChangeSeq < MaxChange
    /\ nextChangeSeq' = nextChangeSeq + 1

(* Mutant of EvictIfNeeded: one row too few is evicted. *)
EvictIfNeeded_OneShort(t) ==
    LET excess == Cardinality(Unsaved(t)) - MaxStored - 1
        due == insertsSinceLastEvictionCheck + 1 >= CheckInterval
    IN  /\ insertsSinceLastEvictionCheck'
             = IF due THEN 0 ELSE insertsSinceLastEvictionCheck + 1
        /\ unchecked' = IF due THEN 0 ELSE unchecked + 1
        /\ \/ ~ due /\ rows' = t
           \/ due /\ excess <= 0 /\ rows' = t
           \/ due /\ excess > 0 /\ \E victims \in Oldest(t, excess) : rows' = Without(t, victims)

(* evictIfNeeded on the table t that the INSERT has just produced. *)
EvictIfNeeded(t) ==
    LET excess == Cardinality(Unsaved(t)) - MaxStored
    IN
    \/ /\ insertsSinceLastEvictionCheck + 1 < CheckInterval
       /\ insertsSinceLastEvictionCheck' = insertsSinceLastEvictionCheck + 1
       /\ unchecked' = unchecked + 1
       /\ rows' = t
    \/ /\ insertsSinceLastEvictionCheck + 1 >= CheckInterval
       /\ insertsSinceLastEvictionCheck' = 0
       /\ unchecked' = 0
       /\ \/ excess <= 0 /\ rows' = t
          \/ excess > 0 /\ \E victims \in Oldest(t, excess) : rows' = Without(t, victims)

(* The table after saveRequest's INSERT. *)
Inserted(id, ts) ==
    [i \in Live \cup {id} |->
        IF i = id
        THEN [orderSeq     |-> nextOrderSeq + 1,
              changeSeq    |-> nextChangeSeq + 1,
              timestamp    |-> ts,
              saved        |-> FALSE,
              responded    |-> FALSE,
              interception |-> NoInterception,
              replay       |-> NoReplay]
        ELSE rows[i]]

SaveRequest(id, ts) ==
    /\ id \notin usedIds
    /\ usedIds' = usedIds \cup {id}
    /\ nextOrderSeq' = nextOrderSeq + 1
    /\ TakeNextChangeSeq
    /\ EvictIfNeeded(Inserted(id, ts))
    /\ UNCHANGED restarts

(* Mutant of Update: the statement leaves change_seq as it is. *)
Update_Unstamped(id, columns) ==
    /\ TakeNextChangeSeq
    /\ rows' = IF id \in Live THEN [rows EXCEPT ![id] = columns] ELSE rows
    /\ UNCHANGED <<usedIds, nextOrderSeq, insertsSinceLastEvictionCheck, restarts>>

(* An UPDATE ... SET <columns>, change_seq = ? WHERE id = ?: the change    *)
(* number is taken first, and is spent when no row has the id any more.    *)
Update(id, columns) ==
    /\ TakeNextChangeSeq
    /\ rows' = IF id \in Live
               THEN [rows EXCEPT ![id] = [columns EXCEPT !.changeSeq = nextChangeSeq + 1]]
               ELSE rows
    /\ UNCHANGED <<usedIds, nextOrderSeq, insertsSinceLastEvictionCheck, restarts>>

UpdateRequestResponse(id) ==
    /\ Update(id, [rows[id] EXCEPT !.responded = TRUE])
    /\ UNCHANGED unchecked

UpdateRequestInterception(id, how) ==
    /\ Update(id, [rows[id] EXCEPT !.interception = how])
    /\ UNCHANGED unchecked

(* The CHECK of the column rejects an initiator it does not list: the      *)
(* statement throws, after the change number was taken.                    *)
Rejected(who) == CheckedSchema /\ who \notin CheckedInitiator

UpdateRequestReplay(id, who) ==
    \/ /\ ~ Rejected(who)
       /\ Update(id, [rows[id] EXCEPT !.replay = who])
       /\ UNCHANGED unchecked
    \/ /\ Rejected(who)
       /\ TakeNextChangeSeq
       /\ UNCHANGED <<rows, usedIds, nextOrderSeq, insertsSinceLastEvictionCheck,
                      restarts, unchecked>>

BookmarkRequest(id) ==
    /\ Update(id, [rows[id] EXCEPT !.saved = TRUE])
    /\ UNCHANGED unchecked

UnbookmarkRequest(id) ==
    /\ Update(id, [rows[id] EXCEPT !.saved = FALSE])
    /\ unchecked' = IF id \in Live /\ rows[id].saved THEN unchecked + 1 ELSE unchecked

ClearRequests ==
    /\ rows' = Without(rows, Unsaved(rows))
    /\ UNCHANGED <<usedIds, nextOrderSeq, nextChangeSeq,
                   insertsSinceLastEvictionCheck, restarts, unchecked>>

(* Mutants of Open: the counters start from zero; from COUNT, not MAX.     *)
Open_FromZero(t) ==
    /\ nextOrderSeq' = 0
    /\ nextChangeSeq' = 0
    /\ insertsSinceLastEvictionCheck' = 0

Open_FromCount(t) ==
    /\ nextOrderSeq' = Cardinality(DOMAIN t)
    /\ nextChangeSeq' = Cardinality(DOMAIN t)
    /\ insertsSinceLastEvictionCheck' = 0

(* The constructor on a table t: the counters restart from the rows that   *)
(* are left, the insert counter from zero.                                 *)
Open(t) ==
    /\ nextOrderSeq' = MaxOrZero(OrderSeqs(t))
    /\ nextChangeSeq' = MaxOrZero(ChangeSeqs(t))
    /\ insertsSinceLastEvictionCheck' = 0

(* The daemon stops, in order or not, and another one opens the file.      *)
Restart ==
    /\ restarts < MaxRestarts
    /\ restarts' = restarts + 1
    /\ Open(rows)
    /\ UNCHANGED <<rows, usedIds, unchecked>>

(* The daemon dies between the INSERT and the eviction of saveRequest.     *)
CrashAfterInsert(id, ts) ==
    /\ restarts < MaxRestarts
    /\ restarts' = restarts + 1
    /\ id \notin usedIds
    /\ usedIds' = usedIds \cup {id}
    /\ nextChangeSeq < MaxChange
    /\ rows' = Inserted(id, ts)
    /\ Open(Inserted(id, ts))
    /\ unchecked' = unchecked + 1

-----------------------------------------------------------------------------
StoreInit ==
    /\ rows = [i \in {} |-> 0]
    /\ usedIds = {}
    /\ nextOrderSeq = 0
    /\ nextChangeSeq = 0
    /\ insertsSinceLastEvictionCheck = 0
    /\ restarts = 0
    /\ unchecked = 0

StoreNext ==
    \/ \E id \in Id, ts \in Timestamp : SaveRequest(id, ts)
    \/ \E id \in usedIds : UpdateRequestResponse(id)
    \/ \E id \in usedIds, how \in Interception : UpdateRequestInterception(id, how)
    \/ \E id \in usedIds, who \in Initiator : UpdateRequestReplay(id, who)
    \/ \E id \in usedIds : BookmarkRequest(id)
    \/ \E id \in usedIds : UnbookmarkRequest(id)
    \/ ClearRequests
    \/ Restart
    \/ \E id \in Id, ts \in Timestamp : CrashAfterInsert(id, ts)

StoreSpec == StoreInit /\ [][StoreNext]_storeVars

-----------------------------------------------------------------------------
(* Properties. *)

(* The shape of the table and of the counters. *)
StoreTypeOK ==
    /\ usedIds \subseteq Id
    /\ Live \subseteq usedIds
    /\ rows \in [Live -> Row]
    /\ nextOrderSeq \in Nat
    /\ nextChangeSeq \in Nat
    /\ insertsSinceLastEvictionCheck \in 0 .. CheckInterval - 1
    /\ restarts \in 0 .. MaxRestarts
    /\ unchecked \in Nat

(* No two rows share an order number or a change number, whatever was      *)
(* deleted and however often the counters were read back from the table:   *)
(* sorting by order_seq and paging by change_seq never meet a tie.         *)
SequencesUnique ==
    \A i, j \in Live :
        i # j => /\ rows[i].orderSeq # rows[j].orderSeq
                 /\ rows[i].changeSeq # rows[j].changeSeq

(* What keeps the numbers unique: the counters are never behind the rows,  *)
(* after a restart that reads them back from the table as before it.       *)
CountersAhead ==
    \A i \in Live : rows[i].orderSeq <= nextOrderSeq /\ rows[i].changeSeq <= nextChangeSeq

(* The inductive invariant of the store. *)
StoreInv ==
    /\ StoreTypeOK
    /\ SequencesUnique
    /\ CountersAhead
    /\ IsFiniteSet(usedIds)

(* A page of listRequestsSummaryDelta leaves no gap: every matching row    *)
(* that changed after the old cursor and not after the new one is in the   *)
(* page, and a reader told that there is no more has missed none.          *)
DeltaNoGaps(f, after, limit) ==
    LET E == DeltaEntries(rows, f, after, limit)
        c == DeltaCursor(rows, f, after, limit)
    IN  /\ \A i \in Changed(rows, f, after) : rows[i].changeSeq <= c => i \in E
        /\ ~ DeltaHasMore(rows, f, after, limit) => Changed(rows, f, after) = E

DeltaComplete ==
    \A f \in Filter, after \in 0 .. MaxChange, limit \in Limit :
        DeltaNoGaps(f, after, limit)

(* Eviction keeps its promise between two counts: the unsaved rows exceed  *)
(* the configured maximum by no more than the rows that became unsaved     *)
(* since the last count, however inserts, bookmarks and restarts mix.      *)
EvictionBound == Cardinality(Unsaved(rows)) <= MaxStored + unchecked

(* Eviction and clear never touch a bookmarked row. *)
BookmarksSurvive ==
    [][\A i \in Live : rows[i].saved => i \in Live']_storeVars

(* The list order is stable and grows at the top only: rows keep their     *)
(* order number for life and a new one is above every row of the table,    *)
(* across restarts too.                                                    *)
ListOrderStable ==
    [][\A i \in Live' :
          IF i \in Live
          THEN rows'[i].orderSeq = rows[i].orderSeq
          ELSE \A j \in Live : rows'[i].orderSeq > rows[j].orderSeq]_storeVars

(* Every row a step creates or alters is stamped above every row there     *)
(* was, so a reader that holds the highest stamp of the table sees it.     *)
ChangesAreStamped ==
    [][\A i \in Live' :
          (i \in Live => rows'[i] # rows[i])
             => \A j \in Live : rows'[i].changeSeq > rows[j].changeSeq]_storeVars

=============================================================================
