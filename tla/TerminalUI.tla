------------------------------ MODULE TerminalUI ------------------------------
(***************************************************************************)
(* The screen of the terminal UI (App.tsx, useRequestListState.ts): which  *)
(* row of the request list is selected, which rows are on the screen,      *)
(* whose details the accordion shows, and which component has the          *)
(* keyboard.                                                               *)
(*                                                                         *)
(* The rows are numbered in the order they were captured and listed newest *)
(* first, so a list is the set of the rows in it.  What a synchronisation  *)
(* puts into the list (RequestSync.tla) is any set of the rows captured so *)
(* far: rows arrive, are cleared or evicted, and come back with a filter.  *)
(*                                                                         *)
(* The effects of the components run after each render until nothing       *)
(* changes, before the next key: they are part of every action (Commit).   *)
(* Left out: widths, colours, the status line, expanded sections, and the  *)
(* keys that only reach the daemon (b, r: RequestSync.tla).                *)
(***************************************************************************)
EXTENDS Integers, FiniteSets

CONSTANTS
    None,           \* null
    MaxRows,        \* bound: requests captured
    MaxPending,     \* bound: new rows counted while browsing
    MaxKeys,        \* bound: keys pressed and mouse events
    ContentHeight,  \* lines of the panels when the filter bar is closed
    FilterBarHeight \* lines the filter bar takes from them

ASSUME UIAssumption ==
    /\ MaxRows \in Nat \ {0}
    /\ MaxPending \in Nat
    /\ MaxKeys \in Nat
    /\ ContentHeight \in Nat \ {0}
    /\ FilterBarHeight \in 0..ContentHeight
    /\ None \notin Nat

VARIABLES
    captured,           \* how many requests there have been
    list,               \* the list and its anchors (useRequestListState)
    detail,             \* selectedFullRequest
    detailRequest,      \* selectedDetailRequestIdRef
    fetches,            \* getFullRequest calls in flight
    panel,              \* activePanel and focusedSection
    modal,              \* the show... flag that is set
    confirming,         \* pendingReplayId or pendingClear
    exports,            \* exports in flight, by the modal that began them
    keys                \* history: keys pressed

vars == <<captured, list, detail, detailRequest, fetches, panel, modal,
          confirming, exports, keys>>

Row == 1..MaxRows
Sections == 0..3            \* request, its body, response, its body
BodySections == {1, 3}
Modals == {"save", "format", "log", "help", "explorer", "viewer", "filter"}
Smaller(a, b) == IF a < b THEN a ELSE b
Larger(a, b) == IF a > b THEN a ELSE b

-----------------------------------------------------------------------------
(* Where the rows are. Rows of the list count from 1, offsets from 0.      *)

IndexOf(rows, r) == Cardinality({q \in rows : q >= r})
RowAt(rows, i) ==
    IF i \in 1..Cardinality(rows) THEN CHOOSE r \in rows : IndexOf(rows, r) = i ELSE None

Content(m) == ContentHeight - (IF m = "filter" THEN FilterBarHeight ELSE 0)
VisibleHeight(m) == Larger(1, Content(m) - 2)
MaxOffset(l, h) == Larger(0, Cardinality(l.rows) - h)

(* Mutant of SelectedIndex: the newest row is the selected one.            *)
SelectedIndex_Newest(l) == IF l.rows = {} THEN 0 ELSE 1

SelectedIndex(l) ==
    IF l.rows = {} THEN 0
    ELSE IF l.selected \in l.rows THEN IndexOf(l.rows, l.selected) ELSE 1

SelectedRow(l) == RowAt(l.rows, SelectedIndex(l))

Offset(l, h) ==
    IF l.following THEN 0
    ELSE IF l.top \in l.rows THEN Smaller(IndexOf(l.rows, l.top) - 1, MaxOffset(l, h))
    ELSE Smaller(Larger(SelectedIndex(l) - 1, 0), MaxOffset(l, h))

OnScreen(l, h) == {r \in l.rows : IndexOf(l.rows, r) \in Offset(l, h)+1..Offset(l, h)+h}

(* countPrependedRequests: rows above the first one that was there before. *)
Prepended(before, after) ==
    IF before = {} \/ after = {} THEN 0
    ELSE Cardinality({r \in after : \A q \in before \cap after : r > q})

-----------------------------------------------------------------------------
(* Effects. *)

(* A selected row that is gone is replaced by the one at the top.          *)
Fallback(l, h) ==
    IF l.following \/ l.selected \in l.rows \cup {None} THEN l.selected
    ELSE RowAt(l.rows, Smaller(Offset(l, h) + 1, Cardinality(l.rows)))

(* Mutant of KeepVisible: the list does not scroll after the selection.    *)
KeepVisible_DownOnly(l, h) ==
    IF ~ l.following /\ SelectedIndex(l) > Offset(l, h) + h
    THEN RowAt(l.rows, SelectedIndex(l) - h + 1) ELSE l.top

(* The view is scrolled until the selected row is in it.                   *)
KeepVisible(l, h) ==
    LET i == SelectedIndex(l) IN
    IF l.following \/ i = 0 \/ i \in Offset(l, h)+1..Offset(l, h)+h THEN l.top
    ELSE IF i <= Offset(l, h) THEN RowAt(l.rows, i)
    ELSE RowAt(l.rows, i - h + 1)

(* One render: every effect sees the state that was rendered.              *)
Render(l, h) == [l EXCEPT !.selected = Fallback(l, h), !.top = KeepVisible(l, h)]

Settled(l, h) == Render(Render(Render(l, h), h), h)

(* Mutant of FetchGuard: an answer is shown whatever is selected by now.   *)
FetchGuard_None(r) == TRUE

(* The guard against answers that the selection has moved away from.       *)
FetchGuard(r) == detailRequest = r

(* The detail effect: what it depends on, and what it does when that       *)
(* changed.  In browse mode it waits for a row to be anchored.             *)
DetailDeps(l) == <<SelectedRow(l), l.following, l.selected>>

FetchDetail(l) ==
    IF DetailDeps(l) = DetailDeps(list) \/ (SelectedRow(l) # None /\ ~ l.following /\ l.selected = None)
    THEN UNCHANGED <<detail, detailRequest, fetches>>
    ELSE /\ detailRequest' = SelectedRow(l)
         /\ IF SelectedRow(l) = None
            THEN detail' = None /\ UNCHANGED fetches
            ELSE fetches' = fetches \cup {SelectedRow(l)} /\ UNCHANGED detail

(* A list and a modal are rendered, and the effects run.                   *)
Commit(l, m) ==
    LET settled == Settled(l, VisibleHeight(m)) IN
    /\ list' = settled
    /\ modal' = m
    /\ FetchDetail(settled)

-----------------------------------------------------------------------------
(* Who has the keyboard and the mouse. *)

Blank(m) == m \in {"save", "format"} /\ detail = None
MainKeys == modal = "none" /\ keys < MaxKeys
ListDrawn == (modal \in {"none", "filter"} \/ Blank(modal)) /\ keys < MaxKeys
ModalKeys(m) == modal = m /\ ~ Blank(m) /\ keys < MaxKeys
PlainKey == MainKeys /\ confirming = None
Key == keys' = keys + 1

-----------------------------------------------------------------------------
(* The list changes, and details arrive. *)

Sync(rows, fresh) ==
    LET all == rows \cup (captured+1..captured+fresh)
        count == IF list.following THEN 0
                 ELSE list.pending + Prepended(list.rows, all)
    IN  /\ all # list.rows
        /\ captured + fresh <= MaxRows
        /\ count <= MaxPending
        /\ captured' = captured + fresh
        /\ Commit([list EXCEPT !.rows = all, !.pending = count], modal)
        /\ UNCHANGED <<panel, confirming, exports, keys>>

(* The answer is null when the row is gone or the call failed.             *)
DetailArrives(r) ==
    /\ r \in fetches
    /\ fetches' = fetches \ {r}
    /\ IF FetchGuard(r) THEN detail' \in {r, None} ELSE UNCHANGED detail
    /\ UNCHANGED <<captured, list, detailRequest, panel, modal, confirming, exports, keys>>

-----------------------------------------------------------------------------
(* Moving in the list. *)

FollowMode(l) == [l EXCEPT !.following = TRUE, !.selected = None, !.top = None, !.pending = 0]

(* Leaving follow mode anchors the view at the row on top of it.           *)
Anchored(l, h) ==
    IF l.following
    THEN [l EXCEPT !.following = FALSE, !.top = RowAt(l.rows, Offset(l, h) + 1)]
    ELSE l

InList == panel.active = "list"
OnlyList(l) ==
    /\ Commit(l, modal)
    /\ Key
    /\ UNCHANGED <<captured, panel, confirming, exports>>

(* j and k, half and full pages.                                           *)
Steps == {-1, 1} \cup {Content("none"), - Content("none"),
                       Content("none") \div 2, - (Content("none") \div 2)}

Move(step) ==
    LET h == VisibleHeight(modal)
        i == Smaller(Larger(Larger(SelectedIndex(list), 1) + step, 1), Cardinality(list.rows))
    IN  /\ PlainKey /\ InList
        /\ OnlyList([Anchored(list, h) EXCEPT !.selected = RowAt(list.rows, i)])

(* g goes back to the newest row and follows it.                           *)
JumpToNewest == PlainKey /\ InList /\ OnlyList(FollowMode(list))

JumpToOldest ==
    LET n == Cardinality(list.rows)
        offset == Larger(0, n - VisibleHeight(modal))
    IN  /\ PlainKey /\ InList
        /\ OnlyList([list EXCEPT !.following = FALSE,
                                 !.top = RowAt(list.rows, offset + 1),
                                 !.selected = RowAt(list.rows, n)])

ToggleFollow ==
    LET h == VisibleHeight(modal) IN
    /\ PlainKey
    /\ OnlyList(IF list.following
                THEN [Anchored(list, h) EXCEPT !.selected = SelectedRow(list)]
                ELSE FollowMode(list))

(* The wheel moves the view; from follow mode no row is selected by it.    *)
Wheel(direction) ==
    LET h == VisibleHeight(modal)
        offset == Larger(Smaller(Offset(list, h) + direction, MaxOffset(list, h)), 0)
    IN  /\ ListDrawn
        /\ OnlyList([list EXCEPT !.following = FALSE, !.top = RowAt(list.rows, offset + 1)])

ClickRow(r) ==
    /\ ListDrawn
    /\ r \in OnScreen(list, VisibleHeight(modal))
    /\ panel' = [panel EXCEPT !.active = "list"]
    /\ Commit([Anchored(list, VisibleHeight(modal)) EXCEPT !.selected = r], modal)
    /\ Key
    /\ UNCHANGED <<captured, confirming, exports>>

-----------------------------------------------------------------------------
(* Moving between the panels. *)

OnlyPanel(active, section) ==
    /\ panel' = [active |-> active, section |-> section]
    /\ UNCHANGED <<captured, list, detail, detailRequest, fetches, modal, confirming, exports>>
    /\ Key

(* j, k, g and G in the accordion.                                         *)
MoveSection ==
    /\ PlainKey /\ ~ InList
    /\ \E s \in {Smaller(panel.section + 1, 3), Larger(panel.section - 1, 0), 0, 3} :
           OnlyPanel("accordion", s)

(* Tab goes round the list and the sections, where there are details.      *)
Tab ==
    /\ PlainKey /\ detail # None
    /\ \/ InList /\ OnlyPanel("accordion", 0)
       \/ ~ InList /\ panel.section < 3 /\ OnlyPanel("accordion", panel.section + 1)
       \/ ~ InList /\ panel.section = 3 /\ OnlyPanel("list", panel.section)

BackTab ==
    /\ PlainKey /\ detail # None
    /\ \/ InList /\ OnlyPanel("accordion", 3)
       \/ ~ InList /\ panel.section > 0 /\ OnlyPanel("accordion", panel.section - 1)
       \/ ~ InList /\ panel.section = 0 /\ OnlyPanel("list", panel.section)

(* 1 to 5, whether or not there are details.                               *)
PanelKey ==
    /\ PlainKey
    /\ \/ OnlyPanel("list", panel.section)
       \/ \E s \in Sections : OnlyPanel("accordion", s)

ClickPanel ==
    /\ ListDrawn
    /\ \/ OnlyPanel("list", panel.section)
       \/ detail # None /\ OnlyPanel("accordion", panel.section)

-----------------------------------------------------------------------------
(* Confirmations: the next key decides. *)

OnlyConfirming(c) ==
    /\ confirming' = c
    /\ Key
    /\ UNCHANGED <<captured, list, detail, detailRequest, fetches, panel, modal, exports>>

AskReplay ==
    PlainKey /\ SelectedRow(list) # None /\ OnlyConfirming(<<"replay", SelectedRow(list)>>)

AskClear == PlainKey /\ list.rows # {} /\ OnlyConfirming(<<"clear">>)

(* Any other key cancels; y after R replays the row that was asked about.  *)
CancelOrReplay == MainKeys /\ confirming # None /\ OnlyConfirming(None)

ConfirmClear ==
    /\ MainKeys /\ confirming = <<"clear">>
    /\ confirming' = None
    /\ Commit(FollowMode(list), modal)
    /\ Key
    /\ UNCHANGED <<captured, panel, exports>>

-----------------------------------------------------------------------------
(* Modals. *)

Switch(m) ==
    /\ Commit(list, m)
    /\ Key
    /\ UNCHANGED <<captured, panel, confirming, exports>>

OnBody == ~ InList /\ panel.section \in BodySections

(* ? and L and the filter bar need no details; e does.  Enter and s open   *)
(* what the body of the section is: JSON, text, or nothing for them.       *)
Open(m) ==
    /\ PlainKey
    /\ m \in {"save", "format", "explorer", "viewer"} => detail # None
    /\ m \in {"save", "explorer", "viewer"} => OnBody
    /\ Switch(m)

Escape(m) == ModalKeys(m) /\ m # "filter" /\ Switch("none")

(* Typing in the filter bar filters at once; Escape puts the old filter    *)
(* back, Enter keeps the new one.                                          *)
TypeFilter == ModalKeys("filter") /\ OnlyList(FollowMode(list))

CloseFilter ==
    /\ ModalKeys("filter")
    /\ \E l \in {list, FollowMode(list)} : Commit(l, "none")
    /\ Key
    /\ UNCHANGED <<captured, panel, confirming, exports>>

(* An export takes the details of the moment, and an await.                *)
Export(m) ==
    /\ m \in {"save", "format"} /\ ModalKeys(m)
    /\ exports' = exports \cup {m}
    /\ Key
    /\ UNCHANGED <<captured, list, detail, detailRequest, fetches, panel, modal, confirming>>

(* Its end closes the modal, or one of that kind opened since.             *)
ExportEnds(m) ==
    /\ m \in exports
    /\ exports' = exports \ {m}
    /\ Commit(list, IF modal = m THEN "none" ELSE modal)
    /\ UNCHANGED <<captured, panel, confirming, keys>>

-----------------------------------------------------------------------------
EmptyList == [rows |-> {}, following |-> TRUE, selected |-> None, top |-> None, pending |-> 0]

Init ==
    /\ captured = 0
    /\ list = EmptyList
    /\ detail = None
    /\ detailRequest = None
    /\ fetches = {}
    /\ panel = [active |-> "list", section |-> 0]
    /\ modal = "none"
    /\ confirming = None
    /\ exports = {}
    /\ keys = 0

ListKeys ==
    \/ \E step \in Steps : Move(step)
    \/ JumpToNewest \/ JumpToOldest \/ ToggleFollow
    \/ \E direction \in {-1, 1} : Wheel(direction)
    \/ \E r \in Row : ClickRow(r)

PanelKeys == MoveSection \/ Tab \/ BackTab \/ PanelKey \/ ClickPanel

ModalsAndQuestions ==
    \/ AskReplay \/ AskClear \/ CancelOrReplay \/ ConfirmClear
    \/ \E m \in Modals : Open(m) \/ Escape(m) \/ Export(m)
    \/ TypeFilter \/ CloseFilter

Arrivals ==
    \/ \E rows \in SUBSET (1..captured), fresh \in 0..MaxRows : Sync(rows, fresh)
    \/ \E r \in Row : DetailArrives(r)
    \/ \E m \in Modals : ExportEnds(m)

Next == Arrivals \/ ListKeys \/ PanelKeys \/ ModalsAndQuestions

(* Calls are answered or fail; nobody has to press a key.                  *)
Spec == Init /\ [][Next]_vars /\ \A r \in Row : WF_vars(DetailArrives(r))

-----------------------------------------------------------------------------
(* The shape of the state. *)
TypeOK ==
    /\ captured \in 0..MaxRows
    /\ list \in [rows : SUBSET Row, following : BOOLEAN, selected : Row \cup {None},
                 top : Row \cup {None}, pending : 0..MaxPending]
    /\ {detail, detailRequest} \subseteq Row \cup {None}
    /\ fetches \subseteq Row
    /\ panel \in [active : {"list", "accordion"}, section : Sections]
    /\ modal \in Modals \cup {"none"}
    /\ confirming \in {None, <<"clear">>} \cup ({"replay"} \X Row)
    /\ exports \subseteq {"save", "format"}
    /\ keys \in 0..MaxKeys

(* After the effects of any key, of any change to the list and of any      *)
(* change of its height, the effects have nothing left to do and the       *)
(* selected row is on the screen (useRequestListState.ts, its effects).    *)
SelectionOnScreen ==
    LET h == VisibleHeight(modal) IN
    /\ TypeOK
    /\ Render(list, h) = list
    /\ list.rows # {} => SelectedRow(list) \in OnScreen(list, h)

(* Requests that arrive while a row is anchored in browse mode change      *)
(* neither the selected row nor what is on the screen, and are counted     *)
(* (request-list-state.ts: anchors are rows, not positions).               *)
ArrivalsKeepTheView ==
    [][LET h == VisibleHeight(modal)
           arrived == list'.rows \ list.rows
       IN  ( /\ ~ list.following /\ list.selected # None
             /\ list.rows # {} /\ list.rows \subseteq list'.rows
             /\ arrived # {} /\ \A r \in arrived : r > captured )
           => /\ SelectedRow(list') = SelectedRow(list)
              /\ OnScreen(list, h) \subseteq OnScreen(list', h)
              /\ list'.pending = list.pending + Cardinality(arrived)]_vars

(* Once no call is in flight the accordion shows the row that is selected, *)
(* or nothing, in follow mode and wherever a row is anchored: an answer    *)
(* that comes after the selection moved on is not shown (App.tsx: "Guard   *)
(* against stale async responses when selection changes rapidly").         *)
DetailsAreOfSelection ==
    (fetches = {} /\ (list.following \/ list.selected # None))
        => detail \in {SelectedRow(list), None}

=============================================================================
