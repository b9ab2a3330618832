---------------------------- MODULE RequestViewProofs ----------------------------
(***************************************************************************)
(* Proofs about the two views of captured requests: the screen of the      *)
(* terminal UI and the readers who ask with questions.                     *)
(*                                                                         *)
(* The screen, for any number of requests, any height and any keys: UIInd  *)
(* is inductive, because the effects of a render leave a list they have    *)
(* nothing left to do for, whatever list they start from, and what the     *)
(* details are asked for follows the selection.                            *)
(*                                                                         *)
(* The readers, for any traffic, any questions and any limits: QueryInd is *)
(* inductive.  Of the rows that matched all the time and were not shown no *)
(* more stand before the next page than left the answer, because a row     *)
(* moves up by no more places than rows leave, and new rows only move it   *)
(* down.                                                                   *)
(*                                                                         *)
(* What they are shown is what was asked for: condition by condition, the  *)
(* door's parser, the filter and the WHERE clause together select the rows *)
(* that meet the words typed.                                              *)
(***************************************************************************)
EXTENDS TerminalUI, RequestQuery, FiniteSetTheorems, FunctionTheorems, SequenceTheorems, TLAPS

-----------------------------------------------------------------------------
(* The screen of the terminal UI. *)

ListType == [rows : SUBSET Row, following : BOOLEAN, selected : Row \cup {None},
             top : Row \cup {None}, pending : 0..MaxPending]

(* In follow mode no row is selected, and a selected row is in the list.   *)
Known(l) ==
    /\ l.selected \in l.rows \cup {None}
    /\ l.following => l.selected = None

(* The selected row is on a screen of h lines.                             *)
Shown(l, h) == l.rows = {} \/ SelectedIndex(l) \in Offset(l, h)+1..Offset(l, h)+h

(* The details were asked for the selected row, and those of another row   *)
(* are only shown until the answer comes.                                  *)
DetailsFollow ==
    /\ list.following \/ list.selected # None => detailRequest = SelectedRow(list)
    /\ detail \notin {None, detailRequest} => detailRequest \in fetches

(* The shape of what is not on the screen.                                 *)
RestOK ==
    /\ captured \in 0..MaxRows
    /\ panel \in [active : {"list", "accordion"}, section : Sections]
    /\ confirming \in {None, <<"clear">>} \cup ({"replay"} \X Row)
    /\ exports \subseteq {"save", "format"}
    /\ keys \in 0..MaxKeys

(* The inductive invariant.                                                *)
UIInd ==
    /\ TypeOK
    /\ list.rows \subseteq 1..captured
    /\ list.top \in 1..captured \cup {None}
    /\ Known(list)
    /\ Shown(list, VisibleHeight(modal))
    /\ Render(list, VisibleHeight(modal)) = list
    /\ DetailsFollow

(* Heights are at least one line.                                          *)
LEMMA HeightIsPositive == \A m : VisibleHeight(m) \in Nat \ {0}
<1> TAKE m
<1>1. ContentHeight \in Nat /\ FilterBarHeight \in 0..ContentHeight
  BY UIAssumption
<1>2. Content(m) \in Int
  BY <1>1 DEF Content
<1> QED BY <1>2 DEF VisibleHeight, Larger

(* Rows are finitely many and numbered from the newest, which is row 1 of  *)
(* a list that has any.                                                    *)
LEMMA RowsAreFinite ==
    ASSUME NEW rows \in SUBSET Row
    PROVE  IsFiniteSet(rows) /\ Cardinality(rows) \in Nat /\ (Cardinality(rows) = 0 <=> rows = {})
<1>1. IsFiniteSet(Row)
  BY UIAssumption, FS_Interval DEF Row
<1>2. IsFiniteSet(rows)
  BY <1>1, FS_Subset
<1> QED BY <1>2, FS_CardinalityType, FS_EmptySet

(* No row is null.                                                         *)
LEMMA RowsAreNumbers == \A r \in Row : r \in Nat /\ r # None
BY UIAssumption DEF Row

(* Indices are positions in the list, smaller for newer rows.              *)
LEMMA IndicesAreInOrder ==
    ASSUME NEW rows \in SUBSET Row
    PROVE  /\ \A r \in rows : IndexOf(rows, r) \in 1..Cardinality(rows)
           /\ \A q, r \in rows : q < r <=> IndexOf(rows, r) < IndexOf(rows, q)
<1> DEFINE Down(r) == {q \in rows : q >= r}
<1>1. IsFiniteSet(rows) /\ Cardinality(rows) \in Nat /\ \A r \in rows : r \in Nat
  BY RowsAreFinite, RowsAreNumbers
<1>2. \A r \in rows : IsFiniteSet(Down(r)) /\ Cardinality(Down(r)) \in Nat
                      /\ Cardinality(Down(r)) <= Cardinality(rows)
  BY <1>1, FS_Subset, FS_CardinalityType
<1>3. \A r \in rows : Cardinality(Down(r)) >= 1
  <2> TAKE r \in rows
  <2>1. r \in Down(r)
    BY <1>1
  <2>2. Cardinality(Down(r)) # 0
    BY <1>2, <2>1, FS_EmptySet
  <2> QED BY <1>2, <2>2
<1>4. ASSUME NEW q \in rows, NEW r \in rows, q < r
      PROVE  Cardinality(Down(r)) < Cardinality(Down(q))
  <2>1. \A x \in rows : x >= r => x >= q
    BY <1>1, <1>4
  <2>2. q >= q /\ ~ (q >= r)
    BY <1>1, <1>4
  <2>3. Down(r) \in SUBSET Down(q) /\ q \in Down(q) /\ q \notin Down(r)
    BY <2>1, <2>2
  <2>4. Cardinality(Down(r)) <= Cardinality(Down(q)) /\ Cardinality(Down(r)) # Cardinality(Down(q))
    BY <1>2, <2>3, FS_Subset
  <2> HIDE DEF Down
  <2> QED BY <1>2, <2>4
<1>5. \A r \in rows : IndexOf(rows, r) = Cardinality(Down(r))
  BY DEF IndexOf
<1> HIDE DEF Down
<1>6. \A r \in rows : IndexOf(rows, r) \in 1..Cardinality(rows)
  BY <1>1, <1>2, <1>3, <1>5
<1>7. ASSUME NEW q \in rows, NEW r \in rows
      PROVE  q < r <=> IndexOf(rows, r) < IndexOf(rows, q)
  <2>1. q \in Nat /\ r \in Nat /\ (q < r \/ q = r \/ r < q)
    BY <1>1
  <2>2. IndexOf(rows, r) \in Nat /\ IndexOf(rows, q) \in Nat
    BY <1>2, <1>5
  <2> QED BY <1>4, <1>5, <2>1, <2>2
<1> QED BY <1>6, <1>7

(* Every position of a list holds the row with that index, and no row is   *)
(* in two places.                                                          *)
LEMMA RowsHavePlaces ==
    ASSUME NEW rows \in SUBSET Row
    PROVE  /\ \A i \in 1..Cardinality(rows) : RowAt(rows, i) \in rows /\ IndexOf(rows, RowAt(rows, i)) = i
           /\ \A r \in rows : RowAt(rows, IndexOf(rows, r)) = r
           /\ \A i : RowAt(rows, i) \in Row \cup {None}
           /\ \A i : i \notin 1..Cardinality(rows) => RowAt(rows, i) = None
<1> DEFINE f == [r \in rows |-> IndexOf(rows, r)]
           K == 1..Cardinality(rows)
<1>1. Cardinality(rows) \in Nat /\ IsFiniteSet(K) /\ Cardinality(K) = Cardinality(rows) /\ IsFiniteSet(rows)
  BY RowsAreFinite, FS_Interval
<1>2. \A q, r \in rows : IndexOf(rows, q) = IndexOf(rows, r) => q = r
  <2> TAKE q, r \in rows
  <2>1. q \in Nat /\ r \in Nat /\ (q < r \/ q = r \/ r < q)
    BY RowsAreNumbers
  <2>2. IndexOf(rows, q) \in K /\ IndexOf(rows, r) \in K
    BY IndicesAreInOrder
  <2> QED BY <1>1, <2>1, <2>2, IndicesAreInOrder
<1>3. f \in [rows -> K] /\ \A q, r \in rows : f[q] = f[r] => q = r
  BY <1>2, IndicesAreInOrder
<1>4. f \in Injection(rows, K)
  <2> HIDE DEF f, K
  <2> QED BY <1>3, Fun_IsInj
<1>5. f \in Surjection(rows, K)
  <2> HIDE DEF f, K
  <2> QED BY <1>1, <1>4, FS_Injection
<1>6. \A i \in K : \E r \in rows : IndexOf(rows, r) = i
  BY <1>5 DEF Surjection
<1>7. \A i \in K : RowAt(rows, i) \in rows /\ IndexOf(rows, RowAt(rows, i)) = i
  BY <1>6 DEF RowAt
<1>8. \A i : i \notin K => RowAt(rows, i) = None
  BY DEF RowAt
<1>9. \A r \in rows : RowAt(rows, IndexOf(rows, r)) = r
  BY <1>2, <1>7, IndicesAreInOrder
<1> HIDE DEF K
<1>10. \A i : RowAt(rows, i) \in Row \cup {None}
  BY <1>7, <1>8
<1> QED BY <1>7, <1>8, <1>9, <1>10 DEF K

(* The selected index is a position, and the offset a place to scroll to.  *)
LEMMA PositionsAreInTheList ==
    ASSUME NEW l \in ListType, NEW h \in Nat \ {0}
    PROVE  /\ Cardinality(l.rows) \in Nat
           /\ SelectedIndex(l) \in 0..Cardinality(l.rows)
           /\ SelectedIndex(l) = 0 <=> l.rows = {}
           /\ MaxOffset(l, h) \in Nat
           /\ MaxOffset(l, h) = Larger(0, Cardinality(l.rows) - h)
           /\ Offset(l, h) \in Nat /\ Offset(l, h) <= MaxOffset(l, h)
<1> DEFINE n == Cardinality(l.rows)
<1>1. l.rows \in SUBSET Row
  BY DEF ListType
<1>2. n \in Nat /\ (n = 0 <=> l.rows = {})
  BY <1>1, RowsAreFinite
<1>3. \A r \in l.rows : IndexOf(l.rows, r) \in 1..n
  BY <1>1, IndicesAreInOrder
<1>4. SelectedIndex(l) \in 0..n /\ (SelectedIndex(l) = 0 <=> l.rows = {})
  <2>1. CASE l.rows = {}
    BY <1>2, <2>1 DEF SelectedIndex
  <2>2. CASE l.rows # {} /\ l.selected \in l.rows
    <3>1. SelectedIndex(l) \in 1..n
      BY <1>3, <2>2 DEF SelectedIndex
    <3> HIDE DEF n
    <3> QED BY <1>2, <2>2, <3>1
  <2>3. CASE l.rows # {} /\ l.selected \notin l.rows
    <3>1. SelectedIndex(l) = 1
      BY <2>3 DEF SelectedIndex
    <3> HIDE DEF n
    <3> QED BY <1>2, <2>3, <3>1
  <2> QED BY <2>1, <2>2, <2>3
<1>5. MaxOffset(l, h) = Larger(0, n - h)
  BY DEF MaxOffset
<1> HIDE DEF n
<1>6. MaxOffset(l, h) \in Nat
  BY <1>2, <1>5 DEF Larger
<1>7. \A x \in Nat, y \in Nat : Smaller(x, y) \in Nat /\ Smaller(x, y) <= y
  BY DEF Smaller
<1>8. Offset(l, h) \in Nat /\ Offset(l, h) <= MaxOffset(l, h)
  <2>1. CASE l.following
    BY <1>6, <2>1 DEF Offset
  <2>2. CASE ~ l.following /\ l.top \in l.rows
    <3>1. IndexOf(l.rows, l.top) - 1 \in Nat
      BY <1>2, <1>3, <2>2
    <3> QED BY <1>6, <1>7, <2>2, <3>1 DEF Offset
  <2>3. CASE ~ l.following /\ l.top \notin l.rows
    <3>1. Larger(SelectedIndex(l) - 1, 0) \in Nat
      BY <1>2, <1>4 DEF Larger
    <3> QED BY <1>6, <1>7, <2>3, <3>1 DEF Offset
  <2> QED BY <2>1, <2>2, <2>3
<1> QED BY <1>2, <1>4, <1>5, <1>6, <1>8 DEF n

(* A row that was kept is where its index is.                              *)
LEMMA SelectionHasItsRow ==
    ASSUME NEW l \in ListType
    PROVE  /\ SelectedRow(l) \in Row \cup {None}
           /\ l.rows # {} => SelectedRow(l) \in l.rows
                             /\ IndexOf(l.rows, SelectedRow(l)) = SelectedIndex(l)
           /\ l.selected \in l.rows => SelectedRow(l) = l.selected
<1>1. l.rows \in SUBSET Row
  BY DEF ListType
<1>2. 1 \in Nat \ {0}
  OBVIOUS
<1>3. l.rows # {} => SelectedIndex(l) \in 1..Cardinality(l.rows)
  <2>1. /\ Cardinality(l.rows) \in Nat
        /\ SelectedIndex(l) \in 0..Cardinality(l.rows)
        /\ SelectedIndex(l) = 0 <=> l.rows = {}
    BY <1>2, PositionsAreInTheList
  <2> QED BY <2>1
<1>4. l.selected \in l.rows => SelectedIndex(l) = IndexOf(l.rows, l.selected)
  BY DEF SelectedIndex
<1> QED BY <1>1, <1>3, <1>4, RowsHavePlaces DEF SelectedRow

(* What an effect leaves is a list again, in which a selected row is one   *)
(* of the rows.                                                            *)
LEMMA RenderKeepsTheList ==
    ASSUME NEW l \in ListType, NEW h \in Nat \ {0}, l.following => l.selected = None
    PROVE  /\ Render(l, h) \in ListType
           /\ Known(Render(l, h))
           /\ Render(l, h).rows = l.rows
           /\ Render(l, h).following = l.following
           /\ Render(l, h).pending = l.pending
           /\ Render(l, h).selected = Fallback(l, h)
           /\ Render(l, h).top = KeepVisible(l, h)
           /\ Render(l, h).top \in l.rows \cup {None, l.top}
<1> DEFINE n == Cardinality(l.rows)
           i == Smaller(Offset(l, h) + 1, n)
<1>1. /\ l.rows \in SUBSET Row /\ l.following \in BOOLEAN /\ l.selected \in Row \cup {None}
      /\ l.top \in Row \cup {None} /\ l.pending \in 0..MaxPending
  BY DEF ListType
<1>2. \A j : RowAt(l.rows, j) \in Row \cup {None}
  BY <1>1, RowsHavePlaces
<1>3. RowAt(l.rows, i) \in l.rows \cup {None}
  BY <1>1, RowsHavePlaces
<1>4. Fallback(l, h) \in l.rows \cup {None} /\ (l.following => Fallback(l, h) = None)
  BY <1>3 DEF Fallback
<1>9. \A j : RowAt(l.rows, j) \in l.rows \cup {None}
  BY <1>1, RowsHavePlaces
<1>5. KeepVisible(l, h) \in Row \cup {None} /\ KeepVisible(l, h) \in l.rows \cup {None, l.top}
  BY <1>1, <1>2, <1>9 DEF KeepVisible
<1>8. Fallback(l, h) \in Row \cup {None}
  BY <1>1, <1>4
<1> DEFINE R == Render(l, h)
<1>6. R = [l EXCEPT !.selected = Fallback(l, h), !.top = KeepVisible(l, h)]
  BY DEF Render
<1>7. /\ R \in ListType /\ R.rows = l.rows /\ R.following = l.following /\ R.pending = l.pending
      /\ R.selected = Fallback(l, h) /\ R.top = KeepVisible(l, h)
  <2>1. PICK a \in Row \cup {None} : a = Fallback(l, h)
    BY <1>8
  <2>2. PICK b \in Row \cup {None} : b = KeepVisible(l, h)
    BY <1>5
  <2>3. R = [l EXCEPT !.selected = a, !.top = b]
    BY <1>6, <2>1, <2>2
  <2> HIDE DEF R
  <2> QED BY <2>1, <2>2, <2>3 DEF ListType
<1>10. Known(R)
  BY <1>4, <1>7 DEF Known
<1> QED BY <1>5, <1>7, <1>10

(* Where the view is when its top row is one of the rows.                  *)
LEMMA TopOfTheView ==
    ASSUME NEW l \in ListType, NEW h \in Nat \ {0}, ~ l.following,
           NEW i \in 1..Cardinality(l.rows), l.top = RowAt(l.rows, i)
    PROVE  Offset(l, h) = Smaller(i - 1, MaxOffset(l, h))
<1>1. l.rows \in SUBSET Row
  BY DEF ListType
<1>2. l.top \in l.rows /\ IndexOf(l.rows, l.top) = i
  BY <1>1, RowsHavePlaces
<1> QED BY <1>2 DEF Offset

(* When a selected row is one of the rows, one render scrolls to it.       *)
LEMMA RenderShowsTheSelection ==
    ASSUME NEW l \in ListType, NEW h \in Nat \ {0}, Known(l)
    PROVE  Shown(Render(l, h), h)
<1> DEFINE R == Render(l, h)
           n == Cardinality(l.rows)
           i == SelectedIndex(l)
           o == Offset(l, h)
<1>1. /\ R \in ListType /\ R.rows = l.rows /\ R.following = l.following
      /\ R.selected = Fallback(l, h) /\ R.top = KeepVisible(l, h)
  BY RenderKeepsTheList DEF Known
<1>2. R.selected = l.selected
  BY <1>1 DEF Known, Fallback
<1>3. SelectedIndex(R) = i /\ MaxOffset(R, h) = MaxOffset(l, h)
  BY <1>1, <1>2 DEF SelectedIndex, MaxOffset
<1>4. /\ n \in Nat /\ i \in 0..n /\ (i = 0 <=> l.rows = {})
      /\ MaxOffset(l, h) = Larger(0, n - h) /\ o \in Nat /\ o <= MaxOffset(l, h)
  BY PositionsAreInTheList
<1>5. l.rows = {} => Shown(R, h)
  BY <1>1 DEF Shown
<1>6. ASSUME l.rows # {}, l.following PROVE Shown(R, h)
  <2>1. i = 1
    BY <1>6, RowsAreNumbers DEF Known, SelectedIndex, ListType
  <2>2. Offset(R, h) = 0
    BY <1>1, <1>6 DEF Offset
  <2> QED BY <1>3, <2>1, <2>2 DEF Shown
<1>7. ASSUME l.rows # {}, ~ l.following, i \in o+1..o+h PROVE Shown(R, h)
  <2>1. R.top = l.top
    BY <1>1, <1>7 DEF KeepVisible
  <2>2. Offset(R, h) = o
    BY <1>1, <1>3, <2>1 DEF Offset
  <2> QED BY <1>3, <1>7, <2>2 DEF Shown
<1>8. ASSUME l.rows # {}, ~ l.following, i \notin o+1..o+h, i <= o PROVE Shown(R, h)
  <2>1. R.top = RowAt(R.rows, i)
    BY <1>1, <1>4, <1>8 DEF KeepVisible
  <2>2. i \in 1..n
    BY <1>4, <1>8
  <2>3. Offset(R, h) = Smaller(i - 1, MaxOffset(l, h))
    BY <1>1, <1>3, <1>8, <2>1, <2>2, TopOfTheView
  <2> HIDE DEF R, n, i, o
  <2>4. MaxOffset(l, h) \in Nat
    BY <1>4 DEF Larger
  <2>5. Offset(R, h) = i - 1
    BY <1>4, <1>8, <2>2, <2>3, <2>4 DEF Smaller
  <2> QED BY <1>3, <2>2, <2>5 DEF Shown
<1>9. ASSUME l.rows # {}, ~ l.following, i \notin o+1..o+h, ~ (i <= o) PROVE Shown(R, h)
  <2>1. R.top = RowAt(R.rows, i - h + 1)
    BY <1>1, <1>4, <1>9 DEF KeepVisible
  <2> HIDE DEF R, n, i, o
  <2>2. i > o + h /\ i - h + 1 \in 1..n
    BY <1>4, <1>9
  <2>3. PICK j \in 1..Cardinality(R.rows) : j = i - h + 1
    BY <1>1, <2>2 DEF n
  <2>4. R.top = RowAt(R.rows, j)
    BY <2>1, <2>3
  <2>5. Offset(R, h) = Smaller(j - 1, MaxOffset(l, h))
    BY <1>1, <1>3, <1>9, <2>4, TopOfTheView
  <2>6. MaxOffset(l, h) = n - h
    BY <1>4, <2>2 DEF Larger
  <2>7. Offset(R, h) = i - h
    BY <1>4, <2>2, <2>3, <2>5, <2>6 DEF Smaller
  <2>8. SelectedIndex(R) \in (i-h)+1..(i-h)+h
    BY <1>3, <1>4
  <2> QED BY <2>7, <2>8 DEF Shown
<1> QED BY <1>5, <1>6, <1>7, <1>8, <1>9

(* A list whose selection is on the screen has nothing left to do.         *)
LEMMA ShownListsAreSettled ==
    ASSUME NEW l \in ListType, NEW h \in Nat \ {0}, Known(l), Shown(l, h)
    PROVE  Render(l, h) = l
<1>1. Fallback(l, h) = l.selected
  BY DEF Known, Fallback
<1>2. l.rows = {} => SelectedIndex(l) = 0
  BY DEF SelectedIndex
<1>3. KeepVisible(l, h) = l.top
  BY <1>2 DEF Shown, KeepVisible
<1>4. Render(l, h) = [l EXCEPT !.selected = l.selected, !.top = l.top]
  BY <1>1, <1>3 DEF Render
<1> QED BY <1>4 DEF ListType

(* Three renders are enough, whatever the list they start from: one finds  *)
(* a row for a selection that is gone, one scrolls to it, and the last     *)
(* leaves everything as it is.                                             *)
LEMMA ThreeRendersSettle ==
    ASSUME NEW l \in ListType, NEW h \in Nat \ {0}, l.following => l.selected = None
    PROVE  /\ Settled(l, h) \in ListType
           /\ Settled(l, h).rows = l.rows
           /\ Settled(l, h).following = l.following
           /\ Settled(l, h).pending = l.pending
           /\ Settled(l, h).top \in l.rows \cup {None, l.top}
           /\ Known(Settled(l, h))
           /\ Shown(Settled(l, h), h)
           /\ Render(Settled(l, h), h) = Settled(l, h)
<1> DEFINE l1 == Render(l, h)
           l2 == Render(l1, h)
<1>1. /\ l1 \in ListType /\ Known(l1) /\ l1.rows = l.rows
      /\ l1.following = l.following /\ l1.pending = l.pending
      /\ l1.top \in l.rows \cup {None, l.top}
  BY RenderKeepsTheList
<1> HIDE DEF l1
<1>2. l1.following => l1.selected = None
  BY <1>1 DEF Known
<1>3. /\ l2 \in ListType /\ Known(l2) /\ l2.rows = l.rows
      /\ l2.following = l.following /\ l2.pending = l.pending
      /\ l2.top \in l.rows \cup {None, l.top}
  BY <1>1, <1>2, RenderKeepsTheList
<1>4. Shown(l2, h)
  BY <1>1, RenderShowsTheSelection
<1> HIDE DEF l2
<1>5. Render(l2, h) = l2
  BY <1>3, <1>4, ShownListsAreSettled
<1>6. Settled(l, h) = l2
  BY <1>5 DEF Settled, l1, l2
<1> QED BY <1>3, <1>4, <1>5, <1>6

(* A list that is settled stays what it is.                                *)
LEMMA SettledStaysSettled ==
    ASSUME NEW l, NEW h, Render(l, h) = l
    PROVE  Settled(l, h) = l
BY DEF Settled

(* What Shown says of the screen.                                          *)
LEMMA ShownIsOnScreen ==
    ASSUME NEW l \in ListType, NEW h, Shown(l, h), l.rows # {}
    PROVE  SelectedRow(l) \in OnScreen(l, h)
BY SelectionHasItsRow DEF Shown, OnScreen

(* A commit of any list, with any modal: the screen is settled, and the    *)
(* details are asked for the row that is selected now.                     *)
LEMMA CommitKeepsUIInd ==
    ASSUME UIInd, NEW l \in ListType, NEW m \in Modals \cup {"none"},
           l.following => l.selected = None, l.rows \subseteq 1..captured',
           l.top \in 1..captured' \cup {None}, Commit(l, m), RestOK'
    PROVE  UIInd' /\ list'.rows = l.rows
<1> DEFINE h == VisibleHeight(m)
<1>1. h \in Nat \ {0}
  BY HeightIsPositive
<1>2. list' = Settled(l, h) /\ modal' = m /\ FetchDetail(list')
  BY DEF Commit
<1>3. /\ list' \in ListType /\ list'.rows = l.rows /\ Known(list') /\ Shown(list', h)
      /\ Render(list', h) = list' /\ list'.top \in l.rows \cup {None, l.top}
  BY <1>1, <1>2, ThreeRendersSettle
<1>4. h = VisibleHeight(modal')
  BY <1>2
<1>5. SelectedRow(list') \in Row \cup {None}
  BY <1>3, SelectionHasItsRow
<1>6. {detail, detailRequest} \subseteq Row \cup {None} /\ fetches \subseteq Row /\ DetailsFollow
  BY DEF UIInd, TypeOK
<1>7. /\ {detail', detailRequest'} \subseteq Row \cup {None} /\ fetches' \subseteq Row
      /\ list'.following \/ list'.selected # None => detailRequest' = SelectedRow(list')
      /\ detail' \notin {None, detailRequest'} => detailRequest' \in fetches'
  <2>1. CASE DetailDeps(list') = DetailDeps(list)
    <3>1. /\ SelectedRow(list') = SelectedRow(list) /\ list'.following = list.following
          /\ list'.selected = list.selected
      BY <2>1 DEF DetailDeps
    <3>2. UNCHANGED <<detail, detailRequest, fetches>>
      BY <1>2, <2>1 DEF FetchDetail
    <3> QED BY <1>6, <3>1, <3>2 DEF DetailsFollow
  <2>2. CASE SelectedRow(list') # None /\ ~ list'.following /\ list'.selected = None
    <3>1. UNCHANGED <<detail, detailRequest, fetches>>
      BY <1>2, <2>2 DEF FetchDetail
    <3> QED BY <1>6, <2>2, <3>1 DEF DetailsFollow
  <2>3. CASE /\ DetailDeps(list') # DetailDeps(list)
             /\ ~ (SelectedRow(list') # None /\ ~ list'.following /\ list'.selected = None)
    <3>1. /\ detailRequest' = SelectedRow(list')
          /\ IF SelectedRow(list') = None
             THEN detail' = None /\ UNCHANGED fetches
             ELSE fetches' = fetches \cup {SelectedRow(list')} /\ UNCHANGED detail
      BY <1>2, <2>3 DEF FetchDetail
    <3> QED BY <1>5, <1>6, <3>1
  <2> QED BY <2>1, <2>2, <2>3
<1>8. DetailsFollow'
  BY <1>7 DEF DetailsFollow
<1>9. TypeOK'
  BY <1>2, <1>3, <1>7 DEF TypeOK, RestOK, ListType
<1>10. Known(list)' /\ Shown(list, VisibleHeight(modal))' /\ (Render(list, VisibleHeight(modal)) = list)'
  BY <1>3, <1>4
<1> QED BY <1>3, <1>8, <1>9, <1>10 DEF UIInd

(* A step that touches neither the list nor the details.                   *)
LEMMA OtherStepsKeepUIInd ==
    ASSUME UIInd, RestOK', UNCHANGED <<captured, list, detail, detailRequest, fetches, modal>>
    PROVE  UIInd' /\ list'.rows = list.rows
<1>1. Shown(list, VisibleHeight(modal))' /\ (Render(list, VisibleHeight(modal)) = list)' /\ Known(list)'
  BY DEF UIInd
<1>2. DetailsFollow'
  BY DEF UIInd, DetailsFollow
<1>3. TypeOK' /\ list'.rows \subseteq 1..captured' /\ list'.top \in 1..captured' \cup {None}
  BY DEF UIInd, TypeOK, RestOK
<1> QED BY <1>1, <1>2, <1>3 DEF UIInd

(* The lists the keys make are lists, with the rows there were.            *)
LEMMA FollowModeIsAList ==
    ASSUME NEW l \in ListType
    PROVE  /\ FollowMode(l) \in ListType /\ FollowMode(l).rows = l.rows
           /\ FollowMode(l).selected = None /\ FollowMode(l).top = None
<1>1. 0 \in 0..MaxPending /\ None \in Row \cup {None} /\ TRUE \in BOOLEAN
  BY UIAssumption
<1> DEFINE F == [l EXCEPT !.following = TRUE, !.selected = None, !.top = None, !.pending = 0]
<1>2. F \in ListType
  BY <1>1, Zenon DEF ListType
<1>3. F.rows = l.rows /\ F.selected = None /\ F.top = None
  BY DEF ListType
<1> QED BY <1>2, <1>3 DEF FollowMode

(* Leaving follow mode anchors the view at a row, or at none.              *)
LEMMA AnchoredIsAList ==
    ASSUME NEW l \in ListType, NEW h
    PROVE  /\ Anchored(l, h) \in ListType /\ Anchored(l, h).rows = l.rows
           /\ ~ Anchored(l, h).following /\ Anchored(l, h).top \in l.rows \cup {None, l.top}
<1>1. l.rows \in SUBSET Row /\ RowAt(l.rows, Offset(l, h) + 1) \in l.rows \cup {None}
  BY RowsHavePlaces DEF ListType
<1>2. PICK t \in l.rows \cup {None} : t = RowAt(l.rows, Offset(l, h) + 1)
  BY <1>1
<1>3. Anchored(l, h) = IF l.following THEN [l EXCEPT !.following = FALSE, !.top = t] ELSE l
  BY <1>2 DEF Anchored
<1> QED BY <1>1, <1>2, <1>3 DEF ListType

(* The parts of the invariant the steps need.                              *)
LEMMA UIIndSays ==
    ASSUME UIInd
    PROVE  /\ list \in ListType /\ (list.following => list.selected = None)
           /\ list.rows \in SUBSET Row /\ list.rows \subseteq 1..captured
           /\ list.top \in 1..captured \cup {None}
           /\ modal \in Modals \cup {"none"}
           /\ RestOK
BY DEF UIInd, TypeOK, ListType, Known, RestOK

-----------------------------------------------------------------------------
(* What a synchronisation renders: the rows it brings, the anchors there   *)
(* were, and the count of what is above them.                              *)
SyncedList(rows, fresh) ==
    [list EXCEPT !.rows = rows \cup (captured+1..captured+fresh),
                 !.pending = IF list.following THEN 0
                             ELSE list.pending
                                  + Prepended(list.rows, rows \cup (captured+1..captured+fresh))]

(* What a synchronisation renders is a list of captured rows.              *)
LEMMA SyncRendersAList ==
    ASSUME UIInd, NEW rows \in SUBSET (1..captured), NEW fresh \in 0..MaxRows, Sync(rows, fresh)
    PROVE  /\ SyncedList(rows, fresh) \in ListType
           /\ SyncedList(rows, fresh).rows = rows \cup (captured+1..captured+fresh)
           /\ SyncedList(rows, fresh).following = list.following
           /\ SyncedList(rows, fresh).selected = list.selected
           /\ SyncedList(rows, fresh).top = list.top
           /\ ~ list.following => SyncedList(rows, fresh).pending
                  = list.pending + Prepended(list.rows, rows \cup (captured+1..captured+fresh))
           /\ SyncedList(rows, fresh).rows \subseteq 1..captured'
           /\ captured' = captured + fresh
           /\ Commit(SyncedList(rows, fresh), modal)
           /\ UNCHANGED <<panel, confirming, exports, keys>>
           /\ RestOK'
<1> DEFINE all == rows \cup (captured+1..captured+fresh)
<1>1. PICK count : count = IF list.following THEN 0 ELSE list.pending + Prepended(list.rows, all)
  OBVIOUS
<1>2. /\ captured + fresh <= MaxRows /\ count <= MaxPending /\ captured' = captured + fresh
      /\ Commit([list EXCEPT !.rows = all, !.pending = count], modal)
      /\ UNCHANGED <<panel, confirming, exports, keys>>
  BY <1>1 DEF Sync
<1>3. SyncedList(rows, fresh) = [list EXCEPT !.rows = all, !.pending = count]
  BY <1>1 DEF SyncedList
<1>4. /\ list \in ListType /\ RestOK /\ MaxRows \in Nat /\ captured \in Nat
  BY UIIndSays, UIAssumption DEF RestOK
<1>5. all \in SUBSET Row /\ all \in SUBSET (1..captured')
  BY <1>2, <1>4 DEF Row
<1>6. Commit(SyncedList(rows, fresh), modal)
  BY <1>2, <1>3
<1> HIDE DEF all
<1>7. Prepended(list.rows, all) \in Nat
  <2>1. {r \in all : \A q \in list.rows \cap all : r > q} \in SUBSET Row
    BY <1>5
  <2>2. Cardinality({r \in all : \A q \in list.rows \cap all : r > q}) \in Nat
    BY <2>1, RowsAreFinite
  <2> QED BY <2>2 DEF Prepended
<1>8. count \in 0..MaxPending
  BY <1>1, <1>2, <1>4, <1>7, UIAssumption DEF ListType
<1>9. PICK k : k = [list EXCEPT !.rows = all, !.pending = count]
  OBVIOUS
<1>10. /\ k \in ListType /\ k.rows = all /\ k.following = list.following
       /\ k.selected = list.selected /\ k.top = list.top /\ k.pending = count
  BY <1>4, <1>5, <1>8, <1>9 DEF ListType
<1>11. RestOK'
  BY <1>2, <1>4 DEF RestOK
<1>12. k = SyncedList(rows, fresh)
  BY <1>3, <1>9
<1> QED BY <1>1, <1>2, <1>5, <1>6, <1>10, <1>11, <1>12 DEF all

(* Requests, details and ends of exports.                                  *)
LEMMA SyncKeepsUIInd ==
    ASSUME UIInd, NEW rows \in SUBSET (1..captured), NEW fresh \in 0..MaxRows, Sync(rows, fresh)
    PROVE  UIInd'
<1>1. /\ list \in ListType /\ (list.following => list.selected = None)
      /\ modal \in Modals \cup {"none"} /\ RestOK /\ list.top \in 1..captured \cup {None}
  BY UIIndSays
<1>2. PICK k : k = SyncedList(rows, fresh)
  OBVIOUS
<1>3. /\ k \in ListType /\ k.following = list.following /\ k.selected = list.selected
      /\ k.top = list.top /\ k.rows \subseteq 1..captured' /\ captured' = captured + fresh
      /\ Commit(k, modal) /\ RestOK'
  BY <1>2, SyncRendersAList
<1>4. k.top \in 1..captured' \cup {None}
  BY <1>1, <1>3 DEF RestOK
<1> QED BY <1>1, <1>3, <1>4, CommitKeepsUIInd

(* An answer for the row that is asked for is shown; any other leaves the  *)
(* call the details wait for in flight.                                    *)
LEMMA DetailArrivesKeepsUIInd ==
    ASSUME UIInd, NEW r \in Row, DetailArrives(r)
    PROVE  UIInd' /\ list'.rows = list.rows
<1>1. /\ r \in fetches /\ fetches' = fetches \ {r}
      /\ IF detailRequest = r THEN detail' \in {r, None} ELSE UNCHANGED detail
      /\ UNCHANGED <<captured, list, detailRequest, panel, modal, confirming, exports, keys>>
  BY DEF DetailArrives, FetchGuard
<1>2. DetailsFollow /\ TypeOK
  BY DEF UIInd
<1>3. list' = list /\ modal' = modal
  BY <1>1
<1>4. DetailsFollow'
  <2>1. list'.following \/ list'.selected # None => detailRequest' = SelectedRow(list')
    BY <1>1, <1>2 DEF DetailsFollow
  <2>2. detail' \notin {None, detailRequest'} => detailRequest' \in fetches'
    BY <1>1, <1>2 DEF DetailsFollow
  <2> QED BY <2>1, <2>2 DEF DetailsFollow
<1>5. TypeOK'
  BY <1>1, <1>2 DEF TypeOK
<1>6. Shown(list, VisibleHeight(modal))' /\ (Render(list, VisibleHeight(modal)) = list)' /\ Known(list)'
  BY <1>3 DEF UIInd
<1>7. list'.rows \subseteq 1..captured' /\ list'.top \in 1..captured' \cup {None}
  BY <1>1 DEF UIInd
<1> QED BY <1>3, <1>4, <1>5, <1>6, <1>7 DEF UIInd

(* An export that ends closes a modal at most.                             *)
LEMMA ExportEndsKeepsUIInd ==
    ASSUME UIInd, NEW m \in Modals, ExportEnds(m)
    PROVE  UIInd' /\ list'.rows = list.rows
<1>1. /\ list \in ListType /\ (list.following => list.selected = None) /\ list.rows \subseteq 1..captured
      /\ modal \in Modals \cup {"none"} /\ RestOK /\ list.top \in 1..captured \cup {None}
  BY UIIndSays
<1>2. PICK x : x = IF modal = m THEN "none" ELSE modal
  OBVIOUS
<1>3. /\ exports' = exports \ {m} /\ UNCHANGED <<captured, panel, confirming, keys>>
      /\ Commit(list, x)
  BY <1>2 DEF ExportEnds
<1>4. x \in Modals \cup {"none"} /\ RestOK' /\ list.rows \subseteq 1..captured'
      /\ list.top \in 1..captured' \cup {None}
  BY <1>1, <1>2, <1>3 DEF RestOK
<1> QED BY <1>1, <1>3, <1>4, CommitKeepsUIInd

-----------------------------------------------------------------------------
(* Keys are counted up to their bound.                                     *)
LEMMA KeysAreCounted ==
    ASSUME RestOK, keys < MaxKeys, Key
    PROVE  keys' \in 0..MaxKeys
BY UIAssumption DEF RestOK, Key

(* A key that only moves in the list.                                      *)
LEMMA OnlyListKeepsUIInd ==
    ASSUME UIInd, keys < MaxKeys, NEW l \in ListType, l.following => l.selected = None,
           l.rows = list.rows, l.top \in list.rows \cup {None, list.top}, OnlyList(l)
    PROVE  UIInd' /\ list'.rows = list.rows
<1>1. /\ list.rows \subseteq 1..captured /\ list.top \in 1..captured \cup {None}
      /\ modal \in Modals \cup {"none"} /\ RestOK
  BY UIIndSays
<1>2. Commit(l, modal) /\ Key /\ UNCHANGED <<captured, panel, confirming, exports>>
  BY DEF OnlyList
<1>3. RestOK' /\ l.rows \subseteq 1..captured' /\ l.top \in 1..captured' \cup {None}
  BY <1>1, <1>2, KeysAreCounted DEF RestOK
<1> QED BY <1>1, <1>2, <1>3, CommitKeepsUIInd

(* The keys and mouse events of the list.                                  *)
LEMMA ListKeysKeepUIInd ==
    ASSUME UIInd, ListKeys
    PROVE  UIInd' /\ list'.rows = list.rows
<1> DEFINE h == VisibleHeight(modal)
<1>1. /\ list \in ListType /\ (list.following => list.selected = None)
      /\ list.rows \in SUBSET Row /\ list.rows \subseteq 1..captured
      /\ list.top \in 1..captured \cup {None} /\ modal \in Modals \cup {"none"} /\ RestOK
  BY UIIndSays
<1>2. \A i : RowAt(list.rows, i) \in list.rows \cup {None}
  BY <1>1, RowsHavePlaces
<1>3. /\ Anchored(list, h) \in ListType /\ Anchored(list, h).rows = list.rows
      /\ ~ Anchored(list, h).following
      /\ Anchored(list, h).top \in list.rows \cup {None, list.top}
  BY <1>1, AnchoredIsAList
<1>4. /\ FollowMode(list) \in ListType /\ FollowMode(list).rows = list.rows
      /\ FollowMode(list).selected = None /\ FollowMode(list).top = None
  BY <1>1, FollowModeIsAList
<1>5. PICK k : k = Anchored(list, h)
  OBVIOUS
<1>6. ASSUME NEW step \in Steps, Move(step) PROVE UIInd' /\ list'.rows = list.rows
  <2> DEFINE i == Smaller(Larger(Larger(SelectedIndex(list), 1) + step, 1), Cardinality(list.rows))
  <2>1. keys < MaxKeys /\ OnlyList([Anchored(list, h) EXCEPT !.selected = RowAt(list.rows, i)])
    BY <1>6, Zenon DEF Move, PlainKey, MainKeys
  <2>2. PICK a \in list.rows \cup {None} : a = RowAt(list.rows, i)
    BY <1>2
  <2>3. PICK l : l = [k EXCEPT !.selected = a]
    OBVIOUS
  <2>4. l \in ListType /\ l.rows = list.rows /\ ~ l.following /\ l.top \in list.rows \cup {None, list.top}
    BY <1>1, <1>3, <1>5, <2>2, <2>3 DEF ListType
  <2>5. OnlyList(l)
    BY <1>5, <2>1, <2>2, <2>3
  <2> QED BY <2>1, <2>4, <2>5, OnlyListKeepsUIInd
<1>7. CASE JumpToNewest
  <2>1. keys < MaxKeys /\ OnlyList(FollowMode(list))
    BY <1>7 DEF JumpToNewest, PlainKey, MainKeys
  <2> QED BY <1>4, <2>1, OnlyListKeepsUIInd
<1>8. CASE JumpToOldest
  <2> DEFINE n == Cardinality(list.rows)
             scrolled == Larger(0, n - VisibleHeight(modal))
  <2>1. keys < MaxKeys /\ OnlyList([list EXCEPT !.following = FALSE,
                                     !.top = RowAt(list.rows, scrolled + 1), !.selected = RowAt(list.rows, n)])
    BY <1>8, Zenon DEF JumpToOldest, PlainKey, MainKeys
  <2>2. PICK a \in list.rows \cup {None}, b \in list.rows \cup {None} :
            a = RowAt(list.rows, n) /\ b = RowAt(list.rows, scrolled + 1)
    BY <1>2
  <2>3. PICK l : l = [list EXCEPT !.following = FALSE, !.top = b, !.selected = a]
    OBVIOUS
  <2>4. l \in ListType /\ l.rows = list.rows /\ ~ l.following /\ l.top \in list.rows \cup {None, list.top}
    BY <1>1, <1>2, <2>2, <2>3 DEF ListType
  <2>5. OnlyList(l)
    BY <2>1, <2>2, <2>3
  <2> QED BY <2>1, <2>4, <2>5, OnlyListKeepsUIInd
<1>9. CASE ToggleFollow
  <2>1. keys < MaxKeys
    BY <1>9 DEF ToggleFollow, PlainKey, MainKeys
  <2>2. CASE ~ list.following
    <3>1. OnlyList(FollowMode(list))
      BY <1>9, <2>2 DEF ToggleFollow
    <3> QED BY <1>4, <2>1, <3>1, OnlyListKeepsUIInd
  <2>3. CASE list.following
    <3>1. PICK a \in list.rows \cup {None} : a = SelectedRow(list)
      BY <1>2 DEF SelectedRow
    <3>2. PICK l : l = [k EXCEPT !.selected = a]
      OBVIOUS
    <3>3. l \in ListType /\ l.rows = list.rows /\ ~ l.following /\ l.top \in list.rows \cup {None, list.top}
      BY <1>1, <1>3, <1>5, <3>1, <3>2 DEF ListType
    <3>4. OnlyList([Anchored(list, h) EXCEPT !.selected = SelectedRow(list)])
      BY <1>9, <2>3 DEF ToggleFollow
    <3>5. OnlyList(l)
      BY <1>5, <3>1, <3>2, <3>4
    <3> QED BY <2>1, <3>3, <3>5, OnlyListKeepsUIInd
  <2> QED BY <2>2, <2>3
<1>10. ASSUME NEW direction \in {-1, 1}, Wheel(direction) PROVE UIInd' /\ list'.rows = list.rows
  <2> DEFINE scrolled == Larger(Smaller(Offset(list, h) + direction, MaxOffset(list, h)), 0)
  <2>1. keys < MaxKeys
        /\ OnlyList([list EXCEPT !.following = FALSE, !.top = RowAt(list.rows, scrolled + 1)])
    BY <1>10, Zenon DEF Wheel, ListDrawn
  <2>2. PICK b \in list.rows \cup {None} : b = RowAt(list.rows, scrolled + 1)
    BY <1>2
  <2>3. PICK l : l = [list EXCEPT !.following = FALSE, !.top = b]
    OBVIOUS
  <2>4. l \in ListType /\ l.rows = list.rows /\ ~ l.following /\ l.top \in list.rows \cup {None, list.top}
    BY <1>1, <1>2, <2>2, <2>3 DEF ListType
  <2>5. OnlyList(l)
    BY <2>1, <2>2, <2>3
  <2> QED BY <2>1, <2>4, <2>5, OnlyListKeepsUIInd
<1>11. ASSUME NEW r \in Row, ClickRow(r) PROVE UIInd' /\ list'.rows = list.rows
  <2>1. /\ keys < MaxKeys /\ Key /\ panel' = [panel EXCEPT !.active = "list"]
        /\ Commit([Anchored(list, h) EXCEPT !.selected = r], modal)
        /\ UNCHANGED <<captured, confirming, exports>>
    BY <1>11 DEF ClickRow, ListDrawn
  <2>2. PICK l : l = [k EXCEPT !.selected = r]
    OBVIOUS
  <2>3. l \in ListType /\ l.rows = list.rows /\ ~ l.following /\ l.top \in list.rows \cup {None, list.top}
    BY <1>3, <1>5, <2>2 DEF ListType
  <2>4. Commit(l, modal)
    BY <1>5, <2>1, <2>2
  <2>5. panel' \in [active : {"list", "accordion"}, section : Sections]
    BY <1>1, <2>1 DEF RestOK
  <2>6. RestOK' /\ l.rows \subseteq 1..captured' /\ l.top \in 1..captured' \cup {None}
    BY <1>1, <2>1, <2>3, <2>5, KeysAreCounted DEF RestOK
  <2> QED BY <1>1, <2>3, <2>4, <2>6, CommitKeepsUIInd
<1> QED BY <1>6, <1>7, <1>8, <1>9, <1>10, <1>11 DEF ListKeys

-----------------------------------------------------------------------------
(* A key that only moves between the panels, or asks, or answers.          *)
LEMMA OnlyPanelKeepsUIInd ==
    ASSUME UIInd, keys < MaxKeys, NEW active \in {"list", "accordion"}, NEW section \in Sections,
           OnlyPanel(active, section)
    PROVE  UIInd' /\ list'.rows = list.rows
<1>1. RestOK
  BY UIIndSays
<1>2. /\ panel' = [active |-> active, section |-> section] /\ Key
      /\ UNCHANGED <<captured, list, detail, detailRequest, fetches, modal, confirming, exports>>
  BY DEF OnlyPanel
<1>3. RestOK'
  BY <1>1, <1>2, KeysAreCounted DEF RestOK
<1> QED BY <1>2, <1>3, OtherStepsKeepUIInd

(* The keys and mouse events of the panels.                                *)
LEMMA PanelKeysKeepUIInd ==
    ASSUME UIInd, PanelKeys
    PROVE  UIInd' /\ list'.rows = list.rows
<1>1. panel.section \in Sections /\ panel.section \in 0..3
  BY UIIndSays DEF RestOK, Sections
<1>3. CASE MoveSection
  <2>1. PICK s \in {Smaller(panel.section + 1, 3), Larger(panel.section - 1, 0), 0, 3} :
            OnlyPanel("accordion", s)
    BY <1>3 DEF MoveSection
  <2>2. s \in Sections
    BY <1>1 DEF Sections, Smaller, Larger
  <2>3. keys < MaxKeys
    BY <1>3 DEF MoveSection, PlainKey, MainKeys
  <2> QED BY <2>1, <2>2, <2>3, OnlyPanelKeepsUIInd
<1>4. ASSUME Tab \/ BackTab \/ PanelKey \/ ClickPanel
      PROVE  /\ keys < MaxKeys
             /\ \E active \in {"list", "accordion"}, section \in Sections : OnlyPanel(active, section)
  <2>1. keys < MaxKeys
    BY <1>4 DEF Tab, BackTab, PanelKey, ClickPanel, PlainKey, MainKeys, ListDrawn
  <2>2. 0 \in Sections /\ 3 \in Sections
    BY DEF Sections
  <2>3. panel.section < 3 => panel.section + 1 \in Sections
    BY <1>1 DEF Sections
  <2>4. panel.section > 0 => panel.section - 1 \in Sections
    BY <1>1 DEF Sections
  <2>5. ASSUME Tab PROVE \E active \in {"list", "accordion"}, section \in Sections : OnlyPanel(active, section)
    BY <1>1, <2>2, <2>3, <2>5 DEF Tab
  <2>6. ASSUME BackTab PROVE \E active \in {"list", "accordion"}, section \in Sections : OnlyPanel(active, section)
    BY <1>1, <2>2, <2>4, <2>6 DEF BackTab
  <2>7. ASSUME PanelKey \/ ClickPanel
        PROVE  \E active \in {"list", "accordion"}, section \in Sections : OnlyPanel(active, section)
    BY <1>1, <2>7 DEF PanelKey, ClickPanel
  <2> QED BY <1>4, <2>1, <2>5, <2>6, <2>7
<1> QED BY <1>3, <1>4, OnlyPanelKeepsUIInd DEF PanelKeys

(* A question is asked about a row there is.                               *)
LEMMA OnlyConfirmingKeepsUIInd ==
    ASSUME UIInd, keys < MaxKeys, NEW c \in {None, <<"clear">>} \cup ({"replay"} \X Row), OnlyConfirming(c)
    PROVE  UIInd' /\ list'.rows = list.rows
<1>1. RestOK
  BY UIIndSays
<1>2. /\ confirming' = c /\ Key
      /\ UNCHANGED <<captured, list, detail, detailRequest, fetches, panel, modal, exports>>
  BY DEF OnlyConfirming
<1>3. RestOK'
  BY <1>1, <1>2, KeysAreCounted DEF RestOK
<1> QED BY <1>2, <1>3, OtherStepsKeepUIInd

(* The list is rendered under another modal, or at another height.         *)
LEMMA SwitchKeepsUIInd ==
    ASSUME UIInd, keys < MaxKeys, NEW m \in Modals \cup {"none"}, Switch(m)
    PROVE  UIInd' /\ list'.rows = list.rows
<1>1. /\ list \in ListType /\ (list.following => list.selected = None)
      /\ list.rows \subseteq 1..captured /\ list.top \in 1..captured \cup {None} /\ RestOK
  BY UIIndSays
<1>2. Commit(list, m) /\ Key /\ UNCHANGED <<captured, panel, confirming, exports>>
  BY DEF Switch
<1>3. RestOK' /\ list.rows \subseteq 1..captured' /\ list.top \in 1..captured' \cup {None}
  BY <1>1, <1>2, KeysAreCounted DEF RestOK
<1> QED BY <1>1, <1>2, <1>3, CommitKeepsUIInd

(* The keys of the modals, and the questions.                              *)
LEMMA ModalsAndQuestionsKeepUIInd ==
    ASSUME UIInd, ModalsAndQuestions
    PROVE  UIInd' /\ list'.rows = list.rows
<1>1. /\ list \in ListType /\ (list.following => list.selected = None)
      /\ list.rows \in SUBSET Row /\ list.rows \subseteq 1..captured
      /\ list.top \in 1..captured \cup {None} /\ modal \in Modals \cup {"none"} /\ RestOK
  BY UIIndSays
<1>2. /\ FollowMode(list) \in ListType /\ FollowMode(list).rows = list.rows
      /\ FollowMode(list).selected = None /\ FollowMode(list).top = None
  BY <1>1, FollowModeIsAList
<1>3. CASE AskReplay
  <2>1. keys < MaxKeys /\ SelectedRow(list) # None /\ OnlyConfirming(<<"replay", SelectedRow(list)>>)
    BY <1>3 DEF AskReplay, PlainKey, MainKeys
  <2>2. SelectedRow(list) \in Row
    BY <1>1, <2>1, SelectionHasItsRow
  <2> QED BY <2>1, <2>2, OnlyConfirmingKeepsUIInd
<1>4. CASE AskClear
  BY <1>4, OnlyConfirmingKeepsUIInd DEF AskClear, PlainKey, MainKeys
<1>5. CASE CancelOrReplay
  BY <1>5, OnlyConfirmingKeepsUIInd DEF CancelOrReplay, MainKeys
<1>6. CASE ConfirmClear
  <2>1. /\ keys < MaxKeys /\ Key /\ confirming' = None /\ Commit(FollowMode(list), modal)
        /\ UNCHANGED <<captured, panel, exports>>
    BY <1>6 DEF ConfirmClear, MainKeys
  <2>2. RestOK' /\ list.rows \subseteq 1..captured'
    BY <1>1, <2>1, KeysAreCounted DEF RestOK
  <2> QED BY <1>1, <1>2, <2>1, <2>2, CommitKeepsUIInd
<1>7. ASSUME NEW m \in Modals, Open(m) PROVE UIInd' /\ list'.rows = list.rows
  BY <1>7, SwitchKeepsUIInd DEF Open, PlainKey, MainKeys
<1>8. ASSUME NEW m \in Modals, Escape(m) PROVE UIInd' /\ list'.rows = list.rows
  BY <1>8, SwitchKeepsUIInd DEF Escape, ModalKeys
<1>9. ASSUME NEW m \in Modals, Export(m) PROVE UIInd' /\ list'.rows = list.rows
  <2>1. /\ keys < MaxKeys /\ m \in {"save", "format"} /\ exports' = exports \cup {m} /\ Key
        /\ UNCHANGED <<captured, list, detail, detailRequest, fetches, panel, modal, confirming>>
    BY <1>9 DEF Export, ModalKeys
  <2>2. RestOK'
    BY <1>1, <2>1, KeysAreCounted DEF RestOK
  <2> QED BY <2>1, <2>2, OtherStepsKeepUIInd
<1>10. CASE TypeFilter
  BY <1>2, <1>10, OnlyListKeepsUIInd DEF TypeFilter, ModalKeys
<1>11. CASE CloseFilter
  <2>1. keys < MaxKeys /\ Key /\ UNCHANGED <<captured, panel, confirming, exports>>
    BY <1>11 DEF CloseFilter, ModalKeys
  <2>2. PICK l \in {list, FollowMode(list)} : Commit(l, "none")
    BY <1>11 DEF CloseFilter
  <2>3. RestOK' /\ list.rows \subseteq 1..captured' /\ list.top \in 1..captured' \cup {None}
    BY <1>1, <2>1, KeysAreCounted DEF RestOK
  <2>4. /\ l \in ListType /\ l.rows = list.rows /\ (l.following => l.selected = None)
        /\ l.top \in {None, list.top}
    BY <1>1, <1>2
  <2> QED BY <2>2, <2>3, <2>4, CommitKeepsUIInd
<1> QED BY <1>3, <1>4, <1>5, <1>6, <1>7, <1>8, <1>9, <1>10, <1>11 DEF ModalsAndQuestions

-----------------------------------------------------------------------------
(* The UI opens on an empty list in follow mode.                           *)
LEMMA UIInit == Init => UIInd
<1> SUFFICES ASSUME Init PROVE UIInd
  OBVIOUS
<1>1. /\ captured = 0 /\ list = EmptyList /\ detail = None /\ detailRequest = None /\ fetches = {}
      /\ panel = [active |-> "list", section |-> 0] /\ modal = "none" /\ confirming = None
      /\ exports = {} /\ keys = 0
  BY DEF Init
<1>2. /\ list.rows = {} /\ list.following = TRUE /\ list.selected = None /\ list.top = None
      /\ list.pending = 0 /\ list \in ListType
  BY <1>1, UIAssumption DEF EmptyList, ListType
<1>3. Known(list) /\ Shown(list, VisibleHeight(modal))
  BY <1>2 DEF Known, Shown
<1>4. Render(list, VisibleHeight(modal)) = list
  BY <1>2, <1>3, HeightIsPositive, ShownListsAreSettled
<1>5. SelectedRow(list) = None
  <2>1. SelectedIndex(list) = 0
    BY <1>2 DEF SelectedIndex
  <2>2. list.rows \in SUBSET Row /\ Cardinality(list.rows) = 0
    BY <1>2, FS_EmptySet
  <2> QED BY <2>1, <2>2, RowsHavePlaces DEF SelectedRow
<1>6. DetailsFollow
  BY <1>1, <1>5 DEF DetailsFollow
<1>7. TypeOK
  BY <1>1, <1>2, UIAssumption DEF TypeOK, ListType, Sections
<1> QED BY <1>1, <1>2, <1>3, <1>4, <1>6, <1>7 DEF UIInd

(* Every step leaves a settled screen.                                     *)
LEMMA UINext == UIInd /\ [Next]_vars => UIInd'
<1> SUFFICES ASSUME UIInd, [Next]_vars PROVE UIInd'
  OBVIOUS
<1>1. CASE Arrivals
  BY <1>1, SyncKeepsUIInd, DetailArrivesKeepsUIInd, ExportEndsKeepsUIInd DEF Arrivals
<1>2. CASE ListKeys
  BY <1>2, ListKeysKeepUIInd
<1>3. CASE PanelKeys
  BY <1>3, PanelKeysKeepUIInd
<1>4. CASE ModalsAndQuestions
  BY <1>4, ModalsAndQuestionsKeepUIInd
<1>5. CASE UNCHANGED vars
  <2>1. UNCHANGED <<captured, list, detail, detailRequest, fetches, modal>> /\ RestOK'
    BY <1>5, UIIndSays DEF vars, RestOK
  <2> QED BY <2>1, OtherStepsKeepUIInd
<1> QED BY <1>1, <1>2, <1>3, <1>4, <1>5 DEF Next

(* The screen is settled after every step, whatever the keys and whatever  *)
(* becomes of the list, and the details are those asked for last           *)
(* (useRequestListState.ts, its effects; App.tsx, the detail effect).      *)
THEOREM TheScreenIsSettled == Spec => []UIInd
BY UIInit, UINext, PTL DEF Spec

(* The selected row is on the screen after every step, and the effects     *)
(* have nothing left to do (useRequestListState.ts: keep the selected row  *)
(* visible).                                                               *)
THEOREM SelectionStaysOnScreen == Spec => []SelectionOnScreen
<1>1. UIInd => SelectionOnScreen
  BY ShownIsOnScreen, UIIndSays DEF UIInd, SelectionOnScreen
<1> QED BY <1>1, TheScreenIsSettled, PTL

(* With no call in flight the accordion shows the selected row or nothing: *)
(* what the last call asked for is what is selected (App.tsx: "Guard       *)
(* against stale async responses when selection changes rapidly").         *)
THEOREM DetailsAreTheSelectedRows == Spec => []DetailsAreOfSelection
<1>1. UIInd => DetailsAreOfSelection
  BY DEF UIInd, DetailsFollow, DetailsAreOfSelection
<1> QED BY <1>1, TheScreenIsSettled, PTL

-----------------------------------------------------------------------------
(* Rows that arrive above a list move all of it down by their number.      *)
LEMMA ArrivalsShiftIndices ==
    ASSUME NEW old \in SUBSET Row, NEW all \in SUBSET Row, old \subseteq all,
           \A r \in all \ old, q \in old : r > q
    PROVE  /\ Cardinality(all \ old) \in Nat
           /\ Cardinality(all) = Cardinality(old) + Cardinality(all \ old)
           /\ \A r \in old : IndexOf(all, r) = IndexOf(old, r) + Cardinality(all \ old)
<1> DEFINE new == all \ old
<1>1. /\ IsFiniteSet(new) /\ IsFiniteSet(old) /\ Cardinality(new) \in Nat
      /\ Cardinality(old) \in Nat
  BY RowsAreFinite
<1>2. ASSUME NEW S \in SUBSET old
      PROVE  Cardinality(S \cup new) = Cardinality(S) + Cardinality(new)
  <2>1. IsFiniteSet(S) /\ Cardinality(S) \in Nat
    BY RowsAreFinite
  <2>2. S \cap new = {}
    OBVIOUS
  <2>3. Cardinality(S \cap new) = 0
    BY <2>2, FS_EmptySet
  <2> HIDE DEF new
  <2>4. Cardinality(S \cup new) = Cardinality(S) + Cardinality(new) - Cardinality(S \cap new)
    BY <1>1, <2>1, FS_Union
  <2> QED BY <1>1, <2>1, <2>3, <2>4
<1>3. all = old \cup new
  OBVIOUS
<1>4. ASSUME NEW r \in old PROVE IndexOf(all, r) = IndexOf(old, r) + Cardinality(new)
  <2>1. \A q \in new : q >= r
    BY RowsAreNumbers
  <2>2. {q \in all : q >= r} = {q \in old : q >= r} \cup new
    BY <2>1
  <2> HIDE DEF new
  <2> QED BY <1>2, <2>2 DEF IndexOf
<1>5. Cardinality(all) = Cardinality(old) + Cardinality(new)
  BY <1>2, <1>3
<1> QED BY <1>1, <1>4, <1>5

(* The rows counted as new are those that arrived.                         *)
LEMMA ArrivalsAreCounted ==
    ASSUME NEW old \in SUBSET Row, NEW all \in SUBSET Row, old \subseteq all, old # {},
           \A r \in all \ old, q \in old : r > q
    PROVE  Prepended(old, all) = Cardinality(all \ old)
<1>1. \A r \in old : ~ (r > r)
  BY RowsAreNumbers
<1>2. {r \in all : \A q \in old \cap all : r > q} = all \ old
  BY <1>1
<1>3. ~ (old = {} \/ all = {})
  OBVIOUS
<1> QED BY <1>2, <1>3 DEF Prepended

(* The same anchors in a list with n more rows above put every row that    *)
(* was on the screen on the screen.                                        *)
LEMMA ArrivalsShiftTheView ==
    ASSUME NEW l \in ListType, NEW k \in ListType, NEW h \in Nat \ {0},
           ~ l.following, ~ k.following, k.selected = l.selected, k.top = l.top,
           l.selected \in l.rows, l.rows \subseteq k.rows,
           k.top \in k.rows => l.top \in l.rows,
           \A r \in k.rows \ l.rows, q \in l.rows : r > q
    PROVE  /\ SelectedRow(k) = SelectedRow(l)
           /\ OnScreen(l, h) \subseteq OnScreen(k, h)
           /\ Shown(l, h) => Shown(k, h)
<1> DEFINE n == Cardinality(l.rows)
           m == Cardinality(k.rows \ l.rows)
<1>1. l.rows \in SUBSET Row /\ k.rows \in SUBSET Row
  BY DEF ListType
<1>2. /\ m \in Nat /\ Cardinality(k.rows) = n + m
      /\ \A r \in l.rows : IndexOf(k.rows, r) = IndexOf(l.rows, r) + m
  BY <1>1, ArrivalsShiftIndices
<1>3. n \in Nat /\ \A r \in l.rows : IndexOf(l.rows, r) \in 1..n
  BY <1>1, RowsAreFinite, IndicesAreInOrder
<1>4. SelectedRow(l) = l.selected /\ SelectedRow(k) = l.selected
  BY SelectionHasItsRow
<1>5. SelectedIndex(l) = IndexOf(l.rows, l.selected) /\ SelectedIndex(k) = IndexOf(k.rows, l.selected)
  BY DEF SelectedIndex
<1>6. MaxOffset(l, h) = Larger(0, n - h) /\ MaxOffset(k, h) = Larger(0, n + m - h)
  <2>1. MaxOffset(l, h) = Larger(0, n - h) /\ MaxOffset(k, h) = Larger(0, Cardinality(k.rows) - h)
    BY DEF MaxOffset
  <2>2. Cardinality(k.rows) = n + m /\ n \in Nat /\ m \in Nat
    BY <1>2, <1>3
  <2> HIDE DEF n, m
  <2> QED BY <2>1, <2>2
<1> HIDE DEF n, m
<1>7. PICK t \in 1..n : /\ Offset(l, h) = Smaller(t - 1, MaxOffset(l, h))
                        /\ Offset(k, h) = Smaller(t + m - 1, MaxOffset(k, h))
  <2>1. CASE l.top \in l.rows
    <3>1. Offset(l, h) = Smaller(IndexOf(l.rows, l.top) - 1, MaxOffset(l, h))
      BY <2>1 DEF Offset
    <3>2. Offset(k, h) = Smaller(IndexOf(k.rows, l.top) - 1, MaxOffset(k, h))
      BY <2>1 DEF Offset
    <3> QED BY <1>2, <1>3, <2>1, <3>1, <3>2
  <2>2. CASE l.top \notin l.rows
    <3>1. Offset(l, h) = Smaller(Larger(SelectedIndex(l) - 1, 0), MaxOffset(l, h))
      BY <2>2 DEF Offset
    <3>2. Offset(k, h) = Smaller(Larger(SelectedIndex(k) - 1, 0), MaxOffset(k, h))
      BY <2>2 DEF Offset
    <3>3. PICK t \in 1..n : SelectedIndex(l) = t /\ SelectedIndex(k) = t + m
      BY <1>2, <1>3, <1>5
    <3>4. Larger(t - 1, 0) = t - 1 /\ Larger(t + m - 1, 0) = t + m - 1
      BY <1>2, <1>3 DEF Larger
    <3>5. /\ Offset(l, h) = Smaller(t - 1, MaxOffset(l, h))
          /\ Offset(k, h) = Smaller(t + m - 1, MaxOffset(k, h))
      BY <1>2, <1>3, <3>1, <3>2, <3>3, <3>4
    <3> QED BY <3>5
  <2> QED BY <2>1, <2>2
<1>8. ASSUME NEW i \in 1..n, i \in Offset(l, h)+1..Offset(l, h)+h
      PROVE  i + m \in Offset(k, h)+1..Offset(k, h)+h
  BY <1>2, <1>3, <1>6, <1>7, <1>8 DEF Smaller, Larger
<1>9. OnScreen(l, h) \subseteq OnScreen(k, h)
  BY <1>2, <1>3, <1>8 DEF OnScreen
<1>10. Shown(l, h) => Shown(k, h)
  BY <1>2, <1>3, <1>5, <1>8 DEF Shown
<1> QED BY <1>4, <1>9, <1>10

(* A synchronisation that only brings rows above a list with an anchored   *)
(* row is rendered without an effect.                                      *)
LEMMA SyncKeepsTheView ==
    ASSUME UIInd, NEW rows \in SUBSET (1..captured), NEW fresh \in 0..MaxRows, Sync(rows, fresh),
           ~ list.following, list.selected # None, list.rows \subseteq list'.rows,
           \A r \in list'.rows \ list.rows : r > captured
    PROVE  /\ SelectedRow(list') = SelectedRow(list)
           /\ OnScreen(list, VisibleHeight(modal)) \subseteq OnScreen(list', VisibleHeight(modal))
           /\ list'.pending = list.pending + Cardinality(list'.rows \ list.rows)
<1> DEFINE h == VisibleHeight(modal)
<1>1. /\ list \in ListType /\ list.rows \in SUBSET Row /\ list.rows \subseteq 1..captured
      /\ list.top \in 1..captured \cup {None} /\ h \in Nat \ {0} /\ captured \in Nat
  BY UIIndSays, HeightIsPositive DEF RestOK
<1>2. list.selected \in list.rows /\ Shown(list, h)
  BY DEF UIInd, Known
<1>3. PICK k : k = SyncedList(rows, fresh)
  OBVIOUS
<1>4. /\ k \in ListType /\ ~ k.following /\ k.selected = list.selected /\ k.top = list.top
      /\ k.pending = list.pending + Prepended(list.rows, k.rows) /\ Commit(k, modal)
  BY <1>3, SyncRendersAList
<1>5. list' = Settled(k, h)
  BY <1>4 DEF Commit
<1>6. list'.rows = k.rows
  BY <1>1, <1>4, <1>5, ThreeRendersSettle
<1>7. k.rows \in SUBSET Row /\ list.rows \subseteq k.rows
  BY <1>4, <1>6 DEF ListType
<1>8. \A r \in k.rows \ list.rows, q \in list.rows : r > q
  BY <1>1, <1>6, <1>7, RowsAreNumbers
<1>9. k.top \in k.rows => list.top \in list.rows
  <2> SUFFICES ASSUME k.top \in k.rows, list.top \notin list.rows PROVE FALSE
    OBVIOUS
  <2>1. list.top \in list'.rows \ list.rows
    BY <1>4, <1>6
  <2>2. list.top > captured /\ list.top \in 1..captured
    BY <1>1, <1>4, <1>7, <2>1, RowsAreNumbers
  <2> QED BY <1>1, <2>2
<1>10. /\ SelectedRow(k) = SelectedRow(list) /\ OnScreen(list, h) \subseteq OnScreen(k, h)
       /\ Shown(k, h)
  <2> HIDE DEF h
  <2> QED BY <1>1, <1>2, <1>4, <1>7, <1>8, <1>9, ArrivalsShiftTheView
<1>11. Known(k)
  BY <1>2, <1>4, <1>7 DEF Known
<1>12. list' = k
  BY <1>1, <1>4, <1>5, <1>10, <1>11, ShownListsAreSettled, SettledStaysSettled
<1>13. Prepended(list.rows, k.rows) = Cardinality(k.rows \ list.rows)
  BY <1>1, <1>2, <1>7, <1>8, ArrivalsAreCounted
<1> QED BY <1>4, <1>10, <1>12, <1>13

(* Requests that arrive while a row is anchored in browse mode change      *)
(* neither the selected row nor what is on the screen, and are counted     *)
(* (request-list-state.ts: anchors are rows, not positions): only a        *)
(* synchronisation brings rows.                                            *)
THEOREM ArrivalsLeaveTheView == Spec => ArrivalsKeepTheView
<1> DEFINE A == LET h == VisibleHeight(modal)
                    arrived == list'.rows \ list.rows
                IN  ( /\ ~ list.following /\ list.selected # None
                      /\ list.rows # {} /\ list.rows \subseteq list'.rows
                      /\ arrived # {} /\ \A r \in arrived : r > captured )
                    => /\ SelectedRow(list') = SelectedRow(list)
                       /\ OnScreen(list, h) \subseteq OnScreen(list', h)
                       /\ list'.pending = list.pending + Cardinality(arrived)
<1>1. UIInd /\ [Next]_vars => A
  <2> SUFFICES ASSUME UIInd, [Next]_vars PROVE A
    OBVIOUS
  <2>1. CASE list'.rows = list.rows
    BY <2>1
  <2>2. ASSUME NEW rows \in SUBSET (1..captured), NEW fresh \in 0..MaxRows, Sync(rows, fresh)
        PROVE  A
    BY <2>2, SyncKeepsTheView
  <2>3. CASE Arrivals
    BY <2>1, <2>2, <2>3, DetailArrivesKeepsUIInd, ExportEndsKeepsUIInd DEF Arrivals
  <2>4. CASE ListKeys
    BY <2>1, <2>4, ListKeysKeepUIInd
  <2>5. CASE PanelKeys
    BY <2>1, <2>5, PanelKeysKeepUIInd
  <2>6. CASE ModalsAndQuestions
    BY <2>1, <2>6, ModalsAndQuestionsKeepUIInd
  <2>7. CASE UNCHANGED vars
    BY <2>1, <2>7 DEF vars
  <2> QED BY <2>3, <2>4, <2>5, <2>6, <2>7 DEF Next
<1> QED BY <1>1, TheScreenIsSettled, PTL DEF Spec, ArrivalsKeepTheView

-----------------------------------------------------------------------------
(* Where the rows of an answer are.                                        *)

(* Ids of rows that were captured at some time.                            *)
Captured(ids) ==
    /\ ids \in SUBSET Nat /\ IsFiniteSet(ids)
    /\ \A i \in ids : traffic[i].timestamp \in Int

(* The rows of an answer are in one order, and every place has one row.    *)
LEMMA PlacesInOrder ==
    ASSUME NEW kind, NEW ids, Captured(ids)
    PROVE  /\ Cardinality(ids) \in Nat
           /\ \A i \in ids : Place(kind, ids, i) \in 1..Cardinality(ids)
           /\ \A i, j \in ids : Place(kind, ids, i) = Place(kind, ids, j) => i = j
           /\ \A n \in 1..Cardinality(ids) :
                 /\ InOrder(kind, ids)[n] \in ids
                 /\ Place(kind, ids, InOrder(kind, ids)[n]) = n
           /\ \A i \in ids : InOrder(kind, ids)[Place(kind, ids, i)] = i
<1> DEFINE Over(i) == {j \in ids : Above(kind, j, i)}
           K == 1..Cardinality(ids)
           f == [i \in ids |-> Place(kind, ids, i)]
<1>1. /\ IsFiniteSet(ids) /\ Cardinality(ids) \in Nat
      /\ \A i \in ids : i \in Nat /\ traffic[i].timestamp \in Int
  BY FS_CardinalityType DEF Captured
<1>2. ASSUME NEW i \in ids PROVE ~ Above(kind, i, i)
  BY <1>1 DEF Above
<1>3. ASSUME NEW i \in ids, NEW j \in ids, NEW k \in ids, Above(kind, i, j), Above(kind, j, k)
      PROVE  Above(kind, i, k)
  BY <1>1, <1>3 DEF Above
<1>4. ASSUME NEW i \in ids, NEW j \in ids, i # j
      PROVE  Above(kind, i, j) \/ Above(kind, j, i)
  BY <1>1, <1>4 DEF Above
<1>5. \A i \in ids : IsFiniteSet(Over(i)) /\ Cardinality(Over(i)) \in Nat
  <2> TAKE i \in ids
  <2>1. Over(i) \subseteq ids
    OBVIOUS
  <2> HIDE DEF Over
  <2> QED BY <1>1, <2>1, FS_Subset, FS_CardinalityType
<1>6. ASSUME NEW i \in ids PROVE Cardinality(Over(i)) < Cardinality(ids)
  <2>1. Over(i) \subseteq ids /\ i \in ids /\ i \notin Over(i)
    BY <1>2
  <2> HIDE DEF Over
  <2>2. Cardinality(Over(i)) <= Cardinality(ids) /\ Cardinality(Over(i)) # Cardinality(ids)
    BY <1>1, <2>1, FS_Subset
  <2> QED BY <1>1, <1>5, <2>2
<1>7. ASSUME NEW i \in ids, NEW j \in ids, Above(kind, i, j)
      PROVE  Cardinality(Over(i)) < Cardinality(Over(j))
  <2>1. Over(i) \subseteq Over(j)
    BY <1>3, <1>7
  <2>2. i \in Over(j) /\ i \notin Over(i)
    BY <1>2, <1>7
  <2> HIDE DEF Over
  <2>3. Cardinality(Over(i)) <= Cardinality(Over(j)) /\ Cardinality(Over(i)) # Cardinality(Over(j))
    BY <1>5, <2>1, <2>2, FS_Subset
  <2> QED BY <1>5, <2>3
<1>8. \A i \in ids : Place(kind, ids, i) = Cardinality(Over(i)) + 1
  BY DEF Place
<1> HIDE DEF Over
<1>9. \A i \in ids : Place(kind, ids, i) \in K
  BY <1>1, <1>5, <1>6, <1>8
<1>10. ASSUME NEW i \in ids, NEW j \in ids, Place(kind, ids, i) = Place(kind, ids, j)
       PROVE  i = j
  BY <1>4, <1>5, <1>7, <1>8, <1>10
<1>11. IsFiniteSet(K) /\ Cardinality(K) = Cardinality(ids)
  BY <1>1, FS_Interval
<1>12. f \in [ids -> K] /\ \A i, j \in ids : f[i] = f[j] => i = j
  BY <1>9, <1>10
<1>13. f \in Surjection(ids, K)
  <2> HIDE DEF f, K
  <2>1. f \in Injection(ids, K)
    BY <1>12, Fun_IsInj
  <2> QED BY <1>1, <1>11, <2>1, FS_Injection
<1>14. \A n \in K : \E i \in ids : Place(kind, ids, i) = n
  BY <1>13 DEF Surjection
<1>15. \A n \in K : InOrder(kind, ids)[n] \in ids /\ Place(kind, ids, InOrder(kind, ids)[n]) = n
  BY <1>14 DEF InOrder
<1>16. \A i \in ids : InOrder(kind, ids)[Place(kind, ids, i)] = i
  <2> TAKE i \in ids
  <2>1. Place(kind, ids, i) \in K
    BY <1>9
  <2>2. /\ InOrder(kind, ids)[Place(kind, ids, i)] \in ids
        /\ Place(kind, ids, InOrder(kind, ids)[Place(kind, ids, i)]) = Place(kind, ids, i)
    BY <1>15, <2>1
  <2> QED BY <1>10, <2>2
<1> QED BY <1>1, <1>9, <1>10, <1>15, <1>16

(* No more rows than places.                                               *)
LEMMA FewRowsBetween ==
    ASSUME NEW kind, NEW ids, Captured(ids), NEW a \in Nat, NEW k \in Nat
    PROVE  LET B == {i \in ids : Place(kind, ids, i) \in a+1..a+k} IN
           IsFiniteSet(B) /\ Cardinality(B) \in Nat /\ Cardinality(B) <= k
<1> DEFINE B == {i \in ids : Place(kind, ids, i) \in a+1..a+k}
           K == a+1..a+k
           f == [i \in B |-> Place(kind, ids, i)]
<1>1. IsFiniteSet(B)
  BY FS_Subset DEF Captured
<1>2. IsFiniteSet(K) /\ Cardinality(K) = k
  BY FS_Interval
<1>3. f \in [B -> K] /\ \A i, j \in B : f[i] = f[j] => i = j
  <2>1. \A i, j \in ids : Place(kind, ids, i) = Place(kind, ids, j) => i = j
    BY PlacesInOrder
  <2>2. \A i \in B : f[i] = Place(kind, ids, i) /\ f[i] \in K /\ i \in ids
    OBVIOUS
  <2>3. f \in [B -> K]
    BY <2>2
  <2> HIDE DEF B, K, f
  <2> QED BY <2>1, <2>2, <2>3
<1> HIDE DEF B, K, f
<1>4. f \in Injection(B, K)
  BY <1>3, Fun_IsInj
<1>5. Cardinality(B) <= Cardinality(K)
  BY <1>1, <1>2, <1>4, FS_Injection
<1> QED BY <1>1, <1>2, <1>5, FS_CardinalityType DEF B

(* A row moves up by no more than the rows that leave.                     *)
LEMMA LeavingMovesUp ==
    ASSUME NEW kind, NEW A, Captured(A), NEW B, Captured(B), NEW i \in A \cap B
    PROVE  /\ Cardinality(A \ B) \in Nat
           /\ Place(kind, A, i) <= Place(kind, B, i) + Cardinality(A \ B)
<1> DEFINE OA == {j \in A : Above(kind, j, i)}
           OB == {j \in B : Above(kind, j, i)}
           G == A \ B
<1>1. IsFiniteSet(OA) /\ IsFiniteSet(OB) /\ IsFiniteSet(G)
  BY FS_Subset DEF Captured
<1>2. OA \subseteq OB \cup G
  OBVIOUS
<1>3. Place(kind, A, i) = Cardinality(OA) + 1 /\ Place(kind, B, i) = Cardinality(OB) + 1
  BY DEF Place
<1> HIDE DEF OA, OB, G
<1>4. /\ Cardinality(OA) \in Nat /\ Cardinality(OB) \in Nat /\ Cardinality(G) \in Nat
      /\ IsFiniteSet(OB \cup G) /\ Cardinality(OB \cup G) \in Nat
      /\ IsFiniteSet(OB \cap G) /\ Cardinality(OB \cap G) \in Nat
  BY <1>1, FS_CardinalityType, FS_Union, FS_Intersection
<1>5. Cardinality(OB \cup G) = Cardinality(OB) + Cardinality(G) - Cardinality(OB \cap G)
  BY <1>1, FS_Union
<1>6. Cardinality(OA) <= Cardinality(OB \cup G)
  BY <1>2, <1>4, FS_Subset
<1>7. Cardinality(OA) <= Cardinality(OB) + Cardinality(G)
  BY <1>4, <1>5, <1>6
<1> QED BY <1>3, <1>4, <1>7 DEF G

(* What of some rows T stands no deeper than n in an answer.               *)
Hidden(kind, ids, T, n) == {i \in T : Place(kind, ids, i) <= n}

(* The rows that leave hide no more rows than they are.                    *)
LEMMA LeavingHidesFew ==
    ASSUME NEW kind, NEW A, Captured(A), NEW B, Captured(B), NEW T \in SUBSET A, NEW n \in Nat
    PROVE  LET H == Hidden(kind, A, T, n)
               I == Hidden(kind, B, T \ (A \ B), n)
           IN  /\ IsFiniteSet(H) /\ Cardinality(H) \in Nat
               /\ IsFiniteSet(I) /\ Cardinality(I) \in Nat /\ Cardinality(A \ B) \in Nat
               /\ Cardinality(I) <= Cardinality(H) + Cardinality(A \ B)
<1> DEFINE H == Hidden(kind, A, T, n)
           I == Hidden(kind, B, T \ (A \ B), n)
           G == A \ B
           k == Cardinality(G)
           M == {i \in A : Place(kind, A, i) \in n+1..n+k}
<1>1. IsFiniteSet(A) /\ IsFiniteSet(G) /\ k \in Nat
  BY FS_Subset, FS_CardinalityType DEF Captured
<1>2. \A i \in T \ G : i \in A \cap B
  OBVIOUS
<1>3. \A i \in T \ G : /\ Place(kind, A, i) \in Nat /\ Place(kind, B, i) \in Nat
                       /\ Place(kind, A, i) <= Place(kind, B, i) + k
  <2> TAKE i \in T \ G
  <2>1. i \in A \cap B
    BY <1>2
  <2>2. Place(kind, A, i) \in Nat /\ Place(kind, B, i) \in Nat
    <3>1. Cardinality(A) \in Nat /\ Place(kind, A, i) \in 1..Cardinality(A)
      BY <2>1, PlacesInOrder
    <3>2. Cardinality(B) \in Nat /\ Place(kind, B, i) \in 1..Cardinality(B)
      BY <2>1, PlacesInOrder
    <3> QED BY <3>1, <3>2
  <2>3. Place(kind, A, i) <= Place(kind, B, i) + k
    BY <2>1, LeavingMovesUp
  <2> QED BY <2>2, <2>3
<1>4. I \subseteq H \cup M
  <2> SUFFICES ASSUME NEW i \in I PROVE i \in H \cup M
    OBVIOUS
  <2>1. i \in T \ G /\ Place(kind, B, i) <= n
    BY DEF Hidden
  <2> HIDE DEF G, k
  <2>2. /\ Place(kind, A, i) \in Nat /\ Place(kind, B, i) \in Nat
        /\ Place(kind, A, i) <= Place(kind, B, i) + k
    BY <1>3, <2>1
  <2>3. Place(kind, A, i) <= n \/ Place(kind, A, i) \in n+1..n+k
    BY <1>1, <2>1, <2>2
  <2> QED BY <2>1, <2>3 DEF Hidden
<1>5. IsFiniteSet(M) /\ Cardinality(M) \in Nat /\ Cardinality(M) <= k
  <2> HIDE DEF k
  <2> QED BY <1>1, FewRowsBetween
<1>6. IsFiniteSet(H) /\ IsFiniteSet(I)
  <2>1. H \subseteq A /\ I \subseteq A
    BY DEF Hidden
  <2> HIDE DEF H, I
  <2> QED BY <1>1, <2>1, FS_Subset
<1> HIDE DEF H, I, M, k, G
<1>7. /\ Cardinality(H) \in Nat /\ Cardinality(I) \in Nat
      /\ IsFiniteSet(H \cup M) /\ IsFiniteSet(H \cap M)
      /\ Cardinality(H \cup M) \in Nat /\ Cardinality(H \cap M) \in Nat
  BY <1>5, <1>6, FS_CardinalityType, FS_Union, FS_Intersection
<1>8. Cardinality(H \cup M) = Cardinality(H) + Cardinality(M) - Cardinality(H \cap M)
  BY <1>5, <1>6, FS_Union
<1>9. Cardinality(I) <= Cardinality(H \cup M)
  BY <1>4, <1>7, FS_Subset
<1>10. Cardinality(I) <= Cardinality(H) + k
  BY <1>1, <1>5, <1>7, <1>8, <1>9
<1> QED BY <1>1, <1>6, <1>7, <1>10 DEF H, I, k, G

-----------------------------------------------------------------------------
(* Rows have an id each, and were captured.                                *)
TableOK ==
    /\ table \subseteq [id : 1 .. recorded, answered : BOOLEAN, saved : BOOLEAN]
    /\ \A r, s \in table : r.id = s.id => r = s

(* What is asked, and for what it is the call, follows the phase.          *)
CallOK ==
    /\ phase = "idle" =>
          ask = {} /\ call = {} /\ there = {} /\ seen = {} /\ left = 0 /\ offset = 0 /\ page = <<>>
    /\ phase # "idle" => \E q \in Questions[traffic] : ask = {q}
    /\ phase \notin {"idle", "refused"} => call # {}
    /\ call = {} \/ \E c \in call : call = {c}
    /\ call = {} => there = {}
    /\ phase = "list" => \A c \in call : c.kind \notin {"get", "count"}
    /\ phase = "count" => \A c \in call : c.kind # "get"
    /\ \A q \in ask, c \in call :
          /\ c.kind \in {"list", "search", "count", "json", "get"} /\ c.limit \in Nat
          /\ c.kind = "get" <=> q.kind = "get"
          /\ c.kind = "count" => there = {}
          /\ c.kind = "get" =>
                /\ phase = "get" => q.door = "mcp"
                /\ phase \in {"exact", "prefix", "fetch"} => q.door = "cli"
                /\ q.door = "mcp" => c.ids = Range(q.batch) /\ phase # "refused"
                /\ q.door = "cli" => c.ids = q.exact \cup q.prefixed
          /\ phase \in {"get", "exact", "prefix", "fetch"} => c.kind = "get"

(* Of the rows that were there all the time and were not seen, no more     *)
(* stand before the next page than left the answer.                        *)
PagingOK ==
    \A c \in call : c.kind \notin {"get", "count"} =>
        LET ids == Ids(Answer(c)) IN
        /\ Reading => there \subseteq ids
        /\ phase = "list" /\ offset > 0 =>
              Cardinality(Hidden(c.kind, ids, there \ seen, offset)) <= left
        /\ phase \in {"count", "shown"} /\ ~ LastPage =>
              Cardinality(Hidden(c.kind, ids, there \ seen, offset + c.limit)) <= left
        /\ phase \in {"count", "shown"} /\ LastPage => Cardinality(there \ seen) <= left

(* The requests asked for by id that were there all the time are among the *)
(* rows, and the tool has those of them that it came to.                   *)
NamedOK ==
    \A q \in ask, c \in call : q.kind = "get" =>
        /\ there \subseteq c.ids
        /\ phase \in {"get", "exact", "prefix", "fetch"} => there \subseteq Ids(Answer(c))
        /\ phase = "get" =>
              /\ offset < Len(q.batch)
              /\ \A n \in 1 .. offset : q.batch[n] \in there => q.batch[n] \in Range(page)
        /\ q.door = "mcp" /\ phase = "shown" => there \subseteq Range(page)
        /\ phase = "fetch" \/ (q.door = "cli" /\ phase = "shown") =>
              Len(page) = 1 /\ page[1] \in q.prefixed
        /\ q.door = "cli" /\ phase = "refused" /\ there # {} =>
              Cardinality(q.prefixed) > 1 \/ recorded > PrefixLimit

(* The inductive invariant.                                                *)
QueryInd ==
    /\ traffic \in Traffics
    /\ recorded \in 0 .. Len(traffic) /\ toggles \in 0 .. MaxToggles
    /\ TableOK
    /\ phase \in {"idle", "list", "count", "get", "exact", "prefix", "fetch",
                  "shown", "refused", "failed"}
    /\ seen \cup there \subseteq 1 .. recorded
    /\ offset \in Nat /\ left \in Nat /\ page \in Seq(Nat)
    /\ CallOK
    /\ PagingOK
    /\ NamedOK

-----------------------------------------------------------------------------
(* An answer is made of rows, and one for ids of the rows with those.      *)
LEMMA AnswersAreStored ==
    \A c : Ids(Answer(c)) \subseteq Ids(table) /\ (c.kind = "get" => Ids(Answer(c)) \subseteq c.ids)
<1> TAKE c
<1>1. Answer(c) \subseteq Selected(c)
  BY DEF Answer
<1>2. Selected(c) \subseteq table /\ (c.kind = "get" => \A r \in Selected(c) : r.id \in c.ids)
  BY DEF Selected
<1> QED BY <1>1, <1>2 DEF Ids

(* The same of the answer after a step.                                    *)
LEMMA AnswersStayStored ==
    \A c : Ids(Answer(c))' \subseteq Ids(table)' /\ (c.kind = "get" => Ids(Answer(c))' \subseteq c.ids)
<1> TAKE c
<1>1. Answer(c)' \subseteq Selected(c)'
  BY DEF Answer
<1>2. Selected(c)' \subseteq table' /\ (c.kind = "get" => \A r \in Selected(c)' : r.id \in c.ids)
  BY DEF Selected
<1> QED BY <1>1, <1>2 DEF Ids

(* Ids of rows of the table were captured.                                 *)
LEMMA StoredWasCaptured ==
    ASSUME traffic \in Traffics, recorded \in 0 .. Len(traffic), TableOK
    PROVE  /\ Ids(table) \subseteq 1 .. recorded
           /\ \A S : S \subseteq Ids(table) => Captured(S)
<1>1. Len(traffic) \in Nat /\ recorded \in Nat /\ \A i \in 1 .. Len(traffic) : traffic[i].timestamp \in Int
  <2>1. Len(traffic) \in Nat /\ \A i \in 1 .. Len(traffic) : traffic[i] \in Exchange
    BY TrafficAssumption
  <2>2. \A e \in Exchange : e.timestamp \in Int
    BY DEF Exchange
  <2> QED BY <2>1, <2>2
<1>2. Ids(table) \subseteq 1 .. recorded
  BY DEF Ids, TableOK
<1>3. IsFiniteSet(1 .. recorded)
  BY <1>1, FS_Interval
<1>4. ASSUME NEW S, S \subseteq Ids(table) PROVE Captured(S)
  <2>1. S \subseteq 1 .. recorded
    BY <1>2, <1>4
  <2>2. IsFiniteSet(S)
    BY <1>3, <2>1, FS_Subset
  <2> QED BY <1>1, <2>1, <2>2 DEF Captured
<1> QED BY <1>2, <1>4

(* The same of the table after a step.                                     *)
LEMMA StoredStaysCaptured ==
    ASSUME traffic \in Traffics, traffic' = traffic, recorded' \in 0 .. Len(traffic), TableOK'
    PROVE  /\ Ids(table)' \subseteq 1 .. recorded'
           /\ \A S : S \subseteq Ids(table)' => Captured(S)
<1>1. Len(traffic) \in Nat /\ recorded' \in Nat /\ \A i \in 1 .. Len(traffic) : traffic[i].timestamp \in Int
  <2>1. Len(traffic) \in Nat /\ \A i \in 1 .. Len(traffic) : traffic[i] \in Exchange
    BY TrafficAssumption
  <2>2. \A e \in Exchange : e.timestamp \in Int
    BY DEF Exchange
  <2> QED BY <2>1, <2>2
<1>2. Ids(table)' \subseteq 1 .. recorded'
  BY DEF Ids, TableOK
<1>3. IsFiniteSet(1 .. recorded')
  BY <1>1, FS_Interval
<1>4. ASSUME NEW S, S \subseteq Ids(table)' PROVE Captured(S)
  <2>1. S \subseteq 1 .. recorded'
    BY <1>2, <1>4
  <2>2. IsFiniteSet(S)
    BY <1>3, <2>1, FS_Subset
  <2> QED BY <1>1, <2>1, <2>2 DEF Captured
<1> QED BY <1>2, <1>4

(* Every change of the table leaves the reader's side as the rest of the   *)
(* invariant says.                                                         *)
LEMMA ChangedKeepsPaging ==
    ASSUME QueryInd, NEW t, Changed(t), recorded' \in 0 .. Len(traffic), TableOK'
    PROVE  PagingOK'
<1>1. /\ table' = t /\ UNCHANGED <<traffic, ask, call, phase, offset, page, total, seen>>
      /\ IF Reading
         THEN LET gone == UNION {Ids(Answer(c)) \ Ids(Answer(c))' : c \in call}
              IN  there' = there \ gone /\ left' = left + Cardinality(gone)
         ELSE UNCHANGED <<there, left>>
  BY DEF Changed
<1>2. (Reading' <=> Reading) /\ (LastPage' <=> LastPage)
  BY <1>1 DEF Reading, LastPage
<1>3. /\ traffic \in Traffics /\ recorded \in 0 .. Len(traffic) /\ TableOK
      /\ offset \in Nat /\ left \in Nat /\ CallOK /\ PagingOK
  BY DEF QueryInd
<1> SUFFICES ASSUME NEW c \in call, c.kind \notin {"get", "count"}
             PROVE  LET ids == Ids(Answer(c)) IN
                    /\ Reading' => there' \subseteq ids'
                    /\ phase' = "list" /\ offset' > 0 =>
                          Cardinality(Hidden(c.kind, ids, there \ seen, offset)') <= left'
                    /\ phase' \in {"count", "shown"} /\ ~ LastPage' =>
                          Cardinality(Hidden(c.kind, ids, there \ seen, offset + c.limit)') <= left'
                    /\ phase' \in {"count", "shown"} /\ LastPage' => Cardinality(there' \ seen') <= left'
  BY <1>1 DEF PagingOK
<1>4. PICK A : A = Ids(Answer(c))
  OBVIOUS
<1>5. PICK B : B = Ids(Answer(c))'
  OBVIOUS
<1>6. call = {c} /\ c.limit \in Nat
  BY <1>3 DEF CallOK
<1>7. Captured(A) /\ Captured(B)
  <2>1. A \subseteq Ids(table) /\ B \subseteq Ids(table)'
    BY <1>4, <1>5, AnswersAreStored, AnswersStayStored
  <2> QED BY <1>1, <1>3, <2>1, StoredWasCaptured, StoredStaysCaptured
<1>8. /\ Reading => there \subseteq A
      /\ phase = "list" /\ offset > 0 => Cardinality(Hidden(c.kind, A, there \ seen, offset)) <= left
      /\ phase \in {"count", "shown"} /\ ~ LastPage =>
            Cardinality(Hidden(c.kind, A, there \ seen, offset + c.limit)) <= left
      /\ phase \in {"count", "shown"} /\ LastPage => Cardinality(there \ seen) <= left
  BY <1>3, <1>4 DEF PagingOK
<1>9. /\ Hidden(c.kind, Ids(Answer(c)), there \ seen, offset)' = Hidden(c.kind, B, there' \ seen, offset)
      /\ Hidden(c.kind, Ids(Answer(c)), there \ seen, offset + c.limit)'
            = Hidden(c.kind, B, there' \ seen, offset + c.limit)
  BY <1>1, <1>5 DEF Hidden, Place, Above
<1>10. CASE ~ Reading
  <2>1. UNCHANGED <<there, left>>
    BY <1>1, <1>10
  <2>2. /\ ~ (phase = "list" /\ offset > 0)
        /\ ~ (phase \in {"count", "shown"} /\ ~ LastPage)
    BY <1>10 DEF Reading
  <2> QED BY <1>1, <1>2, <1>8, <1>10, <2>1, <2>2
<1>11. CASE Reading
  <2>1. there' = there \ (A \ B) /\ left' = left + Cardinality(A \ B)
    <3>1. UNION {Ids(Answer(d)) \ Ids(Answer(d))' : d \in call} = A \ B
      BY <1>4, <1>5, <1>6
    <3> QED BY <1>1, <1>11, <3>1
  <2>2. there \subseteq A /\ there' \subseteq B
    BY <1>8, <1>11, <2>1
  <2>3. there' \ seen = (there \ seen) \ (A \ B) /\ there \ seen \in SUBSET A
    BY <2>1, <2>2
  <2>4. ASSUME NEW n \in Nat, Cardinality(Hidden(c.kind, A, there \ seen, n)) <= left
        PROVE  Cardinality(Hidden(c.kind, B, there' \ seen, n)) <= left'
    <3> DEFINE H == Hidden(c.kind, A, there \ seen, n)
               I == Hidden(c.kind, B, there' \ seen, n)
    <3>1. /\ Cardinality(H) \in Nat /\ Cardinality(I) \in Nat /\ Cardinality(A \ B) \in Nat
          /\ Cardinality(I) <= Cardinality(H) + Cardinality(A \ B)
      BY <1>7, <2>3, LeavingHidesFew
    <3> HIDE DEF H, I
    <3> QED BY <1>3, <2>1, <2>4, <3>1 DEF H, I
  <2>5. ~ (phase \in {"count", "shown"} /\ LastPage)
    BY <1>3, <1>6, <1>11 DEF Reading, CallOK
  <2>6. offset + c.limit \in Nat
    BY <1>3, <1>6
  <2> QED BY <1>1, <1>2, <1>3, <1>5, <1>8, <1>9, <2>2, <2>4, <2>5, <2>6
<1> QED BY <1>10, <1>11

(* The other parts of the invariant through a change of the table.         *)
LEMMA ChangedKeepsQueryInd ==
    ASSUME QueryInd, NEW t, Changed(t), recorded' \in recorded .. Len(traffic),
           toggles' \in 0 .. MaxToggles, TableOK'
    PROVE  QueryInd'
<1>1. /\ table' = t /\ UNCHANGED <<traffic, ask, call, phase, offset, page, total, seen>>
      /\ IF Reading
         THEN LET gone == UNION {Ids(Answer(c)) \ Ids(Answer(c))' : c \in call}
              IN  there' = there \ gone /\ left' = left + Cardinality(gone)
         ELSE UNCHANGED <<there, left>>
  BY DEF Changed
<1>2. /\ traffic \in Traffics /\ recorded \in 0 .. Len(traffic) /\ TableOK
      /\ offset \in Nat /\ left \in Nat /\ CallOK /\ NamedOK /\ Len(traffic) \in Nat
      /\ seen \cup there \subseteq 1 .. recorded
  BY TrafficAssumption DEF QueryInd
<1>3. recorded' \in 0 .. Len(traffic) /\ recorded' >= recorded /\ recorded \in Nat
  BY <1>2
<1>4. PagingOK'
  BY <1>3, ChangedKeepsPaging
<1>5. there' \subseteq there
  BY <1>1
<1>6. left' \in Nat
  <2>1. CASE ~ Reading
    BY <1>1, <1>2, <2>1
  <2>2. CASE Reading
    <3>1. call # {}
      BY <1>2, <2>2 DEF Reading, CallOK
    <3>2. PICK c \in call : call = {c}
      BY <1>2, <3>1 DEF CallOK
    <3>3. UNION {Ids(Answer(d)) \ Ids(Answer(d))' : d \in call} = Ids(Answer(c)) \ Ids(Answer(c))'
      BY <3>2
    <3>4. PICK G : G = Ids(Answer(c)) \ Ids(Answer(c))'
      OBVIOUS
    <3>5. G \subseteq Ids(table)
      BY <3>4, AnswersAreStored
    <3>6. Cardinality(G) \in Nat
      BY <1>2, <3>5, StoredWasCaptured, FS_CardinalityType DEF Captured
    <3>7. left' = left + Cardinality(UNION {Ids(Answer(d)) \ Ids(Answer(d))' : d \in call})
      BY <1>1, <2>2
    <3>8. left' = left + Cardinality(G)
      BY <3>3, <3>4, <3>7
    <3> QED BY <1>2, <3>6, <3>8
  <2> QED BY <2>1, <2>2
<1>7. CallOK'
  <2>1. phase = "idle" => there' = {} /\ left' = left
    BY <1>1, <1>2 DEF Reading, CallOK
  <2>2. (call = {} => there' = {}) /\ (\A c \in call : \A q \in ask : c.kind = "count" => there' = {})
    BY <1>2, <1>5 DEF CallOK
  <2> QED BY <1>1, <1>2, <2>1, <2>2 DEF CallOK
<1>8. NamedOK'
  <2> SUFFICES ASSUME NEW q \in ask, NEW c \in call, q.kind = "get"
               PROVE  (/\ there \subseteq c.ids
                       /\ phase \in {"get", "exact", "prefix", "fetch"} => there \subseteq Ids(Answer(c))
                       /\ phase = "get" =>
                             /\ offset < Len(q.batch)
                             /\ \A n \in 1 .. offset : q.batch[n] \in there => q.batch[n] \in Range(page)
                       /\ q.door = "mcp" /\ phase = "shown" => there \subseteq Range(page)
                       /\ phase = "fetch" \/ (q.door = "cli" /\ phase = "shown") =>
                             Len(page) = 1 /\ page[1] \in q.prefixed
                       /\ q.door = "cli" /\ phase = "refused" /\ there # {} =>
                             Cardinality(q.prefixed) > 1 \/ recorded > PrefixLimit)'
    BY <1>1 DEF NamedOK
  <2>1. /\ there \subseteq c.ids
        /\ phase \in {"get", "exact", "prefix", "fetch"} => there \subseteq Ids(Answer(c))
        /\ phase = "get" =>
              /\ offset < Len(q.batch)
              /\ \A n \in 1 .. offset : q.batch[n] \in there => q.batch[n] \in Range(page)
        /\ q.door = "mcp" /\ phase = "shown" => there \subseteq Range(page)
        /\ phase = "fetch" \/ (q.door = "cli" /\ phase = "shown") =>
              Len(page) = 1 /\ page[1] \in q.prefixed
        /\ q.door = "cli" /\ phase = "refused" /\ there # {} =>
              Cardinality(q.prefixed) > 1 \/ recorded > PrefixLimit
    BY <1>2 DEF NamedOK
  <2>2. phase \in {"get", "exact", "prefix", "fetch"} => there' \subseteq Ids(Answer(c))'
    <3> SUFFICES ASSUME phase \in {"get", "exact", "prefix", "fetch"}
                 PROVE  there' \subseteq Ids(Answer(c))'
      OBVIOUS
    <3>1. Reading
      BY DEF Reading
    <3>2. there' = there \ UNION {Ids(Answer(d)) \ Ids(Answer(d))' : d \in call}
      BY <1>1, <3>1
    <3> QED BY <2>1, <3>2
  <2>3. recorded > PrefixLimit => recorded' > PrefixLimit
    BY <1>3, <1>2, QueryAssumption
  <2>4. page' = page
    BY <1>1
  <2> QED BY <1>1, <1>5, <2>1, <2>2, <2>3, <2>4
<1>9. seen' \cup there' \subseteq 1 .. recorded'
  BY <1>1, <1>2, <1>3, <1>5
<1> QED BY <1>1, <1>3, <1>4, <1>6, <1>7, <1>8, <1>9 DEF QueryInd

(* Rows are captured, answered, bookmarked, cleared and evicted; none gets *)
(* another's id.                                                           *)
LEMMA StoreStepsKeepQueryInd ==
    ASSUME QueryInd,
           \/ Capture
           \/ \E r \in table : Respond(r) \/ Toggle(r) \/ Evict(r)
           \/ ClearRequests
    PROVE  QueryInd'
<1>1. /\ recorded \in 0 .. Len(traffic) /\ Len(traffic) \in Nat /\ toggles \in 0 .. MaxToggles
      /\ TableOK /\ MaxToggles \in Nat
  BY TrafficAssumption, QueryAssumption DEF QueryInd
<1>2. recorded \in recorded .. Len(traffic)
  BY <1>1
<1>3. CASE Capture
  <2> DEFINE new == [id |-> recorded + 1, answered |-> FALSE, saved |-> FALSE]
  <2>1. /\ recorded < Len(traffic) /\ recorded' = recorded + 1 /\ Changed(table \cup {new})
        /\ UNCHANGED toggles
    BY <1>3 DEF Capture
  <2>2. table' = table \cup {new}
    BY <2>1 DEF Changed
  <2>3. \A r \in table : r.id # recorded + 1
    BY <1>1 DEF TableOK
  <2>4. table \subseteq [id : 1 .. recorded + 1, answered : BOOLEAN, saved : BOOLEAN]
    BY <1>1 DEF TableOK
  <2>5. new \in [id : 1 .. recorded + 1, answered : BOOLEAN, saved : BOOLEAN] /\ new.id = recorded + 1
    BY <1>1
  <2> HIDE DEF new
  <2>6. TableOK'
    BY <1>1, <2>1, <2>2, <2>3, <2>4, <2>5 DEF TableOK
  <2>7. recorded' \in recorded .. Len(traffic)
    BY <1>1, <2>1
  <2> QED BY <1>1, <2>1, <2>6, <2>7, ChangedKeepsQueryInd
<1>4. ASSUME NEW r \in table, NEW s, Changed((table \ {r}) \cup {s}), recorded' = recorded,
             s \in [id : 1 .. recorded, answered : BOOLEAN, saved : BOOLEAN], s.id = r.id
      PROVE  TableOK'
  <2>1. table' = (table \ {r}) \cup {s}
    BY <1>4 DEF Changed
  <2>2. \A x \in table \ {r} : x.id # r.id
    BY <1>1 DEF TableOK
  <2> QED BY <1>1, <1>4, <2>1, <2>2 DEF TableOK
<1>5. ASSUME NEW r \in table, Respond(r) PROVE QueryInd'
  <2>1. PICK s : s = [r EXCEPT !.answered = TRUE]
    OBVIOUS
  <2>2. Changed((table \ {r}) \cup {s}) /\ UNCHANGED <<recorded, toggles>>
    BY <1>5, <2>1 DEF Respond
  <2>3. s \in [id : 1 .. recorded, answered : BOOLEAN, saved : BOOLEAN] /\ s.id = r.id
    BY <1>1, <2>1 DEF TableOK
  <2>4. TableOK'
    BY <1>4, <2>2, <2>3
  <2> QED BY <1>1, <1>2, <2>2, <2>4, ChangedKeepsQueryInd
<1>6. ASSUME NEW r \in table, Toggle(r) PROVE QueryInd'
  <2>1. PICK s : s = [r EXCEPT !.saved = ~ @]
    OBVIOUS
  <2>2. /\ toggles < MaxToggles /\ toggles' = toggles + 1
        /\ Changed((table \ {r}) \cup {s}) /\ UNCHANGED recorded
    BY <1>6, <2>1 DEF Toggle
  <2>3. s \in [id : 1 .. recorded, answered : BOOLEAN, saved : BOOLEAN] /\ s.id = r.id
    BY <1>1, <2>1 DEF TableOK
  <2>4. TableOK'
    BY <1>4, <2>2, <2>3
  <2>5. toggles' \in 0 .. MaxToggles
    BY <1>1, <2>2
  <2> QED BY <1>1, <1>2, <2>2, <2>4, <2>5, ChangedKeepsQueryInd
<1>7. ASSUME NEW t, t \subseteq table, Changed(t), UNCHANGED <<recorded, toggles>> PROVE QueryInd'
  <2>1. table' = t
    BY <1>7 DEF Changed
  <2>2. TableOK'
    BY <1>1, <1>7, <2>1 DEF TableOK
  <2> QED BY <1>1, <1>2, <1>7, <2>2, ChangedKeepsQueryInd
<1>8. ASSUME NEW r \in table, Evict(r) PROVE QueryInd'
  <2>1. PICK t : t = table \ {r}
    OBVIOUS
  <2> QED BY <1>7, <1>8, <2>1 DEF Evict
<1>9. CASE ClearRequests
  <2>1. PICK t : t = {r \in table : r.saved}
    OBVIOUS
  <2> QED BY <1>7, <1>9, <2>1 DEF ClearRequests
<1> QED BY <1>3, <1>5, <1>6, <1>8, <1>9

-----------------------------------------------------------------------------
(* An answer is the same while the rows are.                               *)
LEMMA AnswersStay ==
    ASSUME UNCHANGED storeVars
    PROVE  /\ \A c : Ids(Answer(c))' = Ids(Answer(c))
           /\ Ids(table)' = Ids(table)
<1>1. traffic' = traffic /\ table' = table
  BY DEF storeVars
<1>2. \A r : Columns(r)' = Columns(r)
  BY <1>1 DEF Columns
<1>3. \A f, r : ApplyFilterConditions(f, r)' = ApplyFilterConditions(f, r)
  BY <1>2 DEF ApplyFilterConditions
<1>4. \A c, r : BodyContains(c, r)' = BodyContains(c, r)
  BY <1>2 DEF BodyContains
<1>5. \A c, r : DeclaredJson(c, r)' = DeclaredJson(c, r) /\ Extracted(c, r)' = Extracted(c, r)
  BY <1>2 DEF DeclaredJson, Extracted
<1>6. \A c, r : FieldMatches(c, r)' = FieldMatches(c, r)
  BY <1>5 DEF FieldMatches
<1>7. \A c : Selected(c)' = Selected(c)
  BY <1>1, <1>3, <1>4, <1>5 DEF Selected
<1>8. \A c : Answer(c)' = Answer(c)
  BY <1>6, <1>7 DEF Answer
<1> QED BY <1>1, <1>8 DEF Ids

(* A page has the rows of its places, and one that is not full all rows    *)
(* from its first place on.                                                *)
LEMMA PagesShowPlaces ==
    ASSUME NEW kind, NEW ids, Captured(ids), NEW n \in Nat, NEW from \in Nat
    PROVE  LET p == Page(InOrder(kind, ids), n, from) IN
           /\ p \in Seq(Nat) /\ Range(p) \subseteq ids
           /\ \A i \in ids : Place(kind, ids, i) \in from+1..from+n => i \in Range(p)
           /\ Len(p) < n => \A i \in ids : Place(kind, ids, i) > from => i \in Range(p)
<1> DEFINE S == InOrder(kind, ids)
           C == Cardinality(ids)
           last == IF from + n < Len(S) THEN from + n ELSE Len(S)
           p == Page(S, n, from)
<1>1. /\ C \in Nat /\ ids \subseteq Nat
      /\ \A i \in ids : Place(kind, ids, i) \in 1..C
      /\ \A k \in 1..C : S[k] \in ids
      /\ \A i \in ids : S[Place(kind, ids, i)] = i
  BY PlacesInOrder DEF Captured
<1>2. Len(S) = C
  <2>1. S \in Seq(ids)
    BY <1>1 DEF InOrder
  <2>2. DOMAIN S = 1..C
    BY DEF InOrder
  <2> HIDE DEF S, C
  <2>3. Len(S) \in Nat /\ DOMAIN S = 1..Len(S)
    BY <2>1
  <2> QED BY <1>1, <2>2, <2>3
<1>3. p = SubSeq(S, from + 1, last)
  BY DEF Page
<1> HIDE DEF S, C, p
<1>4. last \in Int /\ last <= C /\ last <= from + n /\ (last = from + n \/ last = C)
  BY <1>1, <1>2
<1> HIDE DEF last
<1>5. /\ p \in Seq(ids)
      /\ Len(p) = IF from + 1 <= last THEN last - (from + 1) + 1 ELSE 0
      /\ \A k \in 1 .. last - (from + 1) + 1 : p[k] = S[from + 1 + k - 1]
  <2>1. \A k \in from + 1 .. last : S[k] \in ids
    BY <1>1, <1>4
  <2>2. from + 1 \in Int
    OBVIOUS
  <2> QED BY <1>3, <1>4, <2>1, <2>2, SubSeqProperties
<1>6. Range(p) = {p[k] : k \in 1 .. Len(p)}
  BY <1>5, RangeEquality
<1>7. p \in Seq(Nat) /\ Range(p) \subseteq ids
  <2> HIDE DEF p, S, last, C
  <2>1. \A k \in 1 .. Len(p) : p[k] \in ids
    BY <1>5
  <2>2. p \in Seq(Nat)
    BY <1>1, <1>5, SeqMonotonic
  <2> QED BY <1>6, <2>1, <2>2
<1>8. ASSUME NEW i \in ids, Place(kind, ids, i) > from, Place(kind, ids, i) <= last
      PROVE  i \in Range(p)
  <2> DEFINE k == Place(kind, ids, i) - from
  <2>1. Place(kind, ids, i) \in Int
    BY <1>1
  <2>2. k \in 1 .. last - (from + 1) + 1 /\ k \in 1 .. Len(p) /\ from + 1 + k - 1 = Place(kind, ids, i)
    BY <1>4, <1>5, <1>8, <2>1
  <2>3. p[k] = i
    BY <1>1, <1>5, <2>2
  <2> QED BY <1>6, <2>2, <2>3
<1>9. ASSUME NEW i \in ids, Place(kind, ids, i) \in from+1..from+n PROVE i \in Range(p)
  BY <1>1, <1>4, <1>8, <1>9
<1>10. ASSUME Len(p) < n, NEW i \in ids, Place(kind, ids, i) > from PROVE i \in Range(p)
  <2>1. last = C
    BY <1>4, <1>5, <1>10
  <2> QED BY <1>1, <1>8, <1>10, <2>1
<1> QED BY <1>7, <1>9, <1>10 DEF p, S

-----------------------------------------------------------------------------
(* A question becomes a call of the daemon.                                *)
LEMMA AskedKeepsQueryInd ==
    ASSUME QueryInd, phase = "idle", NEW q \in Questions[traffic], NEW c, Asked(q, c),
           c.kind \in {"list", "search", "count", "json", "get"}, c.limit \in Nat,
           c.kind = "get" <=> q.kind = "get",
           c.kind = "get" =>
              \/ q.door = "mcp" /\ c.ids = Range(q.batch) /\ q.batch # <<>>
              \/ q.door = "cli" /\ c.ids = q.exact \cup q.prefixed
    PROVE  QueryInd'
<1>1. /\ ask' = {q} /\ call' = {c}
      /\ c.kind = "count" => phase' = "count"
      /\ c.kind = "get" /\ q.door = "mcp" => phase' = "get"
      /\ c.kind = "get" /\ q.door # "mcp" => phase' = "exact"
      /\ c.kind \notin {"count", "get"} => phase' = "list"
      /\ c.kind = "get" => there' = Ids(Answer(c))
      /\ c.kind # "get" => there' = there
      /\ UNCHANGED <<storeVars, offset, page, total, seen, left>>
  BY DEF Asked
<1>2. /\ traffic \in Traffics /\ recorded \in 0 .. Len(traffic) /\ TableOK
      /\ there = {} /\ seen = {} /\ left = 0 /\ offset = 0 /\ page = <<>>
      /\ toggles \in 0 .. MaxToggles
  BY DEF QueryInd, CallOK
<1>3. UNCHANGED <<traffic, recorded, table, toggles>>
  BY <1>1 DEF storeVars
<1>4. TableOK'
  BY <1>2, <1>3 DEF TableOK
<1>5. PICK A : A = Ids(Answer(c))
  OBVIOUS
<1>6. Ids(Answer(c))' = A
  BY <1>1, <1>5, AnswersStay
<1>7. A \subseteq 1 .. recorded /\ (c.kind = "get" => A \subseteq c.ids)
  BY <1>2, <1>5, AnswersAreStored, StoredWasCaptured
<1>8. there' \subseteq A /\ seen' = {} /\ left' = 0 /\ offset' = 0 /\ page' = <<>>
  BY <1>1, <1>2, <1>5
<1>9. PagingOK'
  <2>1. c.kind \notin {"get", "count"} => phase' = "list" /\ ~ Reading'
    BY <1>1, <1>8 DEF Reading
  <2>2. ~ (0 > 0)
    OBVIOUS
  <2> QED BY <1>1, <1>8, <2>1, <2>2 DEF PagingOK
<1>10. NamedOK'
  <2> SUFFICES ASSUME q.kind = "get"
               PROVE  (/\ there \subseteq c.ids
                       /\ phase \in {"get", "exact", "prefix", "fetch"} => there \subseteq Ids(Answer(c))
                       /\ phase = "get" =>
                             /\ offset < Len(q.batch)
                             /\ \A n \in 1 .. offset : q.batch[n] \in there => q.batch[n] \in Range(page)
                       /\ q.door = "mcp" /\ phase = "shown" => there \subseteq Range(page)
                       /\ phase = "fetch" \/ (q.door = "cli" /\ phase = "shown") =>
                             Len(page) = 1 /\ page[1] \in q.prefixed
                       /\ q.door = "cli" /\ phase = "refused" /\ there # {} =>
                             Cardinality(q.prefixed) > 1 \/ recorded > PrefixLimit)'
    BY <1>1 DEF NamedOK
  <2>1. phase' = "get" => offset' < Len(q.batch)
    <3>1. q.batch \in Seq(Nat)
      BY <1>2, QuestionAssumption
    <3>2. phase' = "get" => q.batch # <<>>
      BY <1>1
    <3> QED BY <1>8, <3>1, <3>2
  <2>2. \A n \in 1 .. offset' : FALSE
    BY <1>8
  <2>3. phase' \in {"get", "exact"}
    BY <1>1
  <2> QED BY <1>6, <1>7, <1>8, <2>1, <2>2, <2>3
<1>11. CallOK'
  BY <1>1, <1>2, <1>3, <1>8 DEF CallOK
<1>12. /\ traffic' \in Traffics /\ recorded' \in 0 .. Len(traffic') /\ toggles' \in 0 .. MaxToggles
       /\ offset' \in Nat /\ left' \in Nat /\ page' \in Seq(Nat)
       /\ seen' \cup there' \subseteq 1 .. recorded'
  BY <1>2, <1>3, <1>7, <1>8
<1>13. phase' \in {"idle", "list", "count", "get", "exact", "prefix", "fetch",
                   "shown", "refused", "failed"}
  BY <1>1
<1> QED BY <1>4, <1>9, <1>10, <1>11, <1>12, <1>13 DEF QueryInd

(* A question that is refused is answered at the door.                     *)
LEMMA RefusedKeepsQueryInd ==
    ASSUME QueryInd, phase = "idle", NEW q \in Questions[traffic], Refuse(q)
    PROVE  QueryInd'
<1>1. /\ ask' = {q} /\ phase' = "refused"
      /\ UNCHANGED <<traffic, recorded, table, toggles, call, offset, page, total, seen, there, left>>
  BY DEF Refuse, storeVars
<1>2. ask = {} /\ call = {} /\ there = {} /\ seen = {}
  BY DEF QueryInd, CallOK
<1> QED BY <1>1, <1>2 DEF QueryInd, TableOK, CallOK, PagingOK, NamedOK

(* What is typed at a tool, a command or the bar.                          *)
LEMMA AskingKeepsQueryInd ==
    ASSUME QueryInd, NEW q \in Questions[traffic], AskTool(q) \/ AskCommand(q) \/ AskBar(q)
    PROVE  QueryInd'
<1>1. /\ traffic \in Traffics /\ phase = "idle" /\ q.limit \subseteq Int
      /\ q.door = "bar" => q.limit # {} /\ q.limit \subseteq Nat /\ q.kind # "get"
  BY QuestionAssumption DEF QueryInd, AskTool, AskCommand, AskBar
<1>2. CASE AskTool(q)
  <2>1. PageOfTool(q) \in Nat
    BY <1>1, QueryAssumption DEF PageOfTool, ClampLimit
  <2>2. CASE q.kind = "get" /\ Asked(q, GetRequestTool(q)) /\ ~ NoValidIds(q)
    <3> DEFINE c == GetRequestTool(q)
    <3>1. c.kind = "get" /\ c.limit = 0 /\ c.ids = Range(q.batch)
      BY DEF GetRequestTool, Call
    <3>2. q.door = "mcp" /\ q.batch # <<>>
      BY <1>2, <2>2 DEF AskTool, NoValidIds
    <3> HIDE DEF c
    <3> QED BY <1>1, <2>2, <3>1, <3>2, AskedKeepsQueryInd DEF c
  <2>3. ASSUME NEW c, Asked(q, c), c.kind = q.kind, c.kind \in {"list", "search", "count", "json"},
               c.limit \in Nat
        PROVE  QueryInd'
    BY <1>1, <2>3, AskedKeepsQueryInd
  <2>4. /\ ListRequestsTool(q).kind = "list" /\ ListRequestsTool(q).limit = PageOfTool(q)
        /\ SearchBodiesTool(q).kind = "search" /\ SearchBodiesTool(q).limit = PageOfTool(q)
        /\ CountRequestsTool(q).kind = "count" /\ CountRequestsTool(q).limit = 0
        /\ QueryJsonTool(q).kind = "json" /\ QueryJsonTool(q).limit = PageOfTool(q)
    BY DEF ListRequestsTool, SearchBodiesTool, CountRequestsTool, QueryJsonTool, Call
  <2>5. \/ Refuse(q)
        \/ q.kind = "list"   /\ Asked(q, ListRequestsTool(q))
        \/ q.kind = "search" /\ Asked(q, SearchBodiesTool(q))
        \/ q.kind = "count"  /\ Asked(q, CountRequestsTool(q))
        \/ q.kind = "json"   /\ Asked(q, QueryJsonTool(q))
        \/ q.kind = "get"    /\ Asked(q, GetRequestTool(q)) /\ ~ NoValidIds(q)
    BY <1>2 DEF AskTool
  <2> QED BY <1>1, <2>1, <2>2, <2>3, <2>4, <2>5, RefusedKeepsQueryInd
<1>3. CASE AskCommand(q)
  <2>1. /\ CommandLimit \in Nat
        /\ ~ RefusedByCommand(q) /\ q.kind = "list" => PageOfCommand(q) \in Nat
    <3>1. CommandLimit \in Nat
      BY QueryAssumption
    <3>2. ASSUME ~ RefusedByCommand(q), q.kind = "list" PROVE PageOfCommand(q) \in Nat
      <4>1. \A n \in q.limit : ~ LimitRefused(n)
        BY <3>2 DEF RefusedByCommand, FlagsRefused, Subcommands
      <4>2. CASE q.limit = {}
        BY <3>1, <4>2 DEF PageOfCommand
      <4>3. CASE q.limit # {}
        BY <1>1, <4>1, <4>3 DEF PageOfCommand, LimitRefused
      <4> QED BY <4>2, <4>3
    <3> QED BY <3>1, <3>2
  <2>2. CASE q.kind = "get" /\ Asked(q, RequestCommand(q))
    <3> DEFINE c == RequestCommand(q)
    <3>1. c.kind = "get" /\ c.limit = 0 /\ c.ids = q.exact \cup q.prefixed
      BY DEF RequestCommand, Call
    <3>2. q.door = "cli"
      BY <1>3 DEF AskCommand
    <3> HIDE DEF c
    <3> QED BY <1>1, <2>2, <3>1, <3>2, AskedKeepsQueryInd DEF c
  <2>3. ASSUME NEW c, Asked(q, c), c.kind = q.kind, c.kind \in {"list", "search", "count", "json"},
               c.limit \in Nat
        PROVE  QueryInd'
    BY <1>1, <2>3, AskedKeepsQueryInd
  <2>4. /\ RequestsCommand(q).kind = "list" /\ RequestsCommand(q).limit = PageOfCommand(q)
        /\ SearchSubcommand(q).kind = "search" /\ SearchSubcommand(q).limit = CommandLimit
        /\ CountSubcommand(q).kind = "count" /\ CountSubcommand(q).limit = 0
        /\ QuerySubcommand(q).kind = "json" /\ QuerySubcommand(q).limit = CommandLimit
    BY DEF RequestsCommand, SearchSubcommand, CountSubcommand, QuerySubcommand, Call
  <2>5. \/ Refuse(q)
        \/ ~ RefusedByCommand(q) /\ q.kind = "list"   /\ Asked(q, RequestsCommand(q))
        \/ ~ RefusedByCommand(q) /\ q.kind = "search" /\ Asked(q, SearchSubcommand(q))
        \/ ~ RefusedByCommand(q) /\ q.kind = "count"  /\ Asked(q, CountSubcommand(q))
        \/ ~ RefusedByCommand(q) /\ q.kind = "json"   /\ Asked(q, QuerySubcommand(q))
        \/ q.kind = "get"    /\ Asked(q, RequestCommand(q))
    BY <1>3 DEF AskCommand
  <2> QED BY <1>1, <2>1, <2>2, <2>3, <2>4, <2>5, RefusedKeepsQueryInd
<1>4. CASE AskBar(q)
  <2> DEFINE c == CallOfBar(q)
  <2>1. c.kind \in {"list", "search"} /\ c.limit = CHOOSE n \in q.limit : TRUE
    BY DEF CallOfBar, Call
  <2>2. Asked(q, c) /\ q.kind # "get" /\ c.limit \in Nat
    BY <1>1, <1>4, <2>1 DEF AskBar
  <2> HIDE DEF c
  <2> QED BY <1>1, <2>1, <2>2, AskedKeepsQueryInd
<1> QED BY <1>2, <1>3, <1>4

-----------------------------------------------------------------------------
(* What the answers keep of the table's side.                              *)
LEMMA ReadersLeaveTheTable ==
    ASSUME QueryInd, UNCHANGED storeVars
    PROVE  /\ traffic' \in Traffics /\ recorded' \in 0 .. Len(traffic') /\ toggles' \in 0 .. MaxToggles
           /\ TableOK'
           /\ UNCHANGED <<traffic, recorded, table, toggles>>
<1>1. UNCHANGED <<traffic, recorded, table, toggles>>
  BY DEF storeVars
<1> QED BY <1>1 DEF QueryInd, TableOK

(* A page: it shows the rows of its places, so what was not seen stands    *)
(* below it, or is hidden above it as before.                              *)
LEMMA AnswerListKeepsQueryInd ==
    ASSUME QueryInd, AnswerList
    PROVE  QueryInd'
<1>1. /\ phase = "list" /\ UNCHANGED <<storeVars, ask, call, offset, total, left>>
  BY DEF AnswerList
<1>2. PICK q \in ask, c \in call :
          \/ /\ Malformed(c)
             /\ phase' = "failed"
             /\ UNCHANGED <<page, seen, there>>
          \/ /\ ~ Malformed(c)
             /\ page' = Page(InOrder(c.kind, Ids(Answer(c))), c.limit, offset)
             /\ seen' = seen \cup Range(page')
             /\ there' = IF offset = 0 THEN Ids(Answer(c)) ELSE there
             /\ phase' = IF c.kind = "list" /\ q.door # "bar" THEN "count" ELSE "shown"
  BY DEF AnswerList
<1>3. /\ traffic \in Traffics /\ recorded \in 0 .. Len(traffic) /\ TableOK
      /\ offset \in Nat /\ left \in Nat /\ CallOK /\ PagingOK /\ page \in Seq(Nat)
      /\ seen \cup there \subseteq 1 .. recorded
  BY DEF QueryInd
<1>4. /\ ask = {q} /\ call = {c} /\ q \in Questions[traffic]
      /\ c.kind \in {"list", "search", "json"} /\ c.limit \in Nat /\ q.kind # "get"
  BY <1>1, <1>2, <1>3 DEF CallOK
<1>5. /\ traffic' \in Traffics /\ recorded' \in 0 .. Len(traffic') /\ toggles' \in 0 .. MaxToggles
      /\ TableOK' /\ UNCHANGED <<traffic, recorded, table, toggles>>
  BY <1>1, ReadersLeaveTheTable
<1>6. NamedOK'
  BY <1>1, <1>4 DEF NamedOK
<1>7. phase' \in {"failed", "count", "shown"}
  BY <1>2
<1>8. CallOK'
  BY <1>1, <1>2, <1>3, <1>4, <1>5 DEF CallOK
<1>9. CASE UNCHANGED <<page, seen, there>> /\ phase' = "failed"
  <2>1. PagingOK'
    BY <1>4, <1>9 DEF PagingOK, Reading
  <2> QED BY <1>1, <1>3, <1>5, <1>6, <1>7, <1>8, <1>9, <2>1 DEF QueryInd
<1>10. CASE /\ page' = Page(InOrder(c.kind, Ids(Answer(c))), c.limit, offset)
            /\ seen' = seen \cup Range(page')
            /\ there' = IF offset = 0 THEN Ids(Answer(c)) ELSE there
            /\ phase' \in {"count", "shown"}
  <2>1. PICK A : A = Ids(Answer(c))
    OBVIOUS
  <2>2. Captured(A) /\ A \subseteq 1 .. recorded
    BY <1>3, <2>1, AnswersAreStored, StoredWasCaptured
  <2>3. /\ page' \in Seq(Nat) /\ Range(page') \subseteq A
        /\ \A i \in A : Place(c.kind, A, i) \in offset+1..offset+c.limit => i \in Range(page')
        /\ Len(page') < c.limit => \A i \in A : Place(c.kind, A, i) > offset => i \in Range(page')
    BY <1>3, <1>4, <1>10, <2>1, <2>2, PagesShowPlaces
  <2>4. there' \subseteq A
    <3>1. offset > 0 => there \subseteq A
      BY <1>1, <1>3, <1>4, <2>1 DEF PagingOK, Reading
    <3> QED BY <1>3, <1>10, <2>1, <3>1
  <2>5. seen' \cup there' \subseteq 1 .. recorded
    BY <1>3, <1>10, <2>2, <2>3, <2>4
  <2>6. \A i \in A : Place(c.kind, A, i) \in Nat \ {0}
    <3>1. Cardinality(A) \in Nat /\ \A i \in A : Place(c.kind, A, i) \in 1..Cardinality(A)
      BY <2>2, PlacesInOrder
    <3> QED BY <3>1
  <2> DEFINE H == {i \in there' \ seen' : Place(c.kind, A, i) <= offset}
  <2>7. /\ LastPage' <=> Len(page') < c.limit
        /\ ~ LastPage' => {i \in there' \ seen' : Place(c.kind, A, i) <= offset + c.limit} \subseteq H
        /\ LastPage' => there' \ seen' \subseteq H
    <3>1. LastPage' <=> Len(page') < c.limit
      BY <1>1, <1>4 DEF LastPage
    <3>2. ASSUME NEW i \in there' \ seen', Place(c.kind, A, i) <= offset + c.limit
          PROVE  Place(c.kind, A, i) <= offset
      <4>1. i \in A /\ i \notin Range(page')
        BY <1>10, <2>4
      <4>2. Place(c.kind, A, i) \notin offset+1..offset+c.limit
        BY <2>3, <4>1
      <4> QED BY <1>3, <1>4, <2>6, <3>2, <4>1, <4>2
    <3>3. ASSUME LastPage', NEW i \in there' \ seen'
          PROVE  Place(c.kind, A, i) <= offset
      <4>1. i \in A /\ i \notin Range(page')
        BY <1>10, <2>4
      <4>2. ~ (Place(c.kind, A, i) > offset)
        BY <2>3, <3>1, <3>3, <4>1
      <4> QED BY <1>3, <2>6, <4>1, <4>2
    <3> QED BY <3>1, <3>2, <3>3
  <2>8. IsFiniteSet(H) /\ Cardinality(H) \in Nat /\ Cardinality(H) <= left
    <3>1. CASE offset = 0
      <4>1. H = {}
        BY <2>4, <2>6, <3>1
      <4> HIDE DEF H
      <4> QED BY <1>3, <4>1, FS_EmptySet
    <3>2. CASE offset > 0
      <4>1. there' = there /\ there \subseteq A
        BY <1>3, <1>10, <2>4, <3>2
      <4>2. PICK G : G = Hidden(c.kind, A, there \ seen, offset)
        OBVIOUS
      <4>3. H \subseteq G /\ G \subseteq A
        BY <1>10, <4>1, <4>2 DEF Hidden
      <4>4. Cardinality(G) <= left
        BY <1>1, <1>3, <1>4, <2>1, <3>2, <4>2 DEF PagingOK
      <4> HIDE DEF H
      <4>5. IsFiniteSet(G) /\ Cardinality(G) \in Nat
        BY <2>2, <4>3, FS_Subset, FS_CardinalityType DEF Captured
      <4>6. IsFiniteSet(H) /\ Cardinality(H) \in Nat /\ Cardinality(H) <= Cardinality(G)
        BY <4>3, <4>5, FS_Subset, FS_CardinalityType
      <4> QED BY <1>3, <4>4, <4>5, <4>6
    <3> QED BY <1>3, <3>1, <3>2
  <2>9. ASSUME NEW S, S \subseteq H PROVE Cardinality(S) <= left
    <3> HIDE DEF H
    <3>1. Cardinality(S) \in Nat /\ Cardinality(S) <= Cardinality(H)
      BY <2>8, <2>9, FS_Subset, FS_CardinalityType
    <3> QED BY <1>3, <2>8, <3>1
  <2>10. PagingOK'
    <3>1. Ids(Answer(c))' = A
      BY <1>1, <2>1, AnswersStay
    <3>2. Hidden(c.kind, Ids(Answer(c)), there \ seen, offset + c.limit)'
             = {i \in there' \ seen' : Place(c.kind, A, i) <= offset + c.limit}
      <4>1. Hidden(c.kind, Ids(Answer(c)), there \ seen, offset + c.limit)'
              = Hidden(c.kind, A, there' \ seen', offset + c.limit)
        BY <1>1, <1>5, <3>1 DEF Hidden, Place, Above
      <4> QED BY <4>1 DEF Hidden
    <3>3. ~ LastPage' => Cardinality(Hidden(c.kind, Ids(Answer(c)), there \ seen, offset + c.limit)') <= left
      BY <2>7, <2>9, <3>2
    <3>4. LastPage' => Cardinality(there' \ seen') <= left
      BY <2>7, <2>9
    <3>5. phase' # "list"
      BY <1>10
    <3> QED BY <1>1, <1>4, <2>4, <3>1, <3>3, <3>4, <3>5 DEF PagingOK
  <2> QED BY <1>1, <1>3, <1>5, <1>6, <1>7, <1>8, <2>3, <2>5, <2>10 DEF QueryInd
<1> QED BY <1>2, <1>9, <1>10

(* The second call of a list, or a count.                                  *)
LEMMA AnswerCountKeepsQueryInd ==
    ASSUME QueryInd, AnswerCount
    PROVE  QueryInd'
<1>1. /\ phase = "count" /\ phase' = "shown"
      /\ UNCHANGED <<storeVars, ask, call, offset, page, seen, there, left>>
  BY DEF AnswerCount
<1>2. /\ traffic' \in Traffics /\ recorded' \in 0 .. Len(traffic') /\ toggles' \in 0 .. MaxToggles
      /\ TableOK' /\ UNCHANGED <<traffic, recorded, table, toggles>>
  BY <1>1, ReadersLeaveTheTable
<1>3. CallOK /\ PagingOK /\ NamedOK
  BY DEF QueryInd
<1>4. CallOK'
  BY <1>1, <1>2, <1>3 DEF CallOK
<1>5. NamedOK'
  <2>1. \A q \in ask, c \in call : q.kind # "get"
    BY <1>1, <1>3 DEF CallOK
  <2> QED BY <1>1, <2>1 DEF NamedOK
<1>6. PagingOK'
  <2>1. LastPage' <=> LastPage
    BY <1>1 DEF LastPage
  <2>2. Reading' <=> Reading
    BY <1>1, <2>1 DEF Reading
  <2>3. \A c \in call : Ids(Answer(c))' = Ids(Answer(c))
    BY <1>1, AnswersStay
  <2>4. \A c \in call : Hidden(c.kind, Ids(Answer(c)), there \ seen, offset + c.limit)'
                            = Hidden(c.kind, Ids(Answer(c)), there \ seen, offset + c.limit)
    BY <1>1, <1>2, <2>3 DEF Hidden, Place, Above
  <2> QED BY <1>1, <1>3, <2>1, <2>2, <2>3, <2>4 DEF PagingOK
<1> QED BY <1>1, <1>2, <1>4, <1>5, <1>6 DEF QueryInd

(* The next page begins where the last one ended.                          *)
LEMMA NextPageKeepsQueryInd ==
    ASSUME QueryInd, NextPage
    PROVE  QueryInd'
<1>1. /\ phase = "shown" /\ ~ LastPage /\ phase' = "list"
      /\ \E c \in call : offset' = offset + c.limit
      /\ UNCHANGED <<storeVars, ask, call, page, total, seen, there, left>>
  BY DEF NextPage
<1>2. /\ traffic' \in Traffics /\ recorded' \in 0 .. Len(traffic') /\ toggles' \in 0 .. MaxToggles
      /\ TableOK' /\ UNCHANGED <<traffic, recorded, table, toggles>>
  BY <1>1, ReadersLeaveTheTable
<1>3. CallOK /\ PagingOK /\ NamedOK /\ offset \in Nat
  BY DEF QueryInd
<1>4. PICK c \in call : /\ call = {c} /\ offset' = offset + c.limit /\ c.limit \in Nat
                        /\ c.kind \notin {"get", "count"}
  BY <1>1, <1>3 DEF CallOK, LastPage
<1>5. CallOK'
  BY <1>1, <1>2, <1>3, <1>4 DEF CallOK
<1>6. NamedOK'
  <2>1. \A q \in ask : q.kind # "get"
    BY <1>3, <1>4 DEF CallOK
  <2> QED BY <1>1, <2>1 DEF NamedOK
<1>7. PagingOK'
  <2>1. Reading
    BY <1>1 DEF Reading
  <2>2. Ids(Answer(c))' = Ids(Answer(c))
    BY <1>1, AnswersStay
  <2>3. Hidden(c.kind, Ids(Answer(c)), there \ seen, offset)'
           = Hidden(c.kind, Ids(Answer(c)), there \ seen, offset + c.limit)
    BY <1>1, <1>2, <1>4, <2>2 DEF Hidden, Place, Above
  <2> QED BY <1>1, <1>3, <1>4, <2>1, <2>2, <2>3 DEF PagingOK
<1>8. offset' \in Nat
  BY <1>3, <1>4
<1> QED BY <1>1, <1>2, <1>5, <1>6, <1>7, <1>8 DEF QueryInd

(* The end of a reading.                                                   *)
LEMMA EndReadingKeepsQueryInd ==
    ASSUME QueryInd, EndReading
    PROVE  QueryInd'
<1>1. /\ ask' = {} /\ call' = {} /\ phase' = "idle" /\ offset' = 0 /\ page' = <<>>
      /\ seen' = {} /\ there' = {} /\ left' = 0
      /\ UNCHANGED storeVars
  BY DEF EndReading
<1>2. /\ traffic' \in Traffics /\ recorded' \in 0 .. Len(traffic') /\ toggles' \in 0 .. MaxToggles
      /\ TableOK'
  BY <1>1, ReadersLeaveTheTable
<1>3. CallOK' /\ PagingOK' /\ NamedOK'
  BY <1>1 DEF CallOK, PagingOK, NamedOK
<1> QED BY <1>1, <1>2, <1>3 DEF QueryInd

-----------------------------------------------------------------------------
(* A call for one of several ids: the row is shown if it is there.         *)
LEMMA GetRequestKeepsQueryInd ==
    ASSUME QueryInd, GetRequest
    PROVE  QueryInd'
<1>1. phase = "get" /\ UNCHANGED <<storeVars, ask, call, total, seen, there, left>>
  BY DEF GetRequest
<1>2. PICK q \in ask :
          /\ offset' = offset + 1
          /\ page' = IF q.batch[offset + 1] \in Ids(table)
                     THEN Append(page, q.batch[offset + 1]) ELSE page
          /\ phase' = IF offset' = Len(q.batch) THEN "shown" ELSE "get"
  BY DEF GetRequest
<1>3. /\ traffic' \in Traffics /\ recorded' \in 0 .. Len(traffic') /\ toggles' \in 0 .. MaxToggles
      /\ TableOK' /\ UNCHANGED <<traffic, recorded, table, toggles>>
  BY <1>1, ReadersLeaveTheTable
<1>4. /\ CallOK /\ PagingOK /\ NamedOK /\ offset \in Nat /\ page \in Seq(Nat) /\ traffic \in Traffics
      /\ left \in Nat /\ seen \cup there \subseteq 1 .. recorded
  BY DEF QueryInd
<1>5. PICK c \in call : call = {c}
  BY <1>1, <1>4 DEF CallOK
<1>6. /\ ask = {q} /\ q \in Questions[traffic] /\ c.kind = "get" /\ q.kind = "get" /\ q.door = "mcp"
      /\ c.ids = Range(q.batch)
  BY <1>1, <1>4, <1>5 DEF CallOK
<1>7. /\ q.batch \in Seq(Nat) /\ there \subseteq c.ids /\ there \subseteq Ids(Answer(c))
      /\ offset < Len(q.batch)
      /\ \A n \in 1 .. offset : q.batch[n] \in there => q.batch[n] \in Range(page)
  BY <1>1, <1>4, <1>5, <1>6, QuestionAssumption DEF NamedOK
<1>8. PICK x : x = q.batch[offset + 1]
  OBVIOUS
<1>9. Len(q.batch) \in Nat /\ offset + 1 \in 1 .. Len(q.batch) /\ x \in Nat
  BY <1>4, <1>7, <1>8
<1>10. /\ page' \in Seq(Nat) /\ Range(page) \subseteq Range(page')
       /\ x \in Ids(table) => x \in Range(page')
  <2>1. /\ Append(page, x) \in Seq(Nat) /\ Len(Append(page, x)) = Len(page) + 1
        /\ \A k \in 1 .. Len(page) : Append(page, x)[k] = page[k]
        /\ Append(page, x)[Len(page) + 1] = x
    BY <1>4, <1>9, AppendProperties
  <2>2. /\ Range(page) = {page[k] : k \in 1 .. Len(page)}
        /\ Range(Append(page, x)) = {Append(page, x)[k] : k \in 1 .. Len(Append(page, x))}
    BY <1>4, <2>1, RangeEquality
  <2>3. Len(page) \in Nat
    BY <1>4
  <2>4. Range(page) \subseteq Range(Append(page, x)) /\ x \in Range(Append(page, x))
    BY <2>1, <2>2, <2>3
  <2> QED BY <1>2, <1>4, <1>8, <2>1, <2>4
<1>11. \A n \in 1 .. offset' : q.batch[n] \in there => q.batch[n] \in Range(page')
  <2> TAKE n \in 1 .. offset'
  <2>1. CASE n \in 1 .. offset
    BY <1>7, <1>10, <2>1
  <2>2. CASE n = offset + 1
    <3>1. there \subseteq Ids(table)
      BY <1>7, AnswersAreStored
    <3> QED BY <1>8, <1>10, <2>2, <3>1
  <2> QED BY <1>2, <1>4, <2>1, <2>2
<1>12. phase' = "shown" => there \subseteq Range(page')
  <2>1. Range(q.batch) = {q.batch[n] : n \in 1 .. Len(q.batch)}
    BY <1>7, RangeEquality
  <2>2. phase' = "shown" => offset' = Len(q.batch)
    BY <1>2
  <2> QED BY <1>6, <1>7, <1>11, <2>1, <2>2
<1>13. /\ phase' \in {"get", "shown"} /\ offset' \in Nat
       /\ phase' = "get" => offset' < Len(q.batch)
  BY <1>2, <1>4, <1>9
<1>14. Ids(Answer(c))' = Ids(Answer(c))
  BY <1>1, AnswersStay
<1>15. NamedOK'
  BY <1>1, <1>5, <1>6, <1>7, <1>11, <1>12, <1>13, <1>14 DEF NamedOK
<1>16. CallOK'
  BY <1>1, <1>3, <1>4, <1>5, <1>6, <1>13 DEF CallOK
<1>17. PagingOK'
  BY <1>1, <1>5, <1>6 DEF PagingOK
<1> QED BY <1>1, <1>3, <1>4, <1>10, <1>13, <1>15, <1>16, <1>17 DEF QueryInd

(* What the command's three calls for one request have in common.          *)
LEMMA NamedByCommand ==
    ASSUME QueryInd, phase \in {"exact", "prefix", "fetch"}
    PROVE  \E q \in ask, c \in call :
              /\ ask = {q} /\ call = {c} /\ q \in Questions[traffic]
              /\ c.kind = "get" /\ q.kind = "get" /\ q.door = "cli"
              /\ c.ids = q.exact \cup q.prefixed
              /\ q.prefixed \subseteq Nat /\ IsFiniteSet(q.prefixed) /\ Cardinality(q.prefixed) \in Nat
              /\ q.exact \subseteq q.prefixed /\ Cardinality(q.exact) <= 1
              /\ there \subseteq q.prefixed /\ there \subseteq Ids(Answer(c))
<1>1. CallOK /\ NamedOK /\ traffic \in Traffics
  BY DEF QueryInd
<1>2. PICK c \in call : call = {c}
  BY <1>1 DEF CallOK
<1>3. PICK q \in Questions[traffic] : ask = {q}
  BY <1>1 DEF CallOK
<1>4. /\ c.kind = "get" /\ q.kind = "get" /\ q.door = "cli" /\ c.ids = q.exact \cup q.prefixed
  BY <1>1, <1>2, <1>3 DEF CallOK
<1>5. /\ q.prefixed \subseteq Nat /\ IsFiniteSet(q.prefixed)
      /\ q.exact \subseteq q.prefixed /\ Cardinality(q.exact) <= 1
  BY <1>1, <1>4, QuestionAssumption
<1>6. there \subseteq c.ids /\ there \subseteq Ids(Answer(c))
  BY <1>1, <1>2, <1>3, <1>4 DEF NamedOK
<1>7. Cardinality(q.prefixed) \in Nat
  BY <1>5, FS_CardinalityType
<1> QED BY <1>2, <1>3, <1>4, <1>5, <1>6, <1>7

(* One of the command's calls, when it leaves a page and a phase that the  *)
(* invariant allows.                                                       *)
LEMMA CommandStepKeepsQueryInd ==
    ASSUME QueryInd, NEW q, NEW c, ask = {q}, call = {c}, q.kind = "get", q.door = "cli",
           phase \in {"exact", "prefix", "fetch"},
           UNCHANGED <<storeVars, ask, call, offset, total, seen, there, left>>,
           page' \in Seq(Nat), phase' \in {"prefix", "fetch", "shown", "refused"},
           phase' \in {"fetch", "shown"} => Len(page') = 1 /\ page'[1] \in q.prefixed,
           phase' = "refused" /\ there # {} => Cardinality(q.prefixed) > 1 \/ recorded > PrefixLimit
    PROVE  QueryInd'
<1>1. /\ traffic' \in Traffics /\ recorded' \in 0 .. Len(traffic') /\ toggles' \in 0 .. MaxToggles
      /\ TableOK' /\ UNCHANGED <<traffic, recorded, table, toggles>>
  BY ReadersLeaveTheTable
<1>2. /\ CallOK /\ PagingOK /\ NamedOK /\ offset \in Nat /\ left \in Nat
      /\ seen \cup there \subseteq 1 .. recorded
  BY DEF QueryInd
<1>3. c.kind = "get"
  BY <1>2 DEF CallOK
<1>4. Ids(Answer(c))' = Ids(Answer(c))
  BY AnswersStay
<1>5. CallOK'
  BY <1>1, <1>2, <1>3 DEF CallOK
<1>6. PagingOK'
  BY <1>3 DEF PagingOK
<1>7. NamedOK'
  <2>1. there \subseteq c.ids /\ there \subseteq Ids(Answer(c))
    BY <1>2 DEF NamedOK
  <2> QED BY <1>1, <1>4, <2>1 DEF NamedOK
<1> QED BY <1>1, <1>2, <1>5, <1>6, <1>7 DEF QueryInd

(* A set of one number as a sequence.                                      *)
LEMMA SequenceOfOne ==
    ASSUME NEW S \in SUBSET Nat, IsFiniteSet(S), Cardinality(S) = 1
    PROVE  SetToSeq(S) \in Seq(Nat) /\ Len(SetToSeq(S)) = 1 /\ SetToSeq(S)[1] \in S
<1>1. PICK x : S = {x}
  BY FS_Singleton
<1> DEFINE f == [k \in 1 .. 1 |-> x]
<1>2. f \in [1 .. Cardinality(S) -> S] /\ IsInjective(f)
  BY <1>1 DEF IsInjective
<1>3. SetToSeq(S) \in [1 .. Cardinality(S) -> S]
  BY <1>2 DEF SetToSeq
<1>4. SetToSeq(S) \in [1 .. 1 -> S]
  BY <1>3
<1> HIDE DEF f
<1>5. PICK s : s = SetToSeq(S)
  OBVIOUS
<1>6. s \in [1 .. 1 -> S]
  BY <1>4, <1>5
<1>7. 1 \in 1 .. 1
  OBVIOUS
<1>8. s[1] \in S
  BY <1>6, <1>7
<1>9. s \in UNION {[1 .. n -> S] : n \in Nat}
  BY <1>6
<1>10. s \in Seq(S)
  BY <1>9, SeqDef
<1>11. s \in Seq(Nat)
  BY <1>10, SeqMonotonic
<1>12. Len(s) = 1
  <2>1. DOMAIN s = 1 .. 1
    BY <1>6
  <2>2. Len(s) \in Nat /\ DOMAIN s = 1 .. Len(s)
    BY <1>10, LenProperties
  <2> QED BY <2>1, <2>2
<1> QED BY <1>5, <1>8, <1>11, <1>12

(* The id as it was typed.                                                 *)
LEMMA GetExactKeepsQueryInd ==
    ASSUME QueryInd, GetExact
    PROVE  QueryInd'
<1>1. phase = "exact" /\ UNCHANGED <<storeVars, ask, call, offset, total, seen, there, left>>
  BY DEF GetExact
<1>2. PICK q \in ask, c \in call :
         /\ ask = {q} /\ call = {c} /\ q.kind = "get" /\ q.door = "cli"
         /\ q.prefixed \subseteq Nat /\ IsFiniteSet(q.prefixed)
         /\ q.exact \subseteq q.prefixed /\ Cardinality(q.exact) <= 1
  BY <1>1, NamedByCommand
<1>3. IF q.exact # {} /\ q.exact \subseteq Ids(table)
      THEN page' = SetToSeq(q.exact) /\ phase' = "shown"
      ELSE phase' = "prefix" /\ UNCHANGED page
  BY <1>2 DEF GetExact
<1>4. CASE page' = SetToSeq(q.exact) /\ phase' = "shown" /\ q.exact # {}
  <2>1. IsFiniteSet(q.exact) /\ Cardinality(q.exact) \in Nat /\ Cardinality(q.exact) # 0
    BY <1>2, <1>4, FS_Subset, FS_CardinalityType, FS_EmptySet
  <2>2. Cardinality(q.exact) = 1 /\ q.exact \in SUBSET Nat
    BY <1>2, <2>1
  <2>3. page' \in Seq(Nat) /\ Len(page') = 1 /\ page'[1] \in q.prefixed
    BY <1>2, <1>4, <2>1, <2>2, SequenceOfOne
  <2> QED BY <1>1, <1>2, <1>4, <2>3, CommandStepKeepsQueryInd
<1>5. CASE phase' = "prefix" /\ UNCHANGED page
  <2>1. page' \in Seq(Nat)
    BY <1>5 DEF QueryInd
  <2> QED BY <1>1, <1>2, <1>5, <2>1, CommandStepKeepsQueryInd
<1> QED BY <1>3, <1>4, <1>5

(* As long as no more were captured than it looks through, the command     *)
(* looks through all rows.                                                 *)
LEMMA NewestIsAll ==
    ASSUME traffic \in Traffics, recorded \in 0 .. Len(traffic), TableOK, recorded <= PrefixLimit
    PROVE  Newest = Ids(table)
<1>1. recorded \in Nat /\ PrefixLimit \in Nat
  BY TrafficAssumption, QueryAssumption
<1>2. ASSUME NEW r \in table PROVE Cardinality({s \in table : s.id > r.id}) < PrefixLimit
  <2> DEFINE R == {s \in table : s.id > r.id}
             K == r.id + 1 .. recorded
             f == [s \in R |-> s.id]
  <2>1. r.id \in 1 .. recorded
    BY DEF TableOK
  <2>2. \A s \in R : s.id \in K
    BY <1>1, <2>1 DEF TableOK
  <2>3. \A s, t \in R : s.id = t.id => s = t
    BY DEF TableOK
  <2>4. f \in [R -> K] /\ \A s, t \in R : f[s] = f[t] => s = t
    BY <2>2, <2>3
  <2>5. PICK a : a = r.id + 1
    OBVIOUS
  <2>6. IsFiniteSet(K) /\ Cardinality(K) < recorded
    <3>1. a \in Int /\ recorded \in Int /\ a \in 2 .. recorded + 1
      BY <1>1, <2>1, <2>5
    <3>2. /\ IsFiniteSet(a .. recorded)
          /\ Cardinality(a .. recorded) = IF a > recorded THEN 0 ELSE recorded - a + 1
      BY <3>1, FS_Interval
    <3> QED BY <1>1, <2>1, <2>5, <3>1, <3>2
  <2> HIDE DEF R, K, f
  <2>7. f \in Injection(R, K)
    BY <2>4, Fun_IsInj
  <2>8. IsFiniteSet(R) /\ Cardinality(R) <= Cardinality(K)
    BY <2>6, <2>7, FS_Injection
  <2>9. Cardinality(R) \in Nat /\ Cardinality(K) \in Nat
    BY <2>6, <2>8, FS_CardinalityType
  <2>10. Cardinality(R) < PrefixLimit
    BY <1>1, <2>6, <2>8, <2>9
  <2> QED BY <2>10 DEF R
<1>3. {r \in table : Cardinality({s \in table : s.id > r.id}) < PrefixLimit} = table
  BY <1>2
<1> QED BY <1>3 DEF Newest

(* The id as the beginning of one of the newest.                           *)
LEMMA MatchPrefixKeepsQueryInd ==
    ASSUME QueryInd, MatchPrefix
    PROVE  QueryInd'
<1>1. phase = "prefix" /\ UNCHANGED <<storeVars, ask, call, offset, total, seen, there, left>>
  BY DEF MatchPrefix
<1>2. PICK q \in ask, c \in call :
         /\ ask = {q} /\ call = {c} /\ q.kind = "get" /\ q.door = "cli"
         /\ q.prefixed \subseteq Nat /\ IsFiniteSet(q.prefixed) /\ Cardinality(q.prefixed) \in Nat
         /\ there \subseteq q.prefixed /\ there \subseteq Ids(Answer(c))
  BY <1>1, NamedByCommand
<1>3. PICK matches : matches = Newest \cap q.prefixed
  OBVIOUS
<1>4. IF Cardinality(matches) = 1
      THEN page' = SetToSeq(matches) /\ phase' = "fetch"
      ELSE phase' = "refused" /\ UNCHANGED page
  BY <1>2, <1>3 DEF MatchPrefix
<1>5. matches \in SUBSET Nat /\ IsFiniteSet(matches) /\ matches \subseteq q.prefixed
  BY <1>2, <1>3, FS_Subset
<1>6. CASE Cardinality(matches) = 1 /\ page' = SetToSeq(matches) /\ phase' = "fetch"
  <2>1. page' \in Seq(Nat) /\ Len(page') = 1 /\ page'[1] \in q.prefixed
    BY <1>5, <1>6, SequenceOfOne
  <2> QED BY <1>1, <1>2, <1>6, <2>1, CommandStepKeepsQueryInd
<1>7. CASE Cardinality(matches) # 1 /\ phase' = "refused" /\ UNCHANGED page
  <2>1. page' \in Seq(Nat)
    BY <1>7 DEF QueryInd
  <2>2. ASSUME there # {}, ~ (recorded > PrefixLimit) PROVE Cardinality(q.prefixed) > 1
    <3>1. traffic \in Traffics /\ recorded \in 0 .. Len(traffic) /\ TableOK
      BY DEF QueryInd
    <3>2. recorded <= PrefixLimit
      BY <2>2, <3>1, TrafficAssumption, QueryAssumption
    <3>3. Newest = Ids(table)
      BY <3>1, <3>2, NewestIsAll
    <3>4. there \subseteq matches
      BY <1>2, <1>3, <3>3, AnswersAreStored
    <3>5. Cardinality(matches) \in Nat /\ Cardinality(matches) # 0
      BY <1>5, <2>2, <3>4, FS_CardinalityType, FS_EmptySet
    <3>6. Cardinality(matches) <= Cardinality(q.prefixed)
      BY <1>2, <1>5, FS_Subset
    <3> QED BY <1>2, <1>7, <3>5, <3>6
  <2> QED BY <1>1, <1>2, <1>7, <2>1, <2>2, CommandStepKeepsQueryInd
<1> QED BY <1>4, <1>6, <1>7

(* The request that was found, which may be gone.                          *)
LEMMA FetchMatchKeepsQueryInd ==
    ASSUME QueryInd, FetchMatch
    PROVE  QueryInd'
<1>1. /\ phase = "fetch" /\ UNCHANGED <<storeVars, ask, call, offset, page, total, seen, there, left>>
      /\ phase' = IF Range(page) \subseteq Ids(table) THEN "shown" ELSE "refused"
  BY DEF FetchMatch
<1>2. PICK q \in ask, c \in call :
         /\ ask = {q} /\ call = {c} /\ q.kind = "get" /\ q.door = "cli"
         /\ q.prefixed \subseteq Nat /\ IsFiniteSet(q.prefixed) /\ Cardinality(q.prefixed) \in Nat
         /\ there \subseteq q.prefixed /\ there \subseteq Ids(Answer(c))
  BY <1>1, NamedByCommand
<1>3. page \in Seq(Nat) /\ Len(page) = 1 /\ page[1] \in q.prefixed
  BY <1>1, <1>2 DEF QueryInd, NamedOK
<1>4. ASSUME phase' = "refused", there # {} PROVE Cardinality(q.prefixed) > 1
  <2>1. Range(page) = {page[k] : k \in 1 .. Len(page)}
    BY <1>3, RangeEquality
  <2>2. page[1] \notin Ids(table)
    BY <1>1, <1>3, <1>4, <2>1
  <2>3. PICK x : x \in there
    BY <1>4
  <2>4. x \in q.prefixed /\ x # page[1]
    BY <1>2, <2>2, <2>3, AnswersAreStored
  <2>5. Cardinality(q.prefixed) # 0 /\ Cardinality(q.prefixed) # 1
    BY <1>2, <1>3, <2>4, FS_EmptySet, FS_Singleton
  <2> QED BY <1>2, <2>5
<1>5. page' \in Seq(Nat) /\ Len(page') = 1 /\ page'[1] \in q.prefixed
  BY <1>1, <1>3
<1>6. phase' \in {"shown", "refused"}
  BY <1>1
<1> QED BY <1>1, <1>2, <1>4, <1>5, <1>6, CommandStepKeepsQueryInd

-----------------------------------------------------------------------------
(* The invariant holds at first, and every step keeps it.                  *)
LEMMA QueryInitInd == QueryInit => QueryInd
<1> SUFFICES ASSUME QueryInit PROVE QueryInd
  OBVIOUS
<1>1. /\ traffic \in Traffics /\ recorded = 0 /\ table = {} /\ toggles = 0
      /\ ask = {} /\ call = {} /\ phase = "idle" /\ offset = 0 /\ page = <<>>
      /\ seen = {} /\ there = {} /\ left = 0
  BY DEF QueryInit
<1>2. recorded \in 0 .. Len(traffic) /\ toggles \in 0 .. MaxToggles
  BY <1>1, TrafficAssumption, QueryAssumption
<1> QED BY <1>1, <1>2 DEF QueryInd, TableOK, CallOK, PagingOK, NamedOK

(* One case for every kind of step. *)
LEMMA QueryStepInd == QueryInd /\ [QueryNext]_queryVars => QueryInd'
<1> SUFFICES ASSUME QueryInd, [QueryNext]_queryVars PROVE QueryInd'
  OBVIOUS
<1>1. CASE UNCHANGED queryVars
  <2>1. /\ UNCHANGED storeVars
        /\ UNCHANGED <<ask, call, phase, offset, page, seen, there, left>>
    BY <1>1 DEF queryVars, readerVars
  <2>2. /\ traffic' \in Traffics /\ recorded' \in 0 .. Len(traffic') /\ toggles' \in 0 .. MaxToggles
        /\ TableOK' /\ UNCHANGED <<traffic, recorded, table, toggles>>
    BY <2>1, ReadersLeaveTheTable
  <2>3. \A c : Ids(Answer(c))' = Ids(Answer(c))
    BY <2>1, AnswersStay
  <2>4. (LastPage' <=> LastPage) /\ (Reading' <=> Reading)
    BY <2>1 DEF LastPage, Reading
  <2>5. CallOK' /\ NamedOK'
    BY <2>1, <2>2, <2>3 DEF QueryInd, CallOK, NamedOK
  <2>6. \A c \in call :
           /\ Hidden(c.kind, Ids(Answer(c)), there \ seen, offset)'
                 = Hidden(c.kind, Ids(Answer(c)), there \ seen, offset)
           /\ Hidden(c.kind, Ids(Answer(c)), there \ seen, offset + c.limit)'
                 = Hidden(c.kind, Ids(Answer(c)), there \ seen, offset + c.limit)
    <3> TAKE c \in call
    <3>1. offset' = offset /\ there' = there /\ seen' = seen /\ Ids(Answer(c))' = Ids(Answer(c))
      BY <2>1, <2>3
    <3>2. Hidden(c.kind, Ids(Answer(c)), there \ seen, offset)'
             = Hidden(c.kind, Ids(Answer(c)), there \ seen, offset)
      BY <2>2, <3>1 DEF Hidden, Place, Above
    <3>3. Hidden(c.kind, Ids(Answer(c)), there \ seen, offset + c.limit)'
             = Hidden(c.kind, Ids(Answer(c)), there \ seen, offset + c.limit)
      BY <2>2, <3>1 DEF Hidden, Place, Above
    <3> QED BY <3>2, <3>3
  <2>7. PagingOK'
    BY <2>1, <2>3, <2>4, <2>6 DEF QueryInd, PagingOK
  <2> QED BY <2>1, <2>2, <2>5, <2>7 DEF QueryInd
<1>2. CASE QueryNext
  <2>1. CASE \/ Capture
             \/ \E r \in table : Respond(r) \/ Toggle(r) \/ Evict(r)
             \/ ClearRequests
    BY <2>1, StoreStepsKeepQueryInd
  <2>2. CASE \E q \in Questions[traffic] : AskTool(q) \/ AskCommand(q) \/ AskBar(q)
    BY <2>2, AskingKeepsQueryInd
  <2>3. CASE AnswerList
    BY <2>3, AnswerListKeepsQueryInd
  <2>4. CASE AnswerCount
    BY <2>4, AnswerCountKeepsQueryInd
  <2>5. CASE GetRequest
    BY <2>5, GetRequestKeepsQueryInd
  <2>6. CASE GetExact
    BY <2>6, GetExactKeepsQueryInd
  <2>7. CASE MatchPrefix
    BY <2>7, MatchPrefixKeepsQueryInd
  <2>8. CASE FetchMatch
    BY <2>8, FetchMatchKeepsQueryInd
  <2>9. CASE NextPage
    BY <2>9, NextPageKeepsQueryInd
  <2>10. CASE EndReading
    BY <2>10, EndReadingKeepsQueryInd
  <2> QED BY <1>2, <2>1, <2>2, <2>3, <2>4, <2>5, <2>6, <2>7, <2>8, <2>9, <2>10 DEF QueryNext
<1> QED BY <1>1, <1>2

(* Whatever the table does between two calls (storage.ts, saveRequest to   *)
(* evictIfNeeded), a reader who pages has been shown all rows that matched *)
(* since the first page and stand before the next one, but for as many as  *)
(* left the answer; a tool that gets ids one by one has those that were    *)
(* there all the time and that it came to; and the one the command found   *)
(* begins as typed.                                                        *)
THEOREM ReadingsAreTracked == QuerySpec => []QueryInd
<1>1. QueryInit => QueryInd
  BY QueryInitInd
<1>2. QueryInd /\ [QueryNext]_queryVars => QueryInd'
  BY QueryStepInd
<1> QED BY <1>1, <1>2, PTL DEF QuerySpec

(* Paging with limit and offset (listRequestsSummary) misses no more rows  *)
(* than left the answer meanwhile, and new traffic hides none.  Requests   *)
(* asked for by id are found (httap_get_request, resolveRequest), unless   *)
(* the beginning of an id is not enough, or more were captured than the    *)
(* command looks through.                                                  *)
THEOREM NothingAskedForIsMissed == QuerySpec => []QueryInv
<1>1. QueryInd => QueryInv
  <2> SUFFICES ASSUME QueryInd PROVE QueryInv
    OBVIOUS
  <2>1. /\ traffic \in Traffics /\ recorded \in 0 .. Len(traffic) /\ TableOK
        /\ toggles \in 0 .. MaxToggles
        /\ phase \in {"idle", "list", "count", "get", "exact", "prefix", "fetch",
                      "shown", "refused", "failed"}
        /\ seen \cup there \subseteq 1 .. recorded
        /\ left \in Nat /\ CallOK /\ PagingOK /\ NamedOK
    BY DEF QueryInd
  <2>2. ask = {} \/ \E q \in Questions[traffic] : ask = {q}
    BY <2>1 DEF CallOK
  <2>3. Cardinality(ask) <= 1 /\ ask \subseteq Questions[traffic]
    <3>1. CASE ask = {}
      BY <3>1, FS_EmptySet
    <3>2. CASE \E q \in Questions[traffic] : ask = {q}
      <4>1. PICK q \in Questions[traffic] : ask = {q}
        BY <3>2
      <4>2. Cardinality({q}) = 1
        BY FS_Singleton
      <4> QED BY <4>1, <4>2
    <3> QED BY <2>2, <3>1, <3>2
  <2>4. Cardinality(call) <= 1
    <3>1. CASE call = {}
      BY <3>1, FS_EmptySet
    <3>2. CASE call # {}
      <4>1. PICK c \in call : call = {c}
        BY <2>1, <3>2 DEF CallOK
      <4>2. Cardinality({c}) = 1
        BY FS_Singleton
      <4> QED BY <4>1, <4>2
    <3> QED BY <3>1, <3>2
  <2>5. \A c \in call : c.kind \in {"list", "search", "count", "json", "get"} /\ c.limit \in Nat
    <3>1. call # {} => ask # {}
      BY <2>1 DEF CallOK
    <3> QED BY <2>1, <3>1 DEF CallOK
  <2>6. QueryTypeOK
    BY <2>1, <2>3, <2>4, <2>5, StoredWasCaptured DEF QueryTypeOK
  <2>7. PagingMissesOnlyWhatLeaves
    <3> SUFFICES ASSUME phase = "shown", LastPage, \A q \in ask : q.kind # "get"
                 PROVE  Cardinality(there \ seen) <= left
      BY DEF PagingMissesOnlyWhatLeaves
    <3>1. PICK c \in call : call = {c}
      BY <2>1 DEF CallOK
    <3>2. PICK q \in ask : TRUE
      BY <2>1 DEF CallOK
    <3>3. c.kind # "get"
      BY <2>1, <3>1, <3>2 DEF CallOK
    <3>4. CASE c.kind = "count"
      <4>1. there = {}
        BY <2>1, <3>1, <3>2, <3>4 DEF CallOK
      <4>2. there \ seen = {}
        BY <4>1
      <4> QED BY <2>1, <4>2, FS_EmptySet
    <3>5. CASE c.kind # "count"
      BY <2>1, <3>3, <3>5 DEF PagingOK
    <3> QED BY <3>4, <3>5
  <2>8. NamedIsFound
    <3> SUFFICES ASSUME NEW q \in ask, q.kind = "get"
                 PROVE  /\ q.door = "mcp" /\ phase = "shown" => there \subseteq Range(page)
                        /\ q.door = "cli" /\ phase = "shown" =>
                              Len(page) = 1 /\ page[1] \in q.prefixed
                        /\ q.door = "cli" /\ phase = "refused" /\ there # {} =>
                              \/ Cardinality(q.prefixed) > 1
                              \/ recorded > PrefixLimit
      BY DEF NamedIsFound
    <3>1. CASE call = {}
      BY <2>1, <3>1 DEF CallOK
    <3>2. CASE call # {}
      BY <2>1, <3>2 DEF NamedOK
    <3> QED BY <3>1, <3>2
  <2> QED BY <2>6, <2>7, <2>8 DEF QueryInv
<1> QED BY <1>1, ReadingsAreTracked, PTL

-----------------------------------------------------------------------------
(* Statuses, hosts and paths. *)

(* A status: the bounds of a class are those of its hundred.               *)
LEMMA StatusMeans ==
    ASSUME NEW s, NEW status \in Int, ValidateStatusRange(s),
           s.form = "range" => s.n \in Int /\ s.to \in Int
    PROVE  ApplyStatusCondition(s, status) <=> MeansStatus(s, status)
<1>1. CASE s.form = "class"
  <2>1. s.n \in 1 .. 5
    BY <1>1 DEF ValidateStatusRange
  <2>2. status \div 100 = s.n <=> s.n * 100 <= status /\ status < (s.n + 1) * 100
    <3>1. PICK n \in 1 .. 5 : n = s.n
      BY <2>1
    <3>2. status \div 100 = n <=> n * 100 <= status /\ status < (n + 1) * 100
      OBVIOUS
    <3> QED BY <3>1, <3>2
  <2>3. ApplyStatusCondition(s, status) <=> status >= s.n * 100 /\ status < (s.n + 1) * 100
    BY <1>1, <2>1 DEF ApplyStatusCondition, ValidateStatusRange
  <2>4. MeansStatus(s, status) <=> status \div 100 = s.n
    BY <1>1 DEF MeansStatus
  <2> QED BY <2>1, <2>2, <2>3, <2>4
<1>2. CASE s.form = "range"
  BY <1>2 DEF ApplyStatusCondition, MeansStatus, ValidateStatusRange
<1>3. CASE s.form = "code"
  BY <1>3 DEF ApplyStatusCondition, MeansStatus, ValidateStatusRange
<1> QED BY <1>1, <1>2, <1>3 DEF ValidateStatusRange

(* A path begins with a prefix when some cut of it is the prefix.          *)
LEMMA PrefixMeans ==
    ASSUME NEW S, NEW p \in Seq(S), NEW path \in Seq(S)
    PROVE  IsPrefix(p, path) <=> \E i \in 0 .. Len(path) : SubSeq(path, 1, i) = p
<1>1. Len(p) \in Nat /\ Len(path) \in Nat /\ SubSeq(p, 1, Len(p)) = p
  BY SubSeqFull
<1>2. ASSUME NEW i \in 0 .. Len(path), SubSeq(path, 1, i) = p PROVE Len(p) = i
  <2>1. \A k \in 1 .. i : path[k] \in S
    BY <1>1
  <2>2. i \in Int /\ i >= 0
    BY <1>1
  <2>3. Len(SubSeq(path, 1, i)) = IF 1 <= i THEN i - 1 + 1 ELSE 0
    BY <2>1, <2>2, SubSeqProperties
  <2>4. Len(SubSeq(path, 1, i)) = i
    BY <2>2, <2>3
  <2> QED BY <1>2, <2>4
<1>3. IsPrefix(p, path) <=> Len(p) <= Len(path) /\ p = SubSeq(path, 1, Len(p))
  BY <1>1 DEF IsPrefix
<1>4. Len(p) <= Len(path) => Len(p) \in 0 .. Len(path)
  BY <1>1
<1>5. \A i \in 0 .. Len(path) : i <= Len(path)
  BY <1>1
<1> QED BY <1>2, <1>3, <1>4, <1>5

(* A host ends in labels when some cut of it is the labels.                *)
LEMMA SuffixMeans ==
    ASSUME NEW S, NEW s \in Seq(S), NEW t \in Seq(S)
    PROVE  IsSuffix(s, t) <=> Len(s) <= Len(t) /\ \A k \in 1 .. Len(s) : s[k] = t[Len(t) - Len(s) + k]
<1> DEFINE m == Len(s)
           n == Len(t)
           rs == Reverse(s)
           rt == Reverse(t)
<1>1. m \in Nat /\ n \in Nat
  OBVIOUS
<1>2. /\ rs \in Seq(S) /\ Len(rs) = m /\ \A k \in 1 .. m : rs[k] = s[m - k + 1]
      /\ rt \in Seq(S) /\ Len(rt) = n /\ \A k \in 1 .. n : rt[k] = t[n - k + 1]
  BY DEF Reverse
<1> HIDE DEF rs, rt
<1>3. IsSuffix(s, t) <=> m <= n /\ SubSeq(rs, 1, m) = SubSeq(rt, 1, m)
  BY <1>2 DEF IsSuffix, IsPrefix, rs, rt
<1>4. ASSUME m <= n
      PROVE  SubSeq(rs, 1, m) = SubSeq(rt, 1, m) <=> \A k \in 1 .. m : rs[k] = rt[k]
  <2>1. SubSeq(rs, 1, m) = rs
    BY <1>2, SubSeqFull
  <2>2. \A k \in 1 .. m : rt[k] \in S
    BY <1>1, <1>2, <1>4
  <2>3. /\ SubSeq(rt, 1, m) \in Seq(S) /\ Len(SubSeq(rt, 1, m)) = m
        /\ \A k \in 1 .. m : SubSeq(rt, 1, m)[k] = rt[k]
    <3>1. /\ SubSeq(rt, 1, m) \in Seq(S)
          /\ Len(SubSeq(rt, 1, m)) = IF 1 <= m THEN m - 1 + 1 ELSE 0
          /\ \A k \in 1 .. m - 1 + 1 : SubSeq(rt, 1, m)[k] = rt[1 + k - 1]
      BY <1>1, <2>2, SubSeqProperties
    <3> QED BY <1>1, <3>1
  <2> QED BY <1>2, <2>1, <2>3, SeqEqual
<1>5. ASSUME m <= n
      PROVE  (\A k \in 1 .. m : rs[k] = rt[k]) <=> \A k \in 1 .. m : s[k] = t[n - m + k]
  <2>1. ASSUME \A k \in 1 .. m : rs[k] = rt[k], NEW k \in 1 .. m PROVE s[k] = t[n - m + k]
    <3>1. m - k + 1 \in 1 .. m /\ m - k + 1 \in 1 .. n
      BY <1>1, <1>5
    <3>2. rs[m - k + 1] = s[m - (m - k + 1) + 1] /\ rt[m - k + 1] = t[n - (m - k + 1) + 1]
      BY <1>2, <3>1
    <3>3. m - (m - k + 1) + 1 = k /\ n - (m - k + 1) + 1 = n - m + k
      BY <1>1
    <3> QED BY <2>1, <3>1, <3>2, <3>3
  <2>2. ASSUME \A k \in 1 .. m : s[k] = t[n - m + k], NEW k \in 1 .. m PROVE rs[k] = rt[k]
    <3>1. m - k + 1 \in 1 .. m /\ k \in 1 .. n
      BY <1>1, <1>5
    <3>2. s[m - k + 1] = t[n - m + (m - k + 1)]
      BY <2>2, <3>1
    <3>3. n - m + (m - k + 1) = n - k + 1
      BY <1>1
    <3> QED BY <1>2, <3>1, <3>2, <3>3
  <2> QED BY <2>1, <2>2
<1> QED BY <1>1, <1>3, <1>4, <1>5

(* A host: with a leading dot a proper ending of it, without one the whole *)
(* of it.                                                                  *)
LEMMA HostMeans ==
    ASSUME NEW h, h.labels \in Seq(STRING) \ {<<>>}, h.suffix \in BOOLEAN, NEW host \in Seq(STRING)
    PROVE  HostMatches(h, host) <=>
              \E i \in 1 .. Len(host) :
                 SubSeq(host, i, Len(host)) = h.labels /\ (h.suffix <=> i > 1)
<1> DEFINE n == Len(host)
<1>1. PICK s \in Seq(STRING) : s = h.labels /\ s # <<>>
  OBVIOUS
<1>2. n \in Nat /\ Len(s) \in Nat /\ Len(s) > 0
  BY <1>1, EmptySeq
<1>3. ASSUME NEW i \in 1 .. n
      PROVE  SubSeq(host, i, n) = s
                <=> /\ Len(s) = n - i + 1
                    /\ \A k \in 1 .. Len(s) : s[k] = host[n - Len(s) + k]
  <2>1. \A k \in i .. n : host[k] \in STRING
    BY <1>2
  <2>2. /\ SubSeq(host, i, n) \in Seq(STRING) /\ Len(SubSeq(host, i, n)) = n - i + 1
        /\ \A k \in 1 .. n - i + 1 : SubSeq(host, i, n)[k] = host[i + k - 1]
    <3>1. /\ SubSeq(host, i, n) \in Seq(STRING)
          /\ Len(SubSeq(host, i, n)) = IF i <= n THEN n - i + 1 ELSE 0
          /\ \A k \in 1 .. n - i + 1 : SubSeq(host, i, n)[k] = host[i + k - 1]
      BY <1>2, <2>1, SubSeqProperties
    <3> QED BY <1>2, <3>1
  <2>3. ASSUME Len(s) = n - i + 1
        PROVE  \A k \in 1 .. Len(s) : n - Len(s) + k = i + k - 1
    BY <1>2, <2>3
  <2>4. ASSUME SubSeq(host, i, n) = s
        PROVE  Len(s) = n - i + 1 /\ \A k \in 1 .. Len(s) : s[k] = host[n - Len(s) + k]
    BY <2>2, <2>3, <2>4
  <2>5. ASSUME Len(s) = n - i + 1, \A k \in 1 .. Len(s) : s[k] = host[n - Len(s) + k]
        PROVE  SubSeq(host, i, n) = s
    <3>1. \A k \in 1 .. Len(s) : SubSeq(host, i, n)[k] = s[k]
      BY <2>2, <2>3, <2>5
    <3> QED BY <1>1, <2>2, <2>5, <3>1, SeqEqual
  <2> QED BY <2>4, <2>5
<1> HIDE DEF n
<1>4. CASE h.suffix = TRUE
  <2>1. HostMatches(h, host) <=>
           Len(s) < n /\ \A k \in 1 .. Len(s) : s[k] = host[n - Len(s) + k]
    <3>1. HostMatches(h, host) <=> n > Len(s) /\ IsSuffix(s, host)
      BY <1>1, <1>4 DEF HostMatches, n
    <3>2. IsSuffix(s, host) <=> Len(s) <= n /\ \A k \in 1 .. Len(s) : s[k] = host[n - Len(s) + k]
      BY SuffixMeans DEF n
    <3> QED BY <1>2, <3>1, <3>2
  <2>2. ASSUME Len(s) < n, \A k \in 1 .. Len(s) : s[k] = host[n - Len(s) + k]
        PROVE  \E i \in 1 .. n : SubSeq(host, i, n) = s /\ i > 1
    <3>1. n - Len(s) + 1 \in 1 .. n /\ n - Len(s) + 1 > 1 /\ Len(s) = n - (n - Len(s) + 1) + 1
      BY <1>2, <2>2
    <3> QED BY <1>3, <2>2, <3>1
  <2>3. ASSUME NEW i \in 1 .. n, SubSeq(host, i, n) = s, i > 1
        PROVE  Len(s) < n /\ \A k \in 1 .. Len(s) : s[k] = host[n - Len(s) + k]
    <3>1. /\ Len(s) = n - i + 1
          /\ \A k \in 1 .. Len(s) : s[k] = host[n - Len(s) + k]
      BY <1>3, <2>3
    <3>2. n - i + 1 < n
      BY <1>2, <2>3
    <3> QED BY <3>1, <3>2
  <2> QED BY <1>1, <1>4, <2>1, <2>2, <2>3 DEF n
<1>5. CASE h.suffix = FALSE
  <2>1. HostMatches(h, host) <=> host = s
    BY <1>1, <1>5 DEF HostMatches
  <2>2. SubSeq(host, 1, n) = host
    BY SubSeqFull DEF n
  <2>3. host = s => 1 \in 1 .. n
    BY <1>2 DEF n
  <2>4. \A i \in 1 .. n : ~ (i > 1) => i = 1
    BY <1>2
  <2>5. 1 > 1 <=> FALSE
    OBVIOUS
  <2> QED BY <1>1, <1>5, <2>1, <2>2, <2>3, <2>4, <2>5 DEF n
<1> QED BY <1>4, <1>5

-----------------------------------------------------------------------------
(* Times: parseTime and the moments that are meant. *)

(* Division by days.                                                       *)
LEMMA DivFacts ==
    ASSUME NEW a \in Int, NEW d \in Nat \ {0}
    PROVE  a \div d \in Int /\ d * (a \div d) <= a /\ a < d * (a \div d) + d
OBVIOUS

(* A number between two multiples of d has the lower one as its quotient.  *)
LEMMA DivUnique ==
    ASSUME NEW a \in Int, NEW d \in Nat \ {0}, NEW q \in Int, d * q <= a, a < d * q + d
    PROVE  a \div d = q
<1>1. PICK p \in Int : p = a \div d /\ d * p <= a /\ a < d * p + d
  BY DivFacts
<1>2. ~ (p < q)
  <2> SUFFICES ASSUME p + 1 <= q PROVE FALSE
    BY <1>1
  <2>1. d * (p + 1) <= d * q
    OBVIOUS
  <2>2. d * (p + 1) = d * p + d
    OBVIOUS
  <2> QED BY <1>1, <2>1, <2>2
<1>3. ~ (q < p)
  <2> SUFFICES ASSUME q + 1 <= p PROVE FALSE
    BY <1>1
  <2>1. d * (q + 1) <= d * p
    OBVIOUS
  <2>2. d * (q + 1) = d * q + d
    OBVIOUS
  <2> QED BY <1>1, <2>1, <2>2
<1> QED BY <1>1, <1>2, <1>3

(* Multiples of a day are ordered as their factors.                        *)
LEMMA DaysInOrder ==
    ASSUME NEW d \in Nat \ {0}, NEW a \in Int, NEW b \in Int
    PROVE  /\ a * d \in Int /\ b * d \in Int
           /\ a < b <=> a * d < b * d
           /\ a = b <=> a * d = b * d
<1>1. ASSUME NEW x \in Int, NEW y \in Int, x < y PROVE x * d < y * d
  <2>1. (x + 1) * d <= y * d
    BY <1>1
  <2>2. (x + 1) * d = x * d + d
    OBVIOUS
  <2> QED BY <2>1, <2>2
<1>2. a * d \in Int /\ b * d \in Int
  OBVIOUS
<1>3. a < b => a * d < b * d
  BY <1>1
<1>4. b < a => b * d < a * d
  BY <1>1
<1> QED BY <1>2, <1>3, <1>4

(* Days of the clock: midnight of today, of days before, and their numbers.*)
LEMMA Days ==
    /\ Now \div Day \in Int /\ Now \div Day >= 7
    /\ (Now - Day) \div Day = (Now \div Day) - 1
    /\ \A d \in Int : (d * Day) \div Day = d /\ d * Day \in Int
<1>1. Now \in Int /\ Day \in Nat \ {0} /\ Now >= 7 * Day
  BY QueryAssumption
<1>2. PICK q \in Int : q = Now \div Day /\ Day * q <= Now /\ Now < Day * q + Day
  BY <1>1, DivFacts
<1>3. q >= 7
  <2> SUFFICES ASSUME q + 1 <= 7 PROVE FALSE
    BY <1>2
  <2>1. Day * (q + 1) <= Day * 7
    BY <1>1
  <2>2. Day * (q + 1) = Day * q + Day
    BY <1>1
  <2> QED BY <1>1, <1>2, <2>1, <2>2
<1>4. (Now - Day) \div Day = q - 1
  <2>1. Day * (q - 1) = Day * q - Day
    BY <1>1
  <2>2. Now - Day \in Int /\ Day * (q - 1) <= Now - Day /\ Now - Day < Day * (q - 1) + Day
    BY <1>1, <1>2, <2>1
  <2> QED BY <1>1, <2>2, DivUnique
<1>5. ASSUME NEW d \in Int PROVE (d * Day) \div Day = d /\ d * Day \in Int
  <2>1. d * Day \in Int /\ Day * d = d * Day
    BY <1>1
  <2> QED BY <1>1, <2>1, DivUnique
<1> QED BY <1>2, <1>3, <1>4, <1>5

(* A weekday lies one to seven days back.                                  *)
LEMMA DaysBackFacts ==
    ASSUME NEW w \in 0 .. 6, NEW q \in Int, q = Now \div Day
    PROVE  /\ DaysBack(w) \in 1 .. 7
           /\ (q - DaysBack(w)) % 7 = w
           /\ \A d \in Int : d < q /\ d + 7 >= q /\ d % 7 = w => d = q - DaysBack(w)
<1>1. PICK b : b = DaysBack(w)
  OBVIOUS
<1>2. b = IF (q % 7) - w <= 0 THEN (q % 7) - w + 7 ELSE (q % 7) - w
  BY <1>1 DEF DaysBack
<1>3. q % 7 \in 0 .. 6
  OBVIOUS
<1>4. b \in 1 .. 7
  BY <1>2, <1>3
<1>5. (q - b) % 7 = w
  BY <1>2, <1>3, <1>4
<1>6. ASSUME NEW d \in Int, d < q, d + 7 >= q, d % 7 = w PROVE d = q - b
  BY <1>2, <1>3, <1>4, <1>6
<1> QED BY <1>1, <1>4, <1>5, <1>6

(* A time: parseTime computes the moment that is meant.                    *)
LEMMA TimeMeans ==
    ASSUME NEW w, w.form \in {"ago", "today", "yesterday", "weekday", "clock", "date"},
           w.form \in {"ago", "clock", "date"} => w.n \in Int,
           w.form = "weekday" => w.n \in 0 .. 6
    PROVE  ParseTime(w) = MeansTime(w) /\ ParseTime(w) \in Int
<1> DEFINE midnights == {d * Day : d \in 0 .. (Now \div Day)}
<1>1. Now \in Int /\ Day \in Nat \ {0}
  BY QueryAssumption
<1>2. PICK q \in Int : q = Now \div Day /\ q >= 7 /\ (Now - Day) \div Day = q - 1
  BY Days
<1>3. \A d \in Int : (d * Day) \div Day = d /\ d * Day \in Int
  BY Days
<1>4. PICK today \in Int : today = Midnight(Now) /\ today = q * Day
  BY <1>2, <1>3 DEF Midnight
<1>5. CASE w.form \in {"ago", "today", "clock", "date"}
  <2>1. /\ w.form = "ago" => ParseTime(w) = Now - w.n /\ MeansTime(w) = Now - w.n
        /\ w.form = "today" => ParseTime(w) = Midnight(Now) /\ MeansTime(w) = Midnight(Now)
        /\ w.form = "clock" => ParseTime(w) = Midnight(Now) + w.n /\ MeansTime(w) = Midnight(Now) + w.n
        /\ w.form = "date" => ParseTime(w) = w.n /\ MeansTime(w) = w.n
    BY DEF ParseTime, MeansTime
  <2> QED BY <1>1, <1>4, <1>5, <2>1
<1>6. CASE w.form = "yesterday"
  <2>1. ParseTime(w) = (q - 1) * Day
    BY <1>2, <1>6 DEF ParseTime, Midnight
  <2>2. MeansTime(w) = CHOOSE m \in midnights : m + Day = Midnight(Now)
    BY <1>6 DEF MeansTime
  <2>3. (q - 1) * Day + Day = today /\ (q - 1) * Day \in Int
    BY <1>1, <1>4
  <2>4. (q - 1) * Day \in midnights
    BY <1>2
  <2>5. ASSUME NEW m \in midnights, m + Day = today PROVE m = (q - 1) * Day
    <3>1. PICK d \in Int : m = d * Day
      BY <1>2
    <3>2. m \in Int
      BY <1>3, <3>1
    <3> QED BY <1>1, <2>3, <2>5, <3>2
  <2> HIDE DEF midnights
  <2> QED BY <1>4, <2>1, <2>2, <2>3, <2>4, <2>5
<1>7. CASE w.form = "weekday"
  <2>1. PICK b \in 1 .. 7 : b = DaysBack(w.n)
    BY <1>2, <1>7, DaysBackFacts
  <2>2. PICK d0 \in Int : d0 = q - b
    BY <1>2
  <2>3. d0 \in 0 .. q /\ d0 < q /\ d0 + 7 >= q /\ d0 % 7 = w.n
    BY <1>2, <1>7, <2>1, <2>2, DaysBackFacts
  <2>4. ParseTime(w) = d0 * Day
    <3>1. ParseTime(w) = Midnight(Now) - DaysBack(w.n) * Day
      BY <1>7 DEF ParseTime
    <3>2. q * Day - b * Day = (q - b) * Day
      BY <1>1
    <3> QED BY <1>4, <2>1, <2>2, <3>1, <3>2
  <2>5. MeansTime(w) = CHOOSE m \in midnights :
                          m < Midnight(Now) /\ m + 7 * Day >= Midnight(Now) /\ (m \div Day) % 7 = w.n
    BY <1>7 DEF MeansTime
  <2>6. ASSUME NEW d \in Int
        PROVE  (d * Day < today /\ d * Day + 7 * Day >= today /\ ((d * Day) \div Day) % 7 = w.n)
                  <=> d < q /\ d + 7 >= q /\ d % 7 = w.n
    <3>1. d * Day < today <=> d < q
      BY <1>1, <1>4, DaysInOrder
    <3>2. d * Day + 7 * Day = (d + 7) * Day
      BY <1>1
    <3>3. (d + 7) * Day < today <=> d + 7 < q
      <4>1. d + 7 \in Int
        OBVIOUS
      <4> QED BY <1>1, <1>4, <4>1, DaysInOrder
    <3>4. (d + 7) * Day \in Int
      BY <1>1
    <3> QED BY <1>3, <1>4, <3>1, <3>2, <3>3, <3>4
  <2>7. d0 * Day \in midnights
    BY <1>2, <2>3
  <2>8. ASSUME NEW m \in midnights, m < today, m + 7 * Day >= today, (m \div Day) % 7 = w.n
        PROVE  m = d0 * Day
    <3>1. PICK d \in Int : m = d * Day
      BY <1>2
    <3>2. d < q /\ d + 7 >= q /\ d % 7 = w.n
      BY <2>6, <2>8, <3>1
    <3>3. d = d0
      BY <1>2, <1>7, <2>1, <2>2, <3>2, DaysBackFacts
    <3> QED BY <3>1, <3>3
  <2>9. d0 * Day < today /\ d0 * Day + 7 * Day >= today /\ ((d0 * Day) \div Day) % 7 = w.n
    BY <2>3, <2>6
  <2> HIDE DEF midnights
  <2>10. MeansTime(w) = d0 * Day
    BY <1>4, <2>5, <2>7, <2>8, <2>9
  <2> QED BY <1>3, <2>4, <2>10
<1> QED BY <1>5, <1>6, <1>7

-----------------------------------------------------------------------------
(* What a door makes of a question. *)

(* The call is the one the question's door makes of it.                    *)
Asks(q, c) ==
    \/ /\ q.door = "mcp" /\ ~ RefusedByTool(q)
       /\ \/ q.kind = "list"   /\ c = ListRequestsTool(q)
          \/ q.kind = "search" /\ c = SearchBodiesTool(q)
          \/ q.kind = "count"  /\ c = CountRequestsTool(q)
          \/ q.kind = "json"   /\ c = QueryJsonTool(q)
          \/ q.kind = "get"    /\ c = GetRequestTool(q)
    \/ /\ q.door = "cli" /\ ~ RefusedByCommand(q)
       /\ \/ q.kind = "list"   /\ c = RequestsCommand(q)
          \/ q.kind = "search" /\ c = SearchSubcommand(q)
          \/ q.kind = "count"  /\ c = CountSubcommand(q)
          \/ q.kind = "json"   /\ c = QuerySubcommand(q)
          \/ q.kind = "get"    /\ c = RequestCommand(q)
    \/ q.door = "bar" /\ c = CallOfBar(q)

(* What every door hands on as it is typed reaches the query.              *)
TypedConditions(q, f) ==
    /\ f.status = q.status /\ f.host = q.host /\ f.path = q.path
    /\ f.since = {ParseTime(t) : t \in q.since} /\ f.before = {ParseTime(t) : t \in q.before}
    /\ f.headerName = q.headerName
    /\ q.headerName # {} => f.headerValue = q.headerValue /\ f.target = q.headerTarget \cap Targets
    /\ f.by = q.by /\ f.source = q.source

(* The filter of a tool, as it reaches the query (buildFilter of the       *)
(* tools, optionalFilter).                                                 *)
LEMMA FilterOfToolFields ==
    ASSUME NEW q
    PROVE  LET f == OptionalFilter(FilterOfTool(q)) IN
           /\ TypedConditions(q, f)
           /\ f.methods = MethodNames(q) \ {""}
           /\ f.words = UNION {y.words : y \in q.search}
           /\ f.regex = {r.pattern : r \in q.regex}
           /\ f.saved = q.saved
BY DEF OptionalFilter, FilterOfTool, Common, TypedConditions, NormaliseRegexFilterInput

(* That of a command (buildFilter of the command line).                    *)
LEMMA FilterOfCommandFields ==
    ASSUME NEW q
    PROVE  LET f == OptionalFilter(FilterOfCommand(q)) IN
           /\ TypedConditions(q, f)
           /\ f.methods = MethodNames(q)
           /\ f.words = UNION {WordsOf(y) : y \in q.search}
           /\ f.regex = (UNION {PatternOf(y) : y \in q.search}) \cup {r.pattern : r \in q.regex}
           /\ f.saved = q.saved \cap {TRUE}
BY DEF OptionalFilter, FilterOfCommand, Common, TypedConditions, NormaliseRegexFilterInput

(* That of a subcommand, for a question without the flags of its command.  *)
LEMMA DefaultFilterFields ==
    ASSUME NEW q, Unflagged(q)
    PROVE  LET f == OptionalFilter(DefaultFilter) IN
           /\ TypedConditions(q, f)
           /\ f.methods = {} /\ f.words = {} /\ f.regex = {} /\ f.saved = {}
           /\ MethodNames(q) = {}
BY DEF OptionalFilter, DefaultFilter, Unflagged, TypedConditions, MethodNames, Range

(* That of the filter bar (buildFilterState).                              *)
LEMMA FilterOfBarFields ==
    ASSUME NEW q
    PROVE  LET f == OptionalFilter(FilterOfBar(q))
               texts  == {y \in q.search : ParseBodyScopeInput(y) = {}}
               failed == {y \in texts : IsLiteral(y) /\ ~ y.valid}
           IN
           /\ TypedConditions(q, f)
           /\ f.methods = MethodNames(q)
           /\ f.words = UNION ({WordsOf(y) : y \in texts} \cup {y.words : y \in failed})
           /\ f.regex = UNION {PatternOf(y) : y \in texts \ failed}
           /\ f.saved = q.saved \cap {TRUE}
BY DEF OptionalFilter, FilterOfBar, Common, TypedConditions, NormaliseRegexFilterInput

(* What the columns of a row hold.                                         *)
StoredColumns(x) ==
    /\ x.method # "" /\ x.status \in Int /\ x.timestamp \in Int
    /\ x.host \in Seq(STRING) /\ x.path \in Seq(STRING)
    /\ x.reqBody \subseteq BodyType /\ x.resBody \subseteq BodyType
    /\ AtMostOne(x.by) /\ AtMostOne(x.source)

(* With or without a response, the columns of a row are of their types.    *)
LEMMA ColumnsAreStored ==
    ASSUME NEW r, traffic[r.id] \in Exchange, AtMostOne(traffic[r.id].source), AtMostOne(traffic[r.id].by)
    PROVE  StoredColumns(Columns(r))
<1>1. PICK e \in Exchange : e = traffic[r.id] /\ AtMostOne(e.source) /\ AtMostOne(e.by)
  OBVIOUS
<1>2. StoredColumns(e)
  BY <1>1 DEF Exchange, StoredColumns
<1>3. CASE r.answered
  BY <1>1, <1>2, <1>3 DEF Columns
<1>4. CASE ~ r.answered
  <2>1. Columns(r) = [e EXCEPT !.status = NoStatus, !.resHeaders = {}, !.resBody = {}, !.by = {}]
    BY <1>1, <1>4 DEF Columns
  <2>2. PICK x : x = Columns(r)
    OBVIOUS
  <2>3. /\ x.method = e.method /\ x.status = NoStatus /\ x.timestamp = e.timestamp
        /\ x.host = e.host /\ x.path = e.path /\ x.reqBody = e.reqBody /\ x.resBody = {}
        /\ x.by = {} /\ x.source = e.source
    BY <2>1, <2>2 DEF Exchange
  <2>4. NoStatus \in Int /\ AtMostOne({})
    BY DEF NoStatus, AtMostOne
  <2> QED BY <1>2, <2>2, <2>3, <2>4 DEF StoredColumns
<1> QED BY <1>3, <1>4

-----------------------------------------------------------------------------
(* Bodies and texts. *)

(* The bodies a target names in a call, and those it means as it is typed. *)
SameBodies(target, typed) ==
    \/ /\ target = {"request"} /\ typed \cap {"res", "response"} = {}
       /\ typed \cap {"req", "request"} # {}
    \/ /\ target = {"response"} /\ typed \cap {"req", "request"} = {}
       /\ typed \cap {"res", "response"} # {}
    \/ /\ target \notin {{"request"}, {"response"}}
       /\ typed \cap {"req", "request"} = {} /\ typed \cap {"res", "response"} = {}

(* The bodies a call looks at are those that are meant.                    *)
LEMMA BodiesAreMeant ==
    ASSUME NEW target, NEW typed, SameBodies(target, typed), NEW x
    PROVE  UNION Range(Bodies(target, x)) = MeansOf(typed, x.reqBody, x.resBody)
<1>1. CASE target = {"request"}
  <2>1. Range(Bodies(target, x)) = {x.reqBody}
    BY <1>1 DEF Bodies, Range
  <2>2. typed \cap {"res", "response"} = {} /\ typed \cap {"req", "request"} # {}
    BY <1>1 DEF SameBodies
  <2> QED BY <2>1, <2>2 DEF MeansOf
<1>2. CASE target = {"response"}
  <2>1. Range(Bodies(target, x)) = {x.resBody}
    <3>1. {"request"} # {"response"}
      OBVIOUS
    <3> QED BY <1>2, <3>1 DEF Bodies, Range
  <2>2. typed \cap {"req", "request"} = {} /\ typed \cap {"res", "response"} # {}
    <3>1. {"request"} # {"response"}
      OBVIOUS
    <3> QED BY <1>2, <3>1 DEF SameBodies
  <2> QED BY <2>1, <2>2 DEF MeansOf
<1>3. CASE target \notin {{"request"}, {"response"}}
  <2>1. Range(Bodies(target, x)) = {x.reqBody, x.resBody}
    <3>1. Bodies(target, x) = <<x.reqBody, x.resBody>>
      BY <1>3 DEF Bodies
    <3> QED BY <3>1 DEF Range
  <2>2. typed \cap {"req", "request"} = {} /\ typed \cap {"res", "response"} = {}
    BY <1>3 DEF SameBodies
  <2> QED BY <2>1, <2>2 DEF MeansOf
<1> QED BY <1>1, <1>2, <1>3

(* A body that may be text is one that is not binary.                      *)
LEMMA BodyMeans ==
    ASSUME NEW c, NEW typed, SameBodies(c.target, typed), NEW r, StoredColumns(Columns(r))
    PROVE  BodyContains(c, r) <=> MeansBody(c.body, typed, Columns(r))
<1> DEFINE x == Columns(r)
<1>1. UNION Range(Bodies(c.target, x)) = MeansOf(typed, x.reqBody, x.resBody)
  BY BodiesAreMeant
<1>2. \A b \in MeansOf(typed, x.reqBody, x.resBody) : TextContent(b) <=> b.type # "binary"
  BY DEF MeansOf, StoredColumns, BodyType, TextContent
<1> HIDE DEF x
<1> QED BY <1>1, <1>2 DEF BodyContains, MeansBody, x

(* The words and patterns of a tool.                                       *)
LEMMA ToolTextsMean ==
    ASSUME NEW q, q.door = "mcp", NEW x, NEW f,
           f.words = UNION {y.words : y \in q.search}, f.regex = {r.pattern : r \in q.regex}
    PROVE  (f.words \subseteq x.words /\ f.regex \subseteq x.patterns)
              <=> /\ \A y \in q.search : MeansText(q, y, x)
                  /\ \A r \in q.regex : r.pattern \in x.patterns
BY DEF MeansText

(* Those of a command: a text between slashes is a pattern.                *)
LEMMA CommandTextsMean ==
    ASSUME NEW q, q.door = "cli", ~ FlagsRefused(q), NEW x, NEW f,
           f.words = UNION {WordsOf(y) : y \in q.search},
           f.regex = (UNION {PatternOf(y) : y \in q.search}) \cup {r.pattern : r \in q.regex}
    PROVE  (f.words \subseteq x.words /\ f.regex \subseteq x.patterns)
              <=> /\ \A y \in q.search : MeansText(q, y, x)
                  /\ \A r \in q.regex : r.pattern \in x.patterns
<1>1. \A y \in q.search : IsLiteral(y) => y.valid
  BY DEF FlagsRefused
<1>2. \A y \in q.search : MeansText(q, y, x) <=> WordsOf(y) \subseteq x.words /\ PatternOf(y) \subseteq x.patterns
  <2> TAKE y \in q.search
  <2>1. CASE IsLiteral(y)
    BY <1>1, <2>1 DEF MeansText, WordsOf, PatternOf, IsLiteral
  <2>2. CASE ~ IsLiteral(y)
    BY <2>2 DEF MeansText, WordsOf, PatternOf, IsLiteral
  <2> QED BY <2>1, <2>2
<1>3. f.words \subseteq x.words <=> \A y \in q.search : WordsOf(y) \subseteq x.words
  OBVIOUS
<1>4. f.regex \subseteq x.patterns
         <=> /\ \A y \in q.search : PatternOf(y) \subseteq x.patterns
             /\ \A r \in q.regex : r.pattern \in x.patterns
  <2> DEFINE A == UNION {PatternOf(y) : y \in q.search}
             B == {r.pattern : r \in q.regex}
  <2>1. f.regex = A \cup B
    BY Zenon
  <2>2. A \subseteq x.patterns <=> \A y \in q.search : PatternOf(y) \subseteq x.patterns
    BY Zenon
  <2>3. B \subseteq x.patterns <=> \A r \in q.regex : r.pattern \in x.patterns
    BY Zenon
  <2> HIDE DEF A, B
  <2>4. \A S, T, U : S = T \cup U => \A V : S \subseteq V <=> T \subseteq V /\ U \subseteq V
    BY Zenon
  <2> QED BY ONLY <2>1, <2>2, <2>3, <2>4, Zenon
<1> QED BY <1>2, <1>3, <1>4

(* Those of the filter bar: what is about bodies is a search of them.      *)
LEMMA BarTextsMean ==
    ASSUME NEW q, q.door = "bar", AtMostOne(q.search), NEW r, StoredColumns(Columns(r)),
           \A y \in q.search : y.form \in {"words", "literal", "body"}, NEW f,
           f = OptionalFilter(FilterOfBar(q)), NEW c, c = CallOfBar(q)
    PROVE  LET x == Columns(r) IN
           (f.words \subseteq x.words /\ f.regex \subseteq x.patterns /\ (c.kind = "search" => BodyContains(c, r)))
              <=> \A y \in q.search : MeansText(q, y, x)
<1> DEFINE texts  == {y \in q.search : ParseBodyScopeInput(y) = {}}
           failed == {y \in texts : IsLiteral(y) /\ ~ y.valid}
           scopes == UNION {ParseBodyScopeInput(y) : y \in q.search}
<1>1. PICK x : x = Columns(r)
  OBVIOUS
<1>2. /\ f.words = UNION ({WordsOf(y) : y \in texts} \cup {y.words : y \in failed})
      /\ f.regex = UNION {PatternOf(y) : y \in texts \ failed}
  BY FilterOfBarFields
<1>3. /\ c.kind = IF scopes = {} THEN "list" ELSE "search"
      /\ c.body = UNION {s.query : s \in scopes} /\ c.target = UNION {s.target : s \in scopes}
  BY DEF CallOfBar, Call
<1>4. CASE q.search = {}
  BY <1>2, <1>3, <1>4
<1>5. ASSUME NEW y \in q.search, q.search = {y} PROVE 
           (f.words \subseteq x.words /\ f.regex \subseteq x.patterns /\ (c.kind = "search" => BodyContains(c, r)))
              <=> MeansText(q, y, x)
  <2>0. scopes = ParseBodyScopeInput(y)
    BY <1>5
  <2>00. MeansWords(y) = IF ParseBodySearchTarget(y.target) = {} THEN y.rest ELSE y.query
    BY DEF MeansWords, ParseBodySearchTarget
  <2>1. CASE y.form = "body" /\ MeansWords(y) # {}
    <3>1. PICK t : t = IF ParseBodySearchTarget(y.target) = {} THEN {"both"}
                       ELSE ParseBodySearchTarget(y.target)
      OBVIOUS
    <3>2. ParseBodyScopeInput(y) = {[query |-> MeansWords(y), target |-> t]}
      BY <2>00, <2>1, <3>1 DEF ParseBodyScopeInput
    <3>3. texts = {} /\ failed = {}
      BY <1>5, <3>2
    <3>4. c.kind = "search" /\ c.body = MeansWords(y) /\ c.target = t
      <4>1. PICK s : s = [query |-> MeansWords(y), target |-> t]
        OBVIOUS
      <4>2. scopes = {s} /\ s.query = MeansWords(y) /\ s.target = t
        BY <2>0, <3>2, <4>1
      <4>3. {z.query : z \in {s}} = {MeansWords(y)} /\ {z.target : z \in {s}} = {t}
        BY <4>2
      <4> HIDE DEF scopes
      <4> QED BY <1>3, <4>2, <4>3
    <3>5. f.words = {} /\ f.regex = {}
      BY <1>2, <3>3
    <3>6. SameBodies(t, {y.target})
      BY <3>1 DEF SameBodies, ParseBodySearchTarget
    <3>7. MeansText(q, y, x) <=> MeansBody(MeansWords(y), {y.target}, x)
      BY <2>1 DEF MeansText
    <3> QED BY <1>1, <3>4, <3>5, <3>6, <3>7, BodyMeans
  <2>2. CASE ~ (y.form = "body" /\ MeansWords(y) # {})
    <3>1. ParseBodyScopeInput(y) = {}
      BY <2>00, <2>2 DEF ParseBodyScopeInput
    <3>2. texts = {y} /\ c.kind = "list"
      BY <1>3, <1>5, <2>0, <3>1
    <3>3. CASE IsLiteral(y) /\ y.valid
      <4>1. failed = {}
        BY <3>2, <3>3
      <4>2. f.words = WordsOf(y) /\ f.regex = PatternOf(y)
        BY <1>2, <3>2, <4>1
      <4>3. WordsOf(y) = {} /\ PatternOf(y) = {y.pattern} /\ (MeansText(q, y, x) <=> y.pattern \in x.patterns)
        BY <3>3 DEF WordsOf, PatternOf, IsLiteral, MeansText
      <4> QED BY <3>2, <4>2, <4>3
    <3>4. CASE IsLiteral(y) /\ ~ y.valid
      <4>1. failed = {y}
        BY <3>2, <3>4
      <4>2. f.words = WordsOf(y) \cup y.words /\ f.regex = {}
        BY <1>2, <3>2, <4>1
      <4>3. WordsOf(y) = {} /\ (MeansText(q, y, x) <=> y.words \subseteq x.words)
        BY <2>2, <3>4 DEF WordsOf, IsLiteral, MeansText
      <4> QED BY <3>2, <4>2, <4>3
    <3>5. CASE ~ IsLiteral(y)
      <4>1. failed = {}
        BY <3>2, <3>5
      <4>2. f.words = WordsOf(y) /\ f.regex = PatternOf(y)
        BY <1>2, <3>2, <4>1
      <4>3. WordsOf(y) = y.words /\ PatternOf(y) = {} /\ (MeansText(q, y, x) <=> y.words \subseteq x.words)
        BY <2>2, <3>5 DEF WordsOf, PatternOf, IsLiteral, MeansText
      <4> QED BY <3>2, <4>2, <4>3
    <3> QED BY <3>3, <3>4, <3>5
  <2> QED BY <2>1, <2>2
<1> HIDE DEF texts, failed, scopes
<1> QED BY <1>1, <1>4, <1>5 DEF AtMostOne

(* The field of a row meets the question.                                  *)
MeetsField(q, x) ==
    /\ MeansField(q, x) # {}
    /\ q.value = {} \/ MeansField(q, x) = {[type |-> "text", text |-> v] : v \in q.value}

(* A field: the response's is taken only where the request gave none.      *)
LEMMA FieldMeans ==
    ASSUME NEW c, NEW q, c.target = q.bodyTarget,
           c.value = q.value, AtMostOne(q.value), NEW r
    PROVE  (DeclaredJson(c, r) /\ FieldMatches(c, r))
              <=> MeetsField(q, Columns(r))
<1> DEFINE V == UNION {b.field : b \in Extracted(c, r)}
<1>1. PICK x : x = Columns(r)
  OBVIOUS
<1>2. PICK A : A = {b \in x.reqBody : JsonContent(b)}
  OBVIOUS
<1>3. PICK B : B = {b \in x.resBody : JsonContent(b)}
  OBVIOUS
<1>4. PICK FA : FA = UNION {b.field : b \in A}
  OBVIOUS
<1>5. PICK FB : FB = UNION {b.field : b \in B}
  OBVIOUS
<1>6. FA = {} <=> \A b \in A : b.field = {}
  BY <1>4
<1>7. /\ MeansField(q, x) =
            IF UNION {b.field : b \in {d \in {e \in x.reqBody : q.bodyTarget # {"response"}} : d.type = "json"}} # {}
            THEN UNION {b.field : b \in {d \in {e \in x.reqBody : q.bodyTarget # {"response"}} : d.type = "json"}}
            ELSE UNION {b.field : b \in {d \in {e \in x.resBody : q.bodyTarget # {"request"}} : d.type = "json"}}
  BY DEF MeansField
<1>8. {"request"} # {"response"}
  OBVIOUS
<1>9. DeclaredJson(c, r) <=> \E b \in UNION Range(Bodies(c.target, x)) : JsonContent(b)
  BY <1>1 DEF DeclaredJson
<1>10. ASSUME V = MeansField(q, x), V # {} => DeclaredJson(c, r)
       PROVE  (DeclaredJson(c, r) /\ FieldMatches(c, r))
                 <=> MeetsField(q, x)
  <2> DEFINE T(v) == [type |-> "text", text |-> v]
  <2>1. FieldMatches(c, r) <=> V # {} /\ \A v \in q.value : V = {T(v)}
    BY DEF FieldMatches
  <2>2. MeetsField(q, x) <=> V # {} /\ (q.value = {} \/ V = {T(v) : v \in q.value})
    BY <1>10 DEF MeetsField
  <2> HIDE DEF V, T
  <2>3. (\A v \in q.value : V = {T(v)}) <=> (q.value = {} \/ V = {T(v) : v \in q.value})
    <3>1. CASE q.value = {}
      BY <3>1
    <3>2. ASSUME NEW w, q.value = {w}
          PROVE  (\A v \in q.value : V = {T(v)}) <=> (q.value = {} \/ V = {T(v) : v \in q.value})
      <4>1. {T(v) : v \in q.value} = {T(w)}
        BY <3>2
      <4> QED BY <3>2, <4>1
    <3> QED BY <3>1, <3>2 DEF AtMostOne
  <2> QED BY <1>10, <2>1, <2>2, <2>3
<1>11. CASE c.target = {"request"}
  <2>1. Bodies(c.target, x) = <<x.reqBody>>
    BY <1>11 DEF Bodies
  <2>2. Extracted(c, r) = A
    BY <1>1, <1>2, <2>1 DEF Extracted
  <2>3. MeansField(q, x) = FA
    <3>1. {d \in {e \in x.reqBody : q.bodyTarget # {"response"}} : d.type = "json"} = A
      BY <1>2, <1>8, <1>11 DEF JsonContent
    <3>2. {d \in {e \in x.resBody : q.bodyTarget # {"request"}} : d.type = "json"} = {}
      BY <1>11
    <3> QED BY <1>4, <1>7, <3>1, <3>2
  <2>4. V = FA
    BY <1>4, <2>2
  <2>5. FA # {} => DeclaredJson(c, r)
    <3>1. Range(Bodies(c.target, x)) = {x.reqBody}
      BY <2>1 DEF Range
    <3> QED BY <1>2, <1>4, <1>9, <3>1
  <2> HIDE DEF V
  <2> QED BY <1>1, <1>10, <2>3, <2>4, <2>5
<1>12. CASE c.target = {"response"}
  <2>1. Bodies(c.target, x) = <<x.resBody>>
    BY <1>8, <1>12 DEF Bodies
  <2>2. Extracted(c, r) = B
    BY <1>1, <1>3, <2>1 DEF Extracted
  <2>3. MeansField(q, x) = FB
    <3>1. {d \in {e \in x.reqBody : q.bodyTarget # {"response"}} : d.type = "json"} = {}
      BY <1>12
    <3>2. {d \in {e \in x.resBody : q.bodyTarget # {"request"}} : d.type = "json"} = B
      BY <1>3, <1>8, <1>12 DEF JsonContent
    <3> QED BY <1>5, <1>7, <3>1, <3>2
  <2>4. V = FB
    BY <1>5, <2>2
  <2>5. FB # {} => DeclaredJson(c, r)
    <3>1. Range(Bodies(c.target, x)) = {x.resBody}
      BY <2>1 DEF Range
    <3> QED BY <1>3, <1>5, <1>9, <3>1
  <2> HIDE DEF V
  <2> QED BY <1>1, <1>10, <2>3, <2>4, <2>5
<1>13. CASE c.target \notin {{"request"}, {"response"}}
  <2>1. Bodies(c.target, x) = <<x.reqBody, x.resBody>>
    BY <1>13 DEF Bodies
  <2>2. MeansField(q, x) = IF FA # {} THEN FA ELSE FB
    <3>1. {d \in {e \in x.reqBody : q.bodyTarget # {"response"}} : d.type = "json"} = A
      BY <1>2, <1>13 DEF JsonContent
    <3>2. {d \in {e \in x.resBody : q.bodyTarget # {"request"}} : d.type = "json"} = B
      BY <1>3, <1>13 DEF JsonContent
    <3> QED BY <1>4, <1>5, <1>7, <3>1, <3>2
  <2>3. Extracted(c, r) = IF FA = {} THEN A \cup B ELSE A
    <3> DEFINE W == Bodies(c.target, Columns(r))
               D == [i \in DOMAIN W |-> {b \in W[i] : JsonContent(b)}]
               K == {j \in DOMAIN W : \A k \in 1 .. j - 1 : \A b \in D[k] : b.field = {}}
    <3>1. Extracted(c, r) = UNION {D[i] : i \in K}
      BY DEF Extracted
    <3>2. W = <<x.reqBody, x.resBody>> /\ DOMAIN W = 1 .. 2
      BY <1>1, <2>1
    <3>3. D[1] = A /\ D[2] = B
      BY <1>2, <1>3, <3>2
    <3> HIDE DEF D
    <3>4. K = IF FA = {} THEN {1, 2} ELSE {1}
      BY <1>6, <3>2, <3>3
    <3> HIDE DEF K
    <3> QED BY <3>1, <3>3, <3>4
  <2>4. V = IF FA # {} THEN FA ELSE FB
    <3>1. FA # {} => V = FA
      BY <1>4, <2>3
    <3>2. FA = {} => V = FA \cup FB
      BY <1>4, <1>5, <2>3
    <3> HIDE DEF V
    <3> QED BY <3>1, <3>2
  <2>5. V # {} => DeclaredJson(c, r)
    <3>1. Range(Bodies(c.target, x)) = {x.reqBody, x.resBody}
      BY <2>1 DEF Range
    <3>2. FA # {} => DeclaredJson(c, r)
      BY <1>2, <1>4, <1>9, <3>1
    <3>3. FB # {} => DeclaredJson(c, r)
      BY <1>3, <1>5, <1>9, <3>1
    <3> HIDE DEF V
    <3> QED BY <2>4, <3>2, <3>3
  <2> HIDE DEF V
  <2> QED BY <1>1, <1>10, <2>2, <2>4, <2>5
<1> QED BY <1>11, <1>12, <1>13

-----------------------------------------------------------------------------
(* The other conditions. *)

(* A header of the part that is asked about.                               *)
LEMMA HeadersMean ==
    ASSUME NEW q, q.headerTarget \subseteq Targets, AtMostOne(q.headerTarget), AtMostOne(q.headerValue),
           NEW f, f.target = q.headerTarget \cap Targets, f.headerValue = q.headerValue, NEW x, NEW n
    PROVE  HeaderMatches(f, x, n)
              <=> \E h \in MeansOf(q.headerTarget, x.reqHeaders, x.resHeaders) :
                     h.name = n /\ q.headerValue \in {{}, {h.value}}
<1>1. f.target = q.headerTarget
  OBVIOUS
<1>2. \A h : (\A v \in f.headerValue : h.value = v) <=> q.headerValue \in {{}, {h.value}}
  BY DEF AtMostOne
<1>3. \A S : HasHeader(S, n, f.headerValue) <=> \E h \in S : h.name = n /\ q.headerValue \in {{}, {h.value}}
  BY <1>2 DEF HasHeader
<1>4. q.headerTarget \in {{}, {"both"}, {"request"}, {"response"}}
  BY DEF Targets, AtMostOne
<1>5. \/ /\ f.target \in {{}, {"both"}}
         /\ MeansOf(q.headerTarget, x.reqHeaders, x.resHeaders) = x.reqHeaders \cup x.resHeaders
         /\ f.target # {"request"} /\ f.target # {"response"}
      \/ /\ f.target = {"request"}
         /\ MeansOf(q.headerTarget, x.reqHeaders, x.resHeaders) = x.reqHeaders
         /\ f.target \notin {{}, {"both"}} /\ f.target # {"response"}
      \/ /\ f.target = {"response"}
         /\ MeansOf(q.headerTarget, x.reqHeaders, x.resHeaders) = x.resHeaders
         /\ f.target \notin {{}, {"both"}} /\ f.target # {"request"}
  <2>1. {"both"} # {"request"} /\ {"both"} # {"response"} /\ {"request"} # {"response"}
    OBVIOUS
  <2>2. CASE q.headerTarget \in {{}, {"both"}}
    BY <1>1, <2>1, <2>2 DEF MeansOf
  <2>3. CASE q.headerTarget = {"request"}
    BY <1>1, <2>1, <2>3 DEF MeansOf
  <2>4. CASE q.headerTarget = {"response"}
    BY <1>1, <2>1, <2>4 DEF MeansOf
  <2> QED BY <1>4, <2>2, <2>3, <2>4
<1> QED BY <1>3, <1>5 DEF HeaderMatches

(* The times that are asked for are those that are meant.                  *)
LEMMA TimesMean ==
    ASSUME NEW t \in Traffics, NEW q \in Questions[t],
           \A w \in q.since \cup q.before : w.form # "word", NEW n \in Int
    PROVE  /\ (\A s \in {ParseTime(w) : w \in q.since} : n >= s) <=> \A w \in q.since : MeansTime(w) <= n
           /\ (\A s \in {ParseTime(w) : w \in q.before} : n < s) <=> \A w \in q.before : n < MeansTime(w)
<1>1. \A w \in q.since \cup q.before : ParseTime(w) = MeansTime(w) /\ ParseTime(w) \in Int
  <2> TAKE w \in q.since \cup q.before
  <2>1. /\ w.form \in {"ago", "today", "yesterday", "weekday", "clock", "date", "word"}
        /\ w.form \in {"ago", "clock", "date"} => w.n \in Int
        /\ w.form = "weekday" => w.n \in 0 .. 6
    BY FormAssumption
  <2> QED BY <2>1, TimeMeans
<1>2. ASSUME NEW S, S \subseteq q.since \cup q.before
      PROVE  /\ (\A s \in {ParseTime(w) : w \in S} : n >= s) <=> \A w \in S : MeansTime(w) <= n
             /\ (\A s \in {ParseTime(w) : w \in S} : n < s) <=> \A w \in S : n < MeansTime(w)
  <2>1. \A w \in S : n >= ParseTime(w) <=> MeansTime(w) <= n
    BY <1>1, <1>2
  <2>2. \A w \in S : n < ParseTime(w) <=> n < MeansTime(w)
    BY <1>1, <1>2
  <2> QED BY <2>1, <2>2
<1> QED BY <1>2

(* The methods.                                                            *)
LEMMA MethodsMean ==
    ASSUME NEW q, q.door = "mcp" \/ MethodNames(q) # {""}, NEW m, m # "", NEW f,
           f.methods = IF q.door = "mcp" THEN MethodNames(q) \ {""} ELSE MethodNames(q)
    PROVE  (f.methods # {} => m \in f.methods)
              <=> ((\E w \in Range(q.methods) : UpperCase[w] # "")
                      => \E w \in Range(q.methods) : UpperCase[w] = m)
<1> DEFINE N == MethodNames(q)
<1>1. (\E w \in Range(q.methods) : UpperCase[w] # "") <=> N \ {""} # {}
  BY DEF MethodNames
<1>2. (\E w \in Range(q.methods) : UpperCase[w] = m) <=> m \in N
  BY DEF MethodNames
<1> HIDE DEF N
<1>3. CASE q.door = "mcp"
  BY <1>1, <1>2, <1>3 DEF N
<1>4. CASE q.door # "mcp"
  <2>1. f.methods = N /\ N # {""}
    BY <1>4 DEF N
  <2>2. N = {} \/ N \ {""} # {}
    BY <2>1
  <2> QED BY <1>1, <1>2, <2>1, <2>2
<1> QED BY <1>3, <1>4

(* A flag for saved requests.                                              *)
LEMMA SavedMeans ==
    ASSUME NEW s \in SUBSET BOOLEAN, AtMostOne(s), NEW b \in BOOLEAN
    PROVE  (\A v \in s : b = v) <=> s \in {{}, {b}}
BY DEF AtMostOne

(* An optional value a column has or not.                                  *)
LEMMA OptionMeans ==
    ASSUME NEW S, NEW T, AtMostOne(S), AtMostOne(T)
    PROVE  S \subseteq T <=> S \in {{}, T}
BY DEF AtMostOne

(* What is handed on as it is typed, and its words: the conditions of the  *)
(* query are what is meant.                                                *)
MeetsTyped(q, row) ==
    LET x == Columns(row)
    IN  /\ \A s \in q.status : MeansStatus(s, x.status)
        /\ \A h \in q.host :
              \E i \in 1 .. Len(x.host) :
                  SubSeq(x.host, i, Len(x.host)) = h.labels /\ (h.suffix <=> i > 1)
        /\ \A p \in q.path : \E i \in 0 .. Len(x.path) : SubSeq(x.path, 1, i) = p
        /\ \A t \in q.since : MeansTime(t) <= x.timestamp
        /\ \A t \in q.before : x.timestamp < MeansTime(t)
        /\ \A n \in q.headerName :
              \E h \in MeansOf(q.headerTarget, x.reqHeaders, x.resHeaders) :
                  h.name = n /\ q.headerValue \in {{}, {h.value}}
        /\ q.by \in {{}, x.by}
        /\ q.source \in {{}, x.source}

(* Each of these conditions of the query is met by the rows that are       *)
(* meant.                                                                  *)
LEMMA TypedConditionsMean ==
    ASSUME NEW t \in Traffics, NEW q \in Questions[t], WellAsked(q),
           \A w \in q.since \cup q.before : w.form # "word",
           q.headerName # {} => q.headerTarget \subseteq Targets,
           NEW f, TypedConditions(q, f), NEW r, StoredColumns(Columns(r))
    PROVE  LET x == Columns(r) IN
           (/\ \A s \in f.status : ApplyStatusCondition(s, x.status)
            /\ \A h \in f.host : HostMatches(h, x.host)
            /\ \A p \in f.path : IsPrefix(p, x.path)
            /\ \A s \in f.since : x.timestamp >= s
            /\ \A s \in f.before : x.timestamp < s
            /\ f.by \subseteq x.by
            /\ f.source \subseteq x.source
            /\ \A n \in f.headerName : HeaderMatches(f, x, n)) <=> MeetsTyped(q, r)
<1>1. PICK x : x = Columns(r) /\ StoredColumns(x)
  OBVIOUS
<1>2. /\ f.status = q.status /\ f.host = q.host /\ f.path = q.path
      /\ f.since = {ParseTime(w) : w \in q.since} /\ f.before = {ParseTime(w) : w \in q.before}
      /\ f.headerName = q.headerName
      /\ q.headerName # {} => f.headerValue = q.headerValue /\ f.target = q.headerTarget \cap Targets
      /\ f.by = q.by /\ f.source = q.source
  BY DEF TypedConditions
<1>3. (\A s \in f.status : ApplyStatusCondition(s, x.status)) <=> \A s \in q.status : MeansStatus(s, x.status)
  <2>1. \A s \in q.status : ApplyStatusCondition(s, x.status) <=> MeansStatus(s, x.status)
    <3> TAKE s \in q.status
    <3>1. x.status \in Int
      BY <1>1 DEF StoredColumns
    <3>2. s.form = "range" => s.n \in Int /\ s.to \in Int
      BY FormAssumption
    <3>3. ValidateStatusRange(s)
      BY DEF WellAsked
    <3> QED BY <3>1, <3>2, <3>3, StatusMeans
  <2> QED BY <1>2, <2>1
<1>4. (\A h \in f.host : HostMatches(h, x.host))
         <=> \A h \in q.host : \E i \in 1 .. Len(x.host) :
                SubSeq(x.host, i, Len(x.host)) = h.labels /\ (h.suffix <=> i > 1)
  <2>1. \A h \in q.host : HostMatches(h, x.host) <=> \E i \in 1 .. Len(x.host) :
                SubSeq(x.host, i, Len(x.host)) = h.labels /\ (h.suffix <=> i > 1)
    <3> TAKE h \in q.host
    <3>1. x.host \in Seq(STRING)
      BY <1>1 DEF StoredColumns
    <3>2. h.labels \in Seq(STRING) \ {<<>>} /\ h.suffix \in BOOLEAN
      BY FormAssumption
    <3> QED BY <3>1, <3>2, HostMeans
  <2> QED BY <1>2, <2>1
<1>5. (\A p \in f.path : IsPrefix(p, x.path))
         <=> \A p \in q.path : \E i \in 0 .. Len(x.path) : SubSeq(x.path, 1, i) = p
  <2>1. \A p \in q.path : IsPrefix(p, x.path) <=> \E i \in 0 .. Len(x.path) : SubSeq(x.path, 1, i) = p
    <3> TAKE p \in q.path
    <3>1. x.path \in Seq(STRING)
      BY <1>1 DEF StoredColumns
    <3>2. p \in Seq(STRING)
      BY FormAssumption
    <3> QED BY <3>1, <3>2, PrefixMeans
  <2> QED BY <1>2, <2>1
<1>6. /\ (\A s \in f.since : x.timestamp >= s) <=> \A w \in q.since : MeansTime(w) <= x.timestamp
      /\ (\A s \in f.before : x.timestamp < s) <=> \A w \in q.before : x.timestamp < MeansTime(w)
  <2>1. PICK n \in Int : n = x.timestamp
    BY <1>1 DEF StoredColumns
  <2> QED BY <1>2, <2>1, TimesMean
<1>7. (\A n \in f.headerName : HeaderMatches(f, x, n))
         <=> \A n \in q.headerName :
                \E h \in MeansOf(q.headerTarget, x.reqHeaders, x.resHeaders) :
                   h.name = n /\ q.headerValue \in {{}, {h.value}}
  <2>1. AtMostOne(q.headerTarget) /\ AtMostOne(q.headerValue)
    BY FormAssumption
  <2>2. \A n \in q.headerName : HeaderMatches(f, x, n)
           <=> \E h \in MeansOf(q.headerTarget, x.reqHeaders, x.resHeaders) :
                  h.name = n /\ q.headerValue \in {{}, {h.value}}
    <3> TAKE n \in q.headerName
    <3> QED BY <1>2, <2>1, HeadersMean
  <2> QED BY <1>2, <2>2
<1>8. /\ f.by \subseteq x.by <=> q.by \in {{}, x.by}
      /\ f.source \subseteq x.source <=> q.source \in {{}, x.source}
  <2>1. AtMostOne(q.by) /\ AtMostOne(q.source)
    BY FormAssumption
  <2>2. AtMostOne(x.by) /\ AtMostOne(x.source)
    BY <1>1 DEF StoredColumns
  <2> QED BY <1>2, <2>1, <2>2, OptionMeans
<1> QED BY <1>1, <1>3, <1>4, <1>5, <1>6, <1>7, <1>8 DEF MeetsTyped

-----------------------------------------------------------------------------
(* The size of a page, and the parts of a call. *)

(* The limit of a tool is the nearest of those it allows.                  *)
LEMMA ClampIsNearest ==
    ASSUME NEW k \in Int
    PROVE  ClampLimit(k) = CHOOSE n \in 1 .. MaxLimit :
                              \A o \in 1 .. MaxLimit : (k - n) * (k - n) <= (k - o) * (k - o)
<1> DEFINE Near(n) == \A o \in 1 .. MaxLimit : (k - n) * (k - n) <= (k - o) * (k - o)
<1>1. PICK m \in Nat \ {0} : m = MaxLimit
  BY QueryAssumption
<1>2. PICK c \in 1 .. m : c = ClampLimit(k)
  BY <1>1 DEF ClampLimit
<1>3. ASSUME NEW o \in 1 .. m PROVE (k - c) * (k - c) <= (k - o) * (k - o)
                                    /\ ((k - o) * (k - o) <= (k - c) * (k - c) => o = c)
  <2>1. CASE k \in 1 .. m
    <3>1. c = k
      BY <1>1, <1>2, <2>1 DEF ClampLimit
    <3>2. (k - c) * (k - c) = 0
      BY <3>1
    <3>3. k - o # 0 => (k - o) * (k - o) > 0
      <4>1. ASSUME NEW i \in Int, i # 0 PROVE i * i > 0
        BY <4>1
      <4>2. k - o \in Int
        OBVIOUS
      <4> QED BY <4>1, <4>2
    <3>4. (k - o) * (k - o) >= 0
      <4>1. ASSUME NEW i \in Int PROVE i * i >= 0
        OBVIOUS
      <4>2. k - o \in Int
        OBVIOUS
      <4> QED BY <4>1, <4>2
    <3>5. k - o = 0 => o = c
      BY <3>1
    <3>6. (k - o) * (k - o) \in Int
      OBVIOUS
    <3> QED BY <3>2, <3>3, <3>4, <3>5, <3>6
  <2>2. ASSUME NEW a \in Nat, NEW b \in Nat PROVE a * a <= (a + b) * (a + b) /\ ((a + b) * (a + b) <= a * a => b = 0)
    <3>1. (a + b) * (a + b) = a * a + 2 * a * b + b * b
      OBVIOUS
    <3>2. 2 * a * b >= 0 /\ 2 * a * b \in Int /\ a * a \in Int
      OBVIOUS
    <3>3. b * b >= b /\ b * b \in Int
      OBVIOUS
    <3> QED BY <3>1, <3>2, <3>3
  <2>3. CASE k < 1
    <3>1. c = 1
      BY <1>1, <1>2, <2>3 DEF ClampLimit
    <3>2. PICK a \in Nat, b \in Nat : a = 1 - k /\ b = o - 1
      BY <1>1, <2>3
    <3>3. (k - c) * (k - c) = a * a /\ (k - o) * (k - o) = (a + b) * (a + b)
      BY <3>1, <3>2
    <3> QED BY <2>2, <3>1, <3>2, <3>3
  <2>4. CASE k > m
    <3>1. c = m
      BY <1>1, <1>2, <2>4 DEF ClampLimit
    <3>2. PICK a \in Nat, b \in Nat : a = k - m /\ b = m - o
      BY <1>1, <2>4
    <3>3. (k - c) * (k - c) = a * a /\ (k - o) * (k - o) = (a + b) * (a + b)
      BY <3>1, <3>2
    <3> QED BY <2>2, <3>1, <3>2, <3>3
  <2> QED BY <2>1, <2>3, <2>4
<1>4. Near(c)
  BY <1>1, <1>3
<1>5. \A n \in 1 .. MaxLimit : Near(n) => n = c
  BY <1>1, <1>2, <1>3
<1> HIDE DEF Near
<1>6. c = CHOOSE n \in 1 .. MaxLimit : Near(n)
  BY <1>1, <1>4, <1>5
<1> QED BY <1>2, <1>6 DEF Near

(* The parts of a call from a tool.                                        *)
LEMMA ToolCalls ==
    ASSUME NEW q, NEW c, Asks(q, c), q.door = "mcp"
    PROVE  /\ ~ RefusedByTool(q) /\ c.kind = q.kind /\ c.filter = FilterOfTool(q)
           /\ q.kind = "search" => c.body = q.body /\ c.target = q.bodyTarget
           /\ q.kind = "json" => c.value = q.value /\ c.target = q.bodyTarget
           /\ q.kind \in {"list", "search", "json"} => c.limit = PageOfTool(q)
<1>1. /\ ~ RefusedByTool(q)
      /\ \/ q.kind = "list"   /\ c = ListRequestsTool(q)
         \/ q.kind = "search" /\ c = SearchBodiesTool(q)
         \/ q.kind = "count"  /\ c = CountRequestsTool(q)
         \/ q.kind = "json"   /\ c = QueryJsonTool(q)
         \/ q.kind = "get"    /\ c = GetRequestTool(q)
  BY DEF Asks
<1>2. CASE q.kind = "list" /\ c = ListRequestsTool(q)
  BY <1>1, <1>2 DEF ListRequestsTool, Call
<1>3. CASE q.kind = "search" /\ c = SearchBodiesTool(q)
  BY <1>1, <1>3 DEF SearchBodiesTool, Call
<1>4. CASE q.kind = "count" /\ c = CountRequestsTool(q)
  BY <1>1, <1>4 DEF CountRequestsTool, Call
<1>5. CASE q.kind = "json" /\ c = QueryJsonTool(q)
  BY <1>1, <1>5 DEF QueryJsonTool, Call
<1>6. CASE q.kind = "get" /\ c = GetRequestTool(q)
  BY <1>1, <1>6 DEF GetRequestTool, Call
<1> QED BY <1>1, <1>2, <1>3, <1>4, <1>5, <1>6

(* The parts of a call from a command.                                     *)
LEMMA CommandCalls ==
    ASSUME NEW q, NEW c, Asks(q, c), q.door = "cli"
    PROVE  /\ ~ RefusedByCommand(q) /\ c.kind = q.kind
           /\ c.filter = IF q.kind \in Subcommands THEN DefaultFilter ELSE FilterOfCommand(q)
           /\ q.kind = "search" =>
                 c.body = q.body /\ c.target = UNION {ParseBodySearchTarget(t) : t \in q.bodyTarget}
           /\ q.kind = "json" => c.value = q.value /\ c.target = q.bodyTarget
           /\ q.kind = "list" => c.limit = PageOfCommand(q)
           /\ q.kind \in {"search", "json"} => c.limit = CommandLimit
<1>1. /\ ~ RefusedByCommand(q)
      /\ \/ q.kind = "list"   /\ c = RequestsCommand(q)
         \/ q.kind = "search" /\ c = SearchSubcommand(q)
         \/ q.kind = "count"  /\ c = CountSubcommand(q)
         \/ q.kind = "json"   /\ c = QuerySubcommand(q)
         \/ q.kind = "get"    /\ c = RequestCommand(q)
  BY DEF Asks
<1>2. CASE q.kind = "list" /\ c = RequestsCommand(q)
  BY <1>1, <1>2 DEF RequestsCommand, Call, Subcommands
<1>3. CASE q.kind = "search" /\ c = SearchSubcommand(q)
  BY <1>1, <1>3 DEF SearchSubcommand, Call, Subcommands
<1>4. CASE q.kind = "count" /\ c = CountSubcommand(q)
  BY <1>1, <1>4 DEF CountSubcommand, Call, Subcommands
<1>5. CASE q.kind = "json" /\ c = QuerySubcommand(q)
  BY <1>1, <1>5 DEF QuerySubcommand, Call, Subcommands
<1>6. CASE q.kind = "get" /\ c = RequestCommand(q)
  BY <1>1, <1>6 DEF RequestCommand, Call, Subcommands
<1> QED BY <1>1, <1>2, <1>3, <1>4, <1>5, <1>6

(* The parts of a call from the filter bar.                                *)
LEMMA BarCalls ==
    ASSUME NEW q, NEW c, Asks(q, c), q.door = "bar"
    PROVE  /\ c = CallOfBar(q) /\ c.kind \in {"list", "search"} /\ c.filter = FilterOfBar(q)
           /\ c.limit = CHOOSE n \in q.limit : TRUE
<1>1. c = CallOfBar(q)
  BY DEF Asks
<1> QED BY <1>1 DEF CallOfBar, Call

(* The size of a page is the one that is meant.                            *)
LEMMA LimitMeans ==
    ASSUME NEW t \in Traffics, NEW q \in Questions[t], WellAsked(q), NEW c, Asks(q, c),
           c.kind \in {"list", "search", "json"}
    PROVE  c.limit = MeansLimit(q)
<1>1. q.limit \subseteq Int /\ AtMostOne(q.limit) /\ (q.door = "bar" => q.limit # {})
  BY QuestionAssumption, FormAssumption
<1>2. CASE q.door = "mcp"
  <2>1. c.limit = PageOfTool(q)
    BY <1>2, ToolCalls
  <2>2. CASE q.limit = {}
    BY <1>2, <2>1, <2>2 DEF PageOfTool, MeansLimit
  <2>3. CASE q.limit # {}
    <3>1. PICK k \in Int : q.limit = {k}
      BY <1>1, <2>3 DEF AtMostOne
    <3>2. (CHOOSE n \in q.limit : TRUE) = k
      BY <3>1
    <3>3. c.limit = ClampLimit(k)
      BY <2>1, <2>3, <3>2 DEF PageOfTool
    <3>4. MeansLimit(q) = CHOOSE n \in 1 .. MaxLimit :
                              \A j \in q.limit, o \in 1 .. MaxLimit :
                                  (j - n) * (j - n) <= (j - o) * (j - o)
      BY <1>2, <2>3 DEF MeansLimit
    <3>5. \A n : (\A j \in q.limit, o \in 1 .. MaxLimit : (j - n) * (j - n) <= (j - o) * (j - o))
                    <=> \A o \in 1 .. MaxLimit : (k - n) * (k - n) <= (k - o) * (k - o)
      BY <3>1, Zenon
    <3>6. MeansLimit(q) = CHOOSE n \in 1 .. MaxLimit :
                              \A o \in 1 .. MaxLimit : (k - n) * (k - n) <= (k - o) * (k - o)
      BY <3>4, <3>5, Zenon
    <3> QED BY <3>3, <3>6, ClampIsNearest
  <2> QED BY <2>2, <2>3
<1>3. CASE q.door = "cli"
  <2>1. CASE c.kind = "list"
    <3>1. c.limit = PageOfCommand(q)
      BY <1>3, <2>1, CommandCalls
    <3> QED BY <1>3, <3>1 DEF PageOfCommand, MeansLimit
  <2>2. CASE c.kind \in {"search", "json"}
    <3>1. c.limit = CommandLimit /\ q.kind \in Subcommands
      BY <1>3, <2>2, CommandCalls DEF Subcommands
    <3>2. q.limit = {}
      BY <1>3, <3>1 DEF WellAsked, Unflagged
    <3> QED BY <1>3, <3>1, <3>2 DEF MeansLimit
  <2> QED BY <2>1, <2>2
<1>4. CASE q.door = "bar"
  <2>1. c.limit = CHOOSE n \in q.limit : TRUE
    BY <1>4, BarCalls
  <2> QED BY <1>1, <1>4, <2>1 DEF MeansLimit
<1> QED BY <1>2, <1>3, <1>4, FormAssumption

-----------------------------------------------------------------------------
(* The doors, and the whole of the query. *)

(* What a door hands on of a question, with f the filter of its call c.    *)
HandedOn(q, c, f, r) ==
    LET x == Columns(r) IN
    /\ TypedConditions(q, f) /\ (q.headerName # {} => q.headerTarget \subseteq Targets)
    /\ \A w \in q.since \cup q.before : w.form # "word"
    /\ f.methods = IF q.door = "mcp" THEN MethodNames(q) \ {""} ELSE MethodNames(q)
    /\ f.saved = q.saved /\ q.saved \in SUBSET BOOLEAN
    /\ (f.words \subseteq x.words /\ f.regex \subseteq x.patterns
        /\ (c.kind = "search" => BodyContains(c, r)))
          <=> /\ \A y \in q.search : MeansText(q, y, x)
              /\ \A p \in q.regex : p.pattern \in x.patterns
              /\ q.kind = "search" => MeansBody(q.body, q.bodyTarget, x)
    /\ (c.kind = "json" => DeclaredJson(c, r) /\ FieldMatches(c, r))
          <=> (q.kind = "json" => MeetsField(q, x))

(* What a tool hands on of a question.                                     *)
LEMMA ToolHandsOn ==
    ASSUME NEW t \in Traffics, NEW q \in Questions[t], NEW c, Asks(q, c), q.door = "mcp",
           NEW r, StoredColumns(Columns(r))
    PROVE  HandedOn(q, c, OptionalFilter(c.filter), r)
<1>1. PICK x : x = Columns(r)
  OBVIOUS
<1>2. PICK f : f = OptionalFilter(c.filter)
  OBVIOUS
<1>3. /\ ~ RefusedByTool(q) /\ c.kind = q.kind /\ c.filter = FilterOfTool(q)
      /\ q.kind = "search" => c.body = q.body /\ c.target = q.bodyTarget
      /\ q.kind = "json" => c.value = q.value /\ c.target = q.bodyTarget
  BY ToolCalls
<1>4. /\ TypedConditions(q, f) /\ f.methods = MethodNames(q) \ {""}
      /\ f.words = UNION {y.words : y \in q.search} /\ f.regex = {p.pattern : p \in q.regex}
      /\ f.saved = q.saved
  BY <1>2, <1>3, FilterOfToolFields
<1>5. q.headerTarget \subseteq Targets /\ q.bodyTarget \subseteq Targets
  <2>1. q.headerTarget \cup q.bodyTarget \subseteq Targets
    BY FormAssumption
  <2> QED BY <2>1
<1>6. \A w \in q.since \cup q.before : w.form # "word"
  BY <1>3 DEF RefusedByTool, TimeRefused
<1>7. q.saved \in SUBSET BOOLEAN /\ AtMostOne(q.bodyTarget) /\ AtMostOne(q.value)
  BY FormAssumption
<1>8. (f.words \subseteq x.words /\ f.regex \subseteq x.patterns)
         <=> /\ \A y \in q.search : MeansText(q, y, x)
             /\ \A p \in q.regex : p.pattern \in x.patterns
  BY <1>4, ToolTextsMean
<1>9. q.kind = "search" => (BodyContains(c, r) <=> MeansBody(q.body, q.bodyTarget, x))
  <2>1. SameBodies(q.bodyTarget, q.bodyTarget)
    <3>1. q.bodyTarget \in {{}, {"both"}, {"request"}, {"response"}}
      BY <1>5, <1>7 DEF Targets, AtMostOne
    <3>2. {"both"} # {"request"} /\ {"both"} # {"response"} /\ {"request"} # {"response"}
      OBVIOUS
    <3> QED BY <3>1, <3>2 DEF SameBodies
  <2> QED BY <1>1, <1>3, <2>1, BodyMeans
<1>10. q.kind = "json" => ((DeclaredJson(c, r) /\ FieldMatches(c, r))
                              <=> MeetsField(q, x))
  BY <1>1, <1>3, <1>7, FieldMeans
<1>11. /\ (f.words \subseteq x.words /\ f.regex \subseteq x.patterns
           /\ (c.kind = "search" => BodyContains(c, r)))
             <=> /\ \A y \in q.search : MeansText(q, y, x)
                 /\ \A p \in q.regex : p.pattern \in x.patterns
                 /\ q.kind = "search" => MeansBody(q.body, q.bodyTarget, x)
       /\ (c.kind = "json" => DeclaredJson(c, r) /\ FieldMatches(c, r))
             <=> (q.kind = "json" => MeetsField(q, x))
  BY <1>3, <1>8, <1>9, <1>10
<1> QED BY <1>1, <1>2, <1>4, <1>5, <1>6, <1>7, <1>11 DEF HandedOn

(* What of a question reaches the query through the filter of a command:   *)
(* all of it, for a subcommand because none of it is typed.                *)
CommandFilterMeans(q, f, x) ==
    /\ TypedConditions(q, f) /\ (q.headerName # {} => q.headerTarget \subseteq Targets)
    /\ \A w \in q.since \cup q.before : w.form # "word"
    /\ f.methods = MethodNames(q) /\ f.saved = q.saved
    /\ (f.words \subseteq x.words /\ f.regex \subseteq x.patterns)
          <=> /\ \A y \in q.search : MeansText(q, y, x)
              /\ \A p \in q.regex : p.pattern \in x.patterns

(* What a command does; it knows the targets by two names.                 *)
LEMMA CommandHandsOn ==
    ASSUME NEW t \in Traffics, NEW q \in Questions[t], WellAsked(q), NEW c, Asks(q, c), q.door = "cli",
           NEW r, StoredColumns(Columns(r))
    PROVE  HandedOn(q, c, OptionalFilter(c.filter), r)
<1>1. PICK x : x = Columns(r)
  OBVIOUS
<1>2. PICK f : f = OptionalFilter(c.filter)
  OBVIOUS
<1>3. /\ ~ RefusedByCommand(q) /\ c.kind = q.kind
      /\ c.filter = IF q.kind \in Subcommands THEN DefaultFilter ELSE FilterOfCommand(q)
      /\ q.kind = "search" =>
            c.body = q.body /\ c.target = UNION {ParseBodySearchTarget(s) : s \in q.bodyTarget}
      /\ q.kind = "json" => c.value = q.value /\ c.target = q.bodyTarget
  BY CommandCalls
<1>4. q.saved \subseteq {TRUE} /\ AtMostOne(q.bodyTarget) /\ AtMostOne(q.value)
  BY FormAssumption
<1>5. ASSUME q.kind \in Subcommands PROVE CommandFilterMeans(q, f, x)
  <2>1. Unflagged(q)
    BY <1>5 DEF WellAsked
  <2>2. /\ TypedConditions(q, f)
        /\ f.methods = {} /\ f.words = {} /\ f.regex = {} /\ f.saved = {} /\ MethodNames(q) = {}
    BY <1>2, <1>3, <1>5, <2>1, DefaultFilterFields
  <2>3. /\ q.search = {} /\ q.regex = {} /\ q.saved = {} /\ q.since = {} /\ q.before = {}
        /\ q.headerName = {}
    BY <2>1 DEF Unflagged
  <2> QED BY <2>2, <2>3 DEF CommandFilterMeans
<1>6. ASSUME q.kind \notin Subcommands PROVE CommandFilterMeans(q, f, x)
  <2>1. /\ TypedConditions(q, f) /\ f.methods = MethodNames(q)
        /\ f.words = UNION {WordsOf(y) : y \in q.search}
        /\ f.regex = (UNION {PatternOf(y) : y \in q.search}) \cup {p.pattern : p \in q.regex}
        /\ f.saved = q.saved \cap {TRUE}
    BY <1>2, <1>3, <1>6, FilterOfCommandFields
  <2>2. ~ FlagsRefused(q)
    BY <1>3, <1>6 DEF RefusedByCommand
  <2>3. q.headerTarget \subseteq Targets /\ \A w \in q.since \cup q.before : w.form # "word"
    BY <2>2 DEF FlagsRefused, TimeRefused
  <2>4. (f.words \subseteq x.words /\ f.regex \subseteq x.patterns)
           <=> /\ \A y \in q.search : MeansText(q, y, x)
               /\ \A p \in q.regex : p.pattern \in x.patterns
    BY <2>1, <2>2, CommandTextsMean
  <2>5. f.saved = q.saved
    BY <1>4, <2>1
  <2> QED BY <2>1, <2>3, <2>4, <2>5 DEF CommandFilterMeans
<1>7. CommandFilterMeans(q, f, x)
  BY <1>5, <1>6
<1>8. q.kind = "json" => q.bodyTarget \subseteq Targets
  BY <1>3 DEF RefusedByCommand
<1>9. q.kind = "search" => (BodyContains(c, r) <=> MeansBody(q.body, q.bodyTarget, x))
  <2> SUFFICES ASSUME q.kind = "search" PROVE BodyContains(c, r) <=> MeansBody(q.body, q.bodyTarget, x)
    OBVIOUS
  <2>1. SameBodies(c.target, q.bodyTarget)
    <3>1. CASE q.bodyTarget = {}
      <4>1. c.target = {}
        BY <1>3, <3>1
      <4> QED BY <3>1, <4>1 DEF SameBodies
    <3>2. ASSUME NEW s, q.bodyTarget = {s} PROVE SameBodies(c.target, q.bodyTarget)
      <4>1. c.target = ParseBodySearchTarget(s)
        BY <1>3, <3>2
      <4>2. ParseBodySearchTarget(s) # {}
        BY <1>3, <3>2 DEF RefusedByCommand
      <4>3. {"both"} # {"request"} /\ {"both"} # {"response"} /\ {"request"} # {"response"}
        OBVIOUS
      <4>4. CASE s \in {"req", "request"}
        <5>1. c.target = {"request"}
          BY <4>1, <4>4 DEF ParseBodySearchTarget
        <5> QED BY <3>2, <4>4, <5>1 DEF SameBodies
      <4>5. CASE s \in {"res", "response"}
        <5>1. c.target = {"response"}
          BY <4>1, <4>5 DEF ParseBodySearchTarget
        <5> QED BY <3>2, <4>5, <5>1 DEF SameBodies
      <4>6. CASE s = "both"
        <5>1. c.target = {"both"}
          BY <4>1, <4>6 DEF ParseBodySearchTarget
        <5> QED BY <3>2, <4>3, <4>6, <5>1 DEF SameBodies
      <4>7. CASE s \notin {"req", "request"} /\ s \notin {"res", "response"} /\ s # "both"
        BY <4>2, <4>7 DEF ParseBodySearchTarget
      <4> QED BY <4>4, <4>5, <4>6, <4>7
    <3> QED BY <1>4, <3>1, <3>2 DEF AtMostOne
  <2> QED BY <1>1, <1>3, <2>1, BodyMeans
<1>10. q.kind = "json" => ((DeclaredJson(c, r) /\ FieldMatches(c, r))
                              <=> MeetsField(q, x))
  BY <1>1, <1>3, <1>4, FieldMeans
<1>11. /\ (f.words \subseteq x.words /\ f.regex \subseteq x.patterns
           /\ (c.kind = "search" => BodyContains(c, r)))
             <=> /\ \A y \in q.search : MeansText(q, y, x)
                 /\ \A p \in q.regex : p.pattern \in x.patterns
                 /\ q.kind = "search" => MeansBody(q.body, q.bodyTarget, x)
       /\ (c.kind = "json" => DeclaredJson(c, r) /\ FieldMatches(c, r))
             <=> (q.kind = "json" => MeetsField(q, x))
  BY <1>3, <1>7, <1>9, <1>10 DEF CommandFilterMeans
<1>12. q.saved \in SUBSET BOOLEAN
  BY <1>4
<1> QED BY <1>1, <1>2, <1>7, <1>11, <1>12 DEF HandedOn, CommandFilterMeans

(* What the filter bar does, which turns a text about bodies into a        *)
(* search.                                                                 *)
LEMMA BarHandsOn ==
    ASSUME NEW t \in Traffics, NEW q \in Questions[t], NEW c, Asks(q, c), q.door = "bar",
           NEW r, StoredColumns(Columns(r))
    PROVE  HandedOn(q, c, OptionalFilter(c.filter), r)
<1>1. PICK x : x = Columns(r)
  OBVIOUS
<1>2. PICK f : f = OptionalFilter(c.filter)
  OBVIOUS
<1>3. c = CallOfBar(q) /\ c.kind \in {"list", "search"} /\ c.filter = FilterOfBar(q)
  BY BarCalls
<1>4. TypedConditions(q, f) /\ f.methods = MethodNames(q) /\ f.saved = q.saved \cap {TRUE}
  BY <1>2, <1>3, FilterOfBarFields
<1>5. /\ q.kind = "list" /\ q.regex = {} /\ q.since = {} /\ q.before = {} /\ q.headerTarget = {}
      /\ q.saved \subseteq {TRUE} /\ AtMostOne(q.search)
      /\ \A y \in q.search : y.form \in {"words", "literal", "body"}
  BY FormAssumption
<1>6. (f.words \subseteq x.words /\ f.regex \subseteq x.patterns /\ (c.kind = "search" => BodyContains(c, r)))
         <=> \A y \in q.search : MeansText(q, y, x)
  BY <1>1, <1>2, <1>3, <1>5, BarTextsMean
<1>7. f.saved = q.saved /\ q.saved \in SUBSET BOOLEAN
  BY <1>4, <1>5
<1> QED BY <1>1, <1>2, <1>3, <1>4, <1>5, <1>6, <1>7 DEF HandedOn

(* What any door does.                                                     *)
LEMMA DoorsHandOn ==
    ASSUME NEW t \in Traffics, NEW q \in Questions[t], WellAsked(q), NEW c, Asks(q, c),
           NEW r, StoredColumns(Columns(r))
    PROVE  HandedOn(q, c, OptionalFilter(c.filter), r)
<1>1. q.door \in {"mcp", "cli", "bar"}
  BY FormAssumption
<1> QED BY <1>1, ToolHandsOn, CommandHandsOn, BarHandsOn

(* The whole WHERE clause selects the rows that meet the question.         *)
LEMMA QueryMeans ==
    ASSUME NEW t \in Traffics, NEW q \in Questions[t], WellAsked(q), NEW c, Asks(q, c),
           NEW r, r.saved \in BOOLEAN, StoredColumns(Columns(r))
    PROVE  Meets(q, r) <=> /\ ApplyFilterConditions(OptionalFilter(c.filter), r)
                           /\ c.kind = "search" => BodyContains(c, r)
                           /\ c.kind = "json" => DeclaredJson(c, r) /\ FieldMatches(c, r)
<1>1. PICK x : x = Columns(r) /\ StoredColumns(x)
  OBVIOUS
<1>2. PICK f : f = OptionalFilter(c.filter)
  OBVIOUS
<1>3. /\ TypedConditions(q, f) /\ (q.headerName # {} => q.headerTarget \subseteq Targets)
      /\ \A w \in q.since \cup q.before : w.form # "word"
      /\ f.methods = IF q.door = "mcp" THEN MethodNames(q) \ {""} ELSE MethodNames(q)
      /\ f.saved = q.saved /\ q.saved \in SUBSET BOOLEAN
      /\ (f.words \subseteq x.words /\ f.regex \subseteq x.patterns
          /\ (c.kind = "search" => BodyContains(c, r)))
            <=> /\ \A y \in q.search : MeansText(q, y, x)
                /\ \A p \in q.regex : p.pattern \in x.patterns
                /\ q.kind = "search" => MeansBody(q.body, q.bodyTarget, x)
      /\ (c.kind = "json" => DeclaredJson(c, r) /\ FieldMatches(c, r))
            <=> (q.kind = "json" => MeetsField(q, x))
  BY <1>1, <1>2, DoorsHandOn DEF HandedOn
<1>4. (/\ \A s \in f.status : ApplyStatusCondition(s, x.status)
       /\ \A h \in f.host : HostMatches(h, x.host)
       /\ \A p \in f.path : IsPrefix(p, x.path)
       /\ \A s \in f.since : x.timestamp >= s
       /\ \A s \in f.before : x.timestamp < s
       /\ f.by \subseteq x.by
       /\ f.source \subseteq x.source
       /\ \A n \in f.headerName : HeaderMatches(f, x, n)) <=> MeetsTyped(q, r)
  BY <1>1, <1>3, TypedConditionsMean
<1>5. (f.methods # {} => x.method \in f.methods)
         <=> ((\E w \in Range(q.methods) : UpperCase[w] # "")
                 => \E w \in Range(q.methods) : UpperCase[w] = x.method)
  <2>1. x.method # ""
    BY <1>1 DEF StoredColumns
  <2>2. q.door = "mcp" \/ MethodNames(q) # {""}
    BY DEF WellAsked
  <2>3. f.methods = IF q.door = "mcp" THEN MethodNames(q) \ {""} ELSE MethodNames(q)
    BY <1>3
  <2> QED BY ONLY <2>1, <2>2, <2>3, MethodsMean
<1>6. (\A b \in f.saved : r.saved = b) <=> q.saved \in {{}, {r.saved}}
  <2>1. AtMostOne(q.saved)
    BY FormAssumption
  <2> QED BY <1>3, <2>1, SavedMeans
<1>7. ApplyFilterConditions(f, r)
         <=> /\ f.methods # {} => x.method \in f.methods
             /\ f.words \subseteq x.words /\ f.regex \subseteq x.patterns
             /\ \A b \in f.saved : r.saved = b
             /\ MeetsTyped(q, r)
  BY <1>1, <1>4 DEF ApplyFilterConditions
<1>8. Meets(q, r)
         <=> /\ (\E w \in Range(q.methods) : UpperCase[w] # "")
                   => \E w \in Range(q.methods) : UpperCase[w] = x.method
             /\ \A y \in q.search : MeansText(q, y, x)
             /\ \A p \in q.regex : p.pattern \in x.patterns
             /\ MeetsTyped(q, r)
             /\ q.saved \in {{}, {r.saved}}
             /\ q.kind = "search" => MeansBody(q.body, q.bodyTarget, x)
             /\ q.kind = "json" => MeetsField(q, x)
  BY <1>1 DEF Meets, MeetsTyped, MeetsField
<1> QED BY <1>2, <1>3, <1>5, <1>6, <1>7, <1>8

(* The order of an answer is the one of the question.                      *)
LEMMA OrderMeans ==
    ASSUME NEW k, NEW l, k = "json" <=> l = "json", NEW ids
    PROVE  InOrder(k, ids) = InOrder(l, ids)
<1>1. \A i, j : Above(k, i, j) <=> Above(l, i, j)
  BY DEF Above
<1>2. \A i : {j \in ids : Above(k, j, i)} = {j \in ids : Above(l, j, i)}
  BY <1>1
<1>3. \A i : Place(k, ids, i) = Place(l, ids, i)
  BY <1>2 DEF Place
<1>4. \A n : (CHOOSE i \in ids : Place(k, ids, i) = n) = (CHOOSE i \in ids : Place(l, ids, i) = n)
  <2> TAKE n
  <2>1. \A i : Place(k, ids, i) = n <=> Place(l, ids, i) = n
    BY <1>3
  <2> QED BY <2>1, Zenon
<1> DEFINE F(n) == CHOOSE i \in ids : Place(k, ids, i) = n
           G(n) == CHOOSE i \in ids : Place(l, ids, i) = n
           D == 1 .. Cardinality(ids)
<1>5. InOrder(k, ids) = [n \in D |-> F(n)] /\ InOrder(l, ids) = [n \in D |-> G(n)]
  BY DEF InOrder
<1>6. \A n : F(n) = G(n)
  BY <1>4
<1> HIDE DEF F, G, D
<1>7. [n \in D |-> F(n)] = [n \in D |-> G(n)]
  BY <1>6
<1> QED BY <1>5, <1>7

-----------------------------------------------------------------------------
(* The rows of the table, their answer and their number.                   *)

(* The call that is out is the one its question's door makes of it, and    *)
(* only a list comes with a count.                                         *)
AskingOK ==
    /\ \A q \in ask, c \in call : Asks(q, c)
    /\ phase = "count" => \A c \in call : c.kind \in {"count", "list"}

(* The rows of the table are rows of what was captured.                    *)
LEMMA RowsAreStored ==
    ASSUME traffic \in Traffics, recorded \in 0 .. Len(traffic), TableOK, NEW r \in table
    PROVE  r.saved \in BOOLEAN /\ StoredColumns(Columns(r))
<1>1. r.id \in 1 .. recorded /\ r.saved \in BOOLEAN
  BY DEF TableOK
<1>2. Len(traffic) \in Nat
  BY TrafficAssumption
<1>3. r.id \in 1 .. Len(traffic)
  BY <1>1, <1>2
<1>4. /\ traffic[r.id] \in Exchange
      /\ AtMostOne(traffic[r.id].source) /\ AtMostOne(traffic[r.id].by)
  BY <1>3, TrafficAssumption
<1> QED BY <1>1, <1>4, ColumnsAreStored

(* The rows that meet a question are the answer to its call.               *)
LEMMA AnswerMeans ==
    ASSUME traffic \in Traffics, recorded \in 0 .. Len(traffic), TableOK,
           NEW q \in Questions[traffic], WellAsked(q), NEW c, Asks(q, c), c.kind # "get"
    PROVE  Answer(c) = {r \in table : Meets(q, r)}
<1>1. \A r \in table :
         Meets(q, r) <=> /\ ApplyFilterConditions(OptionalFilter(c.filter), r)
                         /\ c.kind = "search" => BodyContains(c, r)
                         /\ c.kind = "json" => DeclaredJson(c, r) /\ FieldMatches(c, r)
  BY RowsAreStored, QueryMeans
<1>2. \A r : r \in Selected(c)
                <=> /\ r \in table /\ ApplyFilterConditions(OptionalFilter(c.filter), r)
                    /\ c.kind = "search" => BodyContains(c, r)
                    /\ c.kind = "json" => DeclaredJson(c, r)
  BY DEF Selected
<1>3. \A r : r \in Answer(c) <=> r \in Selected(c) /\ (c.kind = "json" => FieldMatches(c, r))
  BY DEF Answer
<1>4. \A r : r \in Answer(c) <=> r \in table /\ Meets(q, r)
  BY <1>1, <1>2, <1>3
<1> QED BY <1>4

(* There are as many rows as ids of them.                                  *)
LEMMA IdsAreRows ==
    ASSUME traffic \in Traffics, recorded \in 0 .. Len(traffic), TableOK, NEW S, S \subseteq table
    PROVE  Captured(Ids(S)) /\ Cardinality(Ids(S)) = Cardinality(S)
<1> DEFINE I == Ids(S)
           row == [i \in I |-> CHOOSE r \in S : r.id = i]
<1>1. Captured(I)
  <2>1. I \subseteq Ids(table)
    BY DEF Ids
  <2> QED BY <2>1, StoredWasCaptured
<1>2. \A i \in I : row[i] \in S /\ row[i].id = i
  BY DEF Ids
<1>3. \A r \in S : r.id \in I /\ row[r.id] = r
  <2> TAKE r \in S
  <2>1. r.id \in I
    BY DEF Ids
  <2>2. row[r.id] \in S /\ row[r.id].id = r.id
    BY <1>2, <2>1
  <2> HIDE DEF row
  <2> QED BY <2>1, <2>2 DEF TableOK
<1>4. row \in [I -> S]
  BY <1>2
<1> HIDE DEF row
<1>5. \A i, j \in I : row[i] = row[j] => i = j
  BY <1>2
<1>6. \A r \in S : \E i \in I : row[i] = r
  BY <1>3
<1> HIDE DEF I
<1>7. row \in Bijection(I, S)
  BY <1>4, <1>5, <1>6, Fun_IsBij
<1>8. ExistsBijection(I, S) /\ IsFiniteSet(I)
  BY <1>1, <1>7 DEF ExistsBijection, Captured
<1>9. Cardinality(S) = Cardinality(I)
  BY <1>8, FS_Bijection
<1> QED BY <1>1, <1>9 DEF I

(* The length of what is listed is the number of its ids.                  *)
LEMMA ListedAreAll ==
    ASSUME NEW kind, NEW ids, Captured(ids)
    PROVE  Len(InOrder(kind, ids)) = Cardinality(ids)
<1>1. Cardinality(ids) \in Nat
  BY FS_CardinalityType DEF Captured
<1>2. DOMAIN InOrder(kind, ids) = 1 .. Cardinality(ids)
  BY DEF InOrder
<1>3. \A n \in 1 .. Cardinality(ids) : InOrder(kind, ids)[n] \in ids
  BY PlacesInOrder
<1>4. InOrder(kind, ids) \in Seq(ids)
  BY <1>1, <1>3, SeqDef DEF InOrder
<1> QED BY <1>1, <1>2, <1>4, LenProperties

-----------------------------------------------------------------------------
(* Every step keeps the call that of its question.                         *)
LEMMA AskingInit == QueryInit => AskingOK
BY DEF QueryInit, AskingOK

(* The invariant through every step.                                       *)
LEMMA AskingStep == QueryInd /\ AskingOK /\ [QueryNext]_queryVars => AskingOK'
<1> SUFFICES ASSUME QueryInd, AskingOK, [QueryNext]_queryVars PROVE AskingOK'
  OBVIOUS
<1>1. CASE UNCHANGED <<ask, call, phase>>
  BY <1>1 DEF AskingOK
<1>2. CASE UNCHANGED <<ask, call>> /\ phase' # "count"
  BY <1>2 DEF AskingOK
<1>3. CASE call' = {}
  BY <1>3 DEF AskingOK
<1>4. ASSUME NEW q \in Questions[traffic], AskTool(q) \/ AskCommand(q) \/ AskBar(q) PROVE AskingOK'
  <2>1. phase = "idle" /\ call = {}
    BY <1>4 DEF AskTool, AskCommand, AskBar, QueryInd, CallOK
  <2>2. CASE Refuse(q)
    BY <1>3, <2>1, <2>2 DEF Refuse
  <2>3. ASSUME NEW c, Asked(q, c), Asks(q, c) PROVE AskingOK'
    <3>1. /\ ask' = {q} /\ call' = {c}
          /\ phase' = CASE c.kind = "count" -> "count"
                        [] c.kind = "get"   -> IF q.door = "mcp" THEN "get" ELSE "exact"
                        [] OTHER            -> "list"
      BY <2>3 DEF Asked
    <3>2. phase' = "count" => c.kind = "count"
      BY <3>1
    <3> QED BY <2>3, <3>1, <3>2 DEF AskingOK
  <2>4. CASE AskTool(q)
    <3>1. \/ Refuse(q)
          \/ \E c : Asked(q, c) /\ Asks(q, c)
      BY <2>4 DEF AskTool, Asks
    <3> QED BY <2>2, <2>3, <3>1
  <2>5. CASE AskCommand(q)
    <3>1. \/ Refuse(q)
          \/ \E c : Asked(q, c) /\ Asks(q, c)
      BY <2>5 DEF AskCommand, Asks
    <3> QED BY <2>2, <2>3, <3>1
  <2>6. CASE AskBar(q)
    <3>1. \E c : Asked(q, c) /\ Asks(q, c)
      BY <2>6 DEF AskBar, Asks
    <3> QED BY <2>3, <3>1
  <2> QED BY <1>4, <2>4, <2>5, <2>6
<1>5. CASE AnswerList
  <2>1. UNCHANGED <<ask, call>>
    BY <1>5 DEF AnswerList
  <2>2. phase' = "count" => \E c \in call : c.kind = "list"
    BY <1>5 DEF AnswerList
  <2>3. call = {} \/ \E c \in call : call = {c}
    BY DEF QueryInd, CallOK
  <2> QED BY <2>1, <2>2, <2>3 DEF AskingOK
<1>6. CASE UNCHANGED queryVars
  BY <1>1, <1>6 DEF queryVars, readerVars
<1>7. CASE QueryNext
  <2>1. \A t : Changed(t) => UNCHANGED <<ask, call, phase>>
    BY DEF Changed
  <2>2. CASE Capture \/ (\E r \in table : Respond(r) \/ Toggle(r) \/ Evict(r)) \/ ClearRequests
    BY <1>1, <2>1, <2>2 DEF Capture, Respond, Toggle, Evict, ClearRequests
  <2>3. CASE AnswerCount \/ GetRequest \/ GetExact \/ MatchPrefix \/ FetchMatch \/ NextPage
    BY <1>2, <2>3 DEF AnswerCount, GetRequest, GetExact, MatchPrefix, FetchMatch, NextPage
  <2>4. CASE EndReading
    BY <1>3, <2>4 DEF EndReading
  <2>5. CASE \E q \in Questions[traffic] : AskTool(q) \/ AskCommand(q) \/ AskBar(q)
    BY <1>4, <2>5
  <2> QED BY <1>5, <1>7, <2>2, <2>3, <2>4, <2>5 DEF QueryNext
<1> QED BY <1>6, <1>7

(* Only an answer of the daemon ends the phase of a list with a page.      *)
LEMMA PagesAreAnswers ==
    ASSUME QueryInd, [QueryNext]_queryVars, phase = "list", phase' \in {"count", "shown"}
    PROVE  \E c \in call : page' = Page(InOrder(c.kind, Ids(Answer(c))), c.limit, offset)
<1>1. ~ UNCHANGED queryVars
  BY DEF queryVars, readerVars
<1>2. \A t : Changed(t) => phase' = phase
  BY DEF Changed
<1>3. ~ (Capture \/ (\E r \in table : Respond(r) \/ Toggle(r) \/ Evict(r)) \/ ClearRequests)
  BY <1>2 DEF Capture, Respond, Toggle, Evict, ClearRequests
<1>4. ~ (\E q \in Questions[traffic] : AskTool(q) \/ AskCommand(q) \/ AskBar(q))
  BY DEF AskTool, AskCommand, AskBar
<1>5. ~ (AnswerCount \/ GetRequest \/ GetExact \/ MatchPrefix \/ FetchMatch \/ NextPage \/ EndReading)
  BY DEF AnswerCount, GetRequest, GetExact, MatchPrefix, FetchMatch, NextPage, EndReading
<1>6. AnswerList
  BY <1>1, <1>3, <1>4, <1>5 DEF QueryNext
<1> QED BY <1>6 DEF AnswerList

(* Only an answer of countRequests ends the phase of the count.            *)
LEMMA TotalsAreCounts ==
    ASSUME QueryInd, [QueryNext]_queryVars, phase = "count", phase' = "shown"
    PROVE  \E c \in call : total' = Count(c)
<1>1. ~ UNCHANGED queryVars
  BY DEF queryVars, readerVars
<1>2. \A t : Changed(t) => phase' = phase
  BY DEF Changed
<1>3. ~ (Capture \/ (\E r \in table : Respond(r) \/ Toggle(r) \/ Evict(r)) \/ ClearRequests)
  BY <1>2 DEF Capture, Respond, Toggle, Evict, ClearRequests
<1>4. ~ (\E q \in Questions[traffic] : AskTool(q) \/ AskCommand(q) \/ AskBar(q))
  BY DEF AskTool, AskCommand, AskBar
<1>5. ~ (AnswerList \/ GetRequest \/ GetExact \/ MatchPrefix \/ FetchMatch \/ NextPage \/ EndReading)
  BY DEF AnswerList, GetRequest, GetExact, MatchPrefix, FetchMatch, NextPage, EndReading
<1>6. AnswerCount
  BY <1>1, <1>3, <1>4, <1>5 DEF QueryNext
<1> QED BY <1>6 DEF AnswerCount

(* What a question's call is about.                                        *)
LEMMA AskedAbout ==
    ASSUME QueryInd, AskingOK, NEW q \in ask, NEW c \in call, phase \in {"list", "count"}
    PROVE  /\ q \in Questions[traffic] /\ Asks(q, c)
           /\ c.kind = "json" <=> q.kind = "json"
           /\ phase = "list" => c.kind \in {"list", "search", "json"}
           /\ phase = "count" => c.kind \notin {"json", "get"}
<1>1. CallOK /\ Asks(q, c)
  BY DEF QueryInd, AskingOK
<1>2. q \in Questions[traffic]
  BY <1>1 DEF CallOK
<1>3. c.kind = "json" <=> q.kind = "json"
  <2>1. q.door \in {"mcp", "cli", "bar"} /\ (q.door = "bar" => q.kind = "list")
    BY <1>2, FormAssumption DEF QueryInd
  <2> QED BY <1>1, <2>1, ToolCalls, CommandCalls, BarCalls
<1>4. phase = "list" => c.kind \in {"list", "search", "json"}
  BY <1>1 DEF CallOK
<1>5. phase = "count" => c.kind \notin {"json", "get"}
  BY DEF AskingOK
<1> QED BY <1>1, <1>2, <1>3, <1>4, <1>5

(* Through every door (buildFilter of the tools and of the command line,   *)
(* the filter bar), the control server and the WHERE clauses of storage.ts *)
(* a page is the right cut of the rows that meet the words typed, and a    *)
(* count their number: for any traffic and any question that is well asked *)
(* (one of a subcommand without the flags of its command, a field's value  *)
(* as a text).                                                             *)
THEOREM PagesAndCountsAreTrue == QuerySpec => AnswersAreTrue
<1>1. QueryInit => AskingOK
  BY AskingInit
<1>2. QueryInd /\ AskingOK /\ [QueryNext]_queryVars => AskingOK'
  BY AskingStep
<1>3. ASSUME QueryInd, AskingOK, [QueryNext]_queryVars, NEW q \in ask, WellAsked(q)
      PROVE  /\ phase = "list" /\ phase' \in {"count", "shown"}
                   => page' = Page(Meant(q), MeansLimit(q), offset)
             /\ phase = "count" /\ phase' = "shown" => total' = Len(Meant(q))
  <2>1. traffic \in Traffics /\ recorded \in 0 .. Len(traffic) /\ TableOK
    BY <1>3 DEF QueryInd
  <2>2. ASSUME phase = "list", phase' \in {"count", "shown"}
        PROVE  page' = Page(Meant(q), MeansLimit(q), offset)
    <3>1. PICK c \in call : page' = Page(InOrder(c.kind, Ids(Answer(c))), c.limit, offset)
      BY <1>3, <2>2, PagesAreAnswers
    <3>2. /\ q \in Questions[traffic] /\ Asks(q, c)
          /\ c.kind = "json" <=> q.kind = "json"
          /\ c.kind \in {"list", "search", "json"}
      BY <1>3, <2>2, AskedAbout
    <3>3. Answer(c) = {r \in table : Meets(q, r)}
      BY <1>3, <2>1, <3>2, AnswerMeans
    <3>4. InOrder(c.kind, Ids(Answer(c))) = InOrder(q.kind, Ids(Answer(c)))
      BY <3>2, OrderMeans
    <3>5. Meant(q) = InOrder(c.kind, Ids(Answer(c)))
      BY <3>3, <3>4 DEF Meant
    <3>6. MeansLimit(q) = c.limit
      BY <1>3, <2>1, <3>2, LimitMeans
    <3> QED BY <3>1, <3>5, <3>6
  <2>3. ASSUME phase = "count", phase' = "shown" PROVE total' = Len(Meant(q))
    <3>1. PICK c \in call : total' = Count(c)
      BY <1>3, <2>3, TotalsAreCounts
    <3>2. q \in Questions[traffic] /\ Asks(q, c) /\ c.kind \notin {"json", "get"}
      BY <1>3, <2>3, AskedAbout
    <3>3. PICK S : S = {r \in table : Meets(q, r)}
      OBVIOUS
    <3>4. Selected(c) = S
      <4>1. Answer(c) = S
        BY <1>3, <2>1, <3>2, <3>3, AnswerMeans
      <4> QED BY <3>2, <4>1 DEF Answer
    <3>5. Captured(Ids(S)) /\ Cardinality(Ids(S)) = Cardinality(S)
      BY <2>1, <3>3, IdsAreRows
    <3>6. Meant(q) = InOrder(q.kind, Ids(S))
      BY <3>3 DEF Meant
    <3> QED BY <3>1, <3>4, <3>5, <3>6, ListedAreAll DEF Count
  <2> QED BY <2>2, <2>3
<1>4. QueryInd /\ AskingOK /\ [QueryNext]_queryVars
         => [\A q \in ask : WellAsked(q) =>
                /\ phase = "list" /\ phase' \in {"count", "shown"}
                      => page' = Page(Meant(q), MeansLimit(q), offset)
                /\ phase = "count" /\ phase' = "shown" => total' = Len(Meant(q))]_queryVars
  BY <1>3
<1> QED BY <1>1, <1>2, <1>4, ReadingsAreTracked, PTL DEF QuerySpec, AnswersAreTrue
=============================================================================
