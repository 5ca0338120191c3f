---------------------------- MODULE SearchResults ----------------------------
(***************************************************************************)
(* SearchResults of the reference manual's search script: the page in the  *)
(* results frame.  Search() shows the rows whose name starts with what was *)
(* typed; rows are sorted by name, so these are a block.  A row stands for *)
(* one symbol, or for several of one name that are children of the row and *)
(* that it shows or hides.  The arrow keys move the focus.                 *)
(*                                                                         *)
(* The browser sends keydown, then any number of keydowns or keypresses    *)
(* while the key repeats, then keyup, each to the element that has the     *)
(* focus at that moment; an element that is not displayed takes no focus.  *)
(***************************************************************************)
EXTENDS Integers

CONSTANTS
    Rows,     \* number of rows on a page
    Kids,     \* number of children of each row
    NavKeys   \* keys a user presses on a result; "edit" is any other key

\* Assumed of the constants.
SearchResultsOK ==
    /\ Rows \in Nat /\ Kids \in [1..Rows -> Nat]
    /\ NavKeys \subseteq {"up", "down", "left", "right", "escape", "edit"}

VARIABLES
    visible,     \* the rows that match the search
    expanded,    \* rows whose children are shown
    cur,         \* the entry that has the focus
    lastKey, repeatOn

rowVars == <<visible, expanded>>
keyVars == <<lastKey, repeatOn>>
vars == <<rowVars, cur, keyVars>>

\* Item i is [item |-> i, child |-> 0], its children are numbered from one.
Entry(i, c) == [item |-> i, child |-> c]
Outside == Entry(0, 0)
Entries == UNION {{Entry(i, c) : c \in 0..Kids[i]} : i \in 1..Rows}

TypeOK ==
    /\ visible \subseteq 1..Rows /\ expanded \subseteq 1..Rows
    /\ cur \in Entries \cup {Outside}
    /\ lastKey \in NavKeys \cup {"none"} /\ repeatOn \in BOOLEAN

Displayed(e) == e.item \in visible /\ (e.child = 0 \/ e.item \in expanded)

Init ==
    /\ visible = {} /\ expanded = {} /\ cur = Outside
    /\ lastKey = "none" /\ repeatOn = FALSE

\* A page is loaded, makes its SearchResults and searches; without one
\* nothing in the frame has the focus.
Load(rows) ==
    /\ visible' = rows /\ expanded' = {} /\ cur' = Outside
    /\ lastKey' = "none" /\ repeatOn' = FALSE

-----------------------------------------------------------------------------
(* Where a key leads                                                       *)

\* FindChildElement finds the list of children of a row, if it has one.
HasChildren(i) == Kids[i] > 0

\* The next visible row from i on, the previous one from i back.
NavNext(i) ==
    LET rows == {j \in visible : i <= j}
    IN  IF rows = {} THEN Outside
        ELSE Entry(CHOOSE j \in rows : \A k \in rows : j <= k, 0)
NavPrev(i) ==
    LET rows == {j \in visible : j <= i}
    IN  IF rows = {} THEN Outside
        ELSE Entry(CHOOSE j \in rows : \A k \in rows : k <= j, 0)

\* Up to the last child of the row above, if its children are shown.
AboveRow(i) ==
    LET row == NavPrev(i - 1)
    IN  IF row # Outside /\ row.item \in expanded /\ HasChildren(i - 1)
        THEN Entry(i - 1, Kids[i - 1]) ELSE row

BelowRowSkips(i) == NavNext(i + 1)
BelowRow(i) == IF HasChildren(i) /\ i \in expanded THEN Entry(i, 1) ELSE NavNext(i + 1)

Above(e) == IF e.child = 0 THEN AboveRow(e.item) ELSE Entry(e.item, e.child - 1)

BelowPastEnd(e) == IF e.child = 0 THEN BelowRow(e.item) ELSE Entry(e.item, e.child + 1)
Below(e) ==
    IF e.child = 0 THEN BelowRow(e.item)
    ELSE IF e.child < Kids[e.item] THEN Entry(e.item, e.child + 1)
    ELSE NavNext(e.item + 1)

Focus(e) == IF e # Outside /\ Displayed(e) THEN e ELSE cur

-----------------------------------------------------------------------------
(* Nav and NavChild, after ProcessKeys has let the event pass              *)

\* Up leaves for the search field where there is nothing above.
GoUp == cur' = (IF Above(cur) = Outside THEN Outside ELSE Focus(Above(cur)))
GoDown == cur' = Focus(Below(cur))

\* Left and right hide and show the children of a row that has some.
FoldAny(show) ==
    expanded' = IF show THEN expanded \cup {cur.item} ELSE expanded \ {cur.item}
Fold(show) ==
    expanded' = IF cur.child = 0 /\ HasChildren(cur.item)
                THEN (IF show THEN expanded \cup {cur.item} ELSE expanded \ {cur.item})
                ELSE expanded

Nav(key) ==
    \/ key = "up" /\ GoUp /\ UNCHANGED expanded
    \/ key = "down" /\ GoDown /\ UNCHANGED expanded
    \/ key \in {"left", "right"} /\ Fold(key = "right") /\ UNCHANGED cur
    \/ key = "escape" /\ cur' = Outside /\ UNCHANGED expanded
    \/ key = "edit" /\ UNCHANGED <<cur, expanded>>

KeyDown(key) ==
    /\ cur # Outside
    /\ lastKey' = key /\ repeatOn' = FALSE
    /\ Nav(key)
    /\ UNCHANGED visible

\* The keypress that comes with a keydown is ignored, later ones repeat it.
KeyPress ==
    /\ cur # Outside
    /\ IF repeatOn
       THEN Nav(lastKey) /\ UNCHANGED repeatOn
       ELSE repeatOn' = (lastKey # "none") /\ UNCHANGED <<cur, expanded>>
    /\ UNCHANGED <<visible, lastKey>>

KeyUp ==
    /\ cur # Outside
    /\ lastKey' = "none" /\ repeatOn' = FALSE
    /\ UNCHANGED <<rowVars, cur>>

\* The link of a row that has children, by enter or the mouse.
Toggle ==
    /\ cur # Outside /\ cur.child = 0 /\ HasChildren(cur.item)
    /\ expanded' = IF cur.item \in expanded THEN expanded \ {cur.item}
                   ELSE expanded \cup {cur.item}
    /\ UNCHANGED <<visible, cur, keyVars>>

\* The search field hands the focus over, or the mouse puts it somewhere.
FocusFirst == cur' = NavNext(1) /\ UNCHANGED <<rowVars, keyVars>>
FocusByMouse(e) == Displayed(e) /\ cur' = e /\ UNCHANGED <<rowVars, keyVars>>
LoseFocus == cur' = Outside /\ UNCHANGED <<rowVars, keyVars>>
=============================================================================
