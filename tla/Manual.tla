-------------------------------- MODULE Manual --------------------------------
(***************************************************************************)
(* The scripts of the reference manual side by side: the search panel, the *)
(* navigation tree and its resizable panel.  They share the page but no    *)
(* state, so a behaviour runs one of them and the others rest.  The        *)
(* constants that are functions have their values here.                    *)
(***************************************************************************)
EXTENDS SearchPanel, TLC

CONSTANTS
    Nodes, Parent, Link, NoLink, Urls, Index, MaxSlides,          \* NavTree
    Tabs, Widths, Default, Handle, Heights, Frame, NoCookie       \* SidePanel

VARIABLES
    script,                                              \* which one runs
    items, visited, opened, minus, shown, slides,        \* NavTree
    open, sidenav, content, window, height, cookie, last \* SidePanel

T == INSTANCE NavTree WITH expanded <- opened
P == INSTANCE SidePanel

treeVars == <<items, visited, opened, minus, shown, slides>>
sideVars == <<open, sidenav, content, window, height, cookie, last>>
ASSUME ManualOK == T!NavTreeOK /\ P!SidePanelOK

manualVars == <<script, panelVars, treeVars, sideVars>>

ManualTypeOK == PanelTypeOK /\ T!TypeOK /\ P!TypeOK

ManualInit ==
    /\ script \in {"search", "tree", "side"}
    /\ PanelInit /\ P!Init
    /\ IF script = "tree" THEN T!Init ELSE T!Opened(Index)

ManualNext ==
    \/ script = "search" /\ PanelNext /\ UNCHANGED <<script, treeVars, sideVars>>
    \/ script = "tree" /\ T!Next /\ UNCHANGED <<script, panelVars, sideVars>>
    \/ script = "side" /\ P!Next /\ UNCHANGED <<script, panelVars, treeVars>>

ManualSpec == ManualInit /\ [][ManualNext]_manualVars

\* See NavTree and SidePanel.
TreeAgrees == T!TreeAgrees
WidthRemembered == P!WidthRemembered

-----------------------------------------------------------------------------
(* The instance                                                            *)

\* One word with results, under the only filter; two of its page's three
\* rows match, the first of them with two children.
WithResults == [index |-> 0, word |-> "ab"]
ManualCompact == [word \in Values |-> word]
ManualIndexed == {WithResults}
ManualFound == WithResults :> 2..3
ManualKids == <<0, 2, 0>>

\* A tree of three levels, with two lists side by side inside a third, and a
\* node without a link.
ManualParent == <<0, 1, 2, 1, 4>>
ManualLink == <<"index", "annotated", "class", NoLink, "file">>
=============================================================================
