----------------------------- MODULE SearchPanel -----------------------------
(***************************************************************************)
(* The search panel: SearchBox, which decides what page the frame loads    *)
(* and may take the focus away, together with the SearchResults of the     *)
(* page that is in the frame, which moves the focus among the results and  *)
(* gives it back.  A key that is down goes to whatever has the focus when  *)
(* it repeats and when it is released.                                     *)
(***************************************************************************)
EXTENDS SearchBox

CONSTANTS Rows, Kids, NavKeys,
    Found        \* the rows that match, for each page with a search

VARIABLES visible, expanded, cur, lastKey, repeatOn

R == INSTANCE SearchResults

ASSUME SearchPanelOK ==
    /\ R!SearchResultsOK
    /\ Found \in [Indexed -> {first..last : first, last \in 1..Rows}]
    /\ Hits = {page \in Indexed : Found[page] # {}}

resultVars == <<visible, expanded, cur, lastKey, repeatOn>>
panelVars == <<vars, resultVars>>

PanelTypeOK == TypeOK /\ R!TypeOK

PanelInit == Init /\ R!Init

-----------------------------------------------------------------------------
(* Steps of both                                                           *)

\* nomatches.html has neither rows nor a SearchResults.
PageArrives ==
    /\ FrameLoaded
    /\ R!Load(IF loading \in Indexed THEN Found[loading] ELSE {})

FirstResult ==
    /\ ReleaseDown
    /\ IF focus' = "results" THEN R!FocusFirst ELSE UNCHANGED resultVars

\* The mouse goes to a result, or takes the focus out of the frame.
MouseToResults ==
    /\ MoveFocus
    /\ \/ focus' = "results" /\ \E entry \in R!Entries : R!FocusByMouse(entry)
       \/ focus = "results" /\ R!LoseFocus
       \/ focus # "results" /\ focus' # "results" /\ UNCHANGED resultVars

FieldFromResults == FocusField /\ R!LoseFocus

\* A key event in the frame, pressed or repeated, and where it leads.
Leads(key, reaction) ==
    \/ cur' # R!Outside /\ StayInResults(key)
    \/ cur' = R!Outside /\ reaction = "escape" /\ EscapeInResults(key)
    \/ cur' = R!Outside /\ reaction = "up" /\ UpInResults(key)

KeyDown(key) == R!KeyDown(key) /\ Leads(key, key)
KeyPress == held # "none" /\ R!KeyPress /\ Leads(held, lastKey)

\* Enter follows the link of a result; the link of a row with children
\* shows or hides them, any other leaves for a new page.
Enter == R!Toggle /\ StayInResults("enter")

KeyUp ==
    /\ ReleaseElsewhere
    /\ IF focus = "results" /\ held # "enter" THEN R!KeyUp ELSE UNCHANGED resultVars

\* Every other step of the box leaves the frame alone.
BoxOnly ==
    /\ \/ focus # "results" /\ FocusField
       \/ \E key \in FieldKeys : PressInField(key)
       \/ MouseOver \/ MouseOut \/ HideTimerFires
       \/ \E index \in 0..(Filters - 1) : ClickItem(index)
       \/ MenuDown \/ MenuUp \/ MenuClose
       \/ CloseResultsWindow
       \/ ReleaseEdit \/ ReleaseEscape \/ ReleaseMenu
       \/ KeyTimerFires
    /\ UNCHANGED resultVars

PanelNext ==
    \/ BoxOnly \/ PageArrives
    \/ FirstResult \/ MouseToResults \/ FieldFromResults
    \/ \E key \in NavKeys : KeyDown(key)
    \/ KeyPress \/ Enter \/ KeyUp

PanelSpec == PanelInit /\ [][PanelNext]_panelVars

-----------------------------------------------------------------------------
(* Properties                                                              *)

\* The focus is in the frame exactly if it is on a result, and that result
\* is displayed: searches and reloads that finish under the focus, rows that
\* are folded, an escape or an up that repeats never leave it on a hidden
\* result, where no key would lead out.
FocusIsDisplayed ==
    /\ focus = "results" <=> cur # R!Outside
    /\ cur # R!Outside => results /\ R!Displayed(cur)

\* The results on display, in their order on the page.
Results == {entry \in R!Entries : R!Displayed(entry)}
Precedes(e, f) == e.item < f.item \/ (e.item = f.item /\ e.child < f.child)
After(e) == {f \in Results : Precedes(e, f)}
BeforeIt(e) == {f \in Results : Precedes(f, e)}

\* Down goes to the next result on display, and up to the one before,
\* through rows that do not match and children shown or hidden: no result is
\* skipped, none is out of reach, and only the first leads out of the list.
KeysWalkTheList ==
    \A e \in Results :
        /\ IF After(e) = {} THEN R!Below(e) = R!Outside
           ELSE R!Below(e) \in After(e) /\ \A f \in After(e) : ~Precedes(f, R!Below(e))
        /\ IF BeforeIt(e) = {} THEN R!Above(e) = R!Outside
           ELSE R!Above(e) \in BeforeIt(e) /\ \A f \in BeforeIt(e) : ~Precedes(R!Above(e), f)
=============================================================================
