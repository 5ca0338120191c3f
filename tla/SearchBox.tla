------------------------------ MODULE SearchBox ------------------------------
(***************************************************************************)
(* SearchBox of the reference manual's search script: the search field,    *)
(* the filter menu and the window with the results frame, driven by        *)
(* keyboard, mouse, two timers and the loading of the frame.  Handlers run *)
(* to completion, so each is one step; between two of them anything may    *)
(* happen, in particular between the keydown that edits the field and the  *)
(* keyup that the script listens to.                                       *)
(*                                                                         *)
(* What the browser does is external: blur comes before the focus moves,   *)
(* a hidden element takes no focus, loading a page into the frame takes    *)
(* the focus out of it, and a second load replaces the first.  What goes   *)
(* on inside the frame is in SearchResults.                                *)
(***************************************************************************)
EXTENDS Naturals

CONSTANTS
    Words,       \* what a user may type, from the first letter on
    Label,       \* the word shown in a field that is not in use
    Compact,     \* a word without its spaces
    Filters,     \* number of entries of the filter menu
    Indexed,     \* [index, word]: there is a results page for it
    Hits,        \* [index, word]: with at least one result on it
    MaxTimers    \* bound on the search timers running at the same time

Empty == "empty"                     \* the empty string
Values == Words \cup {Label, Empty}

ASSUME SearchBoxOK ==
    /\ Empty \notin Words \cup {Label}
    /\ Compact \in [Values -> Values] /\ Compact[Empty] = Empty
    /\ \A word \in Words \cup {Label} : Compact[word] # Empty
    /\ \A word \in Values : Compact[Compact[word]] = Compact[word]
    /\ Filters \in Nat \ {0} /\ MaxTimers \in Nat
    /\ Indexed \subseteq [index : 0..(Filters - 1), word : Values \ {Empty}]
    /\ Hits \subseteq Indexed

VARIABLES
    field,             \* text in the search field
    focus,             \* the part of the page that has the keyboard focus
    held,              \* the key that is down
    searchActive, lastSearchValue, searchIndex,
    keyTimeout,        \* keyTimeout is set, and its timer is running
    timers,            \* search timers running, with and without keyTimeout
    results,           \* the results window (and its close button) is visible
    frame, loading,    \* the page in the results frame; the one on its way
    menu,              \* the filter menu is visible
    hover,             \* what the mouse is over: the icon or the menu
    hideTimeout,       \* the timer that hides the menu is running
    missed             \* history: what the results on display may not follow

textVars == <<field, searchActive, lastSearchValue, missed>>
timerVars == <<keyTimeout, timers>>
frameVars == <<results, frame, loading>>
menuVars == <<menu, hover, hideTimeout>>
vars == <<focus, held, searchIndex, textVars, timerVars, frameVars, menuVars>>

NoPage == [index |-> Filters, word |-> Empty]        \* nothing loaded
NoMatches == [index |-> Filters, word |-> Label]     \* nomatches.html
Pages == Indexed \cup {NoPage, NoMatches}

\* "edit" stands for the keys that edit the text, "menu" is down or enter
\* with shift; the field does not tell left, right and up apart.
FieldKeys == {"edit", "down", "up", "enter", "escape", "menu"}
Keys == FieldKeys \cup {"left", "right"}

\* An edit was not seen, or its timer stopped without a search; or a filter
\* was chosen while there was nothing to search for.
Causes == {"text", "filter"}

TypeOK ==
    /\ field \in Values /\ lastSearchValue \in Values
    /\ focus \in {"page", "field", "menu", "results"}
    /\ held \in Keys \cup {"none"}
    /\ searchActive \in BOOLEAN /\ searchIndex \in 0..Filters
    /\ keyTimeout \in BOOLEAN /\ timers \in 0..MaxTimers
    /\ results \in BOOLEAN /\ frame \in Pages /\ loading \in Pages
    /\ menu \in BOOLEAN /\ hover \in {"off", "icon", "menu"}
    /\ hideTimeout \in BOOLEAN /\ missed \subseteq Causes

\* The page is loaded: its onload calls OnSelectItem(0), which searches for
\* nothing while the panel is inactive.
Init ==
    /\ field = Label /\ focus = "page" /\ held = "none"
    /\ searchActive = FALSE /\ lastSearchValue = Empty /\ searchIndex = 0
    /\ keyTimeout = FALSE /\ timers = 0
    /\ results = FALSE /\ frame = NoPage /\ loading = NoPage
    /\ menu = FALSE /\ hover = "off" /\ hideTimeout = FALSE
    /\ missed = {}

-----------------------------------------------------------------------------
(* Activate, CloseResultsWindow, Search                                    *)

\* Activate(isActive), with the results window as it is at the call: opens
\* the panel, or resets it unless results are on display.
Open ==
    /\ field' = IF field = Label THEN Empty ELSE field
    /\ searchActive' = (searchActive \/ field = Label)

Reset ==
    /\ field' = Label /\ searchActive' = FALSE
    /\ lastSearchValue' = Empty /\ missed' = {}

ActivateIgnoringResults(isActive, shown) ==
    IF isActive THEN Open /\ UNCHANGED <<lastSearchValue, missed>> ELSE Reset
Activate(isActive, shown) ==
    IF isActive \/ shown THEN Open /\ UNCHANGED <<lastSearchValue, missed>> ELSE Reset

HideResults == results' = FALSE /\ UNCHANGED <<frame, loading>>

PageFor(index, word) ==
    IF [index |-> index, word |-> word] \in Indexed
    THEN [index |-> index, word |-> word] ELSE NoMatches

\* Search() under the filter index.  Behind the last filter it fails when
\* it looks the filter up, with keyTimeout reset and nothing else done.
Search(index) ==
    /\ keyTimeout' = FALSE
    /\ IF index < Filters
       THEN /\ loading' = PageFor(index, field)
            /\ results' = TRUE
            /\ lastSearchValue' = field /\ missed' = {}
            /\ UNCHANGED frame
       ELSE UNCHANGED <<lastSearchValue, missed, frameVars>>

Searches == Compact[field] # Empty /\ searchActive

\* OnSelectItem: a running timer is forgotten by Search(), not stopped.
OnSelectItem(index) ==
    /\ searchIndex' = index
    /\ IF Searches
       THEN Search(index)
       ELSE /\ missed' = missed \cup {"filter"}
            /\ UNCHANGED <<lastSearchValue, keyTimeout, frameVars>>
    /\ UNCHANGED timers

\* OnSearchSelectShow
ShowMenuKeepsTimer == menu' = TRUE /\ UNCHANGED hideTimeout
ShowMenu == menu' = TRUE /\ hideTimeout' = FALSE

-----------------------------------------------------------------------------
(* The search field: OnSearchFieldFocus, OnSearchFieldChange               *)

FocusField ==
    /\ focus # "field"
    /\ focus' = "field"
    /\ Activate(TRUE, results)
    /\ UNCHANGED <<held, searchIndex, timerVars, frameVars, menuVars>>

\* The mouse, or a tab, takes the focus to another part of the page.
MoveFocus ==
    /\ focus' \in {"page"} \cup (IF results THEN {"results"} ELSE {})
                            \cup (IF menu THEN {"menu"} ELSE {})
    /\ focus' # focus
    /\ IF focus = "field" THEN Activate(FALSE, results) ELSE UNCHANGED textVars
    /\ UNCHANGED <<held, searchIndex, timerVars, frameVars, menuVars>>

\* A key goes down in the field; only one that edits does something.
PressInField(key) ==
    /\ held = "none" /\ focus = "field"
    /\ held' = key
    /\ IF key = "edit"
       THEN field' \in Values \ {field} /\ missed' = missed \cup {"text"}
       ELSE UNCHANGED <<field, missed>>
    /\ UNCHANGED <<focus, searchActive, lastSearchValue, searchIndex,
                   timerVars, frameVars, menuVars>>

\* OnSearchFieldChange comes with the keyup, and first kills the timer.
Killed == IF keyTimeout THEN timers - 1 ELSE timers

\* Its end: did the text change since the last search?
CompareOnce(word) ==
    /\ missed' = {}
    /\ keyTimeout' = (lastSearchValue = Empty /\ Compact[word] # Empty)
    /\ timers' = Killed + (IF keyTimeout' THEN 1 ELSE 0) /\ timers' <= MaxTimers
    /\ UNCHANGED <<lastSearchValue, frameVars>>
Compare(word) ==
    \/ /\ Compact[word] = lastSearchValue
       /\ keyTimeout' = FALSE /\ timers' = Killed
       /\ missed' = missed \ {"text"}
       /\ UNCHANGED <<lastSearchValue, frameVars>>
    \/ /\ Compact[word] \notin {lastSearchValue, Empty}
       /\ Killed < MaxTimers
       /\ keyTimeout' = TRUE /\ timers' = Killed + 1
       /\ missed' = missed \ {"text"}
       /\ UNCHANGED <<lastSearchValue, frameVars>>
    \/ /\ Compact[word] = Empty /\ lastSearchValue # Empty
       /\ keyTimeout' = FALSE /\ timers' = Killed
       /\ lastSearchValue' = Empty /\ missed' = {}
       /\ HideResults

Release(key) == held = key /\ focus = "field" /\ held' = "none"

\* NavNext(0) of the page in the frame finds a result to focus.
HasResult == results /\ frame \in Hits

ReleaseEdit ==
    /\ \E key \in FieldKeys \ {"escape", "menu"} :
          /\ Release(key)
          /\ key \in {"down", "enter"} => ~HasResult
    /\ Compare(field)
    /\ UNCHANGED <<field, focus, searchActive, searchIndex, menuVars>>

\* Down or enter goes to the first result; the field loses the focus with
\* the results on display, so Activate resets nothing (but clears a label),
\* and the comparison may then hide the results after all.
ReleaseDown ==
    /\ \E key \in {"down", "enter"} : Release(key)
    /\ HasResult
    /\ field' = IF field = Label THEN Empty ELSE field
    /\ searchActive' = (searchActive \/ field = Label)
    /\ Compare(field')
    /\ focus' = IF results' THEN "results" ELSE "page"
    /\ UNCHANGED <<searchIndex, menuVars>>

\* Escape leaves the field, which deactivates the panel, and resets it all.
ReleaseEscape ==
    /\ Release("escape")
    /\ keyTimeout' = FALSE /\ timers' = Killed
    /\ focus' = "page"
    /\ HideResults
    /\ Reset
    /\ UNCHANGED <<searchIndex, menuVars>>

\* With shift: the menu opens and takes the focus, and nothing is compared.
ReleaseMenu ==
    /\ Release("menu")
    /\ keyTimeout' = FALSE /\ timers' = Killed
    /\ ShowMenu
    /\ focus' = "menu"
    /\ IF results
       THEN Open /\ UNCHANGED lastSearchValue /\ missed' = missed \cup (IF keyTimeout THEN {"text"} ELSE {})
       ELSE Reset
    /\ UNCHANGED <<searchIndex, frameVars, hover>>

ReleaseElsewhere ==
    /\ held # "none" /\ focus # "field"
    /\ held' = "none"
    /\ UNCHANGED <<focus, searchIndex, textVars, timerVars, frameVars, menuVars>>

-----------------------------------------------------------------------------
(* The filter menu: OnSearchSelectShow, -Hide, -Key, OnSelectItem          *)

MouseOver ==
    /\ hover = "off"
    /\ hover' \in {"icon"} \cup (IF menu THEN {"menu"} ELSE {})
    /\ ShowMenu
    /\ UNCHANGED <<focus, held, searchIndex, textVars, timerVars, frameVars>>

MouseOut ==
    /\ hover # "off"
    /\ hover' = "off"
    /\ hideTimeout' = TRUE
    /\ UNCHANGED <<focus, held, searchIndex, textVars, timerVars, frameVars, menu>>

HideTimerFires ==
    /\ hideTimeout
    /\ hideTimeout' = FALSE
    /\ menu' = FALSE
    /\ focus' = IF focus = "menu" THEN "page" ELSE focus
    /\ UNCHANGED <<held, searchIndex, textVars, timerVars, frameVars, hover>>

\* Pressing the mouse on an item has moved the focus to the menu already.
ClickItem(index) ==
    /\ focus = "menu" /\ hover = "menu"
    /\ OnSelectItem(index)
    /\ UNCHANGED <<field, searchActive, focus, held, menuVars>>

PressInMenu(key) == held \in {"none", key} /\ focus = "menu" /\ held' = key

SelectItemCount == Filters

\* Down stops one behind the last entry.
MenuDownPastEnd ==
    /\ PressInMenu("down") /\ searchIndex <= SelectItemCount
    /\ OnSelectItem(searchIndex + 1)
    /\ UNCHANGED <<field, searchActive, focus, menuVars>>
MenuDown ==
    /\ PressInMenu("down") /\ searchIndex < SelectItemCount
    /\ OnSelectItem(searchIndex + 1)
    /\ UNCHANGED <<field, searchActive, focus, menuVars>>

MenuUp ==
    /\ PressInMenu("up") /\ searchIndex > 0
    /\ OnSelectItem(searchIndex - 1)
    /\ UNCHANGED <<field, searchActive, focus, menuVars>>

\* Enter and escape select the filter, close the menu and go back to the
\* field, unless the search fails.  A mouse that was over the menu is over
\* nothing then, without the event that says so.
MenuClose ==
    /\ \E key \in {"enter", "escape"} : PressInMenu(key)
    /\ OnSelectItem(searchIndex)
    /\ IF Searches /\ searchIndex = Filters
       THEN UNCHANGED <<field, searchActive, focus, menu, hover>>
       ELSE /\ menu' = FALSE
            /\ hover' = IF hover = "menu" THEN "off" ELSE hover
            /\ focus' = "field"
            /\ Open
    /\ UNCHANGED hideTimeout

-----------------------------------------------------------------------------
(* The results window                                                      *)

KeyTimerFires ==
    /\ timers > 0
    /\ timers' = timers - 1
    /\ Search(searchIndex)
    /\ UNCHANGED <<field, searchActive, focus, held, searchIndex, menuVars>>

FrameLoaded ==
    /\ loading # NoPage
    /\ frame' = loading /\ loading' = NoPage
    /\ focus' = IF focus = "results" THEN "page" ELSE focus
    /\ UNCHANGED <<held, searchIndex, textVars, timerVars, results, menuVars>>

\* The close button; pressing the mouse there has moved the focus already.
CloseResultsWindow ==
    /\ results /\ focus = "page"
    /\ HideResults
    /\ Reset
    /\ UNCHANGED <<focus, held, searchIndex, timerVars, menuVars>>

PressInResults(key) == held \in {"none", key} /\ focus = "results" /\ held' = key

\* Escape in the frame closes the window and gives the field the focus.
EscapeInResults(key) ==
    /\ PressInResults(key)
    /\ focus' = "field"
    /\ HideResults
    /\ field' = Empty /\ searchActive' = TRUE
    /\ lastSearchValue' = Empty /\ missed' = {}
    /\ UNCHANGED <<searchIndex, timerVars, menuVars>>

\* Up on the first result goes back to the field.
UpInResults(key) ==
    /\ PressInResults(key)
    /\ focus' = "field"
    /\ Activate(TRUE, results)
    /\ UNCHANGED <<searchIndex, timerVars, frameVars, menuVars>>

\* Any other key stays inside the frame.
StayInResults(key) ==
    /\ PressInResults(key)
    /\ UNCHANGED <<focus, searchIndex, textVars, timerVars, frameVars, menuVars>>

KeyInResults(key) == StayInResults(key) \/ EscapeInResults(key) \/ UpInResults(key)

User ==
    \/ FocusField \/ MoveFocus \/ \E key \in FieldKeys : PressInField(key)
    \/ MouseOver \/ MouseOut \/ \E index \in 0..(Filters - 1) : ClickItem(index)
    \/ MenuDown \/ MenuUp \/ MenuClose
    \/ CloseResultsWindow \/ \E key \in Keys : KeyInResults(key)

ReleaseKey ==
    ReleaseEdit \/ ReleaseDown \/ ReleaseEscape \/ ReleaseMenu \/ ReleaseElsewhere

Next == User \/ ReleaseKey \/ KeyTimerFires \/ HideTimerFires \/ FrameLoaded

\* Timers fire and pages arrive; nothing is assumed of the user.
Fairness == WF_vars(KeyTimerFires) /\ WF_vars(FrameLoaded)

Spec == Init /\ [][Next]_vars
FairSpec == Spec /\ Fairness

-----------------------------------------------------------------------------
(* Properties                                                              *)

\* The panel as a whole: whoever is in the field has an active panel, an
\* inactive one shows its label, what is not displayed has no focus,
\* keyTimeout never names a timer that is gone, and what was searched for
\* last is on display.  Results over an inactive panel (a timer that the
\* field left behind) are those of the label, never of an older text.
PanelConsistent ==
    /\ focus = "field" => searchActive
    /\ ~searchActive => field = Label
    /\ focus = "results" => results
    /\ focus = "menu" => menu
    /\ keyTimeout => timers > 0
    /\ lastSearchValue # Empty => results
    /\ results /\ ~searchActive => lastSearchValue = Label

\* No timer closes the menu under the mouse, although closing the menu by
\* key, opening it by key and leaving it by mouse come in any order.
MenuStaysUnderMouse == hover # "off" => ~hideTimeout /\ (hover = "menu" => menu)

\* The user looks at a text that the script has seen, under a filter that
\* exists.
Watching ==
    /\ focus = "field" /\ held = "none" /\ Compact[field] # Empty
    /\ missed = {} /\ searchIndex < Filters

\* The results of a word are on display, under the filter that is chosen.
Displayed(word) ==
    /\ results /\ loading = NoPage
    /\ lastSearchValue = word /\ frame = PageFor(searchIndex, word)

\* A text with spaces in it may be left with the results of the text without
\* them, for which Search() asks for another page: OnSearchFieldChange drops
\* all spaces before it compares with the last search, Search() the leading
\* ones only.  No other text is taken for it.
OnDisplay == Displayed(field) \/ Displayed(Compact[field])

\* Whatever was typed, chosen, cancelled and loaded before, through timers
\* restarted, forgotten and run over: a text that is left alone ends up with
\* results beside it, with its own if there are no spaces in it, and else with
\* its own or those of the same letters without spaces.
TextIsSearched == <>[]Watching => <>[]OnDisplay
=============================================================================
