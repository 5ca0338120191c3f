---------------------------- MODULE SearchProofs ----------------------------
(***************************************************************************)
(* Machine-checked proofs about the search panel, for any words, filters,  *)
(* pages and number of timers: first about SearchBox, whose invariants are *)
(* inductive together, and what becomes of a text that is left alone; then *)
(* about SearchPanel, every step of which is a step of SearchBox, so that  *)
(* what holds of the box holds of the panel.                               *)
(***************************************************************************)
EXTENDS SearchPanel, Integers, TLAPS

USE DEF textVars, timerVars, frameVars, menuVars

-----------------------------------------------------------------------------
(* Types of the box                                                        *)

\* What the constants are.
LEMMA BoxConstants ==
    /\ Label \in Values /\ Empty \in Values /\ Label # Empty
    /\ Filters \in Nat \ {0} /\ MaxTimers \in Nat
    /\ NoPage \in Pages
    /\ \A index, word : PageFor(index, word) \in Pages
    /\ \A word \in Values : Compact[word] \in Values
  BY SearchBoxOK DEF Values, Pages, PageFor

\* The page starts in a well-typed state.
LEMMA TypeInit == Init => TypeOK
<1>1. 0 \in 0..Filters /\ 0 \in 0..MaxTimers
  BY BoxConstants
<1> QED
  BY <1>1, BoxConstants DEF Init, TypeOK, Keys, FieldKeys

\* A search leaves the types alone, ...
LEMMA SearchTypes ==
    ASSUME TypeOK, NEW index, Search(index)
    PROVE  /\ keyTimeout' \in BOOLEAN /\ results' \in BOOLEAN
           /\ frame' \in Pages /\ loading' \in Pages
           /\ lastSearchValue' \in Values /\ missed' \subseteq Causes
<1>1. CASE index < Filters
  <2>1. PageFor(index, field) \in Pages
    BY BoxConstants
  <2> QED
    BY <1>1, <2>1 DEF Search, TypeOK
<1>2. CASE ~(index < Filters)
  BY <1>2 DEF Search, TypeOK
<1> QED
  BY <1>1, <1>2

\* ... and so does the choice of a filter.
LEMMA SelectTypes ==
    ASSUME TypeOK, NEW index \in 0..Filters, OnSelectItem(index)
    PROVE  /\ keyTimeout' \in BOOLEAN /\ results' \in BOOLEAN
           /\ frame' \in Pages /\ loading' \in Pages
           /\ lastSearchValue' \in Values /\ missed' \subseteq Causes
           /\ searchIndex' \in 0..Filters /\ timers' \in 0..MaxTimers
<1>1. searchIndex' \in 0..Filters /\ timers' \in 0..MaxTimers
  BY DEF OnSelectItem, TypeOK
<1>2. CASE Searches
  BY <1>1, <1>2, SearchTypes DEF OnSelectItem
<1>3. CASE ~Searches
  BY <1>1, <1>3 DEF OnSelectItem, TypeOK, Causes
<1> QED
  BY <1>2, <1>3

\* A running timer is never killed twice.
LEMMA KilledTimers ==
    ASSUME TypeOK, keyTimeout => timers > 0
    PROVE  Killed \in 0..MaxTimers /\ Killed <= timers /\ (Killed < MaxTimers => Killed + 1 \in 0..MaxTimers)
  BY BoxConstants DEF TypeOK, Killed

\* Every variable keeps its type.
LEMMA TypeStep ==
    ASSUME TypeOK, keyTimeout => timers > 0, [Next]_vars
    PROVE  TypeOK'
<1> USE BoxConstants DEF TypeOK, Keys, FieldKeys, Causes
<1>1. CASE FocusField
  BY <1>1 DEF FocusField, Activate, Open
<1>2. CASE MoveFocus
  BY <1>2 DEF MoveFocus, Activate, Open, Reset
<1>3. ASSUME NEW key \in FieldKeys, PressInField(key) PROVE TypeOK'
  BY <1>3 DEF PressInField
<1>4. CASE MouseOver
  BY <1>4 DEF MouseOver, ShowMenu
<1>5. CASE MouseOut
  BY <1>5 DEF MouseOut
<1>6. ASSUME NEW index \in 0..(Filters - 1), ClickItem(index) PROVE TypeOK'
  <2>1. index \in 0..Filters
    OBVIOUS
  <2> QED
    BY <1>6, <2>1, SelectTypes DEF ClickItem
<1>7. CASE MenuDown
  <2>1. searchIndex + 1 \in 0..Filters
    BY <1>7 DEF MenuDown, SelectItemCount
  <2> QED
    BY <1>7, <2>1, SelectTypes DEF MenuDown, PressInMenu
<1>8. CASE MenuUp
  <2>1. searchIndex - 1 \in 0..Filters
    BY <1>8 DEF MenuUp
  <2> QED
    BY <1>8, <2>1, SelectTypes DEF MenuUp, PressInMenu
<1>9. CASE MenuClose
  BY <1>9, SelectTypes DEF MenuClose, PressInMenu, Open
<1>10. CASE CloseResultsWindow
  BY <1>10 DEF CloseResultsWindow, HideResults, Reset
<1>11. ASSUME NEW key \in Keys, StayInResults(key) PROVE TypeOK'
  BY <1>11 DEF StayInResults, PressInResults
<1>12. ASSUME NEW key \in Keys, EscapeInResults(key) PROVE TypeOK'
  BY <1>12 DEF EscapeInResults, PressInResults, HideResults
<1>13. ASSUME NEW key \in Keys, UpInResults(key) PROVE TypeOK'
  BY <1>13 DEF UpInResults, PressInResults, Activate, Open
<1>14. CASE ReleaseEdit
  BY <1>14, KilledTimers DEF ReleaseEdit, Release, Compare, HideResults
<1>15. CASE ReleaseDown
  BY <1>15, KilledTimers DEF ReleaseDown, Release, Compare, HideResults
<1>16. CASE ReleaseEscape
  BY <1>16, KilledTimers DEF ReleaseEscape, Release, HideResults, Reset
<1>17. CASE ReleaseMenu
  BY <1>17, KilledTimers DEF ReleaseMenu, Release, ShowMenu, Open, Reset
<1>18. CASE ReleaseElsewhere
  BY <1>18 DEF ReleaseElsewhere
<1>19. CASE KeyTimerFires
  BY <1>19, SearchTypes DEF KeyTimerFires
<1>20. CASE HideTimerFires
  BY <1>20 DEF HideTimerFires
<1>21. CASE FrameLoaded
  BY <1>21 DEF FrameLoaded
<1>22. CASE UNCHANGED vars
  BY <1>22 DEF vars
<1> QED
  BY <1>1, <1>2, <1>3, <1>4, <1>5, <1>6, <1>7, <1>8, <1>9, <1>10, <1>11, <1>12, <1>13,
       <1>14, <1>15, <1>16, <1>17, <1>18, <1>19, <1>20, <1>21, <1>22
  DEF Next, User, ReleaseKey, KeyInResults

-----------------------------------------------------------------------------
(* The panel and the menu                                                  *)

\* The comparison at the end of OnSearchFieldChange leaves keyTimeout with a
\* timer, and takes the results away only together with what they are for.
LEMMA CompareStep ==
    ASSUME TypeOK, PanelConsistent, NEW word, Compare(word)
    PROVE  /\ keyTimeout' => timers' > 0
           /\ lastSearchValue' # Empty => results'
  BY BoxConstants DEF Compare, Killed, HideResults, TypeOK, PanelConsistent

\* The parts of the panel stay consistent.
LEMMA PanelStep ==
    ASSUME TypeOK, PanelConsistent, [Next]_vars
    PROVE  PanelConsistent'
<1> USE BoxConstants DEF TypeOK, PanelConsistent
<1>1. CASE FocusField
  BY <1>1 DEF FocusField, Activate, Open
<1>2. CASE MoveFocus
  BY <1>2 DEF MoveFocus, Activate, Open, Reset
<1>3. ASSUME NEW key \in FieldKeys, PressInField(key) PROVE PanelConsistent'
  BY <1>3 DEF PressInField
<1>4. CASE MouseOver
  BY <1>4 DEF MouseOver, ShowMenu
<1>5. CASE MouseOut
  BY <1>5 DEF MouseOut
<1>6. ASSUME NEW index \in 0..(Filters - 1), ClickItem(index) PROVE PanelConsistent'
  BY <1>6 DEF ClickItem, OnSelectItem, Search, Searches
<1>7. CASE MenuDown
  BY <1>7 DEF MenuDown, PressInMenu, SelectItemCount, OnSelectItem, Search, Searches
<1>8. CASE MenuUp
  BY <1>8 DEF MenuUp, PressInMenu, OnSelectItem, Search, Searches
<1>9. CASE MenuClose
  BY <1>9 DEF MenuClose, PressInMenu, OnSelectItem, Search, Searches, Open
<1>10. CASE CloseResultsWindow
  BY <1>10 DEF CloseResultsWindow, HideResults, Reset
<1>11. ASSUME NEW key \in Keys, StayInResults(key) PROVE PanelConsistent'
  BY <1>11 DEF StayInResults, PressInResults
<1>12. ASSUME NEW key \in Keys, EscapeInResults(key) PROVE PanelConsistent'
  BY <1>12 DEF EscapeInResults, PressInResults, HideResults
<1>13. ASSUME NEW key \in Keys, UpInResults(key) PROVE PanelConsistent'
  BY <1>13 DEF UpInResults, PressInResults, Activate, Open
<1>14. CASE ReleaseEdit
  BY <1>14 DEF ReleaseEdit, Release, Compare, HideResults, Killed
<1>15. CASE ReleaseDown
  BY <1>15, CompareStep DEF ReleaseDown, Release, HasResult
<1>16. CASE ReleaseEscape
  BY <1>16 DEF ReleaseEscape, Release, Killed, HideResults, Reset
<1>17. CASE ReleaseMenu
  BY <1>17 DEF ReleaseMenu, Release, Killed, ShowMenu, Open, Reset
<1>18. CASE ReleaseElsewhere
  BY <1>18 DEF ReleaseElsewhere
<1>19. CASE KeyTimerFires
  BY <1>19 DEF KeyTimerFires, Search
<1>20. CASE HideTimerFires
  BY <1>20 DEF HideTimerFires
<1>21. CASE FrameLoaded
  BY <1>21 DEF FrameLoaded
<1>22. CASE UNCHANGED vars
  BY <1>22 DEF vars
<1> QED
  BY <1>1, <1>2, <1>3, <1>4, <1>5, <1>6, <1>7, <1>8, <1>9, <1>10, <1>11, <1>12, <1>13,
       <1>14, <1>15, <1>16, <1>17, <1>18, <1>19, <1>20, <1>21, <1>22
  DEF Next, User, ReleaseKey, KeyInResults

\* The menu stays open under the mouse.
LEMMA MenuStep ==
    ASSUME TypeOK, MenuStaysUnderMouse, [Next]_vars
    PROVE  MenuStaysUnderMouse'
<1> USE DEF TypeOK, MenuStaysUnderMouse
<1>1. CASE FocusField
  BY <1>1 DEF FocusField, Activate, Open
<1>2. CASE MoveFocus
  BY <1>2 DEF MoveFocus, Activate, Open, Reset
<1>3. ASSUME NEW key \in FieldKeys, PressInField(key) PROVE MenuStaysUnderMouse'
  BY <1>3 DEF PressInField
<1>4. CASE MouseOver
  BY <1>4 DEF MouseOver, ShowMenu
<1>5. CASE MouseOut
  BY <1>5 DEF MouseOut
<1>6. ASSUME NEW index \in 0..(Filters - 1), ClickItem(index) PROVE MenuStaysUnderMouse'
  BY <1>6 DEF ClickItem, OnSelectItem, Search
<1>7. CASE MenuDown
  BY <1>7 DEF MenuDown, PressInMenu, SelectItemCount, OnSelectItem, Search
<1>8. CASE MenuUp
  BY <1>8 DEF MenuUp, PressInMenu, OnSelectItem, Search
<1>9. CASE MenuClose
  BY <1>9 DEF MenuClose, PressInMenu, OnSelectItem, Search, Open
<1>10. CASE CloseResultsWindow
  BY <1>10 DEF CloseResultsWindow, HideResults, Reset
<1>11. ASSUME NEW key \in Keys, StayInResults(key) PROVE MenuStaysUnderMouse'
  BY <1>11 DEF StayInResults, PressInResults
<1>12. ASSUME NEW key \in Keys, EscapeInResults(key) PROVE MenuStaysUnderMouse'
  BY <1>12 DEF EscapeInResults, PressInResults, HideResults
<1>13. ASSUME NEW key \in Keys, UpInResults(key) PROVE MenuStaysUnderMouse'
  BY <1>13 DEF UpInResults, PressInResults, Activate, Open
<1>14. CASE ReleaseEdit
  BY <1>14 DEF ReleaseEdit, Release, Compare, HideResults, Killed
<1>15. CASE ReleaseDown
  BY <1>15 DEF ReleaseDown, Release, Compare, HideResults, Killed
<1>16. CASE ReleaseEscape
  BY <1>16 DEF ReleaseEscape, Release, Killed, HideResults, Reset
<1>17. CASE ReleaseMenu
  BY <1>17 DEF ReleaseMenu, Release, Killed, ShowMenu, Open, Reset
<1>18. CASE ReleaseElsewhere
  BY <1>18 DEF ReleaseElsewhere
<1>19. CASE KeyTimerFires
  BY <1>19 DEF KeyTimerFires, Search
<1>20. CASE HideTimerFires
  BY <1>20 DEF HideTimerFires
<1>21. CASE FrameLoaded
  BY <1>21 DEF FrameLoaded
<1>22. CASE UNCHANGED vars
  BY <1>22 DEF vars
<1> QED
  BY <1>1, <1>2, <1>3, <1>4, <1>5, <1>6, <1>7, <1>8, <1>9, <1>10, <1>11, <1>12, <1>13,
       <1>14, <1>15, <1>16, <1>17, <1>18, <1>19, <1>20, <1>21, <1>22
  DEF Next, User, ReleaseKey, KeyInResults

\* What the theorems about the box follow from.
BoxInv == TypeOK /\ PanelConsistent /\ MenuStaysUnderMouse

LEMMA BoxInit == Init => BoxInv
<1>1. Init => PanelConsistent /\ MenuStaysUnderMouse
  BY DEF Init, PanelConsistent, MenuStaysUnderMouse
<1> QED
  BY <1>1, TypeInit DEF BoxInv

LEMMA BoxStep ==
    ASSUME BoxInv, [Next]_vars
    PROVE  BoxInv'
<1>1. keyTimeout => timers > 0
  BY DEF BoxInv, PanelConsistent
<1> QED
  BY <1>1, TypeStep, PanelStep, MenuStep DEF BoxInv

LEMMA BoxInvariant == Spec => []BoxInv
<1>1. BoxInv /\ [Next]_vars => BoxInv'
  BY BoxStep
<1> QED
  BY BoxInit, <1>1, PTL DEF Spec

\* Every variable of the search box keeps its type: no more timers than are
\* counted, and nothing but pages of the manual in the frame.
THEOREM BoxTypeCorrect == Spec => []TypeOK
<1>1. BoxInv => TypeOK
  BY DEF BoxInv
<1> QED
  BY BoxInvariant, <1>1, PTL

\* Field, focus, timers, results and what was searched for last agree.
THEOREM PanelStaysConsistent == Spec => []PanelConsistent
<1>1. BoxInv => PanelConsistent
  BY DEF BoxInv
<1> QED
  BY BoxInvariant, <1>1, PTL

\* No timer closes the filter menu under the mouse.
THEOREM MenuStays == Spec => []MenuStaysUnderMouse
<1>1. BoxInv => MenuStaysUnderMouse
  BY DEF BoxInv
<1> QED
  BY BoxInvariant, <1>1, PTL

-----------------------------------------------------------------------------
(* A text that is left alone                                               *)

\* The page that belongs to what was searched for last.
Wanted == PageFor(searchIndex, lastSearchValue)

\* Unless a filter was chosen without a search, the last page asked for is
\* the one for the last text and the filter, there or on its way.
PageFollows ==
    lastSearchValue # Empty /\ "filter" \notin missed /\ searchIndex < Filters =>
        IF loading = NoPage THEN frame = Wanted ELSE loading = Wanted

\* Unless something was missed, a text was searched for, with or without the
\* spaces in it, or has a timer.
TextFollows ==
    searchActive /\ missed = {} /\ searchIndex < Filters /\ Compact[field] # Empty =>
        keyTimeout \/ (lastSearchValue # Empty /\ lastSearchValue \in {field, Compact[field]})

\* A page that is asked for is one.
LEMMA PageIsAPage ==
    ASSUME NEW index, NEW word
    PROVE  PageFor(index, word) # NoPage
<1>1. NoMatches # NoPage
  BY SearchBoxOK DEF NoMatches, NoPage
<1>2. NoPage \notin Indexed
  BY SearchBoxOK DEF NoPage
<1> QED
  BY <1>1, <1>2 DEF PageFor

LEMMA PageFollowsStep ==
    ASSUME BoxInv, PageFollows, [Next]_vars
    PROVE  PageFollows'
<1> USE BoxConstants, PageIsAPage DEF BoxInv, TypeOK, PageFollows, Wanted
<1>1. CASE FocusField
  BY <1>1 DEF FocusField, Activate, Open
<1>2. CASE MoveFocus
  BY <1>2 DEF MoveFocus, Activate, Open, Reset
<1>3. ASSUME NEW key \in FieldKeys, PressInField(key) PROVE PageFollows'
  BY <1>3 DEF PressInField
<1>4. CASE MouseOver
  BY <1>4 DEF MouseOver, ShowMenu
<1>5. CASE MouseOut
  BY <1>5 DEF MouseOut
<1>6. ASSUME NEW index \in 0..(Filters - 1), ClickItem(index) PROVE PageFollows'
  BY <1>6 DEF ClickItem, OnSelectItem, Search, Searches
<1>7. CASE MenuDown
  BY <1>7 DEF MenuDown, PressInMenu, SelectItemCount, OnSelectItem, Search, Searches
<1>8. CASE MenuUp
  BY <1>8 DEF MenuUp, PressInMenu, OnSelectItem, Search, Searches
<1>9. CASE MenuClose
  BY <1>9 DEF MenuClose, PressInMenu, OnSelectItem, Search, Searches, Open
<1>10. CASE CloseResultsWindow
  BY <1>10 DEF CloseResultsWindow, HideResults, Reset
<1>11. ASSUME NEW key \in Keys, StayInResults(key) PROVE PageFollows'
  BY <1>11 DEF StayInResults, PressInResults
<1>12. ASSUME NEW key \in Keys, EscapeInResults(key) PROVE PageFollows'
  BY <1>12 DEF EscapeInResults, PressInResults, HideResults
<1>13. ASSUME NEW key \in Keys, UpInResults(key) PROVE PageFollows'
  BY <1>13 DEF UpInResults, PressInResults, Activate, Open
<1>14. CASE ReleaseEdit
  BY <1>14 DEF ReleaseEdit, Release, Compare, HideResults
<1>15. CASE ReleaseDown
  BY <1>15 DEF ReleaseDown, Release, Compare, HideResults
<1>16. CASE ReleaseEscape
  BY <1>16 DEF ReleaseEscape, Release, HideResults, Reset
<1>17. CASE ReleaseMenu
  BY <1>17 DEF ReleaseMenu, Release, ShowMenu, Open, Reset
<1>18. CASE ReleaseElsewhere
  BY <1>18 DEF ReleaseElsewhere
<1>19. CASE KeyTimerFires
  BY <1>19 DEF KeyTimerFires, Search
<1>20. CASE HideTimerFires
  BY <1>20 DEF HideTimerFires
<1>21. CASE FrameLoaded
  BY <1>21 DEF FrameLoaded
<1>22. CASE UNCHANGED vars
  BY <1>22 DEF vars
<1> QED
  BY <1>1, <1>2, <1>3, <1>4, <1>5, <1>6, <1>7, <1>8, <1>9, <1>10, <1>11, <1>12, <1>13,
       <1>14, <1>15, <1>16, <1>17, <1>18, <1>19, <1>20, <1>21, <1>22
  DEF Next, User, ReleaseKey, KeyInResults

LEMMA TextFollowsStep ==
    ASSUME BoxInv, TextFollows, [Next]_vars
    PROVE  TextFollows'
<1> USE BoxConstants, SearchBoxOK DEF BoxInv, TypeOK, PanelConsistent, TextFollows
<1>1. CASE FocusField
  BY <1>1 DEF FocusField, Activate, Open
<1>2. CASE MoveFocus
  BY <1>2 DEF MoveFocus, Activate, Open, Reset
<1>3. ASSUME NEW key \in FieldKeys, PressInField(key) PROVE TextFollows'
  BY <1>3 DEF PressInField
<1>4. CASE MouseOver
  BY <1>4 DEF MouseOver, ShowMenu
<1>5. CASE MouseOut
  BY <1>5 DEF MouseOut
<1>6. ASSUME NEW index \in 0..(Filters - 1), ClickItem(index) PROVE TextFollows'
  BY <1>6 DEF ClickItem, OnSelectItem, Search, Searches
<1>7. CASE MenuDown
  BY <1>7 DEF MenuDown, PressInMenu, SelectItemCount, OnSelectItem, Search, Searches
<1>8. CASE MenuUp
  BY <1>8 DEF MenuUp, PressInMenu, OnSelectItem, Search, Searches
<1>9. CASE MenuClose
  BY <1>9 DEF MenuClose, PressInMenu, OnSelectItem, Search, Searches, Open
<1>10. CASE CloseResultsWindow
  BY <1>10 DEF CloseResultsWindow, HideResults, Reset
<1>11. ASSUME NEW key \in Keys, StayInResults(key) PROVE TextFollows'
  BY <1>11 DEF StayInResults, PressInResults
<1>12. ASSUME NEW key \in Keys, EscapeInResults(key) PROVE TextFollows'
  BY <1>12 DEF EscapeInResults, PressInResults, HideResults
<1>13. ASSUME NEW key \in Keys, UpInResults(key) PROVE TextFollows'
  BY <1>13 DEF UpInResults, PressInResults, Activate, Open
<1>14. CASE ReleaseEdit
  BY <1>14 DEF ReleaseEdit, Release, Compare, HideResults
<1>15. CASE ReleaseDown
  BY <1>15 DEF ReleaseDown, Release, Compare, HideResults
<1>16. CASE ReleaseEscape
  BY <1>16 DEF ReleaseEscape, Release, HideResults, Reset
<1>17. CASE ReleaseMenu
  BY <1>17 DEF ReleaseMenu, Release, ShowMenu, Open, Reset
<1>18. CASE ReleaseElsewhere
  BY <1>18 DEF ReleaseElsewhere
<1>19. CASE KeyTimerFires
  BY <1>19 DEF KeyTimerFires, Search
<1>20. CASE HideTimerFires
  BY <1>20 DEF HideTimerFires
<1>21. CASE FrameLoaded
  BY <1>21 DEF FrameLoaded
<1>22. CASE UNCHANGED vars
  BY <1>22 DEF vars
<1> QED
  BY <1>1, <1>2, <1>3, <1>4, <1>5, <1>6, <1>7, <1>8, <1>9, <1>10, <1>11, <1>12, <1>13,
       <1>14, <1>15, <1>16, <1>17, <1>18, <1>19, <1>20, <1>21, <1>22
  DEF Next, User, ReleaseKey, KeyInResults

FollowInv == BoxInv /\ PageFollows /\ TextFollows

LEMMA FollowInvariant == Spec => []FollowInv
<1>1. Init => FollowInv
  BY BoxInit, BoxConstants DEF FollowInv, Init, PageFollows, TextFollows
<1>2. FollowInv /\ [Next]_vars => FollowInv'
  BY BoxStep, PageFollowsStep, TextFollowsStep DEF FollowInv
<1> QED
  BY <1>1, <1>2, PTL DEF Spec

\* The results for this text, with or without the spaces in it, and for this
\* filter are on display or on their way.
ResultsFollow ==
    /\ results /\ lastSearchValue \in {field, Compact[field]}
    /\ IF loading = NoPage THEN frame = Wanted ELSE loading = Wanted

\* A text that is watched has its results, or a timer that will ask for them.
LEMMA TimerOrResults ==
    ASSUME FollowInv, Watching
    PROVE  timers > 0 \/ ResultsFollow
  BY DEF FollowInv, BoxInv, PanelConsistent, PageFollows, TextFollows, ResultsFollow, Watching

LEMMA TimerSearches ==
    ASSUME Watching, KeyTimerFires
    PROVE  ResultsFollow'
  BY PageIsAPage DEF Watching, KeyTimerFires, Search, ResultsFollow, Wanted

\* While the text is left alone, ...
Undisturbed == Watching /\ Watching'

\* ... only the mouse, the timers and the frame do anything, ...
LEMMA WatchingSteps ==
    ASSUME Undisturbed, [Next]_vars
    PROVE  \/ KeyTimerFires \/ FrameLoaded
           \/ UNCHANGED <<field, searchIndex, textVars, timerVars, frameVars>>
<1> DEFINE Goal ==
              \/ KeyTimerFires \/ FrameLoaded
              \/ UNCHANGED <<field, searchIndex, textVars, timerVars, frameVars>>
<1> USE DEF Undisturbed, Watching, FieldKeys, Keys
<1>1. CASE FocusField
  BY <1>1 DEF FocusField, Activate, Open
<1>2. CASE MoveFocus
  BY <1>2 DEF MoveFocus, Activate, Open, Reset
<1>3. ASSUME NEW key \in FieldKeys, PressInField(key) PROVE Goal
  BY <1>3 DEF PressInField
<1>4. CASE MouseOver
  BY <1>4 DEF MouseOver, ShowMenu
<1>5. CASE MouseOut
  BY <1>5 DEF MouseOut
<1>6. ASSUME NEW index \in 0..(Filters - 1), ClickItem(index) PROVE Goal
  BY <1>6 DEF ClickItem, OnSelectItem, Search, Searches
<1>7. CASE MenuDown
  BY <1>7 DEF MenuDown, PressInMenu, SelectItemCount, OnSelectItem, Search, Searches
<1>8. CASE MenuUp
  BY <1>8 DEF MenuUp, PressInMenu, OnSelectItem, Search, Searches
<1>9. CASE MenuClose
  BY <1>9 DEF MenuClose, PressInMenu, OnSelectItem, Search, Searches, Open
<1>10. CASE CloseResultsWindow
  BY <1>10 DEF CloseResultsWindow, HideResults, Reset
<1>11. ASSUME NEW key \in Keys, StayInResults(key) PROVE Goal
  BY <1>11 DEF StayInResults, PressInResults
<1>12. ASSUME NEW key \in Keys, EscapeInResults(key) PROVE Goal
  BY <1>12 DEF EscapeInResults, PressInResults, HideResults
<1>13. ASSUME NEW key \in Keys, UpInResults(key) PROVE Goal
  BY <1>13 DEF UpInResults, PressInResults, Activate, Open
<1>14. CASE ReleaseEdit
  BY <1>14 DEF ReleaseEdit, Release, Compare, HideResults
<1>15. CASE ReleaseDown
  BY <1>15 DEF ReleaseDown, Release, Compare, HideResults
<1>16. CASE ReleaseEscape
  BY <1>16 DEF ReleaseEscape, Release, HideResults, Reset
<1>17. CASE ReleaseMenu
  BY <1>17 DEF ReleaseMenu, Release, ShowMenu, Open, Reset
<1>18. CASE ReleaseElsewhere
  BY <1>18 DEF ReleaseElsewhere
<1>19. CASE KeyTimerFires
  BY <1>19 DEF KeyTimerFires, Search
<1>20. CASE HideTimerFires
  BY <1>20 DEF HideTimerFires
<1>21. CASE FrameLoaded
  BY <1>21 DEF FrameLoaded
<1>22. CASE UNCHANGED vars
  BY <1>22 DEF vars
<1> QED
  BY <1>1, <1>2, <1>3, <1>4, <1>5, <1>6, <1>7, <1>8, <1>9, <1>10, <1>11, <1>12, <1>13,
       <1>14, <1>15, <1>16, <1>17, <1>18, <1>19, <1>20, <1>21, <1>22
  DEF Next, User, ReleaseKey, KeyInResults

\* ... so that results that are there or on their way stay so, ...
LEMMA ResultsStay ==
    ASSUME Undisturbed, ResultsFollow, [Next]_vars
    PROVE  ResultsFollow'
<1>1. CASE KeyTimerFires
  BY <1>1, TimerSearches DEF Undisturbed
<1>2. CASE FrameLoaded
  BY <1>2 DEF FrameLoaded, ResultsFollow, Wanted
<1>3. CASE UNCHANGED <<field, searchIndex, textVars, timerVars, frameVars>>
  BY <1>3 DEF ResultsFollow, Wanted
<1> QED
  BY <1>1, <1>2, <1>3, WatchingSteps

\* ... and what is displayed, with no timer running, stays displayed.
LEMMA DisplayStays ==
    ASSUME FollowInv, Undisturbed, timers = 0, [Next]_vars
    PROVE  timers' = 0 /\ (loading = NoPage => loading' = NoPage)
<1>1. ~KeyTimerFires
  BY DEF KeyTimerFires
<1>2. CASE FrameLoaded
  BY <1>2 DEF FrameLoaded
<1>3. CASE UNCHANGED <<field, searchIndex, textVars, timerVars, frameVars>>
  BY <1>3
<1> QED
  BY <1>1, <1>2, <1>3, WatchingSteps

\* What FairSpec assumes of the browser, with the guards written out: a timer
\* fires unless there is none again and again, and a page arrives unless none
\* is on its way.
TimersFire == []<>(timers = 0) \/ []<><<KeyTimerFires>>_vars
PagesArrive == []<>(loading = NoPage) \/ []<><<FrameLoaded>>_vars

\* A text that the user leaves alone gets its own results, or, if there are
\* spaces in it, those of the text without them: from some time on they are
\* displayed or on their way, and they are displayed again and again; once the
\* timers that were forgotten have all fired, they stay displayed.  A text
\* without spaces gets its own, whatever was searched for before.
THEOREM TextGetsItsResults ==
    Spec /\ TimersFire /\ PagesArrive =>
        /\ <>[]Watching => /\ <>[]ResultsFollow
                           /\ []<>OnDisplay
                           /\ []<>(timers = 0) => <>[]OnDisplay
        /\ <>[](Watching /\ Compact[field] = field) => []<>Displayed(field)
<1>1. FollowInv /\ Watching /\ timers = 0 => ResultsFollow
  <2>1. timers = 0 => ~(timers > 0)
    OBVIOUS
  <2> QED
    BY <2>1, TimerOrResults
<1>2. Watching /\ <<KeyTimerFires>>_vars => ResultsFollow'
  BY TimerSearches
<1>3. Watching /\ Watching' /\ ResultsFollow /\ [Next]_vars => ResultsFollow'
  BY ResultsStay DEF Undisturbed
<1>4. ResultsFollow /\ loading = NoPage => OnDisplay
  BY DEF ResultsFollow, OnDisplay, Displayed, Wanted
<1>5. <<FrameLoaded>>_vars => (loading = NoPage)'
  BY DEF FrameLoaded
<1>6. FollowInv /\ Watching /\ Watching' /\ timers = 0 /\ [Next]_vars => (timers = 0)'
  BY DisplayStays DEF Undisturbed
<1>7. FollowInv /\ Watching /\ Watching' /\ timers = 0 /\ loading = NoPage /\ [Next]_vars
        => (loading = NoPage)'
  BY DisplayStays DEF Undisturbed
<1>8. Spec => [][Next]_vars
  BY PTL DEF Spec
<1>9. Spec /\ TimersFire /\ <>[]Watching => <>[]ResultsFollow
  BY FollowInvariant, <1>1, <1>2, <1>3, <1>8, PTL DEF TimersFire
<1>10. Spec /\ PagesArrive => []<>(loading = NoPage)
  BY <1>5, PTL DEF PagesArrive
<1>11. <>[]ResultsFollow /\ []<>(loading = NoPage) => []<>OnDisplay
  BY <1>4, PTL
<1>12. Spec /\ <>[]Watching /\ []<>(timers = 0) /\ []<>(loading = NoPage)
         => <>[](loading = NoPage)
  BY FollowInvariant, <1>6, <1>7, <1>8, PTL
<1>13. <>[]ResultsFollow /\ <>[](loading = NoPage) => <>[]OnDisplay
  BY <1>4, PTL
<1>14. Compact[field] = field /\ OnDisplay => Displayed(field)
  BY DEF OnDisplay
<1>15. <>[](Watching /\ Compact[field] = field) /\ []<>OnDisplay => []<>Displayed(field)
  BY <1>14, PTL
<1>16. <>[](Watching /\ Compact[field] = field) => <>[]Watching
  BY PTL
<1> QED
  BY <1>9, <1>10, <1>11, <1>12, <1>13, <1>15, <1>16, PTL

-----------------------------------------------------------------------------
(* The box within the panel                                                *)

\* A step of the panel is a step of the box, or one that the box does not
\* see: what goes on in the frame takes only the ways out that it has.
LEMMA PanelStepsAreBoxSteps ==
    ASSUME TypeOK, [PanelNext]_panelVars
    PROVE  [Next]_vars
<1> USE SearchPanelOK DEF Next, User, ReleaseKey, KeyInResults
<1>1. CASE BoxOnly
  BY <1>1 DEF BoxOnly
<1>2. CASE PageArrives \/ FirstResult \/ MouseToResults \/ FieldFromResults \/ KeyUp
  BY <1>2 DEF PageArrives, FirstResult, MouseToResults, FieldFromResults, KeyUp
<1>3. ASSUME NEW key \in NavKeys, KeyDown(key) PROVE Next
  <2>1. key \in Keys
    BY DEF R!SearchResultsOK, Keys, FieldKeys
  <2> QED
    BY <1>3, <2>1 DEF KeyDown, Leads
<1>4. CASE KeyPress
  <2>1. held \in Keys
    BY <1>4 DEF KeyPress, TypeOK
  <2> QED
    BY <1>4, <2>1 DEF KeyPress, Leads
<1>5. CASE Enter
  <2>1. "enter" \in Keys
    BY DEF Keys, FieldKeys
  <2> QED
    BY <1>5, <2>1 DEF Enter
<1>6. CASE UNCHANGED panelVars
  BY <1>6 DEF panelVars
<1> QED
  BY <1>1, <1>2, <1>3, <1>4, <1>5, <1>6 DEF PanelNext

LEMMA BoxInPanel == PanelSpec => []BoxInv
<1>1. PanelInit => BoxInv
  BY BoxInit DEF PanelInit
<1>2. BoxInv /\ [PanelNext]_panelVars => BoxInv'
  BY PanelStepsAreBoxSteps, BoxStep DEF BoxInv
<1> QED
  BY <1>1, <1>2, PTL DEF PanelSpec

\* The panel implements the box: reading, folding and walking through the
\* results makes the box do nothing that it could not do without them.
THEOREM PanelImplementsBox == PanelSpec => Spec
<1>1. PanelInit => Init
  BY DEF PanelInit
<1>2. BoxInv /\ [PanelNext]_panelVars => [Next]_vars
  BY PanelStepsAreBoxSteps DEF BoxInv
<1> QED
  BY BoxInPanel, <1>1, <1>2, PTL DEF PanelSpec, Spec

-----------------------------------------------------------------------------
(* Entries of the list of results                                          *)

\* The rows of a page are a block.
Block == \E first, last \in Int : visible = first..last

\* What an entry is.
LEMMA EntryIs ==
    /\ \A i, c : R!Entry(i, c).item = i /\ R!Entry(i, c).child = c
    /\ \A i \in 1..Rows : Kids[i] \in Nat /\ \A c \in 0..Kids[i] : R!Entry(i, c) \in R!Entries
    /\ \A e \in R!Entries :
          /\ e.item \in 1..Rows /\ e.child \in 0..Kids[e.item]
          /\ e = R!Entry(e.item, e.child)
    /\ R!Outside.item = 0 /\ R!Outside.child = 0 /\ R!Outside \notin R!Entries
<1>1. \A i \in 1..Rows : Kids[i] \in Nat
  BY SearchPanelOK DEF R!SearchResultsOK
<1>2. ASSUME NEW i \in 1..Rows, NEW c \in 0..Kids[i] PROVE R!Entry(i, c) \in R!Entries
  BY DEF R!Entries
<1>3. ASSUME NEW e \in R!Entries
      PROVE  /\ e.item \in 1..Rows /\ e.child \in 0..Kids[e.item]
             /\ e = R!Entry(e.item, e.child)
  <2>1. PICK i \in 1..Rows : e \in {R!Entry(i, c) : c \in 0..Kids[i]}
    BY DEF R!Entries
  <2>2. PICK c \in 0..Kids[i] : e = R!Entry(i, c)
    BY <2>1
  <2>3. e.item = i /\ e.child = c
    BY <2>2 DEF R!Entry
  <2> QED
    BY <2>2, <2>3
<1>4. \A i, c : R!Entry(i, c).item = i /\ R!Entry(i, c).child = c
  BY DEF R!Entry
<1>5. R!Outside.item = 0 /\ R!Outside.child = 0
  BY <1>4 DEF R!Outside
<1>6. R!Outside \notin R!Entries
  <2>1. R!Outside \in R!Entries => R!Outside.item \in 1..Rows
    BY <1>3
  <2>2. 0 \notin 1..Rows
    BY SearchPanelOK DEF R!SearchResultsOK
  <2> QED
    BY <1>5, <2>1, <2>2
<1> QED
  BY <1>1, <1>2, <1>3, <1>4, <1>5, <1>6

\* Within a block the next row and the previous one are where one looks.
LEMMA NavNextIs ==
    ASSUME NEW first \in Int, NEW last \in Int, visible = first..last, NEW i \in Int
    PROVE  R!NavNext(i) =
              IF i <= first /\ first <= last THEN R!Entry(first, 0)
              ELSE IF i <= last /\ first < i THEN R!Entry(i, 0) ELSE R!Outside
<1> DEFINE rows == {j \in visible : i <= j}
           low == IF i <= first THEN first ELSE i
<1>1. R!NavNext(i) = IF rows = {} THEN R!Outside
                     ELSE R!Entry(CHOOSE j \in rows : \A k \in rows : j <= k, 0)
  BY DEF R!NavNext
<1>2. CASE low <= last
  <2>1. low \in rows /\ \A k \in rows : low <= k
    BY <1>2
  <2>2. \A j \in rows : (\A k \in rows : j <= k) => j = low
    BY <2>1
  <2>3. (CHOOSE j \in rows : \A k \in rows : j <= k) = low
    BY <2>1, <2>2
  <2>4. R!NavNext(i) = R!Entry(low, 0)
    BY <1>1, <2>1, <2>3
  <2>5. CASE i <= first
    BY <1>2, <2>4, <2>5
  <2>6. CASE ~(i <= first)
    BY <1>2, <2>4, <2>6
  <2> QED
    BY <2>5, <2>6
<1>3. CASE ~(low <= last)
  <2>1. rows = {}
    BY <1>3
  <2> QED
    BY <1>1, <1>3, <2>1
<1> QED
  BY <1>2, <1>3

LEMMA NavPrevIs ==
    ASSUME NEW first \in Int, NEW last \in Int, visible = first..last, NEW i \in Int
    PROVE  R!NavPrev(i) =
              IF last <= i /\ first <= last THEN R!Entry(last, 0)
              ELSE IF first <= i /\ i < last THEN R!Entry(i, 0) ELSE R!Outside
<1> DEFINE rows == {j \in visible : j <= i}
           high == IF last <= i THEN last ELSE i
<1>1. R!NavPrev(i) = IF rows = {} THEN R!Outside
                     ELSE R!Entry(CHOOSE j \in rows : \A k \in rows : k <= j, 0)
  BY DEF R!NavPrev
<1>2. CASE first <= high
  <2>1. high \in rows /\ \A k \in rows : k <= high
    BY <1>2
  <2>2. \A j \in rows : (\A k \in rows : k <= j) => j = high
    BY <2>1
  <2>3. (CHOOSE j \in rows : \A k \in rows : k <= j) = high
    BY <2>1, <2>2
  <2>4. R!NavPrev(i) = R!Entry(high, 0)
    BY <1>1, <2>1, <2>3
  <2>5. CASE last <= i
    BY <1>2, <2>4, <2>5
  <2>6. CASE ~(last <= i)
    BY <1>2, <2>4, <2>6
  <2> QED
    BY <2>5, <2>6
<1>3. CASE ~(first <= high)
  <2>1. rows = {}
    BY <1>3
  <2> QED
    BY <1>1, <1>3, <2>1
<1> QED
  BY <1>2, <1>3

\* Below(e) is the first result on display after e.
LEMMA BelowWalks ==
    ASSUME Block, R!TypeOK, NEW e \in Results
    PROVE  IF After(e) = {} THEN R!Below(e) = R!Outside
           ELSE R!Below(e) \in After(e) /\ \A f \in After(e) : ~Precedes(f, R!Below(e))
<1> DEFINE i == e.item
           c == e.child
<1>1. PICK first \in Int, last \in Int : visible = first..last
  BY DEF Block
<1>2. /\ e \in R!Entries /\ R!Displayed(e) /\ i \in 1..Rows /\ c \in 0..Kids[i] /\ Kids[i] \in Nat
      /\ i \in visible /\ visible \subseteq 1..Rows /\ (c = 0 \/ i \in expanded)
  BY EntryIs DEF Results, R!Displayed, R!TypeOK
<1>3. \A f \in After(e) :
        /\ f \in R!Entries /\ f.item \in visible /\ f.item \in 1..Rows
        /\ f.child \in 0..Kids[f.item] /\ f.child \in Int
        /\ (f.child = 0 \/ f.item \in expanded)
        /\ (i < f.item \/ (i = f.item /\ c < f.child))
  <2> SUFFICES ASSUME NEW f \in After(e)
               PROVE  /\ f \in R!Entries /\ f.item \in visible /\ f.item \in 1..Rows
                      /\ f.child \in 0..Kids[f.item] /\ f.child \in Int
                      /\ (f.child = 0 \/ f.item \in expanded)
                      /\ (i < f.item \/ (i = f.item /\ c < f.child))
    OBVIOUS
  <2>1. f \in R!Entries /\ R!Displayed(f) /\ Precedes(e, f)
    BY DEF After, Results
  <2>2. f.item \in 1..Rows /\ f.child \in 0..Kids[f.item] /\ Kids[f.item] \in Nat
    BY <2>1, EntryIs
  <2> QED
    BY <2>1, <2>2 DEF R!Displayed, Precedes
<1>4. ASSUME NEW g \in R!Entries, R!Displayed(g), Precedes(e, g),
             \A f \in After(e) : ~Precedes(f, g), R!Below(e) = g
      PROVE  After(e) # {} /\ R!Below(e) \in After(e) /\ \A f \in After(e) : ~Precedes(f, R!Below(e))
  <2>1. g \in After(e)
    BY <1>4 DEF After, Results
  <2> QED
    BY <1>4, <2>1
<1>5. CASE c < Kids[i] /\ i \in expanded
  <2> DEFINE g == R!Entry(i, c + 1)
  <2>1. R!Below(e) = g
    BY <1>2, <1>5 DEF R!Below, R!BelowRow, R!HasChildren
  <2>2. g \in R!Entries /\ g.item = i /\ g.child = c + 1
    BY <1>2, <1>5, EntryIs
  <2> HIDE DEF g
  <2>3. R!Displayed(g) /\ Precedes(e, g)
    BY <1>2, <1>5, <2>2 DEF R!Displayed, Precedes
  <2>4. \A f \in After(e) : ~Precedes(f, g)
    BY <1>2, <1>3, <2>2 DEF Precedes
  <2> QED
    BY <1>4, <2>1, <2>2, <2>3, <2>4
<1>6. CASE ~(c < Kids[i] /\ i \in expanded)
  <2>1. R!Below(e) = R!NavNext(i + 1)
    BY <1>2, <1>6 DEF R!Below, R!BelowRow, R!HasChildren
  <2>2. \A f \in After(e) : i < f.item
    BY <1>2, <1>3, <1>6
  <2>3. first <= i /\ i <= last
    BY <1>1, <1>2
  <2>4. CASE i < last
    <3> DEFINE g == R!Entry(i + 1, 0)
    <3>1. R!Below(e) = g
      BY <1>1, <1>2, <2>1, <2>3, <2>4, NavNextIs
    <3>2. i + 1 \in visible /\ i + 1 \in 1..Rows /\ Kids[i + 1] \in Nat
      BY <1>1, <1>2, <2>3, <2>4, EntryIs
    <3>3. g \in R!Entries /\ g.item = i + 1 /\ g.child = 0
      BY <3>2, EntryIs
    <3> HIDE DEF g
    <3>4. R!Displayed(g) /\ Precedes(e, g)
      BY <1>2, <3>2, <3>3 DEF R!Displayed, Precedes
    <3>5. \A f \in After(e) : ~Precedes(f, g)
      BY <1>2, <1>3, <2>2, <3>3 DEF Precedes
    <3> QED
      BY <1>4, <3>1, <3>3, <3>4, <3>5
  <2>5. CASE ~(i < last)
    <3>1. R!Below(e) = R!Outside
      BY <1>1, <1>2, <2>1, <2>3, <2>5, NavNextIs
    <3>2. After(e) = {}
      BY <1>1, <1>2, <1>3, <2>2, <2>3, <2>5
    <3> QED
      BY <3>1, <3>2
  <2> QED
    BY <2>4, <2>5
<1> QED
  BY <1>5, <1>6

\* Above(e) is the last result on display before e.
LEMMA AboveWalks ==
    ASSUME Block, R!TypeOK, NEW e \in Results
    PROVE  IF BeforeIt(e) = {} THEN R!Above(e) = R!Outside
           ELSE R!Above(e) \in BeforeIt(e) /\ \A f \in BeforeIt(e) : ~Precedes(R!Above(e), f)
<1> DEFINE i == e.item
           c == e.child
<1>1. PICK first \in Int, last \in Int : visible = first..last
  BY DEF Block
<1>2. /\ e \in R!Entries /\ R!Displayed(e) /\ i \in 1..Rows /\ c \in 0..Kids[i] /\ Kids[i] \in Nat
      /\ i \in visible /\ visible \subseteq 1..Rows /\ (c = 0 \/ i \in expanded)
  BY EntryIs DEF Results, R!Displayed, R!TypeOK
<1>3. \A f \in BeforeIt(e) :
        /\ f \in R!Entries /\ f.item \in visible /\ f.item \in 1..Rows
        /\ f.child \in 0..Kids[f.item] /\ f.child \in Int
        /\ (f.child = 0 \/ f.item \in expanded)
        /\ (f.item < i \/ (f.item = i /\ f.child < c))
  <2> SUFFICES ASSUME NEW f \in BeforeIt(e)
               PROVE  /\ f \in R!Entries /\ f.item \in visible /\ f.item \in 1..Rows
                      /\ f.child \in 0..Kids[f.item] /\ f.child \in Int
                      /\ (f.child = 0 \/ f.item \in expanded)
                      /\ (f.item < i \/ (f.item = i /\ f.child < c))
    OBVIOUS
  <2>1. f \in R!Entries /\ R!Displayed(f) /\ Precedes(f, e)
    BY DEF BeforeIt, Results
  <2>2. f.item \in 1..Rows /\ f.child \in 0..Kids[f.item] /\ Kids[f.item] \in Nat
    BY <2>1, EntryIs
  <2> QED
    BY <2>1, <2>2 DEF R!Displayed, Precedes
<1>4. ASSUME NEW g \in R!Entries, R!Displayed(g), Precedes(g, e),
             \A f \in BeforeIt(e) : ~Precedes(g, f), R!Above(e) = g
      PROVE  BeforeIt(e) # {} /\ R!Above(e) \in BeforeIt(e) /\ \A f \in BeforeIt(e) : ~Precedes(R!Above(e), f)
  <2>1. g \in BeforeIt(e)
    BY <1>4 DEF BeforeIt, Results
  <2> QED
    BY <1>4, <2>1
<1>5. CASE c # 0
  <2> DEFINE g == R!Entry(i, c - 1)
  <2>1. R!Above(e) = g
    BY <1>5 DEF R!Above
  <2>2. g \in R!Entries /\ g.item = i /\ g.child = c - 1
    BY <1>2, <1>5, EntryIs
  <2> HIDE DEF g
  <2>3. R!Displayed(g) /\ Precedes(g, e)
    BY <1>2, <1>5, <2>2 DEF R!Displayed, Precedes
  <2>4. \A f \in BeforeIt(e) : ~Precedes(g, f)
    BY <1>2, <1>3, <2>2 DEF Precedes
  <2> QED
    BY <1>4, <2>1, <2>2, <2>3, <2>4
<1>6. CASE c = 0
  <2>1. R!Above(e) = R!AboveRow(i) /\ \A f \in BeforeIt(e) : f.item < i
    BY <1>2, <1>3, <1>6 DEF R!Above
  <2>2. first <= i /\ i <= last
    BY <1>1, <1>2
  <2>3. CASE first < i
    <3> DEFINE d == IF i - 1 \in expanded THEN Kids[i - 1] ELSE 0
               g == R!Entry(i - 1, d)
    <3>1. i - 1 \in visible /\ i - 1 \in 1..Rows /\ Kids[i - 1] \in Nat
      BY <1>1, <1>2, <2>2, <2>3, EntryIs
    <3>2. R!NavPrev(i - 1) = R!Entry(i - 1, 0)
      BY <1>1, <1>2, <2>2, <2>3, NavPrevIs
    <3>3. R!Entry(i - 1, 0) # R!Outside /\ R!Entry(i - 1, 0).item = i - 1
      BY <3>1, EntryIs
    <3>4. R!Above(e) = g
      BY <2>1, <3>1, <3>2, <3>3 DEF R!AboveRow, R!HasChildren
    <3>5. d \in 0..Kids[i - 1]
      BY <3>1
    <3>6. g \in R!Entries /\ g.item = i - 1 /\ g.child = d
      BY <3>1, <3>5, EntryIs
    <3> HIDE DEF g
    <3>7. R!Displayed(g) /\ Precedes(g, e)
      BY <1>2, <3>1, <3>6 DEF R!Displayed, Precedes
    <3>8. \A f \in BeforeIt(e) : ~Precedes(g, f)
      BY <1>2, <1>3, <2>1, <3>1, <3>6 DEF Precedes
    <3> QED
      BY <1>4, <3>4, <3>6, <3>7, <3>8
  <2>4. CASE ~(first < i)
    <3>1. R!NavPrev(i - 1) = R!Outside
      BY <1>1, <1>2, <2>2, <2>4, NavPrevIs
    <3>2. R!Above(e) = R!Outside
      BY <2>1, <3>1 DEF R!AboveRow
    <3>3. BeforeIt(e) = {}
      BY <1>1, <1>2, <1>3, <2>1, <2>2, <2>4
    <3> QED
      BY <3>2, <3>3
  <2> QED
    BY <2>3, <2>4
<1> QED
  BY <1>5, <1>6

\* What the focus theorem follows from: the rows on display belong to the
\* page in the frame.
FrameRows == visible = IF frame \in Indexed THEN Found[frame] ELSE {}

LEMMA RowsAreBlocks ==
    ASSUME FrameRows
    PROVE  Block /\ visible \subseteq 1..Rows
<1>1. CASE frame \in Indexed
  <2>1. Found[frame] \in {first..last : first, last \in 1..Rows}
    BY <1>1, SearchPanelOK
  <2>2. PICK first \in 1..Rows, last \in 1..Rows : Found[frame] = first..last
    BY <2>1
  <2>3. visible = first..last /\ first \in Int /\ last \in Int /\ Rows \in Int
    BY <1>1, <2>2, SearchPanelOK DEF FrameRows, R!SearchResultsOK
  <2>4. visible \subseteq 1..Rows
    BY <2>2, <2>3
  <2> QED
    BY <2>3, <2>4 DEF Block
<1>2. CASE frame \notin Indexed
  <2>1. visible = {} /\ visible = 1..0
    BY <1>2 DEF FrameRows
  <2> QED
    BY <2>1 DEF Block
<1> QED
  BY <1>1, <1>2

\* A key leads from a result to another on display, or out.
LEMMA NavKeepsFocus ==
    ASSUME Block, R!TypeOK, cur \in R!Entries, R!Displayed(cur), NEW key, R!Nav(key)
    PROVE  /\ expanded' \subseteq 1..Rows /\ cur' \in R!Entries \cup {R!Outside}
           /\ cur' # R!Outside =>
                 cur'.item \in visible /\ (cur'.child = 0 \/ cur'.item \in expanded')
<1>1. cur \in Results /\ cur.item \in 1..Rows
  BY EntryIs DEF Results
<1>2. R!Below(cur) \in R!Entries \cup {R!Outside} /\ R!Above(cur) \in R!Entries \cup {R!Outside}
  BY <1>1, BelowWalks, AboveWalks DEF After, BeforeIt, Results
<1>3. CASE UNCHANGED expanded /\ (cur' = R!Outside \/ cur' = cur \/ \E e \in {R!Above(cur), R!Below(cur)} : cur' = R!Focus(e))
  BY <1>2, <1>3 DEF R!Focus, R!Displayed, R!TypeOK
<1>4. CASE UNCHANGED cur /\ cur.child = 0 /\ expanded' \in {expanded \cup {cur.item}, expanded \ {cur.item}}
  BY <1>1, <1>4 DEF R!Displayed, R!TypeOK
<1>5. CASE UNCHANGED <<cur, expanded>>
  BY <1>5 DEF R!Displayed, R!TypeOK
<1> QED
  BY <1>3, <1>4, <1>5 DEF R!Nav, R!GoUp, R!GoDown, R!Fold

\* Where the search field hands the focus over, there is a result to take it.
LEMMA FirstIsDisplayed ==
    ASSUME FrameRows, R!TypeOK
    PROVE  /\ R!NavNext(1) \in R!Entries \cup {R!Outside}
           /\ R!NavNext(1) # R!Outside => R!Displayed(R!NavNext(1))
           /\ frame \in Hits => R!NavNext(1) # R!Outside
<1>1. PICK first \in Int, last \in Int : visible = first..last
  BY RowsAreBlocks DEF Block
<1>2. CASE visible = {}
  <2>1. R!NavNext(1) = R!Outside
    BY <1>2 DEF R!NavNext
  <2>2. frame \notin Hits
    BY <1>2, SearchPanelOK DEF FrameRows
  <2> QED
    BY <2>1, <2>2
<1>3. CASE visible # {}
  <2>1. first <= last /\ first \in visible /\ visible \subseteq 1..Rows /\ 1 <= first
    BY <1>1, <1>3, RowsAreBlocks
  <2>2. R!NavNext(1) = R!Entry(first, 0)
    BY <1>1, <2>1, NavNextIs
  <2>3. first \in 1..Rows /\ 0 \in 0..Kids[first]
    BY <2>1, EntryIs
  <2>4. R!Entry(first, 0) \in R!Entries /\ R!Entry(first, 0) # R!Outside
    BY <2>3, EntryIs
  <2>5. R!Displayed(R!Entry(first, 0))
    BY <2>1, EntryIs DEF R!Displayed
  <2> QED
    BY <2>2, <2>4, <2>5
<1> QED
  BY <1>2, <1>3

\* The invariant of the panel.
PanelInv == BoxInv /\ R!TypeOK /\ FrameRows /\ FocusIsDisplayed

LEMMA PanelInvInit == PanelInit => PanelInv
<1> SUFFICES ASSUME PanelInit PROVE PanelInv
  OBVIOUS
<1>1. BoxInv
  BY BoxInit DEF PanelInit
<1>2. R!TypeOK
  BY DEF PanelInit, R!Init, R!TypeOK
<1>3. NoPage \notin Indexed
  <2>1. \A page \in Indexed : page.index \in 0..(Filters - 1)
    BY SearchBoxOK
  <2>2. NoPage.index \notin 0..(Filters - 1)
    BY SearchBoxOK DEF NoPage
  <2> QED
    BY <2>1, <2>2
<1>4. FrameRows
  BY <1>3 DEF PanelInit, Init, R!Init, FrameRows
<1>5. FocusIsDisplayed
  BY DEF PanelInit, Init, R!Init, FocusIsDisplayed
<1> QED
  BY <1>1, <1>2, <1>4, <1>5 DEF PanelInv

\* What the box does without the frame leaves the focus out of the results
\* or where it is.
LEMMA BoxOnlyStep ==
    ASSUME PanelInv, BoxOnly
    PROVE  R!TypeOK' /\ FrameRows' /\ FocusIsDisplayed'
<1> USE DEF resultVars, PanelInv, BoxInv, TypeOK, PanelConsistent
<1> DEFINE Unmoved ==
             /\ frame' = frame
             /\ focus = "results" => focus' = "results" /\ (results => results')
             /\ focus # "results" => focus' # "results"
<1>1. Unmoved
  <2>1. CASE FocusField /\ focus # "results"
    BY <2>1 DEF FocusField, Activate, Open
  <2>2. ASSUME NEW key \in FieldKeys, PressInField(key) PROVE Unmoved
    BY <2>2 DEF PressInField
  <2>3. CASE MouseOver
    BY <2>3 DEF MouseOver, ShowMenu
  <2>4. CASE MouseOut
    BY <2>4 DEF MouseOut
  <2>5. ASSUME NEW index \in 0..(Filters - 1), ClickItem(index) PROVE Unmoved
    BY <2>5 DEF ClickItem, OnSelectItem, Search
  <2>6. CASE MenuDown
    BY <2>6 DEF MenuDown, PressInMenu, SelectItemCount, OnSelectItem, Search
  <2>7. CASE MenuUp
    BY <2>7 DEF MenuUp, PressInMenu, OnSelectItem, Search
  <2>8. CASE MenuClose
    BY <2>8 DEF MenuClose, PressInMenu, OnSelectItem, Search, Open
  <2>9. CASE CloseResultsWindow
    BY <2>9 DEF CloseResultsWindow, HideResults, Reset
  <2>10. CASE ReleaseEdit
    BY <2>10 DEF ReleaseEdit, Release, Compare, HideResults, Killed
  <2>11. CASE ReleaseEscape
    BY <2>11 DEF ReleaseEscape, Release, Killed, HideResults, Reset
  <2>12. CASE ReleaseMenu
    BY <2>12 DEF ReleaseMenu, Release, Killed, ShowMenu, Open, Reset
  <2>13. CASE KeyTimerFires
    BY <2>13 DEF KeyTimerFires, Search
  <2>14. CASE HideTimerFires
    BY <2>14 DEF HideTimerFires
  <2> QED
    BY <2>1, <2>2, <2>3, <2>4, <2>5, <2>6, <2>7, <2>8, <2>9, <2>10, <2>11, <2>12, <2>13,
         <2>14 DEF BoxOnly
<1>2. R!TypeOK'
  BY DEF BoxOnly, R!TypeOK
<1>3. FrameRows'
  BY <1>1 DEF BoxOnly, FrameRows
<1>4. FocusIsDisplayed'
  BY <1>1 DEF BoxOnly, FocusIsDisplayed, R!Displayed
<1> QED
  BY <1>2, <1>3, <1>4

\* A key event on a result, wherever it leads.
LEMMA LeadsStep ==
    ASSUME PanelInv, cur # R!Outside, NEW key, NEW reaction, R!Nav(reaction),
           Leads(key, reaction), UNCHANGED visible
    PROVE  /\ FrameRows' /\ FocusIsDisplayed'
           /\ expanded' \subseteq 1..Rows /\ cur' \in R!Entries \cup {R!Outside}
<1>1. cur \in R!Entries /\ R!Displayed(cur) /\ Block /\ results
  BY RowsAreBlocks DEF PanelInv, R!TypeOK, FocusIsDisplayed
<1>2. /\ expanded' \subseteq 1..Rows /\ cur' \in R!Entries \cup {R!Outside}
      /\ cur' # R!Outside =>
            cur'.item \in visible /\ (cur'.child = 0 \/ cur'.item \in expanded')
  BY <1>1, NavKeepsFocus DEF PanelInv
<1>3. CASE cur' # R!Outside
  BY <1>1, <1>2, <1>3 DEF Leads, StayInResults, PressInResults, PanelInv, FrameRows,
     FocusIsDisplayed, R!Displayed
<1>4. CASE cur' = R!Outside
  BY <1>1, <1>2, <1>4 DEF Leads, EscapeInResults, UpInResults, PanelInv, FrameRows,
     FocusIsDisplayed, HideResults
<1> QED
  BY <1>3, <1>4

\* Every step keeps the focus on a result that is displayed.
LEMMA FocusStep ==
    ASSUME PanelInv, [PanelNext]_panelVars
    PROVE  R!TypeOK' /\ FrameRows' /\ FocusIsDisplayed'
<1> USE DEF resultVars
<1>1. CASE BoxOnly
  BY <1>1, BoxOnlyStep
<1>2. CASE PageArrives
  <2>1. /\ visible' = (IF frame' \in Indexed THEN Found[frame'] ELSE {})
        /\ expanded' = {} /\ cur' = R!Outside /\ lastKey' = "none" /\ repeatOn' = FALSE
        /\ focus' # "results"
    BY <1>2 DEF PageArrives, FrameLoaded, R!Load
  <2>2. FrameRows'
    BY <2>1 DEF FrameRows
  <2>3. visible' \subseteq 1..Rows
    <3>1. ASSUME frame' \in Indexed PROVE Found[frame'] \subseteq 1..Rows
      <4>1. PICK first \in 1..Rows, last \in 1..Rows : Found[frame'] = first..last
        BY <3>1, SearchPanelOK
      <4> QED
        BY <4>1, SearchPanelOK DEF R!SearchResultsOK
    <3> QED
      BY <2>1, <3>1
  <2> QED
    BY <2>1, <2>2, <2>3 DEF R!TypeOK, FocusIsDisplayed
<1>3. CASE FirstResult
  <2>1. /\ frame' = frame /\ visible' = visible /\ expanded' = expanded
        /\ lastKey' = lastKey /\ repeatOn' = repeatOn
        /\ focus = "field" /\ frame \in Hits /\ (focus' = "results" <=> results')
    BY <1>3 DEF FirstResult, ReleaseDown, Release, HasResult, Compare, HideResults, R!FocusFirst,
       R!rowVars, R!keyVars
  <2>2. CASE focus' = "results"
    <3>1. cur' = R!NavNext(1)
      BY <1>3, <2>2 DEF FirstResult, R!FocusFirst
    <3>2. R!NavNext(1) \in R!Entries /\ R!NavNext(1) # R!Outside /\ R!Displayed(R!NavNext(1))
      BY <2>1, FirstIsDisplayed DEF PanelInv
    <3> QED
      BY <2>1, <2>2, <3>1, <3>2 DEF PanelInv, R!TypeOK, FrameRows, FocusIsDisplayed, R!Displayed
  <2>3. CASE focus' # "results"
    <3>1. cur' = cur /\ cur = R!Outside
      BY <1>3, <2>1, <2>3 DEF FirstResult, PanelInv, FocusIsDisplayed
    <3> QED
      BY <2>1, <2>3, <3>1 DEF PanelInv, R!TypeOK, FrameRows, FocusIsDisplayed
  <2> QED
    BY <2>2, <2>3
<1>4. CASE MouseToResults
  <2>1. /\ UNCHANGED <<visible, expanded, lastKey, repeatOn, frame, results>>
        /\ focus' = "results" => results
    BY <1>4 DEF MouseToResults, MoveFocus, R!FocusByMouse, R!LoseFocus, R!rowVars, R!keyVars
  <2>2. CASE focus' = "results" /\ \E entry \in R!Entries : R!FocusByMouse(entry)
    <3>1. PICK entry \in R!Entries : R!Displayed(entry) /\ cur' = entry
      BY <2>2 DEF R!FocusByMouse
    <3>2. entry # R!Outside
      BY EntryIs
    <3> QED
      BY <2>1, <2>2, <3>1, <3>2 DEF PanelInv, R!TypeOK, FrameRows, FocusIsDisplayed, R!Displayed
  <2>3. CASE focus' # "results" /\ cur' = R!Outside
    BY <2>1, <2>3 DEF PanelInv, R!TypeOK, FrameRows, FocusIsDisplayed
  <2>4. CASE focus # "results" /\ focus' # "results" /\ cur' = cur
    BY <2>1, <2>4 DEF PanelInv, R!TypeOK, FrameRows, FocusIsDisplayed
  <2> QED
    BY <1>4, <2>2, <2>3, <2>4 DEF MouseToResults, MoveFocus, R!LoseFocus
<1>5. CASE FieldFromResults
  BY <1>5 DEF FieldFromResults, FocusField, R!LoseFocus, R!rowVars, R!keyVars,
     PanelInv, R!TypeOK, FrameRows, FocusIsDisplayed
<1>6. ASSUME NEW key \in NavKeys, KeyDown(key)
      PROVE  R!TypeOK' /\ FrameRows' /\ FocusIsDisplayed'
  BY <1>6, LeadsStep DEF KeyDown, R!KeyDown, PanelInv, R!TypeOK
<1>7. CASE KeyPress
  <2>1. CASE repeatOn
    BY <1>7, <2>1, LeadsStep DEF KeyPress, R!KeyPress, PanelInv, R!TypeOK
  <2>2. CASE ~repeatOn
    <3>1. /\ cur' = cur /\ cur # R!Outside
          /\ UNCHANGED <<visible, expanded, lastKey>>
          /\ repeatOn' = (lastKey # "none")
      BY <1>7, <2>2 DEF KeyPress, R!KeyPress
    <3>2. UNCHANGED <<focus, frame, results>>
      BY <1>7, <3>1 DEF KeyPress, Leads, StayInResults, PressInResults
    <3>3. repeatOn' \in BOOLEAN
      BY <3>1
    <3> QED
      BY <3>1, <3>2, <3>3 DEF PanelInv, R!TypeOK, FrameRows, FocusIsDisplayed, R!Displayed
  <2> QED
    BY <2>1, <2>2
<1>8. CASE Enter
  <2>1. cur # R!Outside /\ cur \in R!Entries /\ cur.item \in 1..Rows
    BY <1>8, EntryIs DEF Enter, R!Toggle, PanelInv, R!TypeOK
  <2> QED
    BY <1>8, <2>1 DEF Enter, R!Toggle, R!keyVars, StayInResults, PressInResults, PanelInv,
       R!TypeOK, FrameRows, FocusIsDisplayed, R!Displayed
<1>9. CASE KeyUp
  <2>1. /\ UNCHANGED <<focus, frame, results, visible, expanded, cur>>
        /\ \/ lastKey' = "none" /\ repeatOn' = FALSE
           \/ UNCHANGED <<lastKey, repeatOn>>
    BY <1>9 DEF KeyUp, ReleaseElsewhere, R!KeyUp, R!rowVars
  <2> QED
    BY <2>1 DEF PanelInv, R!TypeOK, FrameRows, FocusIsDisplayed, R!Displayed
<1>10. CASE UNCHANGED panelVars
  BY <1>10 DEF panelVars, vars, PanelInv, R!TypeOK, FrameRows, FocusIsDisplayed, R!Displayed
<1> QED
  BY <1>1, <1>2, <1>3, <1>4, <1>5, <1>6, <1>7, <1>8, <1>9, <1>10 DEF PanelNext

LEMMA PanelInvariant == PanelSpec => []PanelInv
<1>1. PanelInv /\ [PanelNext]_panelVars => PanelInv'
  BY FocusStep, PanelStepsAreBoxSteps, BoxStep DEF PanelInv, BoxInv
<1> QED
  BY PanelInvInit, <1>1, PTL DEF PanelSpec

\* The focus is never on a result that is hidden, whatever arrives, folds or
\* repeats under it.
THEOREM FocusStaysDisplayed == PanelSpec => []FocusIsDisplayed
<1>1. PanelInv => FocusIsDisplayed
  BY DEF PanelInv
<1> QED
  BY PanelInvariant, <1>1, PTL

\* On any page the arrow keys reach every result on display, in order: none is
\* skipped and only the first leads out of the list.
THEOREM NoResultSkipped == PanelSpec => []KeysWalkTheList
<1>1. PanelInv => KeysWalkTheList
  BY RowsAreBlocks, BelowWalks, AboveWalks DEF PanelInv, KeysWalkTheList
<1> QED
  BY PanelInvariant, <1>1, PTL
=============================================================================
