------------------------------ MODULE SidePanel ------------------------------
(***************************************************************************)
(* The panel of the navigation tree in every tab that shows a page of the  *)
(* reference manual: its width is dragged, its height follows the window,  *)
(* and the width is kept in a cookie that all tabs share.  The plug-in     *)
(* that drags the border is jQuery's (external), and so is the browser     *)
(* that keeps the cookie until it expires.                                 *)
(***************************************************************************)
EXTENDS Naturals

CONSTANTS
    Tabs,
    Widths,        \* widths of the panel
    Default,       \* the width that the style sheet gives it
    Handle,        \* width of the bar between panel and page
    Heights,       \* heights of a window
    Frame,         \* height of the header and the footer together
    NoCookie       \* what readCookie returns without one

\* Assumed of the constants.
SidePanelOK ==
    /\ Widths \subseteq Nat /\ Default \in Widths /\ Handle \in Nat
    /\ NoCookie \notin Widths /\ Frame \in Nat /\ Heights \subseteq Nat /\ Frame \in Heights
    /\ \A h \in Heights : h >= Frame

VARIABLES
    open,          \* tabs that show a page
    sidenav,       \* width of the panel, per tab
    content,       \* left margin of the page beside it
    window,        \* height of the window
    height,        \* height given to page, tree and panel
    cookie,
    last           \* history: the width on display in the tab used last

vars == <<open, sidenav, content, window, height, cookie, last>>

TypeOK ==
    /\ open \subseteq Tabs /\ sidenav \in [Tabs -> Widths] /\ content \in [Tabs -> Nat]
    /\ window \in [Tabs -> Heights] /\ height \in [Tabs -> Nat]
    /\ cookie \in Widths \cup {NoCookie} /\ last \in Widths \cup {NoCookie}

Init ==
    /\ open = {} /\ cookie = NoCookie /\ last = NoCookie
    /\ sidenav = [t \in Tabs |-> Default] /\ content = [t \in Tabs |-> 0]
    /\ window = [t \in Tabs |-> Frame] /\ height = [t \in Tabs |-> 0]

readCookie == cookie
writeCookieNever(width) == UNCHANGED cookie
writeCookie(width) == cookie' = width

\* The panel takes a width and the page the rest.
SetWidth(t, width) ==
    /\ sidenav' = [sidenav EXCEPT ![t] = width]
    /\ content' = [content EXCEPT ![t] = width + Handle]

\* The width on display is kept, or the width that was kept is displayed.
resizeWidth(t, width) == SetWidth(t, width) /\ writeCookie(width)
restoreWidth(t, width) == SetWidth(t, width) /\ UNCHANGED cookie

resizeHeight(t, h) == height' = [height EXCEPT ![t] = h - Frame]

\* initResizable, when a page is ready; the page has the style sheet's width.
OpenPage(t) ==
    /\ IF readCookie = NoCookie THEN resizeWidth(t, Default)
                                ELSE restoreWidth(t, readCookie)
    /\ resizeHeight(t, window[t])
    /\ open' = open \cup {t}
    /\ last' = sidenav'[t]
    /\ UNCHANGED window

\* The plug-in sets the width, and calls back.
Drag(t) ==
    /\ t \in open
    /\ \E width \in Widths : resizeWidth(t, width) /\ last' = width
    /\ UNCHANGED <<open, window, height>>

ResizeWindow(t) ==
    /\ \E h \in Heights :
         /\ window' = [window EXCEPT ![t] = h]
         /\ IF t \in open THEN resizeHeight(t, h) ELSE UNCHANGED height
    /\ UNCHANGED <<open, sidenav, content, cookie, last>>

CloseTab(t) ==
    /\ t \in open
    /\ open' = open \ {t}
    /\ UNCHANGED <<sidenav, content, window, height, cookie, last>>

\* The browser forgets the cookie.
Forget ==
    /\ cookie' = NoCookie /\ last' = NoCookie
    /\ UNCHANGED <<open, sidenav, content, window, height>>

Next == Forget \/ \E t \in Tabs : OpenPage(t) \/ Drag(t) \/ ResizeWindow(t) \/ CloseTab(t)

Spec == Init /\ [][Next]_vars

-----------------------------------------------------------------------------
(* Properties                                                              *)

\* The width that a tab had when it was opened or dragged last is the width
\* of the next page, whatever other tabs showed in between, unless the
\* browser has forgotten it; and every page leaves room for its panel.
WidthRemembered ==
    [][\A t \in Tabs :
        /\ t \in open' \ open /\ last # NoCookie => sidenav'[t] = last
        /\ t \in open' => content'[t] = sidenav'[t] + Handle
        /\ t \in open' => height'[t] + Frame = window'[t]]_vars
=============================================================================
