---------------------------- MODULE ManualProofs ----------------------------
(***************************************************************************)
(* Machine-checked proofs about the scripts of the reference manual side   *)
(* by side: the navigation tree and the resizable panel, for any tree, any *)
(* pages, tabs and widths, and with SearchProofs the properties of the     *)
(* search panel in the same page.                                          *)
(***************************************************************************)
EXTENDS Manual, SearchProofs, SequenceTheorems

-----------------------------------------------------------------------------
(* The queue of slides of a list                                           *)

\* The last element of a sequence stays the last when the head is taken off,
\* and is the one that is appended.
LEMMA LastIs ==
    ASSUME NEW S, NEW q \in Seq(S)
    PROVE  /\ \A e \in S : Append(q, e) \in Seq(S) /\ Append(q, e) # <<>> /\ T!Last(Append(q, e)) = e
           /\ q # <<>> =>
                /\ Head(q) \in S /\ Tail(q) \in Seq(S)
                /\ Tail(q) = <<>> => T!Last(q) = Head(q)
                /\ Tail(q) # <<>> => T!Last(Tail(q)) = T!Last(q)
<1>1. ASSUME NEW e \in S
      PROVE  Append(q, e) \in Seq(S) /\ Append(q, e) # <<>> /\ T!Last(Append(q, e)) = e
  <2>1. Len(Append(q, e)) = Len(q) + 1 /\ Append(q, e)[Len(q) + 1] = e
    BY AppendProperties
  <2> QED
    BY <2>1, AppendProperties DEF T!Last
<1>2. ASSUME q # <<>>
      PROVE  /\ Head(q) \in S /\ Tail(q) \in Seq(S)
             /\ Tail(q) = <<>> => T!Last(q) = Head(q)
             /\ Tail(q) # <<>> => T!Last(Tail(q)) = T!Last(q)
  <2>1. /\ Head(q) \in S /\ Tail(q) \in Seq(S) /\ Len(Tail(q)) = Len(q) - 1
        /\ \A i \in 1..Len(Tail(q)) : Tail(q)[i] = q[i + 1]
    BY <1>2, HeadTailProperties
  <2>2. Head(q) = q[1] /\ Len(q) \in Nat \ {0}
    BY <1>2, EmptySeq
  <2>3. Tail(q) = <<>> => Len(q) = 1
    <3>1. Tail(q) = <<>> => Len(Tail(q)) = 0
      BY EmptySeq
    <3> QED
      BY <2>1, <2>2, <3>1
  <2>4. Tail(q) # <<>> => Len(Tail(q)) \in Nat \ {0}
    BY <2>1, EmptySeq
  <2>5. Tail(q) # <<>> => Tail(q)[Len(Tail(q))] = q[Len(q)]
    BY <2>1, <2>2, <2>4
  <2> QED
    BY <2>1, <2>2, <2>3, <2>5 DEF T!Last
<1> QED
  BY <1>1, <1>2

\* A slide that has nothing to do goes only where the list is as it would
\* leave it; what else is in the queue stays.
LEMMA RunningIs ==
    ASSUME NEW n, NEW q \in Seq(T!Slides), NEW lists
    PROVE  /\ T!Running(n, q, lists) \in Seq(T!Slides)
           /\ T!Running(n, q, lists) = <<>> => q = <<>> \/ (T!Last(q) = "down" => n \in lists)
           /\ T!Running(n, q, lists) # <<>> => q # <<>> /\ T!Last(T!Running(n, q, lists)) = T!Last(q)
<1> DEFINE idle == IF n \in lists /\ T!InSight(n) THEN "down" ELSE "up"
<1>1. T!Running(n, q, lists) = IF q # <<>> /\ Head(q) = idle THEN Tail(q) ELSE q
  BY DEF T!Running
<1>2. idle = "down" => n \in lists
  OBVIOUS
<1> HIDE DEF idle
<1>3. CASE q # <<>> /\ Head(q) = idle
  BY <1>1, <1>2, <1>3, LastIs
<1>4. CASE ~(q # <<>> /\ Head(q) = idle)
  BY <1>1, <1>4
<1> QED
  BY <1>3, <1>4

-----------------------------------------------------------------------------
(* The tree                                                                *)

\* What TreeAgrees needs to be inductive: only a node whose items exist has
\* slides to wait for.
SlidesVisited == \A n \in T!Inner : slides[n] # <<>> => n \in visited

TreeInv == T!TypeOK /\ T!TreeAgrees /\ SlidesVisited

\* Parents and their children.
LEMMA Families ==
    /\ \A n \in T!Inner : n \in T!Items /\ n \in T!Tree /\ n # 0
    /\ \A n, m : m \in T!ChildrenOf(n) => m \in T!Items /\ Parent[m] = n
    /\ 0 \in T!Tree
  BY ManualOK DEF T!NavTreeOK, T!Inner, T!Items, T!Tree, T!ChildrenOf

\* However a page is opened, its tree agrees.
LEMMA TreeInit ==
    ASSUME NEW url, T!Opened(url)
    PROVE  TreeInv
<1> DEFINE inner == T!Breadcrumbs(url) \cap T!Inner
<1>1. /\ items = T!WithItems({0} \cup inner, [n \in T!Items |-> 0])
      /\ visited = {0} \cup inner
      /\ opened = inner /\ minus = inner /\ shown = inner
      /\ slides = [n \in T!Inner |-> <<>>]
  BY DEF T!Opened
<1>2. inner \subseteq T!Inner
  OBVIOUS
<1> HIDE DEF inner
<1>3. \A n \in T!Items : items[n] = IF Parent[n] \in {0} \cup inner THEN 1 ELSE 0
  BY <1>1 DEF T!WithItems
<1>4. items \in [T!Items -> Nat]
  <2>1. items = [n \in T!Items |-> IF Parent[n] \in {0} \cup inner THEN 0 + 1 ELSE 0]
    BY <1>1 DEF T!WithItems
  <2> QED
    BY <2>1
<1>5. slides \in [T!Inner -> Seq(T!Slides)] /\ \A n \in T!Inner : slides[n] = <<>>
  <2>1. <<>> \in Seq(T!Slides)
    BY EmptySeq
  <2> QED
    BY <1>1, <2>1
<1>6. T!TypeOK
  BY <1>1, <1>2, <1>4, <1>5, Families DEF T!TypeOK
<1>7. T!TreeAgrees
  <2> SUFFICES ASSUME NEW n \in T!Inner
               PROVE  /\ n \in minus <=> n \in opened
                      /\ slides[n] # <<>> => (T!Last(slides[n]) = "down" <=> n \in opened)
                      /\ n \in opened /\ slides[n] = <<>> => n \in shown
                      /\ n \in shown \cup opened => n \in visited
                      /\ \A m \in T!ChildrenOf(n) : items[m] = (IF n \in visited THEN 1 ELSE 0)
    BY DEF T!TreeAgrees
  <2>1. ASSUME NEW m \in T!ChildrenOf(n)
        PROVE  items[m] = (IF n \in visited THEN 1 ELSE 0)
    <3>1. m \in T!Items /\ Parent[m] = n
      BY Families
    <3>2. items[m] = IF n \in {0} \cup inner THEN 1 ELSE 0
      BY <1>3, <3>1
    <3> QED
      BY <1>1, <3>2
  <2> QED
    BY <1>1, <1>5, <2>1
<1> QED
  BY <1>5, <1>6, <1>7 DEF TreeInv, SlidesVisited

\* A list gets one slide more, which takes it where its node is now.
LEMMA AddSlideIs ==
    ASSUME TreeInv, NEW n \in T!Inner, NEW slide \in T!Slides, T!AddSlide(n, slide)
    PROVE  /\ slides' \in [T!Inner -> Seq(T!Slides)]
           /\ \A m \in T!Inner \ {n} : slides'[m] = slides[m]
           /\ slides'[n] # <<>> => T!Last(slides'[n]) = slide
           /\ slides'[n] = <<>> => (slide = "down" => n \in shown)
<1> DEFINE q == IF slides[n] = <<>> THEN T!Running(n, <<slide>>, shown)
                ELSE Append(slides[n], slide)
<1>1. slides' = [slides EXCEPT ![n] = q] /\ slides \in [T!Inner -> Seq(T!Slides)]
  BY DEF T!AddSlide, TreeInv, T!TypeOK
<1>2. slides[n] \in Seq(T!Slides)
  BY <1>1
<1>3. CASE slides[n] = <<>>
  <2>1. <<slide>> \in Seq(T!Slides) /\ <<slide>> # <<>> /\ T!Last(<<slide>>) = slide
    BY DEF T!Last
  <2>2. /\ q \in Seq(T!Slides) /\ (q = <<>> => (slide = "down" => n \in shown))
        /\ q # <<>> => T!Last(q) = slide
    BY <1>3, <2>1, RunningIs
  <2> HIDE DEF q
  <2> QED
    BY <1>1, <2>2
<1>4. CASE slides[n] # <<>>
  <2>1. q \in Seq(T!Slides) /\ q # <<>> /\ T!Last(q) = slide
    BY <1>2, <1>4, LastIs
  <2> HIDE DEF q
  <2> QED
    BY <1>1, <2>1
<1> QED
  BY <1>3, <1>4

\* A click on the sign of a collapsed node.
LEMMA ExpandStep ==
    ASSUME TreeInv, NEW n \in T!Inner, T!Expand(n)
    PROVE  TreeInv'
<1>1. /\ n \notin opened /\ opened' = opened \cup {n} /\ minus' = minus \cup {n}
      /\ shown' = shown /\ T!MakeChildren(n) /\ T!AddSlide(n, "down")
  BY DEF T!Expand
<1>2. /\ slides' \in [T!Inner -> Seq(T!Slides)]
      /\ \A m \in T!Inner \ {n} : slides'[m] = slides[m]
      /\ slides'[n] # <<>> => T!Last(slides'[n]) = "down"
      /\ slides'[n] = <<>> => n \in shown
  BY <1>1, AddSlideIs DEF T!Slides
<1>3. /\ visited' = visited \cup {n} /\ items' \in [T!Items -> Nat]
      /\ \A m \in T!Inner : \A k \in T!ChildrenOf(m) :
            items'[k] = (IF m \in visited' THEN 1 ELSE 0)
  <2>1. items \in [T!Items -> Nat] /\ \A m \in T!Inner : \A k \in T!ChildrenOf(m) :
            items[k] = (IF m \in visited THEN 1 ELSE 0)
    BY DEF TreeInv, T!TypeOK, T!TreeAgrees
  <2>2. CASE n \in visited
    BY <1>1, <2>1, <2>2 DEF T!MakeChildren
  <2>3. CASE n \notin visited
    <3>1. /\ visited' = visited \cup {n}
          /\ items' = [k \in T!Items |-> IF Parent[k] = n THEN items[k] + 1 ELSE items[k]]
      BY <1>1, <2>3 DEF T!MakeChildren, T!WithItems
    <3>2. \A m \in T!Inner : \A k \in T!ChildrenOf(m) :
              k \in T!Items /\ (Parent[k] = n <=> m = n)
      BY Families
    <3> QED
      BY <2>1, <2>3, <3>1, <3>2
  <2> QED
    BY <2>2, <2>3
<1>4. T!TypeOK'
  BY <1>1, <1>2, <1>3, Families DEF TreeInv, T!TypeOK
<1>5. \A m \in T!Inner :
          /\ m \in minus' <=> m \in opened'
          /\ slides'[m] # <<>> => (T!Last(slides'[m]) = "down" <=> m \in opened')
          /\ m \in opened' /\ slides'[m] = <<>> => m \in shown'
          /\ m \in shown' \cup opened' => m \in visited'
  <2> SUFFICES ASSUME NEW m \in T!Inner
               PROVE  /\ m \in minus' <=> m \in opened'
                      /\ slides'[m] # <<>> => (T!Last(slides'[m]) = "down" <=> m \in opened')
                      /\ m \in opened' /\ slides'[m] = <<>> => m \in shown'
                      /\ m \in shown' \cup opened' => m \in visited'
    OBVIOUS
  <2>1. CASE m = n
    BY <1>1, <1>2, <1>3, <2>1
  <2>2. CASE m # n
    BY <1>1, <1>2, <1>3, <2>2 DEF TreeInv, T!TreeAgrees
  <2> QED
    BY <2>1, <2>2
<1>6. SlidesVisited'
  BY <1>2, <1>3 DEF TreeInv, SlidesVisited
<1> QED
  BY <1>3, <1>4, <1>5, <1>6 DEF TreeInv, T!TreeAgrees

\* A click on the sign of an expanded node.
LEMMA CollapseStep ==
    ASSUME TreeInv, NEW n \in T!Inner, T!Collapse(n)
    PROVE  TreeInv'
<1>1. /\ n \in opened /\ opened' = opened \ {n} /\ minus' = minus \ {n}
      /\ UNCHANGED <<items, visited, shown>> /\ T!AddSlide(n, "up")
  BY DEF T!Collapse
<1>2. /\ slides' \in [T!Inner -> Seq(T!Slides)]
      /\ \A m \in T!Inner \ {n} : slides'[m] = slides[m]
      /\ slides'[n] # <<>> => T!Last(slides'[n]) = "up"
  BY <1>1, AddSlideIs DEF T!Slides
<1>3. n \in visited
  BY <1>1 DEF TreeInv, T!TreeAgrees
<1>4. T!TypeOK'
  BY <1>1, <1>2 DEF TreeInv, T!TypeOK
<1>5. T!TreeAgrees'
  <2> SUFFICES ASSUME NEW m \in T!Inner
               PROVE  /\ m \in minus' <=> m \in opened'
                      /\ slides'[m] # <<>> => (T!Last(slides'[m]) = "down" <=> m \in opened')
                      /\ m \in opened' /\ slides'[m] = <<>> => m \in shown'
                      /\ m \in shown' \cup opened' => m \in visited'
    BY <1>1 DEF TreeInv, T!TreeAgrees
  <2>1. CASE m = n
    BY <1>1, <1>2, <1>3, <2>1
  <2>2. CASE m # n
    BY <1>1, <1>2, <2>2 DEF TreeInv, T!TreeAgrees
  <2> QED
    BY <2>1, <2>2
<1>6. SlidesVisited'
  BY <1>1, <1>2, <1>3 DEF TreeInv, SlidesVisited
<1> QED
  BY <1>4, <1>5, <1>6 DEF TreeInv

\* The running slide ends, and the next one that has something to do starts.
LEMMA SlideEndsStep ==
    ASSUME TreeInv, NEW n \in T!Inner, T!SlideEnds(n)
    PROVE  TreeInv'
<1> DEFINE q == slides[n]
           r == T!Running(n, Tail(slides[n]), shown')
<1>1. /\ q # <<>> /\ q \in Seq(T!Slides) /\ n \in visited
      /\ T!Last(q) = "down" <=> n \in opened
  BY DEF T!SlideEnds, TreeInv, T!TypeOK, T!TreeAgrees, SlidesVisited
<1>2. /\ shown' = IF Head(q) = "down" THEN shown \cup {n} ELSE shown \ {n}
      /\ slides' = [slides EXCEPT ![n] = r]
      /\ UNCHANGED <<items, visited, opened, minus>>
      /\ slides \in [T!Inner -> Seq(T!Slides)]
  BY DEF T!SlideEnds, TreeInv, T!TypeOK
<1>3. /\ Tail(q) \in Seq(T!Slides)
      /\ Tail(q) = <<>> => T!Last(q) = Head(q)
      /\ Tail(q) # <<>> => T!Last(Tail(q)) = T!Last(q)
  BY <1>1, LastIs
<1>4. /\ r \in Seq(T!Slides)
      /\ r = <<>> => Tail(q) = <<>> \/ (T!Last(Tail(q)) = "down" => n \in shown')
      /\ r # <<>> => Tail(q) # <<>> /\ T!Last(r) = T!Last(Tail(q))
  BY <1>3, RunningIs
<1> HIDE DEF r
<1>5. /\ slides'[n] = r /\ slides' \in [T!Inner -> Seq(T!Slides)]
      /\ \A m \in T!Inner \ {n} : slides'[m] = slides[m]
  BY <1>2, <1>4
<1>6. /\ r # <<>> => (T!Last(r) = "down" <=> n \in opened)
      /\ r = <<>> /\ n \in opened => n \in shown'
  <2>1. r # <<>> => (T!Last(r) = "down" <=> n \in opened)
    BY <1>1, <1>3, <1>4
  <2>2. CASE Tail(q) = <<>>
    BY <1>1, <1>2, <1>3, <2>1, <2>2
  <2>3. CASE Tail(q) # <<>>
    BY <1>1, <1>3, <1>4, <2>1, <2>3
  <2> QED
    BY <2>2, <2>3
<1>7. T!TypeOK'
  BY <1>2, <1>5 DEF TreeInv, T!TypeOK
<1>8. T!TreeAgrees'
  <2> SUFFICES ASSUME NEW m \in T!Inner
               PROVE  /\ m \in minus' <=> m \in opened'
                      /\ slides'[m] # <<>> => (T!Last(slides'[m]) = "down" <=> m \in opened')
                      /\ m \in opened' /\ slides'[m] = <<>> => m \in shown'
                      /\ m \in shown' \cup opened' => m \in visited'
    BY <1>2 DEF TreeInv, T!TreeAgrees
  <2>1. CASE m = n
    BY <1>1, <1>2, <1>5, <1>6, <2>1 DEF TreeInv, T!TreeAgrees
  <2>2. CASE m # n
    BY <1>2, <1>5, <2>2 DEF TreeInv, T!TreeAgrees
  <2> QED
    BY <2>1, <2>2
<1>9. SlidesVisited'
  BY <1>1, <1>2, <1>5 DEF TreeInv, SlidesVisited
<1> QED
  BY <1>7, <1>8, <1>9 DEF TreeInv

LEMMA TreeStep ==
    ASSUME TreeInv, [T!Next]_(T!vars)
    PROVE  TreeInv'
<1>1. ASSUME NEW n \in T!Inner, T!Expand(n) \/ T!Collapse(n) \/ T!SlideEnds(n)
      PROVE  TreeInv'
  BY <1>1, ExpandStep, CollapseStep, SlideEndsStep
<1>2. CASE UNCHANGED T!vars
  BY <1>2 DEF T!vars, TreeInv, T!TypeOK, T!TreeAgrees, SlidesVisited
<1> QED
  BY <1>1, <1>2 DEF T!Next

LEMMA TreeInvariant == T!Spec => []TreeInv
<1>1. T!Init => TreeInv
  BY TreeInit DEF T!Init
<1>2. TreeInv /\ [T!Next]_(T!vars) => TreeInv'
  BY TreeStep
<1> QED
  BY <1>1, <1>2, PTL DEF T!Spec

-----------------------------------------------------------------------------
(* The side panel                                                          *)

\* The cookie is the width on display in the tab used last, and every open
\* page has the room and the height that its panel and its window leave it.
SideInv ==
    /\ P!TypeOK
    /\ cookie = last
    /\ \A t \in open : content[t] = sidenav[t] + Handle /\ height[t] + Frame = window[t]

LEMMA SideInit == P!Init => SideInv
  BY ManualOK DEF P!SidePanelOK, P!Init, SideInv, P!TypeOK

\* A page takes a width, and keeps a cookie or follows one.
LEMMA WidthIsSet ==
    ASSUME SideInv, NEW t \in Tabs, NEW width \in Widths, P!SetWidth(t, width)
    PROVE  /\ sidenav' \in [Tabs -> Widths] /\ content' \in [Tabs -> Nat]
           /\ sidenav'[t] = width /\ content'[t] = width + Handle
           /\ \A u \in Tabs \ {t} : sidenav'[u] = sidenav[u] /\ content'[u] = content[u]
  BY ManualOK DEF P!SidePanelOK, P!SetWidth, SideInv, P!TypeOK

\* The height of a page follows its window.
LEMMA HeightIsSet ==
    ASSUME SideInv, NEW t \in Tabs, NEW h \in Heights, P!resizeHeight(t, h)
    PROVE  /\ height' \in [Tabs -> Nat] /\ height'[t] + Frame = h
           /\ \A u \in Tabs \ {t} : height'[u] = height[u]
<1>1. h - Frame \in Nat /\ (h - Frame) + Frame = h
  BY ManualOK DEF P!SidePanelOK
<1> QED
  BY <1>1 DEF P!resizeHeight, SideInv, P!TypeOK

\* A page is opened: with the width that was kept, if there is one.
LEMMA OpenStep ==
    ASSUME SideInv, NEW t \in Tabs, P!OpenPage(t)
    PROVE  SideInv' /\ (last # NoCookie => sidenav'[t] = last) /\ open' = open \cup {t}
<1>1. /\ open' = open \cup {t} /\ last' = sidenav'[t] /\ window' = window
      /\ P!resizeHeight(t, window[t])
  BY DEF P!OpenPage
<1>2. /\ height' \in [Tabs -> Nat] /\ height'[t] + Frame = window[t]
      /\ \A u \in Tabs \ {t} : height'[u] = height[u]
  <2>1. window[t] \in Heights
    BY DEF SideInv, P!TypeOK
  <2> QED
    BY <1>1, <2>1, HeightIsSet
<1>3. PICK width \in Widths :
        /\ P!SetWidth(t, width) /\ cookie' = width
        /\ cookie # NoCookie => width = cookie
  <2>1. Default \in Widths /\ NoCookie \notin Widths /\ cookie \in Widths \cup {NoCookie}
    BY ManualOK DEF P!SidePanelOK, SideInv, P!TypeOK
  <2>2. CASE cookie = NoCookie
    BY <2>1, <2>2 DEF P!OpenPage, P!readCookie, P!resizeWidth, P!writeCookie
  <2>3. CASE cookie # NoCookie
    BY <2>1, <2>3 DEF P!OpenPage, P!readCookie, P!restoreWidth
  <2> QED
    BY <2>2, <2>3
<1>4. /\ sidenav' \in [Tabs -> Widths] /\ content' \in [Tabs -> Nat]
      /\ sidenav'[t] = width /\ content'[t] = width + Handle
      /\ \A u \in Tabs \ {t} : sidenav'[u] = sidenav[u] /\ content'[u] = content[u]
  BY <1>3, WidthIsSet
<1>5. P!TypeOK'
  BY <1>1, <1>2, <1>3, <1>4 DEF SideInv, P!TypeOK
<1> QED
  BY <1>1, <1>2, <1>3, <1>4, <1>5 DEF SideInv, P!TypeOK

\* The border is dragged.
LEMMA DragStep ==
    ASSUME SideInv, NEW t \in Tabs, P!Drag(t)
    PROVE  SideInv' /\ open' = open
<1>1. PICK width \in Widths : P!SetWidth(t, width) /\ cookie' = width /\ last' = width
  BY DEF P!Drag, P!resizeWidth, P!writeCookie
<1>2. UNCHANGED <<open, window, height>>
  BY DEF P!Drag
<1>3. /\ sidenav' \in [Tabs -> Widths] /\ content' \in [Tabs -> Nat]
      /\ sidenav'[t] = width /\ content'[t] = width + Handle
      /\ \A u \in Tabs \ {t} : sidenav'[u] = sidenav[u] /\ content'[u] = content[u]
  BY <1>1, WidthIsSet
<1> QED
  BY <1>1, <1>2, <1>3 DEF SideInv, P!TypeOK

\* The window changes its size.
LEMMA ResizeStep ==
    ASSUME SideInv, NEW t \in Tabs, P!ResizeWindow(t)
    PROVE  SideInv' /\ open' = open
<1>1. PICK h \in Heights :
        /\ window' = [window EXCEPT ![t] = h]
        /\ IF t \in open THEN P!resizeHeight(t, h) ELSE UNCHANGED height
  BY DEF P!ResizeWindow
<1>2. UNCHANGED <<open, sidenav, content, cookie, last>>
  BY DEF P!ResizeWindow
<1>3. /\ height' \in [Tabs -> Nat] /\ (t \in open => height'[t] + Frame = h)
      /\ \A u \in Tabs \ {t} : height'[u] = height[u]
  <2>1. CASE t \in open
    BY <1>1, <2>1, HeightIsSet
  <2>2. CASE t \notin open
    BY <1>1, <2>2 DEF SideInv, P!TypeOK
  <2> QED
    BY <2>1, <2>2
<1>4. window' \in [Tabs -> Heights] /\ window'[t] = h /\ \A u \in Tabs \ {t} : window'[u] = window[u]
  BY <1>1 DEF SideInv, P!TypeOK
<1>5. P!TypeOK'
  BY <1>2, <1>3, <1>4 DEF SideInv, P!TypeOK
<1>6. \A u \in open : u \in Tabs
  BY DEF SideInv, P!TypeOK
<1>7. ASSUME NEW u \in open' PROVE content'[u] = sidenav'[u] + Handle /\ height'[u] + Frame = window'[u]
  BY <1>2, <1>3, <1>4, <1>6, <1>7 DEF SideInv
<1> QED
  BY <1>2, <1>5, <1>7 DEF SideInv

\* What WidthRemembered says of one step.
Remembered ==
    \A t \in Tabs :
        /\ t \in open' \ open /\ last # NoCookie => sidenav'[t] = last
        /\ t \in open' => content'[t] = sidenav'[t] + Handle
        /\ t \in open' => height'[t] + Frame = window'[t]

LEMMA SideStep ==
    ASSUME SideInv, [P!Next]_(P!vars)
    PROVE  SideInv' /\ [Remembered]_(P!vars)
<1>1. ASSUME NEW t \in Tabs, P!OpenPage(t) PROVE SideInv' /\ Remembered
  BY <1>1, OpenStep DEF Remembered, SideInv
<1>2. ASSUME NEW t \in Tabs, P!Drag(t) \/ P!ResizeWindow(t) PROVE SideInv' /\ Remembered
  BY <1>2, DragStep, ResizeStep DEF Remembered, SideInv
<1>3. ASSUME NEW t \in Tabs, P!CloseTab(t) PROVE SideInv' /\ Remembered
  BY <1>3 DEF P!CloseTab, Remembered, SideInv, P!TypeOK
<1>4. CASE P!Forget
  BY <1>4 DEF P!Forget, Remembered, SideInv, P!TypeOK
<1>5. CASE UNCHANGED P!vars
  BY <1>5 DEF P!vars, SideInv, P!TypeOK
<1> QED
  BY <1>1, <1>2, <1>3, <1>4, <1>5 DEF P!Next

LEMMA SideInvariant == P!Spec => []SideInv
<1>1. SideInv /\ [P!Next]_(P!vars) => SideInv'
  BY SideStep
<1> QED
  BY SideInit, <1>1, PTL DEF P!Spec

-----------------------------------------------------------------------------
(* The page with all three                                                 *)

\* Each script runs as if it were alone.
THEOREM ScriptsAreApart == ManualSpec => PanelSpec /\ T!Spec /\ P!Spec
<1>1. ManualInit => PanelInit /\ T!Init /\ P!Init
  BY ManualOK DEF ManualInit, T!NavTreeOK, T!Init
<1>2. [ManualNext]_manualVars => [PanelNext]_panelVars /\ [T!Next]_(T!vars) /\ [P!Next]_(P!vars)
  BY DEF ManualNext, manualVars, treeVars, sideVars, T!vars, P!vars
<1> QED
  BY <1>1, <1>2, PTL DEF ManualSpec, PanelSpec, T!Spec, P!Spec

\* Each part of the page keeps the values its script can give it, in every
\* index, tree and browser: the search's timers, pages and rows, the signs,
\* lists and slides, the widths and the cookie.
THEOREM ManualTypeCorrect == ManualSpec => []ManualTypeOK
<1>1. PanelInv => PanelTypeOK
  BY DEF PanelInv, BoxInv, PanelTypeOK
<1>2. TreeInv => T!TypeOK
  BY DEF TreeInv
<1>3. SideInv => P!TypeOK
  BY DEF SideInv
<1>4. PanelTypeOK /\ T!TypeOK /\ P!TypeOK => ManualTypeOK
  BY DEF ManualTypeOK
<1> QED
  BY ScriptsAreApart, PanelInvariant, TreeInvariant, SideInvariant, <1>1, <1>2, <1>3, <1>4, PTL

\* In any tree, however fast its signs are clicked, the signs, the lists and
\* the slides agree, and the items of a list are made once.
THEOREM TreeStaysInAgreement == ManualSpec => []TreeAgrees
<1>1. TreeInv => TreeAgrees
  BY DEF TreeInv, TreeAgrees
<1> QED
  BY ScriptsAreApart, TreeInvariant, <1>1, PTL

\* A page opens with the width its reader chose last, in whatever tab, unless
\* the browser has forgotten it, and leaves room for the panel.
THEOREM WidthIsRemembered == ManualSpec => WidthRemembered
<1>1. SideInv /\ [P!Next]_(P!vars) => SideInv' /\ [Remembered]_(P!vars)
  BY SideStep
<1>2. P!Spec => [][Remembered]_(P!vars)
  BY SideInit, <1>1, PTL DEF P!Spec
<1> QED
  BY ScriptsAreApart, <1>2, PTL DEF WidthRemembered, P!WidthRemembered, Remembered

\* What is proved of the search panel holds of the page.
THEOREM SearchInTheManual == ManualSpec => [](FocusIsDisplayed /\ KeysWalkTheList)
  BY ScriptsAreApart, FocusStaysDisplayed, NoResultSkipped, PTL
=============================================================================
