------------------------------- MODULE NavTree -------------------------------
(***************************************************************************)
(* The navigation tree beside a page of the reference manual: items are    *)
(* made when their parent is first expanded, clicks expand and collapse    *)
(* them, and the lists slide open and shut one slide after the other.      *)
(* The nodes of NAVTREE are numbered in the order in which                 *)
(* findNavTreePage looks at them, parents before children; 0 is the root   *)
(* that holds them all.                                                    *)
(*                                                                         *)
(* The slides are jQuery's (external): each list has a queue of them, and  *)
(* one that finds its list as it should become ends at once; a list counts *)
(* as hidden if one that it lies in is hidden.                             *)
(***************************************************************************)
EXTENDS Naturals, Sequences

CONSTANTS
    Nodes,        \* number of nodes of NAVTREE
    Parent,       \* the parent of each node
    Link,         \* the page a node links to, or NoLink
    NoLink,
    Urls,         \* the pages of the manual
    Index,        \* index.html
    MaxSlides     \* bound on the slides of a list that wait or run

Tree == 0..Nodes
Items == 1..Nodes

\* Assumed of the constants.
NavTreeOK ==
    /\ Nodes \in Nat /\ MaxSlides \in Nat
    /\ Parent \in [Items -> Tree] /\ \A n \in Items : Parent[n] < n
    /\ Link \in [Items -> Urls \cup {NoLink}] /\ Index \in Urls

VARIABLES
    items,        \* how many list items were made for each node
    visited,      \* nodes whose childrenVisited is set
    expanded,     \* nodes that are expanded
    minus,        \* nodes whose plus_img shows the sign to collapse
    shown,        \* nodes whose list of children has a display
    slides        \* the queue of each list; the first slide is running

vars == <<items, visited, expanded, minus, shown, slides>>

ChildrenOf(n) == {m \in Items : Parent[m] = n}
Inner == {n \in Items : ChildrenOf(n) # {}}

\* The nodes that n lies in, itself included, and the root left out.
Path[n \in Tree] == IF n = 0 THEN {} ELSE Path[Parent[n]] \cup {n}

Slides == {"down", "up"}

TypeOK ==
    /\ items \in [Items -> Nat] /\ visited \subseteq Tree
    /\ expanded \subseteq Inner /\ minus \subseteq Inner /\ shown \subseteq Inner
    /\ slides \in [Inner -> Seq(Slides)]

-----------------------------------------------------------------------------
(* getNode, newNode, findNavTreePage, initNavTree                          *)

\* An item for each child of the nodes of a set.
WithItems(parents, made) ==
    [n \in Items |-> IF Parent[n] \in parents THEN made[n] + 1 ELSE made[n]]

\* The first node with the link.
FindPage(url) ==
    LET found == {n \in Items : Link[n] = url}
    IN  IF found = {} THEN 0 ELSE CHOOSE n \in found : \A m \in found : n <= m

\* The nodes down to the page, or to the index if the tree lacks the page.
Breadcrumbs(url) ==
    IF FindPage(url) # 0 THEN Path[FindPage(url)] ELSE Path[FindPage(Index)]

\* A page is loaded: the nodes down to it are expanded without a slide.
\* Every page has a tree of its own, so this is where behaviours begin.
Opened(url) ==
    LET inner == Breadcrumbs(url) \cap Inner
    IN  /\ items = WithItems({0} \cup inner, [n \in Items |-> 0])
        /\ visited = {0} \cup inner
        /\ expanded = inner /\ minus = inner /\ shown = inner
        /\ slides = [n \in Inner |-> <<>>]

Init == \E url \in Urls : Opened(url)

-----------------------------------------------------------------------------
(* The handler of the plus sign (and of a label without a link), expandNode *)

Displayed(n) == n \in shown \/ (slides[n] # <<>> /\ Head(slides[n]) = "down")
InSight(n) == \A m \in Path[n] \ {n} : Displayed(m)

\* The slides left when one with nothing to do is gone: a list that does not
\* show is not slid up, one that shows is not slid down.  Expanding and
\* collapsing take turns, so the slide after it has something to do.
Running(n, queue, lists) ==
    LET idle == IF n \in lists /\ InSight(n) THEN "down" ELSE "up"
    IN  IF queue # <<>> /\ Head(queue) = idle THEN Tail(queue) ELSE queue

AddSlide(n, slide) ==
    /\ Len(slides[n]) < MaxSlides
    /\ slides' = [slides EXCEPT ![n] =
                    IF @ = <<>> THEN Running(n, <<slide>>, shown) ELSE Append(@, slide)]

\* getNode, unless the children were made before.
MakeChildrenAgain(n) == items' = WithItems({n}, items) /\ visited' = visited \cup {n}
MakeChildren(n) ==
    IF n \in visited THEN UNCHANGED <<items, visited>>
    ELSE items' = WithItems({n}, items) /\ visited' = visited \cup {n}

Expand(n) ==
    /\ n \in Inner \ expanded /\ items[n] > 0 /\ InSight(n)
    /\ MakeChildren(n)
    /\ AddSlide(n, "down")
    /\ minus' = minus \cup {n} /\ expanded' = expanded \cup {n}
    /\ UNCHANGED shown

Collapse(n) ==
    /\ n \in expanded /\ InSight(n)
    /\ AddSlide(n, "up")
    /\ minus' = minus \ {n} /\ expanded' = expanded \ {n}
    /\ UNCHANGED <<items, visited, shown>>

\* The running slide comes to its end, and the next one starts.
SlideEnds(n) ==
    /\ slides[n] # <<>>
    /\ shown' = IF Head(slides[n]) = "down" THEN shown \cup {n} ELSE shown \ {n}
    /\ slides' = [slides EXCEPT ![n] = Running(n, Tail(@), shown')]
    /\ UNCHANGED <<items, visited, expanded, minus>>

Next == \E n \in Inner : Expand(n) \/ Collapse(n) \/ SlideEnds(n)

Spec == Init /\ [][Next]_vars

-----------------------------------------------------------------------------
(* Properties                                                              *)

Last(queue) == queue[Len(queue)]

\* However fast the signs are clicked, over each other's slides: the sign
\* says whether a node is expanded, the last slide of its list takes it
\* there, an expanded node at rest shows its list, and the items of a list
\* were made once, before anyone could see them.  (A collapsed node may show
\* its list: a slide up that begins while an outer list is hidden ends
\* without hiding anything.)
TreeAgrees ==
    \A n \in Inner :
        /\ n \in minus <=> n \in expanded
        /\ slides[n] # <<>> => (Last(slides[n]) = "down" <=> n \in expanded)
        /\ n \in expanded /\ slides[n] = <<>> => n \in shown
        /\ n \in shown \cup expanded => n \in visited
        /\ \A m \in ChildrenOf(n) : items[m] = (IF n \in visited THEN 1 ELSE 0)
=============================================================================
