----------------------------- MODULE MCSearchBox -----------------------------
(***************************************************************************)
(* SearchBox for model checking: two filters, and a word that differs from *)
(* another only by a space.  The first filter has a page for both words,   *)
(* the second for one.                                                     *)
(***************************************************************************)
EXTENDS SearchBox

Page(filter, word) == [index |-> filter, word |-> word]

MCCompact == [word \in Values |-> IF word = "a b" THEN "ab" ELSE word]
MCIndexed == {Page(0, "ab"), Page(0, "a b"), Page(1, "ab")}
MCHits == {Page(0, "ab")}
=============================================================================
