------------------------------ MODULE MCAdLists ------------------------------
(***************************************************************************)
(* Instances of AdLists for TLC: the four controllers, two accounts, and   *)
(* one ad or two.                                                          *)
(***************************************************************************)
EXTENDS AdLists

CONSTANTS d1, d2, u1, u2, vase, velo

FourScreens == Lists \cup Details

ByScreen == [s \in FourScreens |->
  CASE s \in Details  -> DetailKinds
    [] s = Search    -> {"listAll"}
    [] s = Favorites -> {"listMarked", "remove"}]

OneDoc  == {d1}
TwoDocs == {d1, d2}

OneTitle  == [d \in OneDoc |-> vase]
OneAuthor == [d \in OneDoc |-> u1]

OwnTitle  == [d \in TwoDocs |-> IF d = d1 THEN vase ELSE velo]
SameAuthor == [d \in TwoDocs |-> u1]

\* Bound: the user turns the segmented control only while no call is under way.
\* Only the order of rows depends on it, and SortFollowsControl.
SortWhileIdle == control = "title" \/ Outstanding = 0
=============================================================================
