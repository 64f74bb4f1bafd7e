----------------------------- MODULE MCAdDetail ------------------------------
(***************************************************************************)
(* Instances of AdDetail for TLC: two accounts, two ads, and the ways they *)
(* can share a title and an author.                                        *)
(***************************************************************************)
EXTENDS AdDetail

CONSTANTS d1, d2, u1, u2, s1, s2, vase, velo

TwoDocs == {d1, d2}

\* Two ads under one title: an ad published twice, or two sellers of a vase.
OneTitle   == [d \in TwoDocs |-> vase]
OneAuthor  == [d \in TwoDocs |-> u1]
TwoAuthors == [d \in TwoDocs |-> IF d = d1 THEN u1 ELSE u2]

\* A board with a single ad.
OneDoc       == {d1}
SingleTitle  == [d \in OneDoc |-> vase]
SingleAuthor == [d \in OneDoc |-> u1]

\* All controllers are detail screens.
OnlyDetails == [s \in Screens |-> DetailKinds]
=============================================================================
