---------------------------- MODULE MCHomeScreen ----------------------------
(* Instances of HomeScreen, and small words for the form rules. *)
EXTENDS HomeScreen, FormRules, TLC

CONSTANTS anna, boris

MCUsers == {anna, boris}

Symmetry == Permutations(MCUsers)

\* The words of up to four characters.
Words == UNION {[1..n -> Classes] : n \in 0..4}

\* What is left of a word w when characters of S are taken off its two ends.
Stripped(w, S, t) ==
  /\ \E i, j \in 0..Len(w) :
       /\ t = SubSeq(w, i + 1, j)
       /\ \A k \in DOMAIN w : k <= i \/ k > j => w[k] \in S
  /\ t # <<>> => t[1] \notin S /\ t[Len(t)] \notin S

\* Trim is that, and what is left is unique.
ASSUME TrimStrips ==
  \A S \in {Letters, Spaces, Blanks}, w \in Words :
    \A i, j \in 0..Len(w) :
      LET t == SubSeq(w, i + 1, j) IN Stripped(w, S, t) <=> t = Trim(w, S)
=============================================================================
