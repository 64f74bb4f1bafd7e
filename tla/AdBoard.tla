------------------------------- MODULE AdBoard -------------------------------
(***************************************************************************)
(* What the application promises about the shared board of small ads,      *)
(* whatever devices, queues and screens stand between a user and the       *)
(* "ads" collection: an ad is published once, at some time it is removed   *)
(* for good, and while it is live users put it among their favourites or   *)
(* take it out again, one favourite at a time.                             *)
(***************************************************************************)
CONSTANTS Docs,   \* the documents the collection may ever hold
          Uids    \* the names under which a favourite can be recorded

VARIABLES life,   \* life[d]: "unborn", "live" or "removed"
          favs    \* the pairs <<d, u>> where u has d among the favourites

boardVars == <<life, favs>>

Live == {d \in Docs : life[d] = "live"}

BoardInit ==
  /\ life \in [Docs -> {"unborn", "live"}]
  /\ favs \in SUBSET (Live \X Uids)

Publish(d) ==
  /\ life[d] = "unborn"
  /\ life' = [life EXCEPT ![d] = "live"]
  /\ UNCHANGED favs

\* Removing an ad takes it out of everybody's favourites.
Remove(d) ==
  /\ life[d] = "live"
  /\ life' = [life EXCEPT ![d] = "removed"]
  /\ favs' = {f \in favs : f[1] # d}

Mark(d, u) ==
  /\ life[d] = "live"
  /\ favs' = favs \cup {<<d, u>>}
  /\ UNCHANGED life

Unmark(d, u) ==
  /\ life[d] = "live"
  /\ favs' = favs \ {<<d, u>>}
  /\ UNCHANGED life

BoardNext ==
  \E d \in Docs :
    \/ Publish(d) \/ Remove(d)
    \/ \E u \in Uids : Mark(d, u) \/ Unmark(d, u)

BoardSpec == BoardInit /\ [][BoardNext]_boardVars
=============================================================================
