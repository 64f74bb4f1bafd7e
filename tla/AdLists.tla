------------------------------- MODULE AdLists --------------------------------
(***************************************************************************)
(* The tabs: the search list (SearchListController) and the favourites     *)
(* (FavoriteListController), each the root of a navigation stack onto      *)
(* which it pushes the detail screen of a row.  A list drops its rows and  *)
(* queries when it appears, and appends whatever answer comes.             *)
(*                                                                         *)
(* Composed with AdDetail: lists and detail screens share the client, its  *)
(* queues and the main queue.  Both lists are Screens whose "open" stays   *)
(* NoAd.  As a list drops its rows whenever it appears, nothing reads the  *)
(* rows of a list out of sight: the model has those of the list in front.  *)
(***************************************************************************)
EXTENDS AdDetail

CONSTANTS
  Search, Favorites,              \* the lists, which also name the tabs
  SearchDetail, FavoritesDetail   \* the detail controller of each tab

Lists   == {Search, Favorites}
Details == {SearchDetail, FavoritesDetail}

ASSUME ListAssumption ==
  /\ Search # Favorites /\ SearchDetail # FavoritesDetail
  /\ Lists \cap Details = {}
  /\ Screens = Lists \cup Details
  /\ \A s \in Details : KindsOf[s] = DetailKinds
  /\ KindsOf[Search] = {"listAll"}
  /\ KindsOf[Favorites] = {"listMarked", "remove"}
  /\ Titles # {}

VARIABLES
  tab,       \* the selected tab
  shown,     \* the list in front, or NoScreen
  rows,      \* rows[d]: how often privateAds of the list in front has ad d
  order,     \* what the rows of the search list are sorted by, when in front
  control    \* where its segmented control stands

listVars == <<tab, shown, rows, order, control>>

\* What the user was told: no variables of the program.
VARIABLES
  announced,  \* ads whose deletion popped the screen in front
  promised    \* ads whose star turned black in front, not taken back since

tellVars == <<announced, promised>>
allVars  == <<vars, listVars, tellVars>>

NoRows  == [d \in Docs |-> 0]
Sorting == {"title", "distance"}

ListsInit ==
  /\ Init
  /\ tab = Search /\ shown = NoScreen
  /\ rows = NoRows
  /\ order = "title" /\ control = "title"
  /\ announced = {} /\ promised = {}

\* One thing is in front; lists are no detail screens.
ListsTypeOK ==
  /\ TypeOK
  /\ tab \in Lists
  /\ shown \in Lists \cup {NoScreen}
  /\ shown # NoScreen => visible = NoScreen
  /\ rows \in [Docs -> Nat]
  /\ order \in Sorting /\ control \in Sorting
  /\ announced \subseteq Docs /\ promised \subseteq Docs
  /\ \A l \in Lists : open[l] = NoAd /\ inFavorite[l] = "nil"

-----------------------------------------------------------------------------
(***************************************************************************)
(* Loads.                                                                  *)
(***************************************************************************)
LoadKind(l) == IF l = Search THEN "listAll" ELSE "listMarked"

\* These queries have no clause on the title.
AnyTitle == CHOOSE t \in Titles : TRUE

Load(l) ==
  [kind |-> LoadKind(l), screen |-> l, title |-> AnyTitle, uid |-> Compared(LoadKind(l))]

LoadOf(c, l) == c.kind = LoadKind(l) /\ c.screen = l

\* Loads of l that wait for their answer or whose answer waits for the main queue.
LoadsOf(l) ==
  SumFunctionOnSet(reads, {r \in Request : LoadOf(r, l)})
    + Cardinality({i \in DOMAIN inbox :
                     inbox[i].type = "answer" /\ LoadOf(inbox[i].req, l)})

DetailOn(t) == IF t = Search THEN SearchDetail ELSE FavoritesDetail

\* The controller on top of the selected tab's stack.
Top == IF open[DetailOn(tab)] # NoAd THEN DetailOn(tab) ELSE tab

\* Mutant: the rows are not dropped.
LeaveList_KeepRows == shown' = NoScreen /\ order' = "title" /\ UNCHANGED rows

\* The list in front is left: for a detail screen, the other tab, the login
\* screen.  Its rows are of no use any more: viewWillAppear will drop them.
LeaveList == shown' = NoScreen /\ order' = "title" /\ rows' = NoRows

-----------------------------------------------------------------------------
(***************************************************************************)
(* What the user does.                                                     *)
(***************************************************************************)

\* Mutant: the list does not load while the device waits for another call.
ListAppear_WhenIdle(l) ==
  /\ visible = NoScreen /\ shown = NoScreen
  /\ Top = l
  /\ shown' = l
  /\ IF Outstanding = 0 THEN Ask(Load(l)) ELSE UNCHANGED reads
  /\ UNCHANGED <<store, user, owner, pending, inbox, screenVars, tab, rows, order,
                 control, tellVars>>

\* viewWillAppear: when what covered the list is popped, when its tab is
\* selected, when the login screen goes.
ListAppear(l) ==
  /\ visible = NoScreen /\ shown = NoScreen
  /\ Top = l
  /\ shown' = l
  /\ Ask(Load(l))
  /\ UNCHANGED <<store, user, owner, pending, inbox, screenVars, tab, rows, order,
                 control, tellVars>>

DetailAppear ==
  /\ shown = NoScreen
  /\ \E s \in Details : Top = s /\ Appear(s)
  /\ UNCHANGED <<listVars, tellVars>>

SelectTab ==
  /\ visible # Login
  /\ tab' \in Lists \ {tab}
  /\ visible' = NoScreen /\ LeaveList
  /\ UNCHANGED <<clientVars, open, delShown, inFavorite, control, tellVars>>

\* didSelectRowAt and prepare: the detail screen gets a copy of the row.
Select(d) ==
  /\ shown # NoScreen /\ rows[d] > 0
  /\ Open(DetailOn(tab), d)
  /\ LeaveList
  /\ UNCHANGED <<tab, control, tellVars>>

TapDetail ==
  /\ \E s \in Details : Back(s) \/ TapFavorite(s) \/ TapDelete(s)
  /\ UNCHANGED <<listVars, tellVars>>

\* sortSegmentPressed
Press ==
  /\ shown = Search
  /\ control' \in Sorting \ {control}
  /\ order' = control'
  /\ UNCHANGED <<vars, tab, shown, rows, tellVars>>

\* A row of the favourites is swiped away: as from the detail screen, first a
\* query for the title.  The row stays.
Swipe(d) ==
  /\ shown = Favorites /\ rows[d] > 0
  /\ Ask([kind |-> "remove", screen |-> Favorites, title |-> TitleOf[d],
          uid |-> Compared("remove")])
  /\ UNCHANGED <<store, user, owner, pending, inbox, screenVars, listVars, tellVars>>

-----------------------------------------------------------------------------
(***************************************************************************)
(* The handlers.                                                           *)
(***************************************************************************)

\* The ads that the device takes for the user's favourites.
Favourites == {d \in Docs : user \in LocalDoc(d).marks}

\* An answer for the list in front, and the rows with its documents appended.
Loaded == shown # NoScreen /\ LoadOf(Head(inbox).req, shown)
Grown  == [d \in Docs |-> IF d \in Head(inbox).docs THEN rows[d] + 1 ELSE rows[d]]

\* loadData: each document of the answer is appended and the list sorted by
\* title each time.
LoadAnswer ==
  /\ \E l \in Lists : AnswerTo(LoadKind(l))
  /\ rows' = IF Loaded THEN Grown ELSE rows
  /\ order' = IF Loaded /\ shown = Search /\ Head(inbox).docs # {} THEN "title" ELSE order
  /\ UNCHANGED <<store, user, owner, pending, reads, screenVars, tab, shown, control,
                 tellVars>>

\* The swiped ad and every other with its title lose the mark.
RemoveAnswer ==
  /\ AnswerTo("remove")
  /\ Enqueue("unmark", Favorites, Head(inbox).docs)
  /\ UNCHANGED <<store, user, owner, reads, screenVars, listVars, announced>>
  /\ promised' = promised \cap Favourites'

\* Its acknowledgement reloads the table with the rows there are.
RemoveDone ==
  /\ Delivered("ack") /\ Head(inbox).screen \in Lists
  /\ UNCHANGED <<store, user, owner, pending, reads, screenVars, listVars, tellVars>>

DetailAnswer ==
  /\ CheckAnswer \/ FavoriteAnswer \/ DeleteAnswer
  /\ promised' = promised \cap Favourites'
  /\ UNCHANGED <<listVars, announced>>

\* Mutant: a list takes the acknowledgement for one of its detail screen.
DetailDone_AnyScreen ==
  /\ WriteDone
  /\ LET c    == Head(inbox)
         told == IF c.ok /\ visible = c.screen THEN {c.doc} ELSE {}
     IN  /\ announced' = IF c.op = "delete" THEN announced \cup told ELSE announced
         /\ promised' = IF c.op = "mark" /\ ~Telling
                          THEN promised \cup (told \cap Favourites) ELSE promised
  /\ UNCHANGED listVars

\* The user is told what the handler does to the screen in front; a star that
\* turns black while the session changes is a promise to nobody.
DetailDone ==
  /\ WriteDone /\ Head(inbox).screen \in Details
  /\ LET c    == Head(inbox)
         told == IF c.ok /\ visible = c.screen THEN {c.doc} ELSE {}
     IN  /\ announced' = IF c.op = "delete" THEN announced \cup told ELSE announced
         /\ promised' = IF c.op = "mark" /\ ~Telling
                          THEN promised \cup (told \cap Favourites) ELSE promised
  /\ UNCHANGED listVars

-----------------------------------------------------------------------------
\* What was promised was promised to the former user.
SessionChange == SwitchUser /\ promised' = {} /\ UNCHANGED <<listVars, announced>>

\* The login screen covers the list in front.
ListsTold ==
  /\ SessionTold
  /\ IF visible' = Login THEN LeaveList ELSE UNCHANGED <<shown, order, rows>>
  /\ UNCHANGED <<tab, control, tellVars>>

Relaunch ==
  /\ Restart
  /\ tab' = Search /\ LeaveList /\ control' = "title"
  /\ UNCHANGED <<announced, promised>>

ListsUserStep ==
  \/ \E l \in Lists : ListAppear(l)
  \/ \E d \in Docs : Select(d) \/ Swipe(d)
  \/ DetailAppear \/ SelectTab \/ TapDetail \/ Press
  \/ SessionChange \/ Relaunch

ListsHandling ==
  LoadAnswer \/ RemoveAnswer \/ RemoveDone \/ DetailAnswer \/ DetailDone \/ ListsTold

Background == (Answering \/ Committing \/ OtherDevice) /\ UNCHANGED <<listVars, tellVars>>

ListsNext == ListsUserStep \/ ListsHandling \/ Background

ListsSpec == ListsInit /\ [][ListsNext]_allVars

-----------------------------------------------------------------------------
(***************************************************************************)
(* Correctness.                                                            *)
(***************************************************************************)

\* Appearances that come faster than the answers make double rows, for every
\* answer is appended; but an ad has no more rows than the list has loads under
\* way at once, and never one of an appearance that was answered before.  With
\* one call at a time there are no double rows.
CopiesBounded ==
  shown # NoScreen => \A d \in Docs : rows[d] + LoadsOf(shown) <= MaxOutstanding

\* An ad whose deletion popped the screen in front is on no list that the user
\* sees afterwards, although loads asked for before the deletion may be
\* answered after it: their handlers run before the screen is popped.
DeletedStaysOffLists ==
  shown # NoScreen => \A d \in announced : rows[d] = 0

\* An ad whose star turned black in front of the user, and not taken back
\* since, is among the favourites once their load is answered.
FavouritesReachTheirList ==
  Quiet /\ shown = Favorites =>
    \A d \in promised : store[d].state = "ad" => rows[d] > 0

\* Once all is answered, the rows of the search list, if they differ, are in
\* the order that its segmented control stands on.
SortFollowsControl ==
  Quiet /\ shown = Search /\ Cardinality({d \in Docs : rows[d] > 0}) > 1
    => order = control
=============================================================================
