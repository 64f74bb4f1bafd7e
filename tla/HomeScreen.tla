----------------------------- MODULE HomeScreen -----------------------------
(***************************************************************************)
(* The home screen, which is pushed on the search list: the list of the    *)
(* user's own ads, the "no ads" label, the user's name, the sign-out       *)
(* button.  It is loaded on each appearance, for the mail that the user    *)
(* defaults hold then; the answers come in any order, also to a Home that  *)
(* shows somebody else by then, or is gone.                                *)
(*                                                                         *)
(* A row counts by its author.  The table draws cells for the rows on      *)
(* screen only, about three of them: which these are is left open.  A      *)
(* table once hidden stays so, and what is in it is left out.  The ads do  *)
(* not change meanwhile: see AdLists for lists whose ads do.               *)
(***************************************************************************)
EXTENDS SessionGate
LOCAL INSTANCE Functions

CONSTANTS
  Sellers,  \* the users with ads on the board
  MaxWaits  \* bound: queries of Home screens and calls to Auth unanswered

ASSUME HomeAssumption ==
  /\ Sellers \subseteq Users
  /\ MaxWaits \in Nat

VARIABLES
  place,   \* where Home is: "none", "home" on top of its tab, "away" below
           \* another screen or on a tab that is not selected
  front,   \* viewDidAppear has run, and nothing full-screen covers it since
  mail,    \* the user default userMail, by its user
  rows,    \* the authors of privateAds, unless the table is hidden
  cells,   \* those of the rows that have a cell
  hidden,  \* the table is hidden, the label "no ads" is not
  loads    \* loads[u]: how many list queries of this Home for u are unanswered

homeVars == <<place, front, mail, rows, cells, hidden, loads>>
vars     == <<gateVars, homeVars>>

-----------------------------------------------------------------------------
NoLoads == [u \in Users |-> 0]

Init ==
  /\ GateInit
  /\ place = "none" /\ front = FALSE
  /\ mail \in Uids
  /\ rows = {} /\ cells = {} /\ hidden = FALSE
  /\ loads = NoLoads

HomeTypeOK ==
  /\ GateTypeOK
  /\ place \in {"none", "home", "away"}
  /\ front \in BOOLEAN /\ (front => place = "home" /\ ~Shown("login"))
  /\ mail \in Uids
  /\ rows \subseteq Users /\ cells \subseteq Users
  /\ hidden \in BOOLEAN
  /\ loads \in [Users -> Nat]

-----------------------------------------------------------------------------
(***************************************************************************)
(* Navigation.  Who is on the tabs is not at the login screen; below an    *)
(* alert nothing can be tapped.                                            *)
(***************************************************************************)
OnTabs == stack = <<>>

\* The controller is gone: nobody sees the answers to its list queries.
Popped ==
  /\ place' = "none" /\ front' = FALSE
  /\ rows' = {} /\ cells' = {} /\ hidden' = FALSE
  /\ loads' = NoLoads

\* A new process; the user defaults are on disk.
Restarted == Popped /\ UNCHANGED mail

\* goHome
OpenHome ==
  /\ OnTabs /\ place = "none"
  /\ place' = "home"
  /\ UNCHANGED <<front, mail, rows, cells, hidden, loads>>

\* A row, the creation button, or the other tab.
GoAway ==
  /\ OnTabs /\ front
  /\ place' = "away" /\ front' = FALSE
  /\ UNCHANGED <<mail, rows, cells, hidden, loads>>

\* viewDidLoad of a detail screen or of the form.
LoadAnother ==
  /\ OnTabs /\ place # "home"
  /\ mail' = user
  /\ UNCHANGED <<place, front, rows, cells, hidden, loads>>

ComeBack ==
  /\ OnTabs /\ place = "away"
  /\ place' = "home"
  /\ UNCHANGED <<front, mail, rows, cells, hidden, loads>>

\* The back button; the reply to a publication pops to the root.
LeaveHome ==
  /\ OnTabs /\ (front \/ place = "away")
  /\ Popped
  /\ UNCHANGED mail

Navigate ==
  (OpenHome \/ GoAway \/ LoadAnother \/ ComeBack \/ LeaveHome) /\ UNCHANGED gateVars

-----------------------------------------------------------------------------
(***************************************************************************)
(* Home.                                                                   *)
(***************************************************************************)
\* What may be on screen of these rows: some of them, if there are any.
Windows(list) == {w \in SUBSET list : w = {} => list = {}}

\* cellForRowAt fills in the cell of a row by the author in the default; a row
\* of another hides the table for good.
Meets(window) == window \ {mail} # {}

Draw(list) ==
  \E w \in Windows(list) :
    /\ hidden' = Meets(w)
    /\ rows' = IF hidden' THEN {} ELSE list
    /\ cells' = IF hidden' THEN {} ELSE w

Bounded == UnderWay' + SumFunction(loads)' <= MaxWaits

\* uploadData and bindUI; without a user there is no mail to ask for.
Ask ==
  IF user = NoUser THEN UNCHANGED loads
  ELSE /\ loads' = [loads EXCEPT ![user] = @ + 1]
       /\ Bounded

\* Mutant: the table is not reloaded when its rows are dropped.
HomeAppear_NoReload ==
  /\ place = "home" /\ ~front /\ ~Shown("login")
  /\ front' = TRUE
  /\ mail' = user
  /\ rows' = {}
  /\ \/ hidden' = hidden
     \/ \E w \in Windows(rows) : hidden' = (hidden \/ Meets(w))
  /\ UNCHANGED <<gateVars, place, cells>>
  /\ Ask

\* viewDidAppear, from a push, a pop or the end of the login screen.  The rows
\* that came while Home was away may be drawn just before, for the old mail.
HomeAppear ==
  /\ place = "home" /\ ~front /\ ~Shown("login")
  /\ front' = TRUE
  /\ mail' = user
  /\ rows' = {} /\ cells' = {}
  /\ \/ hidden' = hidden
     \/ \E w \in Windows(rows) : hidden' = (hidden \/ Meets(w))
  /\ UNCHANGED <<gateVars, place>>
  /\ Ask

\* The handler of uploadData appends and reloads; the table in front is drawn
\* with these rows or, scrolled, with those.  A failed query is logged.
ListAnswer(u) ==
  /\ loads[u] > 0
  /\ loads' = [loads EXCEPT ![u] = @ - 1]
  /\ LET list == rows \cup ({u} \cap Sellers)
     IN  \/ ~hidden /\ front /\ Draw(list)
         \/ ~hidden /\ ~front /\ rows' = list /\ UNCHANGED <<cells, hidden>>
         \/ /\ hidden \/ "fail" \in Disturbances
            /\ UNCHANGED <<rows, cells, hidden>>
  /\ UNCHANGED <<gateVars, place, front, mail>>

\* The user moves the list, and other rows come on screen.
Scroll ==
  /\ OnTabs /\ front /\ ~hidden
  /\ Draw(rows)
  /\ UNCHANGED <<gateVars, place, front, mail, loads>>

HomeSignOut == front /\ SignOut /\ UNCHANGED homeVars

-----------------------------------------------------------------------------
\* The steps of the gate, whose login screen covers Home.
Guard ==
  /\ Authenticating \/ Queueing \/ SignUpDone \/ Tapping
  /\ front' = (front /\ ~Shown("login")')
  /\ UNCHANGED <<place, mail, rows, cells, hidden, loads>>
  /\ calls' # calls => Bounded

Answering == \E u \in Users : ListAnswer(u)

Next ==
  \/ Guard
  \/ HomeSignOut
  \/ Restart /\ Restarted
  \/ Navigate
  \/ HomeAppear \/ Scroll
  \/ Answering

Spec == Init /\ [][Next]_vars

-----------------------------------------------------------------------------
(***************************************************************************)
(* Correctness.                                                            *)
(***************************************************************************)
\* Nobody sees the ads of another in this table: what its cells show, if it can
\* be seen at all, is of the account that Home last appeared for, whichever
\* answers of earlier appearances and sessions come when, whatever is below the
\* rows on screen, and whoever's cells were left from before the login screen.
CellsOfOneUser == front /\ ~hidden => cells \subseteq {mail}

\* The label says the truth, once every query is answered: "Aucunes annonces
\* postees".
NoAdsLabelTrue ==
  front /\ hidden /\ loads = NoLoads /\ GateQuiet /\ stack = <<>> => user \notin Sellers
=============================================================================
