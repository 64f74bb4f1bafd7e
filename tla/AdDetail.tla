------------------------------- MODULE AdDetail -------------------------------
(***************************************************************************)
(* The detail screen of an ad (DetailViewController): its star, its delete *)
(* button, and the queries and writes behind them.  One controller per     *)
(* element of Screens; the two navigation stacks of the tab bar can each   *)
(* have one open, of which at most one is in front of the user.            *)
(***************************************************************************)
EXTENDS FirestoreClient

CONSTANTS
  NoAd,    \* the screen is not open
  Login    \* the login screen, which covers everything

ASSUME DetailAssumption == NoAd \notin Docs /\ Login \notin Screens \cup {NoScreen}

VARIABLES
  open,        \* open[s]: the ad that controller s shows, or NoAd
  delShown,    \* delShown[s]: the delete button is not hidden
  inFavorite,  \* inFavorite[s]: the optional Bool that the star follows
  visible      \* the controller in front, NoScreen (a list, Home), or Login

\* The queries of a detail screen.
DetailKinds == {"check", "favorite", "delete"}

screenVars == <<open, delShown, inFavorite, visible>>
vars == <<clientVars, screenVars>>

Init ==
  /\ ClientInit
  /\ open = [s \in Screens |-> NoAd]
  /\ delShown = [s \in Screens |-> FALSE]
  /\ inFavorite = [s \in Screens |-> "nil"]
  /\ visible = NoScreen

TypeOK ==
  /\ ClientTypeOK
  /\ open \in [Screens -> Docs \cup {NoAd}]
  /\ delShown \in [Screens -> BOOLEAN]
  /\ inFavorite \in [Screens -> {"nil", "true", "false"}]
  /\ visible \in Screens \cup {NoScreen, Login}

-----------------------------------------------------------------------------
(***************************************************************************)
(* What the user does.  When a session ends, the screens stay in front     *)
(* until the main queue comes to the block that tells of it.               *)
(***************************************************************************)

AskFor(kind, s) ==
  Ask([kind |-> kind, screen |-> s, title |-> TitleOf[open[s]], uid |-> Compared(kind)])

\* A row of some list is selected and viewDidLoad fills the screen in; the
\* list may be older than the ad's deletion.  The button is settled here,
\* once.  A slot is a fresh controller when no callback holds the former one.
Open(s, d) ==
  /\ visible = NoScreen
  /\ open[s] = NoAd /\ ~Held(s)
  /\ store[d].state # "unborn"
  /\ open' = [open EXCEPT ![s] = d]
  /\ delShown' = [delShown EXCEPT ![s] = AuthorOf[d] = user]
  /\ inFavorite' = [inFavorite EXCEPT ![s] = "nil"]
  /\ UNCHANGED <<clientVars, visible>>

\* viewDidAppear, when the screen is pushed and whenever its tab comes back.
Appear(s) ==
  /\ visible = NoScreen
  /\ open[s] # NoAd
  /\ visible' = s
  /\ AskFor("check", s)
  /\ UNCHANGED <<store, user, owner, pending, inbox, open, delShown, inFavorite>>

\* The user goes to the other tab; the controller stays on its stack.
Leave(s) ==
  /\ visible = s
  /\ visible' = NoScreen
  /\ UNCHANGED <<clientVars, open, delShown, inFavorite>>

\* A controller that leaves its stack is kept alive by its callbacks only.
Close(s) ==
  /\ open' = [open EXCEPT ![s] = NoAd]
  /\ delShown' = [delShown EXCEPT ![s] = FALSE]
  /\ visible' = IF visible = s THEN NoScreen ELSE visible
  /\ UNCHANGED inFavorite

Back(s) ==
  /\ visible = s
  /\ Close(s)
  /\ UNCHANGED clientVars

TapFavorite(s) ==
  /\ visible = s
  /\ AskFor("favorite", s)
  /\ UNCHANGED <<store, user, owner, pending, inbox, screenVars>>

\* Mutant: the button works for everybody.
TapDelete_Anybody(s) ==
  /\ visible = s
  /\ AskFor("delete", s)
  /\ UNCHANGED <<store, user, owner, pending, inbox, screenVars>>

TapDelete(s) ==
  /\ visible = s /\ delShown[s]
  /\ AskFor("delete", s)
  /\ UNCHANGED <<store, user, owner, pending, inbox, screenVars>>

-----------------------------------------------------------------------------
(***************************************************************************)
(* The handlers, one per callback, run on the main queue in order.         *)
(***************************************************************************)
Delivered(type) == inbox # <<>> /\ Head(inbox).type = type /\ inbox' = Tail(inbox)

AnswerTo(kind) == Delivered("answer") /\ Head(inbox).req.kind = kind

\* checkFavorites: any match turns the star black; no match changes nothing.
CheckAnswer ==
  /\ AnswerTo("check")
  /\ inFavorite' = IF Head(inbox).docs = {} THEN inFavorite
                   ELSE [inFavorite EXCEPT ![Head(inbox).req.screen] = "true"]
  /\ UNCHANGED <<store, user, owner, pending, reads, open, delShown, visible>>

\* favoriteButton: what the tap does is decided now, by the flag and for the
\* user of this moment, on every document with the title.
FavoriteAnswer ==
  /\ AnswerTo("favorite")
  /\ LET s == Head(inbox).req.screen
     IN  Enqueue(IF inFavorite[s] = "true" THEN "unmark" ELSE "mark",
                 s, Head(inbox).docs)
  /\ UNCHANGED <<store, user, owner, reads, screenVars>>

\* delButtonPressed: every document with the title is deleted.
DeleteAnswer ==
  /\ AnswerTo("delete")
  /\ Enqueue("delete", Head(inbox).req.screen, Head(inbox).docs)
  /\ UNCHANGED <<store, user, owner, reads, screenVars>>

\* The completion handler of a write: an error is only logged.
WriteDone ==
  /\ Delivered("ack")
  /\ LET c == Head(inbox)
     IN  \/ /\ c.ok /\ c.op = "delete"
            /\ Close(c.screen)
         \/ /\ c.ok /\ c.op # "delete"
            /\ inFavorite' = [inFavorite EXCEPT ![c.screen] =
                                IF c.op = "mark" THEN "true" ELSE "false"]
            /\ UNCHANGED <<open, delShown, visible>>
         \/ ~c.ok /\ UNCHANGED screenVars
  /\ UNCHANGED <<store, user, owner, pending, reads>>

-----------------------------------------------------------------------------
\* The session may change under an open screen.
SwitchUser == (\E u \in Uids : ChangeUser(u)) /\ UNCHANGED screenVars

\* The block that tells of a change: first the client, then the listener that
\* presents the login screen if nobody is signed in by now.  Behind a sign-in
\* the login screen goes, and what it covered is back with what it showed.
SessionTold ==
  /\ Delivered("told")
  /\ HandleCredentialChange
  /\ visible' = CASE user = NoUser                            -> Login
                  [] visible = Login /\ Head(inbox).uid # NoUser
                                     /\ user # NoUser        -> NoScreen
                  [] OTHER                                    -> visible
  /\ UNCHANGED <<open, delShown, inFavorite>>

Restart ==
  /\ RestartClient
  /\ open' = [s \in Screens |-> NoAd]
  /\ delShown' = [s \in Screens |-> FALSE]
  /\ inFavorite' = [s \in Screens |-> "nil"]
  /\ visible' = IF user = NoUser THEN Login ELSE NoScreen

UserStep ==
  \/ \E s \in Screens :
       \/ Appear(s) \/ Leave(s) \/ Back(s) \/ TapFavorite(s) \/ TapDelete(s)
       \/ \E d \in Docs : Open(s, d)
  \/ SwitchUser
  \/ Restart

Answering   == (\E r \in Request : Raise(r)) /\ UNCHANGED screenVars
Committing  == (\E d \in Docs : Commit(d)) /\ UNCHANGED screenVars
Handling    == CheckAnswer \/ FavoriteAnswer \/ DeleteAnswer \/ WriteDone \/ SessionTold

OtherDevice ==
  /\ \E d \in Docs :
       RemotePublish(d) \/ \E op \in Ops, u \in Users : RemoteWrite(op, u, d)
  /\ UNCHANGED screenVars

Next == UserStep \/ Answering \/ Committing \/ Handling \/ OtherDevice

Spec == Init /\ [][Next]_vars

\* The client, the network and the main queue keep going; the user need not.
Fairness ==
  WF_vars(Answering) /\ WF_vars(Committing) /\ WF_vars(Handling)

FairSpec == Spec /\ Fairness

-----------------------------------------------------------------------------
(***************************************************************************)
(* Correctness.                                                            *)
(***************************************************************************)
Starred(s) == inFavorite[s] = "true"

Marked(title) ==
  \E d \in Docs : /\ store[d].state = "ad" /\ TitleOf[d] = title
                  /\ user \in store[d].marks

\* Once every query and write of the device is answered, the star of the
\* screen in front is black exactly if the user has an ad with that title
\* among the favourites: however fast the star, the delete button and the tabs
\* are tapped, and whatever a restart sends again.
StarSettles ==
  Quiet => \A s \in Screens :
    visible = s => (Starred(s) <=> Marked(TitleOf[open[s]]))

\* When the handler of a deletion runs without an error, and the screen goes
\* away with "annonce suprimee" in the log, the ad is gone for everybody and
\* no later write or merge has brought it back.
AnnouncedDeletionsHold ==
  \A i \in DOMAIN inbox :
    LET c == inbox[i]
    IN  c.type = "ack" /\ c.op = "delete" /\ c.ok => store[c.doc].state # "ad"

\* A step of this device that takes an ad off the board is one of its author:
\* what the delete button, hidden for the others, is there for.
OnlyAuthorsDelete ==
  \A d \in Docs :
    /\ pending' # pending
    /\ store[d].state = "ad" /\ store'[d].state # "ad"
    => AuthorOf[d] = user

\* Auth's user gives a write its name and the client's user its queue, and the
\* two change apart: an answer handled in between marks the ad for one account
\* from the queue of another.  But only then: a write that is queued while no
\* change of session is on its way to the client carries the name of the account
\* whose queue it is in, after any number of changes that overtook one another.
NamedForItsQueue ==
  ~Telling =>
    \A u \in Uids : \A i \in DOMAIN pending'[u] :
      i > Len(pending[u]) => pending'[u][i].uid = u

DeletionsByAuthors == [][OnlyAuthorsDelete]_vars
NamesMatchQueues   == [][NamedForItsQueue]_vars

\* When the user leaves the device alone, all that was begun is finished: no
\* refused or impossible write stays at the head of the queue.
EverythingDrains == <>[][~UserStep]_vars => <>[]Quiet

\* The delete button of the screen in front is there for the ad's author only,
\* once a change of session has been told.
DeleteButtonForAuthor ==
  ~Telling =>
    \A s \in Screens : visible = s /\ delShown[s] => AuthorOf[open[s]] = user

-----------------------------------------------------------------------------
(***************************************************************************)
(* The board that all devices share, as AdBoard promises it: ghosts are    *)
(* removed ads, and their marks are nobody's favourites.                   *)
(***************************************************************************)
Life == [d \in Docs |->
  CASE store[d].state = "unborn" -> "unborn"
    [] store[d].state = "ad"     -> "live"
    [] OTHER                     -> "removed"]

Favs == {f \in Docs \X Uids :
           store[f[1]].state = "ad" /\ f[2] \in store[f[1]].marks}

Board == INSTANCE AdBoard WITH life <- Life, favs <- Favs

\* Every step of the device, its queues and the other devices is a step of the
\* board or none: an ad that is gone never returns, no loop over documents
\* changes two ads at once, and marks left on ghosts are never seen.
ImplementsBoard == Board!BoardSpec

\* The assumption under which deleting by title is deleting one's own ads.
OneAuthorPerTitle ==
  \A d, e \in Docs : TitleOf[d] = TitleOf[e] => AuthorOf[d] = AuthorOf[e]
=============================================================================
