---------------------------- MODULE AdListsProofs ----------------------------
(***************************************************************************)
(* What holds of the lists together with their detail screens, for every   *)
(* set of ads and accounts.  Most steps are steps of AdDetail; the others  *)
(* ask a query, or handle the answer to one.                               *)
(***************************************************************************)
EXTENDS AdLists, AdDetailProofs

-----------------------------------------------------------------------------
(***************************************************************************)
(* What the lists add to the detail screens.                               *)
(***************************************************************************)
ListAsks ==
  /\ UNCHANGED <<store, user, owner, pending, inbox, screenVars>>
  /\ reads' = reads \/ \E r : Ask(r)

ListHandles ==
  /\ inbox # <<>> /\ Head(inbox).type # "told" /\ inbox' = Tail(inbox)
  /\ UNCHANGED <<store, user, owner, reads, screenVars>>
  /\ \/ UNCHANGED pending
     \/ /\ Head(inbox).type = "answer"
        /\ Enqueue("unmark", Favorites, Head(inbox).docs)

LEMMA ListsSteps ==
  ASSUME TypeOK, [ListsNext]_allVars
  PROVE  [Next]_vars \/ ListAsks \/ ListHandles
<1>1. CASE UNCHANGED allVars
  BY <1>1 DEF allVars
<1>2. ASSUME NEW l \in Lists, ListAppear(l) PROVE ListAsks
  BY <1>2 DEF ListAppear, ListAsks
<1>3. ASSUME NEW d \in Docs, Swipe(d) PROVE ListAsks
  BY <1>3 DEF Swipe, ListAsks
<1>4. ASSUME NEW d \in Docs, Select(d) PROVE Next
  <2>1. DetailOn(tab) \in Screens
    BY ListAssumption DEF DetailOn, Details
  <2> QED
    BY <1>4, <2>1 DEF Select, Next, UserStep
<1>5. CASE DetailAppear
  <2>1. PICK s \in Details : Appear(s)
    BY <1>5 DEF DetailAppear
  <2> QED
    BY <2>1, ListAssumption DEF Next, UserStep
<1>6. CASE SelectTab
  <2>1. CASE visible = NoScreen
    BY <1>6, <2>1 DEF SelectTab, vars, screenVars
  <2>2. CASE visible # NoScreen
    <3>1. visible \in Screens
      BY <1>6, <2>2 DEF SelectTab, TypeOK
    <3>2. Leave(visible)
      BY <1>6 DEF SelectTab, Leave
    <3> QED
      BY <3>1, <3>2 DEF Next, UserStep
  <2> QED
    BY <2>1, <2>2
<1>7. CASE TapDetail
  <2>1. PICK s \in Details : Back(s) \/ TapFavorite(s) \/ TapDelete(s)
    BY <1>7 DEF TapDetail
  <2> QED
    BY <2>1, ListAssumption DEF Next, UserStep
<1>8. CASE Press
  BY <1>8 DEF Press
<1>9. CASE SessionChange \/ Relaunch
  BY <1>9 DEF SessionChange, Relaunch, Next, UserStep
<1>10. CASE LoadAnswer
  BY <1>10 DEF LoadAnswer, AnswerTo, Delivered, ListHandles
<1>11. CASE RemoveAnswer
  BY <1>11 DEF RemoveAnswer, AnswerTo, Delivered, ListHandles
<1>12. CASE RemoveDone
  BY <1>12 DEF RemoveDone, Delivered, ListHandles
<1>13. CASE DetailAnswer \/ DetailDone \/ ListsTold
  BY <1>13 DEF DetailAnswer, DetailDone, ListsTold, Next, Handling
<1>14. CASE Background
  BY <1>14 DEF Background, Next
<1> QED
  BY <1>1, <1>2, <1>3, <1>4, <1>5, <1>6, <1>7, <1>8, <1>9, <1>10, <1>11, <1>12,
     <1>13, <1>14 DEF ListsNext, ListsUserStep, ListsHandling

LEMMA ListsNextType ==
  ASSUME TypeOK, [ListsNext]_allVars
  PROVE  TypeOK'
<1>0. /\ store \in [Docs -> Document] /\ user \in Uids /\ owner \in Uids
      /\ pending \in [Uids -> Seq(Write)] /\ reads \in [Request -> Nat]
      /\ inbox \in Seq(Callback)
  BY DEF TypeOK, ClientTypeOK
<1>1. CASE [Next]_vars
  BY <1>1, NextType
<1>2. CASE ListAsks
  <2>1. reads' \in [Request -> Nat]
    <3>1. CASE reads' = reads
      BY <1>0, <3>1
    <3>2. CASE \E r : Ask(r)
      <4>1. PICK r : reads' = [reads EXCEPT ![r] = @ + 1]
        BY <3>2 DEF Ask
      <4>2. CASE r \in Request
        BY <1>0, <4>1, <4>2
      <4>3. CASE r \notin Request
        BY <1>0, <4>1, <4>3
      <4> QED
        BY <4>2, <4>3
    <3> QED
      BY <1>2, <3>1, <3>2 DEF ListAsks
  <2> QED
    BY <1>2, <2>1 DEF ListAsks, TypeOK, ClientTypeOK, screenVars
<1>3. CASE ListHandles
  <2>1. inbox' \in Seq(Callback)
    BY <1>0, <1>3, InboxType DEF ListHandles
  <2>2. pending' \in [Uids -> Seq(Write)]
    <3>1. CASE UNCHANGED pending
      BY <1>0, <3>1
    <3>2. CASE /\ Head(inbox).type = "answer"
               /\ Enqueue("unmark", Favorites, Head(inbox).docs)
      <4>1. Head(inbox) \in Answer
        BY <1>0, <1>3, <3>2, InboxType DEF ListHandles
      <4>2. Head(inbox).docs \in SUBSET Docs
        BY <4>1 DEF Answer
      <4>3. Favorites \in Screens /\ "unmark" \in Ops
        BY ListAssumption DEF Lists, Ops
      <4> QED
        BY <1>0, <3>2, <4>2, <4>3, EnqueueType
    <3> QED
      BY <1>3, <3>1, <3>2 DEF ListHandles
  <2> QED
    BY <1>3, <2>1, <2>2 DEF ListHandles, TypeOK, ClientTypeOK, screenVars
<1> QED
  BY <1>1, <1>2, <1>3, ListsSteps

-----------------------------------------------------------------------------
(***************************************************************************)
(* Type correctness.  A list never is a detail screen: no handler of one   *)
(* runs for the other.                                                     *)
(***************************************************************************)
ListsBlank == \A l \in Lists : open[l] = NoAd /\ inFavorite[l] = "nil"

LEMMA ListsInitType == ListsInit => ListsTypeOK
<1> SUFFICES ASSUME ListsInit PROVE ListsTypeOK
  OBVIOUS
<1>1. TypeOK
  BY InitType DEF ListsInit
<1>2. rows \in [Docs -> Nat]
  BY DEF ListsInit, NoRows
<1>3. \A l \in Lists : open[l] = NoAd /\ inFavorite[l] = "nil"
  BY ListAssumption DEF ListsInit, Init
<1> QED
  BY <1>1, <1>2, <1>3 DEF ListsInit, ListsTypeOK, Lists, Sorting

\* The head of the inbox is for a list, or for a detail screen.
LEMMA AnswersScreen ==
  ASSUME TypeOK, inbox # <<>>, Head(inbox).type = "answer",
         Head(inbox).req.kind \in DetailKinds
  PROVE  Head(inbox).req.screen \in Details
<1>1. Head(inbox).req \in Request
  BY InboxType DEF Answer, TypeOK, ClientTypeOK
<1>2. /\ Head(inbox).req.screen \in Screens
      /\ Head(inbox).req.kind \in KindsOf[Head(inbox).req.screen]
  BY <1>1 DEF Request
<1> QED
  BY <1>2, ListAssumption DEF DetailKinds, Lists

LEMMA BlankStep ==
  ASSUME TypeOK, ListsBlank, [ListsNext]_allVars
  PROVE  ListsBlank'
<1>0. /\ open \in [Screens -> Docs \cup {NoAd}]
      /\ inFavorite \in [Screens -> {"nil", "true", "false"}]
      /\ Lists \subseteq Screens /\ Lists \cap Details = {}
  BY ListAssumption DEF TypeOK
<1>1. CASE UNCHANGED screenVars
  BY <1>1 DEF ListsBlank, screenVars
<1>2. ASSUME NEW d \in Docs, Select(d) PROVE ListsBlank'
  <2>1. DetailOn(tab) \in Details /\ Open(DetailOn(tab), d)
    BY <1>2 DEF Select, DetailOn, Details
  <2> QED
    BY <1>0, <2>1 DEF Open, ListsBlank
<1>3. ASSUME NEW s \in Details, Close(s) PROVE ListsBlank'
  BY <1>0, <1>3 DEF Close, ListsBlank
<1>4. CASE TapDetail
  BY <1>1, <1>3, <1>4 DEF TapDetail, Back, TapFavorite, TapDelete
<1>5. CASE CheckAnswer
  <2>1. Head(inbox).req.screen \in Details
    BY <1>5, AnswersScreen DEF CheckAnswer, AnswerTo, Delivered, DetailKinds
  <2> QED
    BY <1>0, <1>5, <2>1 DEF CheckAnswer, ListsBlank
<1>6. CASE WriteDone /\ Head(inbox).screen \in Details
  <2>1. CASE Close(Head(inbox).screen)
    BY <1>3, <1>6, <2>1
  <2>2. CASE /\ inFavorite' = [inFavorite EXCEPT ![Head(inbox).screen] =
                                IF Head(inbox).op = "mark" THEN "true" ELSE "false"]
             /\ UNCHANGED <<open, delShown, visible>>
    BY <1>0, <1>6, <2>2 DEF ListsBlank
  <2> QED
    BY <1>1, <1>6, <2>1, <2>2 DEF WriteDone
<1>7. CASE Relaunch
  BY <1>0, <1>7 DEF Relaunch, Restart, ListsBlank
<1>8. CASE SelectTab \/ SessionChange \/ ListsTold \/ DetailAppear
  BY <1>8 DEF SelectTab, SessionChange, SwitchUser, ListsTold, SessionTold, DetailAppear, Appear,
              screenVars, ListsBlank
<1> QED
  BY <1>1, <1>2, <1>4, <1>5, <1>6, <1>7, <1>8
     DEF ListsNext, ListsUserStep, ListsHandling, ListAppear, Swipe, Press, LoadAnswer,
         RemoveAnswer, RemoveDone, DetailAnswer, DetailDone, FavoriteAnswer, DeleteAnswer,
         Background, Answering, Committing, OtherDevice, allVars, vars

\* One thing is in front, and what is not has no rows.
FrontInv ==
  IF shown = NoScreen THEN rows = NoRows ELSE shown \in Lists /\ visible = NoScreen

LEMMA FrontStep ==
  ASSUME TypeOK, FrontInv, [ListsNext]_allVars
  PROVE  FrontInv'
<1>0. NoScreen \notin Screens /\ Lists \subseteq Screens /\ Details \subseteq Screens
  BY ClientAssumption, ListAssumption
<1>1. CASE LeaveList
  BY <1>1 DEF LeaveList, FrontInv
<1>2. CASE UNCHANGED <<shown, rows>> /\ (visible' = visible \/ visible' = NoScreen)
  BY <1>2 DEF FrontInv, NoRows
<1>3. ASSUME NEW l \in Lists, ListAppear(l) PROVE FrontInv'
  BY <1>0, <1>3 DEF ListAppear, FrontInv, screenVars
<1>4. CASE DetailAppear
  BY <1>4 DEF DetailAppear, FrontInv, listVars, NoRows
<1>5. CASE LoadAnswer
  <2>1. UNCHANGED <<shown, visible>>
    BY <1>5 DEF LoadAnswer, screenVars
  <2>2. shown = NoScreen => rows' = rows
    BY <1>5 DEF LoadAnswer, Loaded
  <2> QED
    BY <2>1, <2>2 DEF FrontInv, NoRows
<1>6. CASE TapDetail \/ DetailAnswer \/ DetailDone
  BY <1>2, <1>6 DEF TapDetail, Back, TapFavorite, TapDelete, Close, DetailAnswer, CheckAnswer,
                    FavoriteAnswer, DeleteAnswer, DetailDone, WriteDone, screenVars, listVars
<1>7. CASE ListsTold
  <2>1. visible' = Login \/ visible' = visible \/ visible' = NoScreen
    BY <1>7 DEF ListsTold, SessionTold
  <2> QED
    BY <1>1, <1>2, <1>7, <2>1 DEF ListsTold
<1> QED
  BY <1>1, <1>2, <1>3, <1>4, <1>5, <1>6, <1>7
     DEF ListsNext, ListsUserStep, ListsHandling, SelectTab, Select, Press, Swipe,
         RemoveAnswer, RemoveDone, SessionChange, SwitchUser, Relaunch, Background, Answering,
         Committing, OtherDevice, allVars, vars, screenVars, listVars

LEMMA RowsStep ==
  ASSUME TypeOK, rows \in [Docs -> Nat], [ListsNext]_allVars
  PROVE  rows' \in [Docs -> Nat]
<1>1. CASE rows' = rows
  BY <1>1
<1>2. CASE rows' = NoRows
  BY <1>2 DEF NoRows
<1>3. CASE LoadAnswer
  BY <1>1, <1>3 DEF LoadAnswer, Grown
<1> QED
  BY <1>1, <1>2, <1>3
     DEF ListsNext, ListsUserStep, ListsHandling, ListAppear, DetailAppear, SelectTab, Select,
         TapDetail, Press, Swipe, RemoveAnswer, RemoveDone, DetailAnswer, DetailDone,
         SessionChange, ListsTold, Relaunch, LeaveList, Background, allVars, listVars

LEMMA TabsStep ==
  ASSUME tab \in Lists, order \in Sorting, control \in Sorting, [ListsNext]_allVars
  PROVE  tab' \in Lists /\ order' \in Sorting /\ control' \in Sorting
<1>1. "title" \in Sorting /\ Search \in Lists
  BY DEF Sorting, Lists
<1> QED
  BY <1>1
     DEF ListsNext, ListsUserStep, ListsHandling, ListAppear, DetailAppear, SelectTab, Select,
         TapDetail, Press, Swipe, LoadAnswer, RemoveAnswer, RemoveDone, DetailAnswer,
         DetailDone, SessionChange, ListsTold, Relaunch, LeaveList, Background, allVars, listVars

\* What DetailDone tells the user is about an ad, and only if it is in front.
LEMMA ToldStep ==
  ASSUME TypeOK, [ListsNext]_allVars
  PROVE  /\ announced' = announced \/
              /\ DetailDone
              /\ Head(inbox).type = "ack" /\ Head(inbox).ok /\ Head(inbox).op = "delete"
              /\ visible = Head(inbox).screen /\ Head(inbox).screen \in Details
              /\ announced' = announced \cup {Head(inbox).doc}
         /\ promised' \subseteq promised \/
              /\ DetailDone /\ Head(inbox).type = "ack"
              /\ promised' \subseteq promised \cup {Head(inbox).doc}
<1>1. CASE DetailDone
  <2> DEFINE c    == Head(inbox)
             told == IF c.ok /\ visible = c.screen THEN {c.doc} ELSE {}
  <2>1. /\ announced' = IF c.op = "delete" THEN announced \cup told ELSE announced
        /\ promised' = IF c.op = "mark" /\ ~Telling
                         THEN promised \cup (told \cap Favourites) ELSE promised
        /\ c.type = "ack" /\ c.screen \in Details
    BY <1>1 DEF DetailDone, WriteDone, Delivered
  <2>2. told = {c.doc} \/ told = {}
    OBVIOUS
  <2>3. told # {} => c.ok /\ visible = c.screen
    OBVIOUS
  <2> HIDE DEF told
  <2> QED
    BY <1>1, <2>1, <2>2, <2>3
<1>2. CASE announced' = announced /\ promised' \subseteq promised
  BY <1>2
<1> QED
  BY <1>1, <1>2
     DEF ListsNext, ListsUserStep, ListsHandling, ListAppear, DetailAppear, SelectTab, Select,
         TapDetail, Press, Swipe, LoadAnswer, RemoveAnswer, RemoveDone, DetailAnswer,
         SessionChange, ListsTold, Relaunch, Background, allVars, tellVars

LEMMA ListsTypeStep ==
  ASSUME ListsTypeOK, FrontInv, [ListsNext]_allVars
  PROVE  ListsTypeOK' /\ FrontInv'
<1>0. /\ TypeOK /\ ListsBlank
      /\ rows \in [Docs -> Nat] /\ tab \in Lists
      /\ order \in Sorting /\ control \in Sorting
  BY DEF ListsTypeOK, ListsBlank
<1>1. /\ TypeOK' /\ ListsBlank' /\ FrontInv' /\ rows' \in [Docs -> Nat]
      /\ tab' \in Lists /\ order' \in Sorting /\ control' \in Sorting
  BY <1>0, ListsNextType, BlankStep, FrontStep, RowsStep, TabsStep
<1>2. announced' \subseteq Docs /\ promised' \subseteq Docs
  <2>1. DetailDone /\ Head(inbox).type = "ack" => Head(inbox).doc \in Docs
    BY <1>0, InboxType DEF DetailDone, WriteDone, Delivered, Ack, TypeOK, ClientTypeOK
  <2> QED
    BY <1>0, <2>1, ToldStep DEF ListsTypeOK
<1> QED
  BY <1>1, <1>2 DEF ListsTypeOK, ListsBlank, FrontInv

LEMMA FrontInit == ListsInit => FrontInv
BY DEF ListsInit, FrontInv

\* One list or one detail screen is in front, and lists stay lists: no handler of
\* a detail screen ever runs for one.
THEOREM ListsTypes == ListsSpec => []ListsTypeOK
<1>1. ListsInit => ListsTypeOK /\ FrontInv
  BY ListsInitType, FrontInit
<1>2. ListsTypeOK /\ FrontInv /\ [ListsNext]_allVars => (ListsTypeOK /\ FrontInv)'
  BY ListsTypeStep
<1> QED
  BY <1>1, <1>2, PTL DEF ListsSpec

-----------------------------------------------------------------------------
(***************************************************************************)
(* The session, as AdDetailProofs follows it, and the writes of a row that *)
(* is swiped away.                                                         *)
(***************************************************************************)
LEMMA ListsSessionStep ==
  ASSUME TypeOK, [ListsNext]_allVars
  PROVE  SessionStep
<1>1. CASE [Next]_vars
  BY <1>1, SessionSteps
<1>2. CASE ListAsks \/ ListHandles
  BY <1>2 DEF ListAsks, ListHandles, SessionStep, Keeps
<1> QED
  BY <1>1, <1>2, ListsSteps

LEMMA ListsSessionKept ==
  ASSUME TypeOK, SessionInv, [ListsNext]_allVars
  PROVE  SessionInv'
BY ListsSessionStep, SessionKept DEF TypeOK, ClientTypeOK

LEMMA ListsPendingNew ==
  ASSUME TypeOK, [ListsNext]_allVars
  PROVE  NewWrites
<1>0. ClientTypeOK /\ pending \in [Uids -> Seq(Write)]
  BY DEF TypeOK, ClientTypeOK
<1>1. CASE [Next]_vars
  BY <1>1, PendingNew
<1>2. CASE pending' = pending
  BY <1>0, <1>2, NoNewWrites
<1>3. CASE Enqueue("unmark", Favorites, Head(inbox).docs)
  BY <1>0, <1>3, EnqueueNew
<1> QED
  BY <1>1, <1>2, <1>3, ListsSteps DEF ListAsks, ListHandles

\* The favourites list too takes a mark away from the account whose queue the
\* write is in, once the client has heard of the last change of session.
THEOREM ListsFindTheirQueue == ListsSpec => NamesMatchQueues
<1>1. ListsInit => TypeOK /\ SessionInv
  BY InitType, SessionInit DEF ListsInit
<1>2. TypeOK /\ SessionInv /\ [ListsNext]_allVars => TypeOK' /\ SessionInv'
  BY ListsNextType, ListsSessionKept
<1>3. TypeOK /\ SessionInv /\ [ListsNext]_allVars => [NamedForItsQueue]_vars
  BY ListsPendingNew DEF SessionInv, NamedForItsQueue, NewWrites
<1> QED
  BY <1>1, <1>2, <1>3, PTL DEF ListsSpec, NamesMatchQueues

-----------------------------------------------------------------------------
(***************************************************************************)
(* Deleted ads stay off the lists, as long as queries are answered from    *)
(* the server.  The inbox keeps the order: an answer that has the ad was   *)
(* raised before the acknowledgement of its deletion, and is handled       *)
(* before the screen is popped.                                            *)
(***************************************************************************)
Removed(d)   == store[d].state \in {"gone", "ghost"}
RemovedBy(d) == store'[d].state \in {"gone", "ghost"}

DeletionAck(c) == c.type = "ack" /\ c.op = "delete" /\ c.ok

Lacks(c, d) == c.type = "answer" => d \notin c.docs

AckLast ==
  \A i \in DOMAIN inbox : DeletionAck(inbox[i]) =>
    /\ Removed(inbox[i].doc)
    /\ \A j \in DOMAIN inbox : j > i => Lacks(inbox[j], inbox[i].doc)

OffLists ==
  \A d \in announced :
    /\ Removed(d) /\ rows[d] = 0
    /\ \A j \in DOMAIN inbox : Lacks(inbox[j], d)

LEMMA RemovedStays ==
  ASSUME TypeOK, [ListsNext]_allVars, NEW d \in Docs, Removed(d)
  PROVE  RemovedBy(d)
<1>1. ASSUME NEW op \in Ops, NEW u, NEW s, s.state \in {"gone", "ghost"}
      PROVE  ApplyWrite(op, u, s).state \in {"gone", "ghost"}
  <2>1. CASE op = "mark"
    BY <1>1, <2>1 DEF ApplyWrite, Exists
  <2>2. CASE op = "unmark"
    BY <1>1, <2>2 DEF ApplyWrite, Exists
  <2>3. CASE op = "delete"
    BY <2>3 DEF ApplyWrite
  <2> QED
    BY <2>1, <2>2, <2>3 DEF Ops
<1>2. store \in [Docs -> Document]
  BY DEF TypeOK, ClientTypeOK
<1>3. CASE store' = store
  BY <1>3 DEF Removed, RemovedBy
<1>4. ASSUME NEW e \in Docs, NEW op \in Ops, NEW u,
             store' = [store EXCEPT ![e] = ApplyWrite(op, u, @)]
      PROVE  RemovedBy(d)
  BY <1>1, <1>2, <1>4 DEF Removed, RemovedBy
<1>5. CASE Committing
  <2>1. PICK e \in Docs : Commit(e)
    BY <1>5 DEF Committing
  <2>2. Head(pending[owner]).op \in Ops
    BY <2>1, CommitType DEF Write
  <2> QED
    BY <1>3, <1>4, <2>1, <2>2 DEF Commit
<1>6. CASE OtherDevice
  <2>1. ASSUME NEW e \in Docs, RemotePublish(e) PROVE RemovedBy(d)
    BY <1>2, <2>1 DEF RemotePublish, Removed, RemovedBy
  <2> QED
    BY <1>4, <1>6, <2>1 DEF OtherDevice, RemoteWrite
<1>7. CASE [Next]_vars
  BY <1>3, <1>5, <1>6, <1>7
     DEF Next, UserStep, Open, Appear, Leave, Back, TapFavorite, TapDelete, SwitchUser,
         ChangeUser, Restart, RestartClient, Answering, Raise, Handling, CheckAnswer,
         FavoriteAnswer, DeleteAnswer, WriteDone, SessionTold, HandleCredentialChange,
         vars, clientVars
<1> QED
  BY <1>3, <1>7, ListsSteps DEF ListAsks, ListHandles

\* What is new in the inbox: an answer, with ads that are there, an
\* acknowledgement, of a deletion that took place, or news of the session.
NewAnswer(c) == c.type = "answer" /\ \A d \in c.docs : store'[d].state = "ad"
NewAck(c)    == c.type = "ack" /\ (DeletionAck(c) => c.doc \in Docs /\ RemovedBy(c.doc))
NewTold(c)   == c.type = "told"
New(c)       == NewAnswer(c) \/ NewAck(c) \/ NewTold(c)

LEMMA InboxChanges ==
  ASSUME "offline" \notin Disturbances, TypeOK, [ListsNext]_allVars
  PROVE  \/ inbox' = inbox \/ inbox' = <<>>
         \/ inbox # <<>> /\ inbox' = Tail(inbox)
         \/ \E c : inbox' = Append(inbox, c) /\ New(c)
<1>1. CASE Answering
  <2>1. PICK r \in Request : Raise(r)
    BY <1>1 DEF Answering
  <2>2. PICK docs \in Answers(r) :
          inbox' = Append(inbox, [type |-> "answer", req |-> r, docs |-> docs])
    BY <2>1 DEF Raise
  <2>3. \A d \in docs : store[d].state = "ad"
    BY <2>2 DEF Answers, Result, Matches
  <2>4. store' = store
    BY <2>1 DEF Raise
  <2> QED
    BY <2>2, <2>3, <2>4 DEF New, NewAnswer
<1>2. CASE Committing
  <2>1. PICK d \in Docs : Commit(d)
    BY <1>2 DEF Committing
  <2> DEFINE w == Head(pending[owner])
             a(ok) == [type |-> "ack", op |-> w.op, screen |-> w.screen,
                       doc |-> d, ok |-> ok]
  <2>2. store \in [Docs -> Document]
    BY DEF TypeOK, ClientTypeOK
  <2>3. \/ inbox' = inbox
        \/ inbox' = Append(inbox, a(FALSE))
        \/ /\ inbox' = Append(inbox, a(TRUE))
           /\ store' = [store EXCEPT ![d] = ApplyWrite(w.op, w.uid, @)]
    BY <2>1 DEF Commit, Acked
  <2>4. NewAck(a(FALSE))
    BY DEF NewAck, DeletionAck
  <2>5. ASSUME store' = [store EXCEPT ![d] = ApplyWrite(w.op, w.uid, @)]
        PROVE  NewAck(a(TRUE))
    <3>1. w.op = "delete" => store'[d].state = "gone"
      BY <2>2, <2>5 DEF ApplyWrite
    <3>2. a(TRUE).type = "ack" /\ a(TRUE).op = w.op /\ a(TRUE).doc = d
      OBVIOUS
    <3> HIDE DEF a, w
    <3> QED
      BY <3>1, <3>2 DEF NewAck, DeletionAck, RemovedBy
  <2> HIDE DEF a, w
  <2> QED
    BY <2>3, <2>4, <2>5 DEF New
<1>3. CASE Handling
  BY <1>3 DEF Handling, CheckAnswer, FavoriteAnswer, DeleteAnswer, WriteDone, SessionTold,
              AnswerTo, Delivered
<1>4. CASE SwitchUser
  BY <1>4 DEF SwitchUser, ChangeUser, New, NewTold
<1>5. CASE [Next]_vars
  BY <1>1, <1>2, <1>3, <1>4, <1>5
     DEF Next, UserStep, Open, Appear, Leave, Back, TapFavorite, TapDelete, Restart, RestartClient, OtherDevice, RemotePublish, RemoteWrite,
         vars, clientVars
<1> QED
  BY <1>5, ListsSteps DEF ListAsks, ListHandles

LEMMA AckLastNext ==
  ASSUME "offline" \notin Disturbances, TypeOK, AckLast, [ListsNext]_allVars
  PROVE  AckLast'
<1>0. inbox \in Seq(Callback)
  BY DEF TypeOK, ClientTypeOK
<1>1. ASSUME NEW i \in DOMAIN inbox, DeletionAck(inbox[i])
      PROVE  inbox[i].doc \in Docs /\ RemovedBy(inbox[i].doc)
  <2>1. inbox[i] \in Ack
    BY <1>0, <1>1 DEF Callback, Answer, Told, DeletionAck
  <2> QED
    BY <1>1, <2>1, RemovedStays DEF AckLast, Ack
<1>2. CASE inbox' = inbox
  BY <1>1, <1>2 DEF AckLast, Removed, RemovedBy, DeletionAck, Lacks
<1>3. CASE inbox' = <<>>
  BY <1>3 DEF AckLast
<1>4. CASE inbox # <<>> /\ inbox' = Tail(inbox)
  <2>1. \A i \in DOMAIN inbox' : i + 1 \in DOMAIN inbox /\ inbox'[i] = inbox[i + 1]
    BY <1>0, <1>4, InboxType
  <2>2. \A i \in DOMAIN inbox' : i \in Nat
    BY <1>0, <1>4
  <2> QED
    BY <1>1, <2>1, <2>2 DEF AckLast, Removed, RemovedBy, DeletionAck, Lacks
<1>5. ASSUME NEW c, inbox' = Append(inbox, c), New(c)
      PROVE  AckLast'
  <2>1. /\ Len(inbox) \in Nat /\ DOMAIN inbox = 1 .. Len(inbox)
        /\ DOMAIN inbox' = 1 .. Len(inbox) + 1
        /\ inbox'[Len(inbox) + 1] = c
        /\ \A i \in DOMAIN inbox : inbox'[i] = inbox[i]
    BY <1>0, <1>5
  <2>2. ASSUME NEW i \in DOMAIN inbox, DeletionAck(inbox[i])
        PROVE  Lacks(c, inbox[i].doc)
    BY <1>1, <1>5, <2>2 DEF New, NewAnswer, NewAck, NewTold, Lacks, RemovedBy
  <2>3. ASSUME NEW i \in DOMAIN inbox', DeletionAck(inbox'[i])
        PROVE  /\ RemovedBy(inbox'[i].doc)
               /\ \A j \in DOMAIN inbox' : j > i => Lacks(inbox'[j], inbox'[i].doc)
    <3>1. CASE i \in DOMAIN inbox
      <4>1. \A j \in DOMAIN inbox' : j \in DOMAIN inbox \/ inbox'[j] = c
        BY <2>1
      <4> QED
        BY <1>1, <2>1, <2>2, <2>3, <3>1, <4>1 DEF AckLast
    <3>2. CASE i = Len(inbox) + 1
      <4>1. DeletionAck(c)
        BY <2>1, <2>3, <3>2
      <4>2. RemovedBy(c.doc)
        BY <1>5, <4>1 DEF New, NewAnswer, NewAck, NewTold, DeletionAck
      <4> QED
        BY <2>1, <3>2, <4>2
    <3> QED
      BY <2>1, <3>1, <3>2
  <2> QED
    BY <2>3 DEF AckLast, Removed, RemovedBy, DeletionAck, Lacks
<1> QED
  BY <1>2, <1>3, <1>4, <1>5, InboxChanges

\* Only an answer to a load adds rows, and only of the ads in the answer.
LEMMA RowsGrow ==
  ASSUME TypeOK, rows \in [Docs -> Nat], [ListsNext]_allVars
  PROVE  \/ rows' = rows \/ rows' = NoRows
         \/ inbox # <<>> /\ Head(inbox).type = "answer" /\ rows' = Grown
<1>1. CASE LoadAnswer
  BY <1>1 DEF LoadAnswer, AnswerTo, Delivered
<1> QED
  BY <1>1
     DEF ListsNext, ListsUserStep, ListsHandling, ListAppear, DetailAppear, SelectTab, Select,
         TapDetail, Press, Swipe, RemoveAnswer, RemoveDone, DetailAnswer, DetailDone,
         SessionChange, ListsTold, Relaunch, LeaveList, Background, allVars, listVars

LEMMA OffListsNext ==
  ASSUME "offline" \notin Disturbances, ListsTypeOK, FrontInv, AckLast, OffLists,
         [ListsNext]_allVars
  PROVE  OffLists'
<1>0. /\ TypeOK /\ inbox \in Seq(Callback) /\ rows \in [Docs -> Nat]
      /\ announced \subseteq Docs
  BY DEF ListsTypeOK, TypeOK, ClientTypeOK
<1>1. ASSUME NEW d \in announced
      PROVE  /\ d \in Docs /\ RemovedBy(d) /\ rows'[d] = 0
             /\ \A j \in DOMAIN inbox' : Lacks(inbox'[j], d)
  <2>1. d \in Docs /\ rows[d] = 0 /\ \A j \in DOMAIN inbox : Lacks(inbox[j], d)
    BY <1>0, <1>1 DEF OffLists
  <2>2. RemovedBy(d)
    BY <1>0, <1>1, RemovedStays DEF OffLists
  <2>3. rows'[d] = 0
    <3>1. CASE inbox # <<>> /\ Head(inbox).type = "answer" /\ rows' = Grown
      <4>1. 1 \in DOMAIN inbox /\ Head(inbox) = inbox[1]
        BY <1>0, <3>1
      <4>2. d \notin Head(inbox).docs
        BY <2>1, <3>1, <4>1 DEF Lacks
      <4> QED
        BY <2>1, <3>1, <4>2 DEF Grown
    <3> QED
      BY <1>0, <2>1, <3>1, RowsGrow DEF NoRows
  <2>4. \A j \in DOMAIN inbox' : Lacks(inbox'[j], d)
    <3>1. CASE inbox # <<>> /\ inbox' = Tail(inbox)
      <4>1. \A i \in DOMAIN inbox' : i + 1 \in DOMAIN inbox /\ inbox'[i] = inbox[i + 1]
        BY <1>0, <3>1, InboxType
      <4> QED
        BY <2>1, <4>1
    <3>2. ASSUME NEW c, inbox' = Append(inbox, c), New(c)
          PROVE  \A j \in DOMAIN inbox' : Lacks(inbox'[j], d)
      <4>1. \A j \in DOMAIN inbox' :
              inbox'[j] = c \/ (j \in DOMAIN inbox /\ inbox'[j] = inbox[j])
        BY <1>0, <3>2
      <4>2. Lacks(c, d)
        BY <2>2, <3>2 DEF New, NewAnswer, NewAck, NewTold, Lacks, RemovedBy
      <4> QED
        BY <2>1, <4>1, <4>2
    <3> QED
      BY <1>0, <2>1, <3>1, <3>2, InboxChanges
  <2> QED
    BY <2>1, <2>2, <2>3, <2>4
<1>2. CASE announced' = announced
  BY <1>1, <1>2 DEF OffLists, Removed, RemovedBy
<1>3. CASE /\ DetailDone
           /\ Head(inbox).type = "ack" /\ Head(inbox).ok /\ Head(inbox).op = "delete"
           /\ visible = Head(inbox).screen /\ Head(inbox).screen \in Details
           /\ announced' = announced \cup {Head(inbox).doc}
  <2> DEFINE d == Head(inbox).doc
  <2>1. inbox # <<>> /\ inbox' = Tail(inbox)
    BY <1>3 DEF DetailDone, WriteDone, Delivered
  <2>2. 1 \in DOMAIN inbox /\ Head(inbox) = inbox[1]
    BY <1>0, <2>1
  <2>3. \A i \in DOMAIN inbox' :
          i \in Nat /\ i + 1 > 1 /\ i + 1 \in DOMAIN inbox /\ inbox'[i] = inbox[i + 1]
    BY <1>0, <2>1, InboxType
  <2>4. DeletionAck(inbox[1])
    BY <1>3, <2>2 DEF DeletionAck
  <2>5. Removed(d) /\ \A j \in DOMAIN inbox : j > 1 => Lacks(inbox[j], d)
    BY <2>2, <2>4 DEF AckLast
  <2>6. d \in Docs
    BY <1>0, <1>3, <2>1, InboxType DEF Ack
  <2>7. RemovedBy(d)
    BY <1>0, <2>5, <2>6, RemovedStays
  <2>8. visible # NoScreen
    BY <1>3, ClientAssumption, ListAssumption
  <2>9. rows'[d] = 0
    BY <1>3, <2>6, <2>8 DEF FrontInv, NoRows, DetailDone, listVars
  <2>10. \A j \in DOMAIN inbox' : Lacks(inbox'[j], d)
    BY <2>3, <2>5
  <2> HIDE DEF d
  <2>11. announced' = announced \cup {d}
    BY <1>3 DEF d
  <2> QED
    BY <1>1, <2>7, <2>9, <2>10, <2>11 DEF OffLists, Removed, RemovedBy
<1> QED
  BY <1>0, <1>2, <1>3, ToldStep

\* While queries are answered from the server, an ad whose deletion popped the
\* screen in front has no row in a list that the user sees afterwards.
THEOREM DeletedNotListed ==
  ASSUME "offline" \notin Disturbances
  PROVE  ListsSpec => []DeletedStaysOffLists
<1>1. ListsInit => ListsTypeOK /\ FrontInv /\ AckLast /\ OffLists
  <2>1. ListsInit => AckLast /\ OffLists
    BY DEF ListsInit, Init, ClientInit, AckLast, OffLists
  <2> QED
    BY <2>1, ListsInitType, FrontInit
<1>2. ListsTypeOK /\ FrontInv /\ AckLast /\ OffLists /\ [ListsNext]_allVars
        => (ListsTypeOK /\ FrontInv /\ AckLast /\ OffLists)'
  <2>1. ListsTypeOK => TypeOK
    BY DEF ListsTypeOK
  <2> QED
    BY <2>1, ListsTypeStep, AckLastNext, OffListsNext
<1>3. OffLists => DeletedStaysOffLists
  BY DEF OffLists, DeletedStaysOffLists
<1> QED
  BY <1>1, <1>2, <1>3, PTL DEF ListsSpec

-----------------------------------------------------------------------------
(***************************************************************************)
(* The shared board, which the lists read and write with the details.      *)
(***************************************************************************)
LEMMA ListsBornNext ==
  ASSUME TypeOK, BornInv, [ListsNext]_allVars
  PROVE  BornInv'
<1>1. CASE [Next]_vars
  BY <1>1, BornNext
<1>2. CASE ListAsks
  BY <1>2 DEF ListAsks, BornInv, Born
<1>3. CASE ListHandles
  <2>1. \A i \in DOMAIN inbox' : i + 1 \in DOMAIN inbox /\ inbox'[i] = inbox[i + 1]
    BY <1>3, InboxType DEF ListHandles, TypeOK, ClientTypeOK
  <2>2. ASSUME NEW u \in Uids, NEW i \in DOMAIN pending'[u], NEW d \in pending'[u][i].docs
        PROVE  Born(d)
    <3>1. CASE UNCHANGED pending
      BY <2>2, <3>1 DEF BornInv
    <3>2. CASE /\ Head(inbox).type = "answer"
               /\ Enqueue("unmark", Favorites, Head(inbox).docs)
      <4>1. inbox # <<>>
        BY <1>3 DEF ListHandles
      <4>2. "unmark" = "delete" => Head(inbox).req.kind = "delete"
        OBVIOUS
      <4>3. Continues(pending'[u][i], u) \/ Begins(pending'[u][i], u)
        BY <3>2, <4>1, <4>2, EnqueueStep
      <4>4. Head(inbox) = inbox[1] /\ 1 \in DOMAIN inbox
        BY <4>1, InboxType DEF TypeOK, ClientTypeOK
      <4> QED
        BY <2>2, <4>3, <4>4 DEF Continues, Begins, BornInv
    <3> QED
      BY <1>3, <3>1, <3>2 DEF ListHandles
  <2>3. store' = store
    BY <1>3 DEF ListHandles
  <2> QED
    BY <2>1, <2>2, <2>3 DEF BornInv, Born
<1> QED
  BY <1>1, <1>2, <1>3, ListsSteps

\* The lists, their rows and the swipe that takes a favourite out, together with
\* the detail screens, do to the board what AdBoard promises and nothing else.
THEOREM ListsImplementBoard == ListsSpec => ImplementsBoard
<1>1. ListsInit => TypeOK /\ BornInv /\ Board!BoardInit
  BY InitType, BornInit, BoardInitial DEF ListsInit
<1>2. TypeOK /\ BornInv /\ [ListsNext]_allVars => TypeOK' /\ BornInv'
  BY ListsNextType, ListsBornNext
<1>3. TypeOK /\ BornInv /\ [ListsNext]_allVars => [Board!BoardNext]_(Board!boardVars)
  <2> SUFFICES ASSUME TypeOK, BornInv, [ListsNext]_allVars
               PROVE  [Board!BoardNext]_(Board!boardVars)
    OBVIOUS
  <2>1. CASE [Next]_vars
    BY <2>1, BoardStep
  <2>2. CASE store' = store
    BY <2>2 DEF Life, Favs, Board!boardVars
  <2> QED
    BY <2>1, <2>2, ListsSteps DEF ListAsks, ListHandles
<1> QED
  BY <1>1, <1>2, <1>3, PTL DEF ListsSpec, ImplementsBoard, Board!BoardSpec

LEMMA ListsAckNext ==
  ASSUME TypeOK, BornInv, AckInv, [ListsNext]_allVars
  PROVE  AckInv'
<1>1. CASE [Next]_vars
  BY <1>1, AckNext
<1>2. CASE ListAsks
  BY <1>2 DEF ListAsks, AckInv, Born
<1>3. CASE ListHandles
  <2>1. \A i \in DOMAIN inbox' : i + 1 \in DOMAIN inbox /\ inbox'[i] = inbox[i + 1]
    BY <1>3, InboxType DEF ListHandles, TypeOK, ClientTypeOK
  <2>2. store' = store
    BY <1>3 DEF ListHandles
  <2> QED
    BY <2>1, <2>2 DEF AckInv, Born
<1> QED
  BY <1>1, <1>2, <1>3, ListsSteps

\* With the lists in between, cached answers too, a deletion is only announced
\* of an ad that is gone for good.
THEOREM ListsDeletionsHold == ListsSpec => []AnnouncedDeletionsHold
<1>1. ListsInit => TypeOK /\ BornInv /\ AckInv
  BY InitType, BornInit DEF ListsInit, Init, ClientInit, AckInv
<1>2. TypeOK /\ BornInv /\ AckInv /\ [ListsNext]_allVars => (TypeOK /\ BornInv /\ AckInv)'
  BY ListsNextType, ListsBornNext, ListsAckNext
<1>3. AckInv => AnnouncedDeletionsHold
  BY DEF AckInv, AnnouncedDeletionsHold
<1> QED
  BY <1>1, <1>2, <1>3, PTL DEF ListsSpec

-----------------------------------------------------------------------------
(***************************************************************************)
(* Double rows.  What is added to the rows was a load under way before.    *)
(***************************************************************************)

\* The places of a queue of callbacks that hold an answer to a load of l.
Loading(q, l) == {i \in DOMAIN q : q[i].type = "answer" /\ LoadOf(q[i].req, l)}

Reading(l) == {r \in Request : LoadOf(r, l)}

LEMMA LoadingBounded ==
  ASSUME NEW q \in Seq(Callback), NEW l
  PROVE  /\ IsFiniteSet(Loading(q, l))
         /\ Cardinality(Loading(q, l)) \in Nat
         /\ Cardinality(Loading(q, l)) <= Len(q)
<1>1. IsFiniteSet(1 .. Len(q)) /\ Cardinality(1 .. Len(q)) = Len(q)
  <2>1. Len(q) \in Nat /\ (1 > Len(q) => Len(q) = 0)
    OBVIOUS
  <2> QED
    BY SMTT(20), <2>1, FS_Interval
<1>2. Loading(q, l) \in SUBSET (1 .. Len(q))
  BY DEF Loading
<1> QED
  BY <1>1, <1>2, FS_Subset, FS_CardinalityType

LEMMA LoadingAppend ==
  ASSUME NEW q \in Seq(Callback), NEW l, NEW c \in Callback
  PROVE  Cardinality(Loading(Append(q, c), l))
           = IF c.type = "answer" /\ LoadOf(c.req, l) THEN Cardinality(Loading(q, l)) + 1
                                                      ELSE Cardinality(Loading(q, l))
<1> DEFINE p == Append(q, c)
           n == Len(q) + 1
<1>1. /\ DOMAIN p = DOMAIN q \cup {n} /\ n \notin DOMAIN q /\ p[n] = c
      /\ \A i \in DOMAIN q : p[i] = q[i]
  OBVIOUS
<1> HIDE DEF p, n
<1>2. n \notin Loading(q, l)
  BY <1>1 DEF Loading
<1>3. CASE c.type = "answer" /\ LoadOf(c.req, l)
  <2>1. Loading(p, l) = Loading(q, l) \cup {n}
    BY <1>1, <1>3 DEF Loading
  <2> QED
    BY <1>2, <1>3, <2>1, LoadingBounded, FS_AddElement DEF p
<1>4. CASE ~(c.type = "answer" /\ LoadOf(c.req, l))
  <2>1. Loading(p, l) = Loading(q, l)
    BY <1>1, <1>4 DEF Loading
  <2> QED
    BY <1>4, <2>1 DEF p
<1> QED
  BY <1>3, <1>4

LEMMA LoadingTail ==
  ASSUME NEW q \in Seq(Callback), q # <<>>, NEW l
  PROVE  Cardinality(Loading(Tail(q), l))
           = IF Head(q).type = "answer" /\ LoadOf(Head(q).req, l)
               THEN Cardinality(Loading(q, l)) - 1 ELSE Cardinality(Loading(q, l))
<1> DEFINE rest == Loading(q, l) \ {1}
           f == [i \in Loading(Tail(q), l) |-> i + 1]
<1>1. /\ Tail(q) \in Seq(Callback) /\ Head(q) = q[1]
      /\ DOMAIN Tail(q) = {i \in Nat : i + 1 \in DOMAIN q /\ i # 0}
      /\ \A i \in DOMAIN Tail(q) : Tail(q)[i] = q[i + 1]
      /\ \A j \in DOMAIN q : j # 1 => j - 1 \in DOMAIN Tail(q)
      /\ \A j \in DOMAIN q : j \in Nat /\ j # 0
      /\ 1 \in DOMAIN q
  OBVIOUS
<1>2. \A i \in Loading(Tail(q), l) : i \in Nat /\ i + 1 \in rest
  BY <1>1 DEF Loading
<1>3. \A j \in rest : j \in Nat /\ j - 1 \in Loading(Tail(q), l)
  <2> SUFFICES ASSUME NEW j \in rest PROVE j \in Nat /\ j - 1 \in Loading(Tail(q), l)
    OBVIOUS
  <2>1. j \in DOMAIN q /\ j # 1 /\ q[j].type = "answer" /\ LoadOf(q[j].req, l)
    BY DEF Loading
  <2> DEFINE i == j - 1
  <2>2. j \in Nat /\ i \in DOMAIN Tail(q) /\ i + 1 = j
    BY <1>1, <2>1
  <2> HIDE DEF i
  <2>3. Tail(q)[i] = q[j]
    BY <1>1, <2>2
  <2>4. i \in Loading(Tail(q), l)
    BY <2>1, <2>2, <2>3 DEF Loading
  <2> QED
    BY <2>2, <2>4 DEF i
<1>4. f \in Bijection(Loading(Tail(q), l), rest)
  <2>1. f \in [Loading(Tail(q), l) -> rest]
    BY <1>2
  <2>2. \A i, j \in Loading(Tail(q), l) : f[i] = f[j] => i = j
    BY <1>2
  <2>3. \A j \in rest : f[j - 1] = j /\ j - 1 \in Loading(Tail(q), l)
    BY <1>3
  <2> HIDE DEF f, rest
  <2> QED
    BY <2>1, <2>2, <2>3 DEF Bijection, Injection, Surjection, IsInjective
<1>5. Cardinality(Loading(Tail(q), l)) = Cardinality(rest)
  <2>1. IsFiniteSet(Loading(Tail(q), l)) /\ IsFiniteSet(rest)
    BY <1>1, LoadingBounded, FS_RemoveElement
  <2> HIDE DEF f, rest
  <2>2. ExistsBijection(Loading(Tail(q), l), rest)
    BY <1>4 DEF ExistsBijection
  <2> QED
    BY <2>1, <2>2, FS_Bijection
<1>6. Cardinality(rest) = IF 1 \in Loading(q, l) THEN Cardinality(Loading(q, l)) - 1
                                                  ELSE Cardinality(Loading(q, l))
  BY LoadingBounded, FS_RemoveElement
<1>7. 1 \in Loading(q, l) <=> (Head(q).type = "answer" /\ LoadOf(Head(q).req, l))
  BY <1>1 DEF Loading
<1> QED
  BY <1>5, <1>6, <1>7

LEMMA LoadsParts ==
  ASSUME NEW l
  PROVE  LoadsOf(l) = SumFunctionOnSet(reads, Reading(l)) + Cardinality(Loading(inbox, l))
BY DEF LoadsOf, Reading, Loading

FiniteLists == IsFiniteSet(Users) /\ IsFiniteSet(Titles)

LEMMA ListsFinite ==
  ASSUME FiniteLists
  PROVE  /\ FiniteClient /\ IsFiniteSet(Request)
         /\ \A l : IsFiniteSet(Reading(l)) /\ Reading(l) \in SUBSET Request
<1>1. Screens = ((({} \cup {Search}) \cup {Favorites}) \cup {SearchDetail}) \cup {FavoritesDetail}
  BY ListAssumption DEF Lists, Details
<1>2. IsFiniteSet(Screens)
  BY <1>1, FS_EmptySet, FS_AddElement
<1>3. FiniteClient
  BY <1>2 DEF FiniteClient, FiniteLists
<1>4. IsFiniteSet(Request)
  BY <1>3, FiniteRequests
<1> QED
  BY <1>3, <1>4, FS_Subset DEF Reading

LEMMA LoadsBounded ==
  ASSUME FiniteLists, TypeOK, NEW l
  PROVE  LoadsOf(l) \in Nat /\ Outstanding \in Nat /\ LoadsOf(l) <= Outstanding
<1>1. reads \in [Request -> Nat] /\ inbox \in Seq(Callback) /\ ClientTypeOK
  BY DEF TypeOK, ClientTypeOK
<1>2. /\ SumFunctionOnSet(reads, Request) \in Nat
      /\ SumFunctionOnSet(reads, Reading(l)) \in Nat
      /\ SumFunctionOnSet(reads, Reading(l)) <= SumFunctionOnSet(reads, Request)
  <2>1. \A r \in Request : reads[r] \in Nat
    BY <1>1
  <2>2. \A r \in Reading(l) : reads[r] \in Nat
    BY <1>1 DEF Reading
  <2> QED
    BY <2>1, <2>2, ListsFinite, SumNat, SumSubset
<1>3. PICK w \in Nat : Outstanding = SumFunctionOnSet(reads, Request) + Len(inbox) + w
  BY <1>1, ListsFinite, OutstandingParts
<1>4. Len(inbox) \in Nat
  BY <1>1
<1> QED
  BY <1>1, <1>2, <1>3, <1>4, LoadingBounded, LoadsParts

\* One query more, or one fewer.
LEMMA ReadingStep ==
  ASSUME FiniteLists, TypeOK, NEW l, NEW r \in Request, NEW v \in Nat,
         reads' = [reads EXCEPT ![r] = v]
  PROVE  SumFunctionOnSet(reads', Reading(l))
           = IF LoadOf(r, l) THEN SumFunctionOnSet(reads, Reading(l)) - reads[r] + v
                             ELSE SumFunctionOnSet(reads, Reading(l))
<1>1. reads \in [Request -> Nat] /\ (r \in Reading(l) <=> LoadOf(r, l))
  BY DEF TypeOK, ClientTypeOK, Reading
<1>2. IsFiniteSet(Reading(l)) /\ Reading(l) \subseteq Request
  BY ListsFinite
<1>3. /\ \A x \in Reading(l) : reads[x] \in Nat /\ (x # r => reads'[x] = reads[x])
      /\ reads'[r] = v
  BY <1>1, <1>2
<1>4. SumFunctionOnSet(reads', Reading(l))
        = IF r \in Reading(l) THEN SumFunctionOnSet(reads, Reading(l)) - reads[r] + v
                              ELSE SumFunctionOnSet(reads, Reading(l))
  <2> DEFINE S == Reading(l)
  <2> HIDE DEF S
  <2> QED
    BY <1>2, <1>3, SumChange
<1> QED
  BY <1>1, <1>4

\* What a step does to the queries and the callbacks, unless it leaves the list.
NoLoad(r) == \A l \in Lists : ~LoadOf(r, l)

Asks(r) == reads' = [reads EXCEPT ![r] = @ + 1] /\ inbox' = inbox

AsksLoad ==
  /\ shown = NoScreen /\ shown' \in Lists
  /\ Outstanding < MaxOutstanding
  /\ Asks(Load(shown'))

Raises(r) ==
  /\ reads[r] > 0
  /\ reads' = [reads EXCEPT ![r] = @ - 1]
  /\ \E docs \in Answers(r) :
       inbox' = Append(inbox, [type |-> "answer", req |-> r, docs |-> docs])

Takes == ListsHandling /\ inbox # <<>> /\ inbox' = Tail(inbox) /\ reads' = reads

Calls ==
  \/ reads' = reads /\ inbox' = inbox
  \/ \E r \in Request : NoLoad(r) /\ Asks(r)
  \/ AsksLoad
  \/ \E r \in Request : Raises(r)
  \/ Takes
  \/ reads' = reads /\ \E c \in Ack \cup Told : inbox' = Append(inbox, c)
  \/ shown' = NoScreen

LEMMA CallsStep ==
  ASSUME TypeOK, [ListsNext]_allVars
  PROVE  Calls
<1> USE DEF Calls
<1>0. reads \in [Request -> Nat] /\ inbox \in Seq(Callback)
  BY DEF TypeOK, ClientTypeOK
<1>1. ASSUME NEW r, r.kind \in DetailKinds \cup {"remove"}, Ask(r), inbox' = inbox
      PROVE  Calls
  <2>1. NoLoad(r)
    BY <1>1 DEF NoLoad, LoadOf, LoadKind, DetailKinds
  <2>2. CASE r \in Request
    BY <1>1, <2>1, <2>2 DEF Ask, Asks
  <2>3. CASE r \notin Request
    BY <1>0, <1>1, <2>3 DEF Ask
  <2> QED
    BY <2>2, <2>3
<1>2. ASSUME NEW kind \in DetailKinds, NEW s, AskFor(kind, s), inbox' = inbox
      PROVE  Calls
  <2> DEFINE r == [kind |-> kind, screen |-> s, title |-> TitleOf[open[s]],
              uid |-> Compared(kind)]
  <2>1. Ask(r) /\ r.kind \in DetailKinds
    BY <1>2 DEF AskFor
  <2> HIDE DEF r
  <2> QED
    BY <1>1, <1>2, <2>1
<1>3. "check" \in DetailKinds /\ "favorite" \in DetailKinds /\ "delete" \in DetailKinds
  BY DEF DetailKinds
<1>4. ASSUME NEW l \in Lists, ListAppear(l) PROVE Calls
  BY <1>4 DEF ListAppear, AsksLoad, Asks, Ask
<1>5. ASSUME NEW d \in Docs, Swipe(d)
      PROVE  Calls
  <2> DEFINE r == [kind |-> "remove", screen |-> Favorites, title |-> TitleOf[d],
                   uid |-> Compared("remove")]
  <2>1. Ask(r) /\ r.kind \in {"remove"} /\ inbox' = inbox
    BY <1>5 DEF Swipe
  <2> HIDE DEF r
  <2> QED
    BY <1>1, <2>1
<1>6. CASE DetailAppear
  <2>1. PICK s \in Details : Appear(s)
    BY <1>6 DEF DetailAppear
  <2> QED
    BY <1>2, <1>3, <2>1 DEF Appear
<1>7. CASE TapDetail
  <2>1. PICK s \in Details : Back(s) \/ TapFavorite(s) \/ TapDelete(s)
    BY <1>7 DEF TapDetail
  <2>2. CASE TapFavorite(s)
    BY <1>2, <1>3, <2>2 DEF TapFavorite
  <2>3. CASE TapDelete(s)
    BY <1>2, <1>3, <2>3 DEF TapDelete
  <2>4. CASE Back(s)
    BY <2>4 DEF Back, clientVars
  <2> QED
    BY <2>1, <2>2, <2>3, <2>4
<1>8. ASSUME NEW r \in Request, Raise(r) PROVE Calls
  BY <1>8 DEF Raise, Raises
<1>9. ASSUME NEW d \in Docs, Commit(d)
      PROVE  Calls
  <2> DEFINE w == Head(pending[owner])
             a(ok) == [type |-> "ack", op |-> w.op, screen |-> w.screen,
                       doc |-> d, ok |-> ok]
  <2>1. w \in Write
    BY <1>9, CommitType
  <2>2. inbox' = inbox \/ (w.screen # NoScreen /\ \E ok \in BOOLEAN : inbox' = Append(inbox, a(ok)))
    BY <1>9 DEF Commit, Acked
  <2>3. w.screen # NoScreen => \A ok \in BOOLEAN : a(ok) \in Ack
    BY <2>1 DEF Write, Ack
  <2>4. reads' = reads
    BY <1>9 DEF Commit
  <2> HIDE DEF a, w
  <2> QED
    BY <2>2, <2>3, <2>4
<1>10. CASE Background
  BY <1>8, <1>9, <1>10
     DEF Background, Answering, Committing, OtherDevice, RemotePublish, RemoteWrite
<1>11. CASE ListsHandling
  BY <1>11 DEF ListsHandling, LoadAnswer, RemoveAnswer, RemoveDone, DetailAnswer, DetailDone,
               ListsTold, CheckAnswer, FavoriteAnswer, DeleteAnswer, WriteDone, SessionTold,
               HandleCredentialChange, AnswerTo, Delivered, Takes
<1>12. CASE SelectTab \/ Press \/ Relaunch \/ (\E d \in Docs : Select(d))
  BY <1>12 DEF SelectTab, Press, Relaunch, Select, LeaveList, vars, clientVars
<1>14. CASE SessionChange
  BY <1>14 DEF SessionChange, SwitchUser, ChangeUser, Told
<1>13. CASE UNCHANGED allVars
  BY <1>13 DEF allVars, vars, clientVars
<1> HIDE DEF Calls
<1> QED
  BY <1>4, <1>5, <1>6, <1>7, <1>10, <1>11, <1>12, <1>13, <1>14 DEF ListsNext, ListsUserStep

\* What a step does to the rows of a list that it leaves in front.
LEMMA FrontRows ==
  ASSUME [ListsNext]_allVars, shown' # NoScreen
  PROVE  \/ AsksLoad /\ rows' = rows
         \/ shown' = shown /\ rows' = rows
         \/ /\ shown' = shown /\ rows' = Grown
            /\ Takes /\ Head(inbox).type = "answer" /\ LoadOf(Head(inbox).req, shown)
<1>1. CASE LoadAnswer
  BY <1>1 DEF LoadAnswer, Loaded, AnswerTo, Delivered, Takes, ListsHandling
<1>2. CASE LeaveList
  BY <1>2 DEF LeaveList
<1>3. ASSUME NEW l \in Lists, ListAppear(l) PROVE AsksLoad /\ rows' = rows
  BY <1>3 DEF ListAppear, AsksLoad, Asks, Ask
<1> QED
  BY <1>1, <1>2, <1>3
     DEF ListsNext, ListsUserStep, ListsHandling, DetailAppear, SelectTab, Select,
         TapDetail, Press, Swipe, RemoveAnswer, RemoveDone, DetailAnswer, DetailDone,
         SessionChange, ListsTold, Relaunch, Background, allVars, listVars

\* Only an appearance of the list adds a load to those that it has under way, and
\* the handler of an answer takes one off.
LEMMA LoadsStep ==
  ASSUME FiniteLists, TypeOK, TypeOK', [ListsNext]_allVars,
         NEW l \in Lists, shown' = l
  PROVE  /\ LoadsOf(l) \in Nat /\ LoadsOf(l)' \in Nat
         /\ AsksLoad => LoadsOf(l)' <= MaxOutstanding
         /\ ~AsksLoad => LoadsOf(l)' <= LoadsOf(l)
         /\ Takes /\ Head(inbox).type = "answer" /\ LoadOf(Head(inbox).req, l)
              => LoadsOf(l)' = LoadsOf(l) - 1
<1> DEFINE sum  == SumFunctionOnSet(reads, Reading(l))
           sumn == SumFunctionOnSet(reads', Reading(l))
           num  == Cardinality(Loading(inbox, l))
           numn == Cardinality(Loading(inbox', l))
<1>0. /\ reads \in [Request -> Nat] /\ reads' \in [Request -> Nat]
      /\ inbox \in Seq(Callback) /\ inbox' \in Seq(Callback)
      /\ l # NoScreen /\ MaxOutstanding \in Nat
  BY ClientAssumption, ListAssumption DEF TypeOK, ClientTypeOK
<1>1. LoadsOf(l) = sum + num /\ LoadsOf(l)' = sumn + numn
  BY DEF LoadsOf, Reading, Loading
<1>2. sum \in Nat /\ sumn \in Nat /\ num \in Nat /\ numn \in Nat
  <2>1. \A r \in Reading(l) : reads[r] \in Nat /\ reads'[r] \in Nat
    BY <1>0 DEF Reading
  <2> QED
    BY <1>0, <2>1, ListsFinite, SumNat, LoadingBounded
<1>3. ASSUME NEW r \in Request, Asks(r)
      PROVE  sumn + numn = IF LoadOf(r, l) THEN sum + num + 1 ELSE sum + num
  <2>1. reads[r] \in Nat /\ reads[r] + 1 \in Nat /\ reads' = [reads EXCEPT ![r] = reads[r] + 1]
    BY <1>0, <1>3 DEF Asks
  <2>2. sumn = IF LoadOf(r, l) THEN sum - reads[r] + (reads[r] + 1) ELSE sum
    BY <2>1, ReadingStep
  <2>3. numn = num
    BY <1>3 DEF Asks
  <2> HIDE DEF sum, sumn, num, numn
  <2> QED
    BY <1>2, <2>1, <2>2, <2>3
<1>4. ASSUME NEW r \in Request, Raises(r)
      PROVE  sumn + numn = sum + num
  <2>1. /\ reads[r] \in Nat /\ reads[r] - 1 \in Nat
        /\ reads' = [reads EXCEPT ![r] = reads[r] - 1]
    BY <1>0, <1>4 DEF Raises
  <2>2. sumn = IF LoadOf(r, l) THEN sum - reads[r] + (reads[r] - 1) ELSE sum
    BY <2>1, ReadingStep
  <2>3. PICK docs \in SUBSET Docs :
          inbox' = Append(inbox, [type |-> "answer", req |-> r, docs |-> docs])
    BY <1>4 DEF Raises, Answers, Result, Known
  <2> DEFINE c == [type |-> "answer", req |-> r, docs |-> docs]
  <2>4. c \in Callback /\ c.type = "answer" /\ c.req = r /\ inbox' = Append(inbox, c)
    BY <2>3 DEF Callback, Answer
  <2> HIDE DEF c
  <2>5. numn = IF LoadOf(r, l) THEN num + 1 ELSE num
    BY <1>0, <2>4, LoadingAppend
  <2> HIDE DEF sum, sumn, num, numn
  <2> QED
    BY <1>2, <2>1, <2>2, <2>5
<1>5. ASSUME Takes
      PROVE  sumn + numn = IF Head(inbox).type = "answer" /\ LoadOf(Head(inbox).req, l)
                             THEN sum + num - 1 ELSE sum + num
  <2>1. numn = IF Head(inbox).type = "answer" /\ LoadOf(Head(inbox).req, l)
                 THEN num - 1 ELSE num
    BY <1>0, <1>5, LoadingTail DEF Takes
  <2>2. sumn = sum
    BY <1>5 DEF Takes
  <2> HIDE DEF sum, sumn, num, numn
  <2> QED
    BY <1>2, <2>1, <2>2
<1>6. ASSUME reads' = reads, NEW c \in Ack \cup Told, inbox' = Append(inbox, c)
      PROVE  sumn + numn = sum + num
  <2>1. c \in Callback /\ c.type # "answer"
    BY DEF Callback, Ack, Told
  <2> QED
    BY <1>0, <1>6, <2>1, LoadingAppend
<1>7. CASE AsksLoad
  <2>1. Load(l) \in Request /\ LoadOf(Load(l), l)
    <3>1. AnyTitle \in Titles
      BY ListAssumption DEF AnyTitle
    <3>2. LoadKind(l) \in KindsOf[l] /\ LoadKind(l) \in Kinds /\ l \in Screens
      BY ListAssumption DEF LoadKind, Lists, Kinds, ByMark
    <3>3. /\ Compared(LoadKind(l)) \in Uids
          /\ Compared(LoadKind(l)) # NoUser => LoadKind(l) \in ByMark \cup ByMail
      BY DEF Compared, Uids, TypeOK, ClientTypeOK
    <3> QED
      BY <3>1, <3>2, <3>3 DEF Load, LoadOf, Request
  <2>2. sumn + numn = sum + num + 1
    <3>1. Asks(Load(l))
      BY <1>7 DEF AsksLoad
    <3> QED
      BY <1>3, <2>1, <3>1
  <2>3. LoadsOf(l) < MaxOutstanding
    BY <1>0, <1>7, LoadsBounded DEF AsksLoad
  <2>4. ~Takes
    <3>1. inbox # <<>> => Tail(inbox) # inbox
      <4>1. inbox # <<>> => Len(Tail(inbox)) # Len(inbox)
        BY <1>0
      <4> QED
        BY <4>1
    <3> QED
      BY <1>7, <3>1 DEF AsksLoad, Asks, Takes
  <2> HIDE DEF sum, sumn, num, numn
  <2>5. LoadsOf(l)' = LoadsOf(l) + 1
    BY <1>1, <2>2
  <2>6. LoadsOf(l) \in Nat
    BY <1>1, <1>2
  <2>7. LoadsOf(l)' <= MaxOutstanding /\ LoadsOf(l)' \in Nat
    BY <1>0, <2>3, <2>5, <2>6
  <2> QED
    BY <1>7, <2>4, <2>6, <2>7
<1>8. CASE Takes /\ ~AsksLoad
  <2>1. \/ sumn + numn = sum + num - 1
        \/ sumn + numn = sum + num /\ ~(Head(inbox).type = "answer" /\ LoadOf(Head(inbox).req, l))
    BY <1>5, <1>8
  <2> HIDE DEF sum, sumn, num, numn
  <2>2. LoadsOf(l) \in Nat /\ LoadsOf(l)' \in Nat
    BY <1>1, <1>2
  <2>3. CASE sumn + numn = sum + num - 1
    <3>1. LoadsOf(l)' = LoadsOf(l) - 1
      BY <1>1, <1>2, <2>3
    <3>2. LoadsOf(l)' <= LoadsOf(l)
      BY <2>2, <3>1
    <3> QED
      BY <1>8, <2>2, <3>1, <3>2
  <2>4. CASE sumn + numn = sum + num /\ ~(Head(inbox).type = "answer" /\ LoadOf(Head(inbox).req, l))
    <3>1. LoadsOf(l)' = LoadsOf(l)
      BY <1>1, <1>2, <2>4
    <3>2. LoadsOf(l)' <= LoadsOf(l)
      BY <2>2, <3>1
    <3> QED
      BY <1>8, <2>2, <2>4, <3>2
  <2> QED
    BY <2>1, <2>3, <2>4
<1>9. CASE ~Takes /\ ~AsksLoad /\ sumn + numn = sum + num
  <2> HIDE DEF sum, sumn, num, numn
  <2>1. LoadsOf(l) \in Nat /\ LoadsOf(l)' = LoadsOf(l)
    BY <1>1, <1>2, <1>9
  <2>2. LoadsOf(l)' <= LoadsOf(l)
    BY <2>1
  <2> QED
    BY <1>9, <2>1, <2>2
<1>10. ASSUME NEW r \in Request, NoLoad(r), Asks(r) PROVE sumn + numn = sum + num
  BY <1>3, <1>10 DEF NoLoad
<1>11. ASSUME reads' = reads, inbox' = inbox PROVE sumn + numn = sum + num
  BY <1>11
<1>12. shown' # NoScreen
  BY <1>0
<1>13. Takes \/ AsksLoad \/ sumn + numn = sum + num
  <2> HIDE DEF sum, sumn, num, numn
  <2> QED
    BY <1>4, <1>6, <1>10, <1>11, <1>12, CallsStep DEF Calls
<1> QED
  <2> HIDE DEF sum, sumn, num, numn
  <2> QED
    BY <1>7, <1>8, <1>9, <1>13

LEMMA CopiesNext ==
  ASSUME FiniteLists, ListsTypeOK, ListsTypeOK', FrontInv, FrontInv', CopiesBounded,
         [ListsNext]_allVars
  PROVE  CopiesBounded'
<1>0. /\ TypeOK /\ TypeOK' /\ rows \in [Docs -> Nat] /\ rows' \in [Docs -> Nat]
      /\ MaxOutstanding \in Nat
  BY ClientAssumption DEF ListsTypeOK
<1> SUFFICES ASSUME shown' # NoScreen, NEW d \in Docs
             PROVE  rows'[d] + LoadsOf(shown)' <= MaxOutstanding
  BY DEF CopiesBounded
<1>1. PICK l \in Lists : shown' = l
  BY DEF FrontInv
<1>2. LoadsOf(shown)' = LoadsOf(l)'
  BY <1>1 DEF LoadsOf
<1> DEFINE n == LoadsOf(l)
           m == LoadsOf(l)'
<1>3. /\ n \in Nat /\ m \in Nat
      /\ AsksLoad => m <= MaxOutstanding
      /\ ~AsksLoad => m <= n
      /\ Takes /\ Head(inbox).type = "answer" /\ LoadOf(Head(inbox).req, l) => m = n - 1
  BY <1>0, <1>1, LoadsStep
<1> HIDE DEF n, m
<1>4. rows[d] \in Nat
  BY <1>0
<1>5. CASE AsksLoad /\ rows' = rows
  <2>1. rows'[d] = 0
    BY <1>5 DEF AsksLoad, FrontInv, NoRows
  <2> QED
    BY <1>2, <1>3, <1>5, <2>1 DEF m
<1>6. ASSUME shown' = shown PROVE ~AsksLoad /\ rows[d] + n <= MaxOutstanding
  <2>1. ~AsksLoad
    BY <1>6 DEF AsksLoad
  <2>2. shown = l /\ shown # NoScreen
    BY <1>1, <1>6
  <2> QED
    BY <2>1, <2>2 DEF CopiesBounded, n
<1>7. CASE shown' = shown /\ rows' = rows
  <2>1. m <= n /\ rows[d] + n <= MaxOutstanding
    BY <1>3, <1>6, <1>7
  <2>2. rows[d] + m <= MaxOutstanding
    BY <1>0, <1>3, <1>4, <2>1
  <2> QED
    BY <1>2, <1>7, <2>2 DEF m
<1>8. CASE /\ shown' = shown /\ rows' = Grown
           /\ Takes /\ Head(inbox).type = "answer" /\ LoadOf(Head(inbox).req, shown)
  <2>1. m = n - 1 /\ rows[d] + n <= MaxOutstanding
    BY <1>1, <1>3, <1>6, <1>8
  <2>2. rows'[d] = rows[d] + 1 \/ rows'[d] = rows[d]
    BY <1>8 DEF Grown
  <2>3. rows'[d] + m <= MaxOutstanding
    BY <1>0, <1>3, <1>4, <2>1, <2>2
  <2> QED
    BY <1>2, <2>3 DEF m
<1> QED
  BY <1>5, <1>7, <1>8, FrontRows

\* However fast the tabs and the rows are tapped, an ad has no more rows than the
\* list in front had loads under way at once, and every answer that comes uses up
\* one of them: a load of an earlier appearance never adds a row to spare.
THEOREM CopiesStayBounded ==
  ASSUME IsFiniteSet(Users), IsFiniteSet(Titles)
  PROVE  ListsSpec => []CopiesBounded
<1>0. FiniteLists
  BY DEF FiniteLists
<1>1. ListsInit => ListsTypeOK /\ FrontInv /\ CopiesBounded
  BY ListsInitType, FrontInit DEF ListsInit, CopiesBounded
<1>2. ListsTypeOK /\ FrontInv /\ CopiesBounded /\ [ListsNext]_allVars
        => (ListsTypeOK /\ FrontInv /\ CopiesBounded)'
  BY <1>0, ListsTypeStep, CopiesNext
<1> QED
  BY <1>1, <1>2, PTL DEF ListsSpec

-----------------------------------------------------------------------------
(***************************************************************************)
(* Promised favourites.  With no other device and no failure, what the     *)
(* device sees of an ad changes by its own writes only, as they are made.  *)
(***************************************************************************)
Calm == {"remote", "reject", "offline"} \cap Disturbances = {}

Decides == DetailAnswer \/ RemoveAnswer

LEMMA LocalStep ==
  ASSUME Calm, TypeOK, CalmInv, [ListsNext]_allVars, NEW d \in Docs
  PROVE  \/ SessionChange
         \/ user' = user /\ LocalDoc(d)' = LocalDoc(d)
         \/ /\ Decides /\ user' = user
            /\ LocalDoc(d)'.state = "ad" => LocalDoc(d).state = "ad"
<1>0. ClientTypeOK /\ inbox \in Seq(Callback)
  BY DEF TypeOK, ClientTypeOK
<1>1. CASE UNCHANGED <<store, user, owner, pending>>
  BY <1>1, LocalSame
<1>2. CASE Background
  <2>1. CASE Answering
    BY <1>1, <2>1 DEF Answering, Raise
  <2>2. CASE Committing
    <3>1. PICK e \in Docs : Commit(e)
      BY <2>2 DEF Committing
    <3>2. "reject" \notin Disturbances /\ user' = user
      BY <3>1 DEF Calm, Commit
    <3> QED
      BY <1>0, <3>1, <3>2, LocalCommit
  <2>3. ~OtherDevice
    BY DEF OtherDevice, RemotePublish, RemoteWrite, Calm
  <2> QED
    BY <1>2, <2>1, <2>2, <2>3 DEF Background
<1>3. CASE Relaunch
  BY <1>0, <1>3, LocalRestart DEF CalmInv, Relaunch, Restart, RestartClient
<1>4. ASSUME NEW op \in Ops, NEW s \in Screens, inbox # <<>>, Head(inbox).type = "answer",
             Enqueue(op, s, Head(inbox).docs), Decides, UNCHANGED <<store, user, owner>>
      PROVE  Decides /\ user' = user /\ (LocalDoc(d)'.state = "ad" => LocalDoc(d).state = "ad")
  <2>1. Head(inbox).docs \in SUBSET Docs
    BY <1>0, <1>4, InboxType DEF Answer
  <2> QED
    BY <1>0, <1>4, <2>1, LocalNoNewAd
<1>5. inbox # <<>> /\ Head(inbox).type = "answer" => Head(inbox).req.screen \in Screens
  BY <1>0, InboxType DEF Answer, Request
<1>6. {"mark", "unmark", "delete"} = Ops /\ Favorites \in Screens
  BY ListAssumption DEF Ops, Lists
<1>7. CASE DetailAnswer
  <2>1. CASE CheckAnswer
    BY <1>1, <2>1 DEF CheckAnswer
  <2>2. CASE FavoriteAnswer
    <3> DEFINE s == Head(inbox).req.screen
               op == IF inFavorite[s] = "true" THEN "unmark" ELSE "mark"
    <3>1. /\ inbox # <<>> /\ Head(inbox).type = "answer"
          /\ Enqueue(op, s, Head(inbox).docs) /\ UNCHANGED <<store, user, owner>>
      BY <2>2 DEF FavoriteAnswer, AnswerTo, Delivered
    <3>2. op \in Ops /\ s \in Screens
      BY <1>5, <1>6, <3>1
    <3> HIDE DEF op, s
    <3> QED
      BY <1>4, <1>7, <3>1, <3>2 DEF Decides
  <2>3. CASE DeleteAnswer
    BY <1>4, <1>5, <1>6, <1>7, <2>3 DEF DeleteAnswer, AnswerTo, Delivered, Decides
  <2> QED
    BY <1>7, <2>1, <2>2, <2>3 DEF DetailAnswer
<1>8. CASE RemoveAnswer
  BY <1>4, <1>6, <1>8 DEF RemoveAnswer, AnswerTo, Delivered, Decides
<1>9. ~ListsTold
  BY <1>0, InboxType DEF ListsTold, SessionTold, Delivered, CalmInv, Telling
<1> QED
  BY <1>1, <1>2, <1>3, <1>7, <1>8, <1>9
     DEF ListsNext, ListsUserStep, ListsHandling, ListAppear, DetailAppear, Appear, SelectTab,
         Select, Open, TapDetail, Back, TapFavorite, TapDelete, Press, Swipe, LoadAnswer,
         RemoveDone, DetailDone, WriteDone, allVars, vars, clientVars

\* A promised ad has the user's mark until it is taken back.
PromisedKept == \A d \in promised : user \in LocalDoc(d).marks

\* Nobody is promised anything while the session changes or before it begins: the
\* login screen covers all as soon as the end of one is told.
PromisedInSession == promised # {} => ~Telling /\ user # NoUser

LoginCovers == user = NoUser /\ ~Telling => visible = Login

\* For the list in front, the ad has a row, or is in an answer that waits for the
\* main queue, or will be in the one to a query that is under way.
OnItsWay(d) ==
  \/ rows[d] > 0
  \/ \E r \in Request : reads[r] > 0 /\ LoadOf(r, Favorites) /\ r.uid = user
  \/ \E i \in Loading(inbox, Favorites) : d \in inbox[i].docs

PromisedComes ==
  shown = Favorites => \A d \in promised : LocalDoc(d).state = "ad" => OnItsWay(d)

\* A promise is made by an acknowledgement for the detail screen in front only.
LEMMA PromiseStep ==
  ASSUME [ListsNext]_allVars
  PROVE  \/ promised' = {} \/ promised' = promised
         \/ Decides /\ promised' = promised \cap Favourites'
         \/ /\ UNCHANGED <<store, user, owner, pending, listVars>>
            /\ visible \in Details /\ ~Telling
            /\ promised' \subseteq promised \cup Favourites
<1>1. CASE DetailDone
  <2> DEFINE c    == Head(inbox)
             told == IF c.ok /\ visible = c.screen THEN {c.doc} ELSE {}
  <2>1. /\ promised' = IF c.op = "mark" /\ ~Telling
                         THEN promised \cup (told \cap Favourites) ELSE promised
        /\ c.screen \in Details /\ UNCHANGED <<store, user, owner, pending, listVars>>
    BY <1>1 DEF DetailDone, WriteDone
  <2>2. told # {} => visible \in Details
    BY <2>1
  <2> HIDE DEF told, c
  <2> QED
    BY <2>1, <2>2
<1> QED
  BY <1>1 DEF ListsNext, ListsUserStep, ListsHandling, ListAppear, DetailAppear, SelectTab, Select,
         TapDetail, Press, Swipe, LoadAnswer, RemoveAnswer, RemoveDone, DetailAnswer, Decides,
         SessionChange, ListsTold, Relaunch, Background, allVars, tellVars

LEMMA UserStays ==
  ASSUME [ListsNext]_allVars
  PROVE  SessionChange \/ user' = user
BY DEF ListsNext, ListsUserStep, ListsHandling, ListAppear, DetailAppear, Appear, SelectTab,
       Select, Open, TapDetail, Back, TapFavorite, TapDelete, Press, Swipe, LoadAnswer,
       RemoveAnswer, RemoveDone, DetailAnswer, CheckAnswer, FavoriteAnswer, DeleteAnswer,
       DetailDone, WriteDone, ListsTold, SessionTold, HandleCredentialChange, Relaunch, Restart,
       RestartClient, Background, Answering, Raise, Committing, Commit, OtherDevice,
       RemotePublish, RemoteWrite, allVars, vars, clientVars

\* What promises there are after a step are of a session that it did not change.
LEMMA PromiseCalm ==
  ASSUME TypeOK, SessionInv, LoginCovers, PromisedInSession, [ListsNext]_allVars, promised' # {}
  PROVE  CalmInv /\ user # NoUser /\ user' = user /\ CalmInv'
<1>1. ~Telling /\ user # NoUser
  <2>1. CASE promised # {}
    BY <2>1 DEF PromisedInSession
  <2>2. CASE visible \in Details /\ ~Telling
    <3>1. visible # Login
      BY <2>2, DetailAssumption, ListAssumption
    <3> QED
      BY <2>2, <3>1 DEF LoginCovers
  <2> QED
    BY <2>1, <2>2, PromiseStep
<1>2. CalmInv
  BY <1>1 DEF SessionInv, CalmInv
<1>3. user' = user
  BY UserStays DEF SessionChange
<1> QED
  BY <1>1, <1>2, <1>3, ListsSessionStep, CalmKept

LEMMA CoversStep ==
  ASSUME TypeOK, LoginCovers, [ListsNext]_allVars
  PROVE  LoginCovers'
<1>0. inbox \in Seq(Callback) /\ Login \notin Screens \cup {NoScreen}
  BY DetailAssumption DEF TypeOK, ClientTypeOK
<1>1. CASE SessionChange
  <2>1. PICK u \in Uids : inbox' = Append(inbox, [type |-> "told", uid |-> u])
    BY <1>1 DEF SessionChange, SwitchUser, ChangeUser
  <2> DEFINE c == [type |-> "told", uid |-> u]
  <2>2. c.type = "told" /\ inbox' = Append(inbox, c)
    BY <2>1
  <2> HIDE DEF c
  <2>3. Len(inbox) + 1 \in DOMAIN inbox' /\ inbox'[Len(inbox) + 1] = c
    BY <1>0, <2>2
  <2> QED
    BY <2>2, <2>3 DEF LoginCovers, Telling
<1>2. CASE ListsTold
  BY <1>2 DEF ListsTold, SessionTold, HandleCredentialChange, LoginCovers
<1>3. CASE Relaunch
  BY <1>3 DEF Relaunch, Restart, RestartClient, LoginCovers
<1>4. CASE Keeps /\ (visible = Login => visible' = Login)
  <2>1. Telling => Telling'
    <3> SUFFICES ASSUME NEW i \in DOMAIN inbox, inbox[i].type = "told"
                 PROVE  \E j \in DOMAIN inbox' : inbox'[j].type = "told"
      BY DEF Telling
    <3>1. ASSUME NEW c, inbox' = Append(inbox, c) PROVE \E j \in DOMAIN inbox' : inbox'[j].type = "told"
      <4>1. i \in DOMAIN inbox' /\ inbox'[i] = inbox[i]
        BY <1>0, <3>1
      <4> QED
        BY <4>1
    <3>2. ASSUME inbox # <<>>, Head(inbox).type # "told", inbox' = Tail(inbox)
          PROVE  \E j \in DOMAIN inbox' : inbox'[j].type = "told"
      <4>1. i # 1
        BY <1>0, <3>2, InboxType
      <4>2. i - 1 \in DOMAIN inbox' /\ inbox'[i - 1] = inbox[i]
        BY <1>0, <3>2, <4>1
      <4> QED
        BY <4>2
    <3> QED
      BY <1>4, <3>1, <3>2 DEF Keeps
  <2> QED
    BY <1>4, <2>1 DEF LoginCovers, Keeps
<1>5. CASE \/ \E l \in Lists : ListAppear(l)
           \/ \E d \in Docs : Select(d) \/ Swipe(d)
           \/ DetailAppear \/ SelectTab \/ TapDetail \/ Press \/ UNCHANGED allVars
  <2>1. Keeps
    BY <1>5 DEF Keeps, ListAppear, Select, Open, Swipe, DetailAppear, Appear, SelectTab, TapDetail,
                Back, TapFavorite, TapDelete, Press, allVars, vars, clientVars
  <2>2. visible = Login => visible' = Login
    <3>1. ASSUME NEW s \in Details, visible = s PROVE visible # Login
      BY <1>0, <3>1, ListAssumption
    <3>2. TapDetail /\ visible = Login => visible' = visible
      BY <3>1 DEF TapDetail, Back, TapFavorite, TapDelete, screenVars
    <3> QED
      BY <1>0, <1>5, <3>2 DEF ListAppear, Select, Open, Swipe, DetailAppear, Appear, SelectTab,
         Press, allVars, vars, screenVars
  <2> QED
    BY <1>4, <2>1, <2>2
<1>6. CASE LoadAnswer \/ RemoveAnswer \/ RemoveDone \/ DetailAnswer \/ DetailDone
  <2>1. Keeps
    <3>1. inbox # <<>> /\ Head(inbox).type # "told" /\ inbox' = Tail(inbox)
      BY <1>6 DEF LoadAnswer, RemoveAnswer, RemoveDone, DetailAnswer, CheckAnswer, FavoriteAnswer,
         DeleteAnswer, DetailDone, WriteDone, AnswerTo, Delivered
    <3>2. UNCHANGED <<user, owner>>
      BY <1>6 DEF LoadAnswer, RemoveAnswer, RemoveDone, DetailAnswer, CheckAnswer, FavoriteAnswer,
         DeleteAnswer, DetailDone, WriteDone
    <3> QED
      BY <3>1, <3>2 DEF Keeps
  <2>2. DetailDone /\ visible = Login => visible' = Login
    <3>1. DetailDone => Head(inbox).screen \in Screens
      BY ListAssumption DEF DetailDone
    <3> QED
      BY <1>0, <3>1 DEF DetailDone, WriteDone, Close, screenVars
  <2>3. visible = Login => visible' = Login
    BY <1>6, <2>2 DEF LoadAnswer, RemoveAnswer, RemoveDone, DetailAnswer, CheckAnswer,
       FavoriteAnswer, DeleteAnswer, screenVars
  <2> QED
    BY <1>4, <2>1, <2>3
<1>7. CASE Background
  <2>1. Keeps
    BY <1>7, RaiseKeeps, CommitKeeps
       DEF Background, Answering, Committing, OtherDevice, RemotePublish, RemoteWrite, Keeps
  <2>2. visible' = visible
    BY <1>7 DEF Background, Answering, Committing, OtherDevice, screenVars
  <2> QED
    BY <1>4, <2>1, <2>2
<1> QED
  BY <1>1, <1>2, <1>3, <1>5, <1>6, <1>7 DEF ListsNext, ListsUserStep, ListsHandling

LEMMA KeptStep ==
  ASSUME Calm, ListsTypeOK, SessionInv, LoginCovers, PromisedInSession, PromisedKept,
         [ListsNext]_allVars
  PROVE  PromisedKept'
<1> SUFFICES ASSUME NEW d \in promised' PROVE user' \in LocalDoc(d)'.marks
  BY DEF PromisedKept
<1>0. TypeOK /\ promised \subseteq Docs
  BY DEF ListsTypeOK
<1>1. CASE UNCHANGED <<store, user, owner, pending>> /\ promised' \subseteq promised \cup Favourites
  <2>1. user \in LocalDoc(d).marks
    BY <1>1 DEF PromisedKept, Favourites
  <2> QED
    BY <1>1, <2>1, LocalSame
<1>2. ASSUME Decides PROVE d \in Favourites'
  BY <1>2 DEF Decides, DetailAnswer, RemoveAnswer
<1>3. CASE Decides
  BY <1>2, <1>3 DEF Favourites
<1>4. CASE promised' = promised
  <2>1. d \in Docs /\ user \in LocalDoc(d).marks
    BY <1>0, <1>4 DEF PromisedKept
  <2>2. ~SessionChange /\ CalmInv
    BY <1>0, PromiseCalm DEF SessionChange
  <2> QED
    BY <1>0, <1>3, <2>1, <2>2, LocalStep
<1> QED
  BY <1>1, <1>3, <1>4, PromiseStep

\* The answer to a load of the favourites has all that are promised.
LEMMA AnswerHas ==
  ASSUME Calm, ListsTypeOK, PromisedKept, PromisedInSession,
         NEW r \in Request, LoadOf(r, Favorites), r.uid = user,
         NEW docs \in Answers(r),
         NEW d \in promised, LocalDoc(d).state = "ad"
  PROVE  d \in docs
<1>0. ClientTypeOK /\ d \in Docs
  BY DEF ListsTypeOK, TypeOK
<1>1. docs = Result(r)
  BY DEF Answers, Calm
<1>2. r.kind = "listMarked"
  BY ListAssumption DEF LoadOf, LoadKind
<1>3. store[d].state = "ad"
  BY <1>0, LocalType
<1>4. user \in LocalDoc(d).marks /\ user # NoUser
  BY DEF PromisedKept, PromisedInSession
<1> QED
  BY <1>0, <1>1, <1>2, <1>3, <1>4 DEF Result, Matches, ByTitle, ByMail

\* The handler of an answer to a load of the list in front adds its rows.
LEMMA TakesLoad ==
  ASSUME ListsHandling, Head(inbox).type = "answer", shown \in Lists,
         LoadOf(Head(inbox).req, shown)
  PROVE  rows' = Grown
<1>1. Head(inbox).req.kind \in {"listAll", "listMarked"} /\ shown # NoScreen
  BY ClientAssumption, ListAssumption DEF LoadOf, LoadKind
<1> QED
  BY <1>1 DEF ListsHandling, LoadAnswer, Loaded, RemoveAnswer, RemoveDone, DetailAnswer,
     CheckAnswer, FavoriteAnswer, DeleteAnswer, DetailDone, WriteDone, ListsTold, SessionTold,
     AnswerTo, Delivered

LEMMA OnItsWayStep ==
  ASSUME Calm, ListsTypeOK, PromisedKept, PromisedInSession, [ListsNext]_allVars,
         shown = Favorites, shown' = Favorites, user' = user, rows' \in [Docs -> Nat],
         NEW d \in promised, LocalDoc(d).state = "ad", OnItsWay(d)
  PROVE  OnItsWay(d)'
<1>0. /\ TypeOK /\ rows \in [Docs -> Nat] /\ d \in Docs
      /\ reads \in [Request -> Nat] /\ inbox \in Seq(Callback)
      /\ Favorites \in Lists /\ Favorites # NoScreen /\ Lists \subseteq Screens
  BY ClientAssumption, ListAssumption DEF ListsTypeOK, TypeOK, ClientTypeOK, Lists
<1>1. Calls /\ ~AsksLoad
  BY <1>0, CallsStep DEF AsksLoad
<1>2. rows' = rows \/ rows' = Grown
  BY <1>0, FrontRows
<1>3. CASE rows[d] > 0
  <2>1. rows'[d] > 0
    BY <1>0, <1>2, <1>3 DEF Grown
  <2> QED
    BY <2>1 DEF OnItsWay
<1>4. ASSUME NEW r \in Request, reads[r] > 0, LoadOf(r, Favorites), r.uid = user
      PROVE  OnItsWay(d)'
  <2>1. CASE reads'[r] > 0
    BY <1>4, <2>1 DEF OnItsWay
  <2>2. ASSUME NEW x \in Request, Asks(x) PROVE reads'[r] > 0
    BY <1>0, <1>4, <2>2 DEF Asks
  <2>3. ASSUME NEW x \in Request, Raises(x) PROVE OnItsWay(d)'
    <3>1. CASE x # r
      <4>1. reads'[r] = reads[r]
        BY <1>0, <2>3, <3>1 DEF Raises
      <4> QED
        BY <1>4, <2>1, <4>1
    <3>2. CASE x = r
      <4>1. PICK docs \in Answers(r) :
              inbox' = Append(inbox, [type |-> "answer", req |-> r, docs |-> docs])
        BY <2>3, <3>2 DEF Raises
      <4> DEFINE c == [type |-> "answer", req |-> r, docs |-> docs]
                 i == Len(inbox) + 1
      <4>2. d \in docs
        BY <1>0, <1>4, AnswerHas
      <4>3. c.type = "answer" /\ c.req = r /\ d \in c.docs /\ inbox' = Append(inbox, c)
        BY <4>1, <4>2
      <4> HIDE DEF c
      <4>4. i \in DOMAIN inbox' /\ inbox'[i] = c
        BY <1>0, <4>3
      <4>5. i \in Loading(inbox', Favorites)
        BY <1>4, <4>3, <4>4 DEF Loading
      <4> QED
        BY <4>3, <4>4, <4>5 DEF OnItsWay
    <3> QED
      BY <3>1, <3>2
  <2>4. CASE reads' = reads
    BY <1>4, <2>1, <2>4
  <2> QED
    BY <1>0, <1>1, <2>1, <2>2, <2>3, <2>4 DEF Calls, Takes
<1>5. ASSUME NEW i \in Loading(inbox, Favorites), d \in inbox[i].docs
      PROVE  OnItsWay(d)'
  <2>0. /\ i \in DOMAIN inbox /\ inbox[i].type = "answer"
        /\ LoadOf(inbox[i].req, Favorites)
    BY <1>5 DEF Loading
  <2>1. CASE inbox' = inbox
    BY <1>5, <2>1 DEF OnItsWay
  <2>2. ASSUME NEW c, inbox' = Append(inbox, c) PROVE OnItsWay(d)'
    <3>1. i \in DOMAIN inbox' /\ inbox'[i] = inbox[i]
      BY <1>0, <2>0, <2>2
    <3>2. i \in Loading(inbox', Favorites)
      BY <2>0, <3>1 DEF Loading
    <3> QED
      BY <1>5, <3>1, <3>2 DEF OnItsWay
  <2>3. CASE Takes
    <3>1. CASE i = 1
      <4>1. Head(inbox) = inbox[1]
        BY <1>0, <2>3 DEF Takes
      <4>2. rows' = Grown
        BY <1>0, <2>0, <2>3, <3>1, <4>1, TakesLoad DEF Takes
      <4>3. rows'[d] = rows[d] + 1 /\ rows[d] \in Nat
        BY <1>0, <1>5, <3>1, <4>1, <4>2 DEF Grown
      <4>4. rows'[d] > 0
        BY <4>3
      <4> QED
        BY <4>4 DEF OnItsWay
    <3>2. CASE i # 1
      <4>1. i - 1 \in DOMAIN inbox' /\ inbox'[i - 1] = inbox[i]
        BY <1>0, <2>0, <2>3, <3>2 DEF Takes
      <4>2. i - 1 \in Loading(inbox', Favorites)
        BY <2>0, <4>1 DEF Loading
      <4> QED
        BY <1>5, <4>1, <4>2 DEF OnItsWay
    <3> QED
      BY <3>1, <3>2
  <2> QED
    BY <1>0, <1>1, <2>1, <2>2, <2>3 DEF Calls, Asks, Raises
<1> QED
  BY <1>3, <1>4, <1>5 DEF OnItsWay

LEMMA ComesStep ==
  ASSUME Calm, ListsTypeOK, ListsTypeOK', FrontInv, SessionInv, LoginCovers,
         PromisedInSession, PromisedKept, PromisedComes, [ListsNext]_allVars
  PROVE  PromisedComes'
<1> SUFFICES ASSUME shown' = Favorites, NEW d \in promised', LocalDoc(d)'.state = "ad"
             PROVE  OnItsWay(d)'
  BY DEF PromisedComes
<1>0. /\ TypeOK /\ promised \subseteq Docs /\ d \in Docs /\ user \in Uids
      /\ reads \in [Request -> Nat] /\ rows' \in [Docs -> Nat]
      /\ Favorites # NoScreen /\ Favorites \in Lists /\ Lists \subseteq Screens
      /\ NoScreen \notin Details
  BY ClientAssumption, ListAssumption DEF ListsTypeOK, TypeOK, ClientTypeOK, Lists
<1>1. user' = user /\ LocalDoc(d).state = "ad"
  <2>1. ~SessionChange /\ CalmInv /\ user' = user
    BY <1>0, PromiseCalm DEF SessionChange
  <2> QED
    BY <1>0, <2>1, LocalStep
<1>2. CASE AsksLoad
  <2>1. Asks(Load(Favorites))
    BY <1>2 DEF AsksLoad
  <2>2. /\ Load(Favorites) \in Request /\ LoadOf(Load(Favorites), Favorites)
        /\ Load(Favorites).uid = user
    <3>1. AnyTitle \in Titles
      BY ListAssumption DEF AnyTitle
    <3>2. LoadKind(Favorites) \in KindsOf[Favorites] /\ LoadKind(Favorites) \in Kinds
      BY ListAssumption DEF LoadKind, Kinds, ByMark
    <3>3. Compared(LoadKind(Favorites)) = user /\ LoadKind(Favorites) \in ByMark
      BY ListAssumption DEF LoadKind, Compared, ByMark
    <3> QED
      BY <1>0, <3>1, <3>2, <3>3 DEF Load, LoadOf, Request
  <2>3. reads'[Load(Favorites)] > 0
    BY <1>0, <2>1, <2>2 DEF Asks
  <2> QED
    BY <1>1, <2>2, <2>3 DEF OnItsWay
<1>3. CASE shown' = shown
  <2>1. visible \notin Details
    BY <1>0, <1>3 DEF FrontInv
  <2>2. d \in promised
    BY <2>1, PromiseStep
  <2>3. OnItsWay(d)
    BY <1>1, <1>3, <2>2 DEF PromisedComes
  <2> QED
    BY <1>0, <1>1, <1>3, <2>2, <2>3, OnItsWayStep
<1> QED
  BY <1>0, <1>2, <1>3, FrontRows

\* The star and the favourites agree: an ad whose star turned black while its screen
\* was in front, and that has not lost the mark since, has a row once the load of the
\* list is answered, whatever tabs and stars are tapped in between and whatever a
\* restart loses.  For a device alone whose writes and queries the server takes.
THEOREM PromisedFavouritesCome ==
  ASSUME {"remote", "reject", "offline"} \cap Disturbances = {}
  PROVE  ListsSpec => []FavouritesReachTheirList
<1> DEFINE Inv == /\ ListsTypeOK /\ FrontInv /\ SessionInv /\ LoginCovers
                  /\ PromisedInSession /\ PromisedKept /\ PromisedComes
<1>0. Calm
  BY DEF Calm
<1>1. ListsInit => Inv
  <2>1. ListsInit => /\ SessionInv /\ LoginCovers
                     /\ PromisedInSession /\ PromisedKept /\ PromisedComes
    BY ClientAssumption, SessionInit
       DEF ListsInit, Init, ClientInit, LoginCovers, PromisedInSession, PromisedKept, PromisedComes
  <2> QED
    BY <2>1, ListsInitType, FrontInit
<1>2. Inv /\ [ListsNext]_allVars => Inv'
  <2> SUFFICES ASSUME Inv, [ListsNext]_allVars PROVE Inv'
    OBVIOUS
  <2>0. TypeOK
    BY DEF ListsTypeOK
  <2>1. ListsTypeOK' /\ FrontInv' /\ SessionInv' /\ LoginCovers'
    BY <2>0, ListsTypeStep, ListsSessionKept, CoversStep
  <2>2. PromisedInSession'
    BY <2>0, PromiseCalm DEF PromisedInSession, CalmInv
  <2>3. PromisedKept' /\ PromisedComes'
    BY <1>0, <2>1, KeptStep, ComesStep
  <2> QED
    BY <2>1, <2>2, <2>3
<1>3. Inv => FavouritesReachTheirList
  <2> SUFFICES ASSUME Inv, Quiet, shown = Favorites,
                      NEW d \in promised, store[d].state = "ad"
               PROVE  rows[d] > 0
    BY DEF FavouritesReachTheirList
  <2>1. ClientTypeOK /\ d \in Docs
    BY DEF ListsTypeOK, TypeOK
  <2>2. LocalDoc(d) = store[d]
    BY <2>1, LocalType DEF Quiet
  <2>3. OnItsWay(d)
    BY <2>2 DEF PromisedComes
  <2>4. \A r \in Request : ~(reads[r] > 0)
    BY DEF Quiet
  <2>5. Loading(inbox, Favorites) = {}
    BY DEF Quiet, Loading
  <2> QED
    BY <2>3, <2>4, <2>5 DEF OnItsWay
<1> QED
  <2> HIDE DEF Inv
  <2> QED
    BY <1>1, <1>2, <1>3, PTL DEF ListsSpec
=============================================================================
