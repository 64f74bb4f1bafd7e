---------------------------- MODULE AdDetailProofs ---------------------------
(***************************************************************************)
(* What holds of the detail screens for every set of ads, accounts,        *)
(* screens and disturbances.                                               *)
(***************************************************************************)
EXTENDS AdDetail, FirestoreClientProofs

-----------------------------------------------------------------------------
(***************************************************************************)
(* Type correctness.                                                       *)
(***************************************************************************)
LEMMA InitType == Init => TypeOK
<1> SUFFICES ASSUME Init PROVE TypeOK
  OBVIOUS
<1>1. store \in [Docs -> Document] /\ user \in Uids /\ owner \in Uids
  BY DEF Init, ClientInit, Document, DocStates, Uids
<1>2. pending \in [Uids -> Seq(Write)] /\ reads \in [Request -> Nat]
      /\ inbox \in Seq(Callback)
  BY DEF Init, ClientInit
<1> QED
  BY <1>1, <1>2 DEF Init, TypeOK, ClientTypeOK

\* The user's steps: the only one to change the queues is Restart.
LEMMA UserStepType ==
  ASSUME TypeOK, UserStep PROVE TypeOK'
<1> USE DEF TypeOK, ClientTypeOK
<1>1. ASSUME NEW s \in Screens, NEW d \in Docs, Open(s, d) PROVE TypeOK'
  BY <1>1 DEF Open, clientVars
<1>0. ASSUME NEW r, Ask(r) PROVE reads' \in [Request -> Nat]
  <2>1. reads \in [Request -> Nat] /\ reads' = [reads EXCEPT ![r] = @ + 1]
    BY <1>0 DEF Ask
  <2>2. CASE r \in Request
    BY <2>1, <2>2
  <2>3. CASE r \notin Request
    BY <2>1, <2>3
  <2> QED
    BY <2>2, <2>3
<1>2. ASSUME NEW s, NEW k, AskFor(k, s) PROVE reads' \in [Request -> Nat]
  BY <1>0, <1>2 DEF AskFor
<1>3. ASSUME NEW s \in Screens, Appear(s) PROVE TypeOK'
  BY <1>2, <1>3 DEF Appear
<1>4. ASSUME NEW s \in Screens, Leave(s) PROVE TypeOK'
  BY <1>4 DEF Leave, clientVars
<1>5. ASSUME NEW s \in Screens, Back(s) PROVE TypeOK'
  BY <1>5 DEF Back, Close, clientVars
<1>6. ASSUME NEW s \in Screens, TapFavorite(s) PROVE TypeOK'
  BY <1>2, <1>6 DEF TapFavorite, screenVars
<1>7. ASSUME NEW s \in Screens, TapDelete(s) PROVE TypeOK'
  BY <1>2, <1>7 DEF TapDelete, screenVars
<1>8. CASE SwitchUser
  <2>1. PICK u \in Uids : ChangeUser(u)
    BY <1>8 DEF SwitchUser
  <2>2. [type |-> "told", uid |-> u] \in Callback
    BY DEF Callback, Told
  <2>3. inbox' \in Seq(Callback)
    BY <2>1, <2>2 DEF ChangeUser
  <2> QED
    BY <1>8, <2>1, <2>3 DEF SwitchUser, ChangeUser, screenVars
<1>9. CASE Restart
  BY <1>9, OrphanType DEF Restart, RestartClient
<1> QED
  BY <1>1, <1>3, <1>4, <1>5, <1>6, <1>7, <1>8, <1>9 DEF UserStep

LEMMA AnsweringType ==
  ASSUME TypeOK, Answering PROVE TypeOK'
<1> USE DEF TypeOK, ClientTypeOK
<1>1. PICK r \in Request : Raise(r)
  BY DEF Answering
<1>2. PICK docs \in SUBSET Docs :
        inbox' = Append(inbox, [type |-> "answer", req |-> r, docs |-> docs])
  BY <1>1 DEF Raise, Answers, Result, Known
<1>3. [type |-> "answer", req |-> r, docs |-> docs] \in Callback
  BY DEF Callback, Answer
<1>4. inbox' \in Seq(Callback)
  BY <1>2, <1>3
<1>5. reads' \in [Request -> Nat]
  BY <1>1 DEF Raise
<1> QED
  BY <1>1, <1>4, <1>5 DEF Raise, Answering, screenVars

\* The head of a queue that is not empty, and what an acknowledgement adds.
LEMMA CommitType ==
  ASSUME TypeOK, NEW d \in Docs, Commit(d)
  PROVE  /\ pending[owner] \in Seq(Write) /\ pending[owner] # <<>>
         /\ Head(pending[owner]) = pending[owner][1] /\ 1 \in DOMAIN pending[owner]
         /\ Head(pending[owner]) \in Write
         /\ store' \in [Docs -> Document]
         /\ inbox' \in Seq(Callback)
         /\ pending' \in [Uids -> Seq(Write)]
<1> USE DEF TypeOK, ClientTypeOK
<1> DEFINE w == Head(pending[owner])
<1>1. pending[owner] \in Seq(Write) /\ pending[owner] # <<>>
  BY DEF Commit
<1>2. w = pending[owner][1] /\ 1 \in DOMAIN pending[owner] /\ w \in Write
  BY <1>1
<1>3. \A ok \in BOOLEAN : Acked(w, d, ok) \in Seq(Callback)
  <2> SUFFICES ASSUME NEW ok \in BOOLEAN, w.screen # NoScreen
               PROVE  Acked(w, d, ok) \in Seq(Callback)
    BY DEF Acked
  <2>1. [type |-> "ack", op |-> w.op, screen |-> w.screen, doc |-> d, ok |-> ok]
          \in Callback
    BY <1>2 DEF Callback, Ack, Write
  <2> QED
    BY <2>1 DEF Acked
<1>4. store' \in [Docs -> Document]
  <2>1. ApplyWrite(w.op, w.uid, store[d]) \in Document
    BY <1>2, ApplyWriteType DEF Write
  <2>2. \/ store' = [store EXCEPT ![d] = ApplyWrite(w.op, w.uid, store[d])]
        \/ store' = store
    BY DEF Commit
  <2> QED
    BY <2>1, <2>2
<1>5. inbox' \in Seq(Callback)
  BY <1>3 DEF Commit
<1>6. pending' \in [Uids -> Seq(Write)]
  BY <1>1, AnsweredType DEF Commit
<1> QED
  BY <1>1, <1>2, <1>4, <1>5, <1>6

LEMMA HandlingType ==
  ASSUME TypeOK, Handling PROVE TypeOK'
<1> USE DEF TypeOK, ClientTypeOK
<1>1. inbox # <<>> /\ inbox' \in Seq(Callback)
  BY InboxType DEF Handling, CheckAnswer, FavoriteAnswer, DeleteAnswer,
                   WriteDone, SessionTold, AnswerTo, Delivered
<1>2. CASE CheckAnswer
  <2>1. Head(inbox) \in Answer
    BY <1>1, <1>2, InboxType DEF CheckAnswer, AnswerTo, Delivered
  <2> QED
    BY <1>1, <1>2, <2>1 DEF CheckAnswer, Answer, Request
<1>3. ASSUME NEW k \in {"favorite", "delete"}, AnswerTo(k)
      PROVE  Head(inbox).req.screen \in Screens /\ Head(inbox).docs \subseteq Docs
  BY <1>1, <1>3, InboxType DEF AnswerTo, Delivered, Answer, Request
<1>4. CASE FavoriteAnswer
  <2>1. pending' \in [Uids -> Seq(Write)]
    BY <1>3, <1>4, EnqueueType DEF FavoriteAnswer, Ops
  <2> QED
    BY <1>1, <1>4, <2>1 DEF FavoriteAnswer, screenVars
<1>5. CASE DeleteAnswer
  <2>1. pending' \in [Uids -> Seq(Write)]
    BY <1>3, <1>5, EnqueueType DEF DeleteAnswer, Ops
  <2> QED
    BY <1>1, <1>5, <2>1 DEF DeleteAnswer, screenVars
<1>6. CASE WriteDone
  <2>1. Head(inbox).screen \in Screens
    BY <1>1, <1>6, InboxType DEF WriteDone, Delivered, Ack
  <2> QED
    BY <1>1, <1>6, <2>1 DEF WriteDone, Close, screenVars
<1>7. CASE SessionTold
  <2>1. Head(inbox).uid \in Uids
    BY <1>1, <1>7, InboxType DEF SessionTold, Delivered, Told
  <2> QED
    BY <1>1, <1>7, <2>1 DEF SessionTold, HandleCredentialChange
<1> QED
  BY <1>2, <1>4, <1>5, <1>6, <1>7 DEF Handling

LEMMA OtherDeviceType ==
  ASSUME TypeOK, OtherDevice PROVE TypeOK'
<1> USE DEF TypeOK, ClientTypeOK
<1>1. ASSUME NEW d \in Docs, RemotePublish(d) PROVE store' \in [Docs -> Document]
  BY <1>1 DEF RemotePublish, Document, DocStates
<1>2. ASSUME NEW d \in Docs, NEW op \in Ops, NEW u \in Users, RemoteWrite(op, u, d)
      PROVE  store' \in [Docs -> Document]
  BY <1>2, ApplyWriteType DEF RemoteWrite, Uids
<1>3. store' \in [Docs -> Document] /\ UNCHANGED <<user, owner, pending, reads, inbox>>
  BY <1>1, <1>2 DEF OtherDevice, RemotePublish, RemoteWrite
<1> QED
  BY <1>3 DEF OtherDevice, screenVars

LEMMA NextType == TypeOK /\ [Next]_vars => TypeOK'
<1> SUFFICES ASSUME TypeOK, [Next]_vars PROVE TypeOK'
  OBVIOUS
<1>1. CASE UserStep
  BY <1>1, UserStepType
<1>2. CASE Answering
  BY <1>2, AnsweringType
<1>3. CASE Committing
  <2>1. PICK d \in Docs : Commit(d)
    BY <1>3 DEF Committing
  <2> QED
    BY <1>3, <2>1, CommitType DEF Committing, Commit, screenVars, TypeOK, ClientTypeOK
<1>4. CASE Handling
  BY <1>4, HandlingType
<1>5. CASE OtherDevice
  BY <1>5, OtherDeviceType
<1>6. CASE UNCHANGED vars
  BY <1>6 DEF vars, clientVars, screenVars, TypeOK, ClientTypeOK
<1> QED
  BY <1>1, <1>2, <1>3, <1>4, <1>5, <1>6 DEF Next

\* Every value the client and the screens ever hold has its type: a request
\* without a title, an answer nobody asked for (a negative count of waiting
\* queries) or a write to something that is no document never arises.
THEOREM TypeCorrect == Spec => []TypeOK
<1> QED
  BY InitType, NextType, PTL DEF Spec

-----------------------------------------------------------------------------
(***************************************************************************)
(* What a step does to the documents.                                      *)
(***************************************************************************)
Born(d) == store[d].state # "unborn"

\* The one document a step of Next changes is published, or it is written to
\* by an operation whose precondition holds.
Published(d) ==
  /\ store[d].state = "unborn"
  /\ store' = [store EXCEPT ![d] = [state |-> "ad", marks |-> {}]]

Written(op, u, d) ==
  /\ Born(d) /\ Accepts(op, store[d])
  /\ store' = [store EXCEPT ![d] = ApplyWrite(op, u, @)]

\* Answers and queued writes name documents that exist or have existed.
BornInv ==
  /\ \A i \in DOMAIN inbox : inbox[i].type = "answer" =>
       \A d \in inbox[i].docs : Born(d)
  /\ \A u \in Uids : \A i \in DOMAIN pending[u] :
       \A d \in pending[u][i].docs : Born(d)

LEMMA StoreStep ==
  ASSUME TypeOK, BornInv, [Next]_vars
  PROVE  \/ store' = store
         \/ \E d \in Docs : Published(d)
         \/ \E d \in Docs, op \in Ops, u \in Uids : Written(op, u, d)
<1>1. CASE UserStep \/ Answering \/ Handling \/ UNCHANGED vars
  BY <1>1 DEF UserStep, Open, Appear, Leave, Back, TapFavorite, TapDelete,
              SwitchUser, ChangeUser, Restart, RestartClient, Answering, Raise,
              Handling, CheckAnswer, FavoriteAnswer, DeleteAnswer, WriteDone,
              SessionTold, HandleCredentialChange, vars, clientVars
<1>2. CASE Committing
  <2>1. PICK d \in Docs : Commit(d)
    BY <1>2 DEF Committing
  <2> DEFINE w == Head(pending[owner])
  <2>2. w \in Write /\ w = pending[owner][1] /\ 1 \in DOMAIN pending[owner]
    BY <2>1, CommitType
  <2>3. d \in w.docs
    BY <2>1 DEF Commit
  <2>4. Born(d)
    BY <2>2, <2>3 DEF BornInv, TypeOK, ClientTypeOK
  <2>5. \/ store' = store
        \/ /\ Accepts(w.op, store[d])
           /\ store' = [store EXCEPT ![d] = ApplyWrite(w.op, w.uid, @)]
    BY <2>1 DEF Commit
  <2>6. w.op \in Ops /\ w.uid \in Uids
    BY <2>2 DEF Write
  <2> QED
    BY <2>4, <2>5, <2>6 DEF Written
<1>3. CASE OtherDevice
  BY <1>3 DEF OtherDevice, RemotePublish, RemoteWrite, Published, Written, Born, Uids
<1> QED
  BY <1>1, <1>2, <1>3 DEF Next

\* A document that was published stays published, and one that is no ad any
\* more never is one again.
LEMMA DocumentsAge ==
  ASSUME TypeOK, BornInv, [Next]_vars, NEW d \in Docs, Born(d)
  PROVE  /\ Born(d)'
         /\ store[d].state # "ad" => store'[d].state # "ad"
<1>1. ASSUME NEW op \in Ops, NEW u \in Uids, NEW s \in Document,
             s.state # "unborn"
      PROVE  /\ ApplyWrite(op, u, s).state # "unborn"
             /\ s.state # "ad" => ApplyWrite(op, u, s).state # "ad"
  BY <1>1 DEF ApplyWrite, Ops, Document, Exists
<1>2. store \in [Docs -> Document]
  BY DEF TypeOK, ClientTypeOK
<1>3. CASE store' = store
  BY <1>3 DEF Born
<1>4. ASSUME NEW e \in Docs, Published(e) PROVE UNCHANGED store[d]
  BY <1>2, <1>4 DEF Published, Born
<1>5. ASSUME NEW e \in Docs, NEW op \in Ops, NEW u \in Uids, Written(op, u, e)
      PROVE  /\ store'[d].state # "unborn"
             /\ store[d].state # "ad" => store'[d].state # "ad"
  BY <1>1, <1>2, <1>5 DEF Written, Born
<1> QED
  BY <1>3, <1>4, <1>5, StoreStep DEF Born

-----------------------------------------------------------------------------
(***************************************************************************)
(* What a step does to the callbacks and to the queued writes.             *)
(***************************************************************************)

\* Every answer, a cached one too, lists published documents that were asked for.
LEMMA AnswersKnown ==
  ASSUME NEW r \in Request, NEW docs \in Answers(r)
  PROVE  docs \subseteq Known(r)
BY DEF Answers, Result, Matches, Known

\* An answer in the inbox after a step was there before, or it answers a
\* waiting query with documents that match.
Delivers(c) ==
  \/ \E j \in DOMAIN inbox : inbox[j] = c
  \/ \E r \in Request : reads[r] > 0 /\ c.req = r /\ c.docs \subseteq Known(r)

\* The user's steps and those of other devices put nothing into the inbox but
\* the news of a change of session.
LEMMA UserInbox ==
  ASSUME inbox \in Seq(Callback), UserStep \/ OtherDevice \/ UNCHANGED vars,
         NEW i \in DOMAIN inbox', inbox'[i].type # "told"
  PROVE  \E j \in DOMAIN inbox : inbox[j] = inbox'[i]
<1>1. CASE SwitchUser
  <2>1. PICK u \in Uids : inbox' = Append(inbox, [type |-> "told", uid |-> u])
    BY <1>1 DEF SwitchUser, ChangeUser
  <2> DEFINE c == [type |-> "told", uid |-> u]
  <2>2. inbox' = Append(inbox, c) /\ c.type = "told"
    BY <2>1
  <2> HIDE DEF c
  <2> QED
    BY <2>2, AppendElement
<1>2. CASE ~SwitchUser
  <2>1. inbox' = inbox \/ inbox' = <<>>
    BY <1>2 DEF UserStep, Open, Appear, Leave, Back, TapFavorite, TapDelete,
                Restart, RestartClient, OtherDevice,
                RemotePublish, RemoteWrite, vars, clientVars
  <2> QED
    BY <2>1
<1> QED
  BY <1>1, <1>2

LEMMA InboxStep ==
  ASSUME TypeOK, [Next]_vars,
         NEW i \in DOMAIN inbox', inbox'[i].type = "answer"
  PROVE  Delivers(inbox'[i])
<1>0. inbox \in Seq(Callback)
  BY DEF TypeOK, ClientTypeOK
<1>1. CASE UserStep \/ OtherDevice \/ UNCHANGED vars
  <2>1. \E j \in DOMAIN inbox : inbox[j] = inbox'[i]
    BY <1>0, <1>1, UserInbox
  <2> QED
    BY <2>1 DEF Delivers
<1>2. CASE Answering
  <2>1. PICK r \in Request : Raise(r)
    BY <1>2 DEF Answering
  <2>2. PICK docs \in SUBSET Known(r) :
          inbox' = Append(inbox, [type |-> "answer", req |-> r, docs |-> docs])
    BY <2>1, AnswersKnown DEF Raise
  <2>3. inbox'[i] = [type |-> "answer", req |-> r, docs |-> docs]
        \/ (i \in DOMAIN inbox /\ inbox'[i] = inbox[i])
    BY <1>0, <2>2
  <2> QED
    BY <2>1, <2>3 DEF Delivers, Raise
<1>3. CASE Committing
  <2>1. PICK d \in Docs : Commit(d)
    BY <1>3 DEF Committing
  <2> DEFINE w == Head(pending[owner])
             a(ok) == [type |-> "ack", op |-> w.op, screen |-> w.screen,
                       doc |-> d, ok |-> ok]
  <2>2. \/ inbox' = inbox
        \/ \E ok \in BOOLEAN : inbox' = Append(inbox, a(ok))
    BY <2>1 DEF Commit, Acked
  <2>3. i \in DOMAIN inbox /\ inbox'[i] = inbox[i]
    <3>1. ASSUME NEW ok \in BOOLEAN, inbox' = Append(inbox, a(ok))
          PROVE  i \in DOMAIN inbox /\ inbox'[i] = inbox[i]
      <4>1. a(ok).type # "answer"
        OBVIOUS
      <4> HIDE DEF a
      <4> QED
        BY <1>0, <3>1, <4>1
    <3> QED
      BY <2>2, <3>1
  <2> QED
    BY <2>3 DEF Delivers
<1>4. CASE Handling
  <2>1. inbox # <<>> /\ inbox' = Tail(inbox)
    BY <1>4 DEF Handling, CheckAnswer, FavoriteAnswer, DeleteAnswer, WriteDone,
                SessionTold, AnswerTo, Delivered
  <2> QED
    BY <1>0, <2>1, InboxType DEF Delivers
<1> QED
  BY <1>1, <1>2, <1>3, <1>4 DEF Next

\* A write queued after a step is what is left of one that was, or it was made
\* by the handler of the answer at the head of the inbox, for Auth's user.
Continues(w, u) ==
  \E j \in DOMAIN pending[u] : /\ w.op = pending[u][j].op
                               /\ w.uid = pending[u][j].uid
                               /\ w.docs \subseteq pending[u][j].docs

Begins(w, u) ==
  /\ u = owner /\ w.uid = user
  /\ inbox # <<>> /\ Head(inbox).type = "answer"
  /\ w.docs = Head(inbox).docs
  /\ w.op = "delete" => Head(inbox).req.kind = "delete"

LEMMA EnqueueStep ==
  ASSUME TypeOK, inbox # <<>>, Head(inbox).type = "answer",
         NEW op, op = "delete" => Head(inbox).req.kind = "delete",
         NEW s, Enqueue(op, s, Head(inbox).docs),
         NEW u \in Uids, NEW i \in DOMAIN pending'[u]
  PROVE  Continues(pending'[u][i], u) \/ Begins(pending'[u][i], u)
<1> DEFINE w == [op |-> op, uid |-> user, screen |-> s, docs |-> Head(inbox).docs]
<1>1. pending \in [Uids -> Seq(Write)] /\ owner \in Uids
  BY DEF TypeOK, ClientTypeOK
<1>2. \/ pending' = pending
      \/ pending' = [pending EXCEPT ![owner] = Append(@, w)]
  BY DEF Enqueue
<1>3. Begins(w, owner)
  BY DEF Begins
<1> HIDE DEF w
<1>4. \/ i \in DOMAIN pending[u] /\ pending'[u][i] = pending[u][i]
      \/ u = owner /\ pending'[u][i] = w
  <2>1. CASE pending' = pending
    BY <2>1
  <2>2. CASE pending' = [pending EXCEPT ![owner] = Append(@, w)]
    <3>1. CASE u = owner
      <4>1. pending'[u] = Append(pending[u], w) /\ pending[u] \in Seq(Write)
        BY <1>1, <2>2, <3>1
      <4> QED
        BY <3>1, <4>1
    <3>2. CASE u # owner
      BY <1>1, <2>2, <3>2
    <3> QED
      BY <3>1, <3>2
  <2> QED
    BY <1>2, <2>1, <2>2
<1> QED
  BY <1>3, <1>4 DEF Continues

LEMMA PendingStep ==
  ASSUME TypeOK, [Next]_vars,
         NEW u \in Uids, NEW i \in DOMAIN pending'[u]
  PROVE  Continues(pending'[u][i], u) \/ Begins(pending'[u][i], u)
<1>0. pending \in [Uids -> Seq(Write)] /\ owner \in Uids
  BY DEF TypeOK, ClientTypeOK
<1>1. CASE pending' = pending
  BY <1>1 DEF Continues
<1>2. CASE Restart
  <2>1. pending'[u] = Orphan(pending[u])
    BY <1>2 DEF Restart, RestartClient
  <2> QED
    BY <1>0, <2>1, OrphanType DEF Continues
<1>3. CASE Committing
  <2>1. PICK d \in Docs : Commit(d)
    BY <1>3 DEF Committing
  <2>2. pending[owner] \in Seq(Write) /\ pending[owner] # <<>>
        /\ pending' = [pending EXCEPT ![owner] = Answered(@, d)]
    BY <2>1, CommitType DEF Commit
  <2>3. CASE u = owner
    BY <1>0, <2>2, <2>3, AnsweredType DEF Continues
  <2>4. CASE u # owner
    BY <1>0, <2>2, <2>4 DEF Continues
  <2> QED
    BY <2>3, <2>4
<1>4. CASE FavoriteAnswer
  <2> DEFINE s == Head(inbox).req.screen
             op == IF inFavorite[s] = "true" THEN "unmark" ELSE "mark"
  <2>1. inbox # <<>> /\ Head(inbox).type = "answer"
    BY <1>4 DEF FavoriteAnswer, AnswerTo, Delivered
  <2>2. Enqueue(op, s, Head(inbox).docs) /\ op # "delete"
    BY <1>4 DEF FavoriteAnswer
  <2> HIDE DEF op, s
  <2> QED
    BY <2>1, <2>2, EnqueueStep
<1>5. CASE DeleteAnswer
  BY <1>5, EnqueueStep DEF DeleteAnswer, AnswerTo, Delivered
<1> QED
  BY <1>1, <1>2, <1>3, <1>4, <1>5
  DEF Next, UserStep, Open, Appear, Leave, Back, TapFavorite, TapDelete,
      SwitchUser, ChangeUser, Answering, Raise, Handling, CheckAnswer, WriteDone,
      SessionTold, HandleCredentialChange, OtherDevice, RemotePublish, RemoteWrite, vars, clientVars

-----------------------------------------------------------------------------
(***************************************************************************)
(* The shared board.                                                       *)
(***************************************************************************)
LEMMA BornInit == Init => BornInv
BY DEF Init, ClientInit, BornInv

LEMMA BornNext == TypeOK /\ BornInv /\ [Next]_vars => BornInv'
<1> SUFFICES ASSUME TypeOK, BornInv, [Next]_vars PROVE BornInv'
  OBVIOUS
<1>0. TypeOK'
  BY NextType
<1>1. \A d \in Docs : Born(d) => Born(d)'
  BY DocumentsAge
<1>2. ASSUME NEW i \in DOMAIN inbox', inbox'[i].type = "answer",
             NEW d \in inbox'[i].docs
      PROVE  Born(d)'
  <2>a. inbox'[i] \in Callback
    BY <1>0, <1>2 DEF TypeOK, ClientTypeOK
  <2>b. inbox'[i] \in Answer
    BY <1>2, <2>a DEF Callback, Ack, Told
  <2>1. d \in Docs
    BY <1>2, <2>b DEF Answer
  <2>2. CASE \E j \in DOMAIN inbox : inbox[j] = inbox'[i]
    BY <1>1, <1>2, <2>1, <2>2 DEF BornInv
  <2>3. CASE \E r \in Request : inbox'[i].docs \subseteq Known(r)
    BY <1>1, <1>2, <2>1, <2>3 DEF Known, Born
  <2> QED
    BY <1>2, <2>2, <2>3, InboxStep DEF Delivers
<1>3. ASSUME NEW u \in Uids, NEW i \in DOMAIN pending'[u],
             NEW d \in pending'[u][i].docs
      PROVE  Born(d)'
  <2>0. pending' \in [Uids -> Seq(Write)]
    BY <1>0 DEF TypeOK, ClientTypeOK
  <2>a. pending'[u][i] \in Write
    BY <1>3, <2>0
  <2>1. d \in Docs
    BY <1>3, <2>a DEF Write
  <2>2. CASE Continues(pending'[u][i], u)
    BY <1>1, <1>3, <2>1, <2>2 DEF Continues, BornInv
  <2>3. CASE Begins(pending'[u][i], u)
    BY <1>1, <1>3, <2>1, <2>3, InboxType
    DEF Begins, BornInv, TypeOK, ClientTypeOK
  <2> QED
    BY <1>3, <2>2, <2>3, PendingStep
<1> QED
  BY <1>2, <1>3 DEF BornInv

LEMMA BoardInitial == Init => Board!BoardInit
<1> SUFFICES ASSUME Init PROVE Board!BoardInit
  OBVIOUS
<1>1. \A d \in Docs : store[d].state \in {"unborn", "ad"}
  BY DEF Init, ClientInit
<1>2. Life \in [Docs -> {"unborn", "live"}]
  BY <1>1 DEF Life
<1>3. Favs \subseteq Board!Live \X Uids
  BY DEF Favs, Life, Board!Live
<1> QED
  BY <1>2, <1>3 DEF Board!BoardInit

\* One changed document is one step of the board.
LEMMA BoardPublished ==
  ASSUME TypeOK, NEW d \in Docs, Published(d)
  PROVE  Board!Publish(d)
<1>1. store \in [Docs -> Document]
  BY DEF TypeOK, ClientTypeOK
<1>2. store' = [store EXCEPT ![d] = [state |-> "ad", marks |-> {}]]
  BY DEF Published
<1>3. Life[d] = "unborn" /\ Life' = [Life EXCEPT ![d] = "live"]
  <2>1. store[d].state = "unborn" /\ store'[d].state = "ad"
    BY <1>1, <1>2 DEF Published
  <2>2. \A e \in Docs : e # d => store'[e] = store[e]
    BY <1>1, <1>2
  <2>3. Life[d] = "unborn"
    BY <2>1 DEF Life
  <2>4. \A e \in Docs : Life'[e] = IF e = d THEN "live" ELSE Life[e]
    BY <2>1, <2>2 DEF Life
  <2>5. Life' = [e \in Docs |-> Life'[e]] /\ Life = [e \in Docs |-> Life[e]]
    BY DEF Life
  <2> QED
    BY <2>3, <2>4, <2>5
<1>4. Favs' = Favs
  BY <1>1, <1>2 DEF Favs, Published
<1> QED
  BY <1>3, <1>4 DEF Board!Publish

\* Nothing but the marks of a live ad is seen of a write that is no deletion.
LEMMA BoardWritten ==
  ASSUME TypeOK, NEW d \in Docs, NEW op \in Ops, NEW u \in Uids,
         Written(op, u, d)
  PROVE  \/ Board!Remove(d)
         \/ Board!Mark(d, u)
         \/ Board!Unmark(d, u)
         \/ UNCHANGED <<Life, Favs>>
<1> DEFINE s == store[d]
           t == ApplyWrite(op, u, s)
<1>1. store \in [Docs -> Document] /\ s \in Document /\ s.state # "unborn"
  BY DEF TypeOK, ClientTypeOK, Written, Born
<1>2. store'[d] = t /\ \A e \in Docs : e # d => store'[e] = store[e]
  BY <1>1 DEF Written
<1>3. t \in Document /\ t.state # "unborn" /\ (s.state # "ad" => t.state # "ad")
  BY <1>1 DEF ApplyWrite, Ops, Document, DocStates, Exists
<1>4. Life' = [e \in Docs |-> Life'[e]] /\ Life = [e \in Docs |-> Life[e]]
  BY DEF Life
<1>5. \A e \in Docs : e # d => Life'[e] = Life[e]
  BY <1>2 DEF Life
<1>6. \A e \in Docs, v \in Uids : <<e, v>> \in Favs <=>
        store[e].state = "ad" /\ v \in store[e].marks
  BY DEF Favs
<1>7. \A e \in Docs, v \in Uids : <<e, v>> \in Favs' <=>
        store'[e].state = "ad" /\ v \in store'[e].marks
  BY DEF Favs
<1>8. Favs \subseteq Docs \X Uids /\ Favs' \subseteq Docs \X Uids
  BY DEF Favs
<1>9. CASE s.state # "ad"
  <2>1. Life'[d] = Life[d]
    BY <1>1, <1>2, <1>3, <1>9 DEF Life, Document, DocStates
  <2>2. \A e \in Docs, v \in Uids : <<e, v>> \in Favs <=> <<e, v>> \in Favs'
    BY <1>2, <1>3, <1>6, <1>7, <1>9
  <2> QED
    BY <1>4, <1>5, <1>8, <2>1, <2>2
<1>10. CASE s.state = "ad" /\ op = "delete"
  <2>1. t = [state |-> "gone", marks |-> {}]
    BY <1>10 DEF ApplyWrite
  <2>2. Life[d] = "live" /\ Life'[d] = "removed"
    BY <1>2, <1>10, <2>1 DEF Life
  <2>3. \A e \in Docs, v \in Uids : <<e, v>> \in Favs' <=> <<e, v>> \in Favs /\ e # d
    <3>1. store'[d].state # "ad"
      BY <1>2, <2>1
    <3>2. \A v \in Uids : <<d, v>> \notin Favs'
      BY <1>7, <3>1
    <3>3. \A e \in Docs, v \in Uids :
            e # d => (<<e, v>> \in Favs' <=> <<e, v>> \in Favs)
      BY <1>2, <1>6, <1>7
    <3> QED
      BY <3>2, <3>3
  <2>4. Life' = [Life EXCEPT ![d] = "removed"]
    BY <1>4, <1>5, <2>2
  <2>5. Favs' = {f \in Favs : f[1] # d}
    BY <1>8, <2>3
  <2> QED
    BY <2>2, <2>4, <2>5 DEF Board!Remove
<1>11. CASE s.state = "ad" /\ op \in {"mark", "unmark"}
  <2>1. t.state = "ad"
        /\ t.marks = IF op = "mark" THEN s.marks \cup {u} ELSE s.marks \ {u}
    BY <1>1, <1>11 DEF ApplyWrite, Exists, Document
  <2>2. Life[d] = "live" /\ Life'[d] = "live"
    BY <1>2, <1>11, <2>1 DEF Life
  <2>3. Life' = Life
    BY <1>4, <1>5, <2>2
  <2>4. CASE op = "mark"
    <3>1. \A e \in Docs, v \in Uids :
            <<e, v>> \in Favs' <=> <<e, v>> \in Favs \/ (e = d /\ v = u)
      BY <1>2, <1>6, <1>7, <1>11, <2>1, <2>4
    <3>2. Favs' = Favs \cup {<<d, u>>}
      BY <1>8, <3>1
    <3> QED
      BY <2>2, <2>3, <3>2 DEF Board!Mark
  <2>5. CASE op = "unmark"
    <3>1. \A e \in Docs, v \in Uids :
            <<e, v>> \in Favs' <=> <<e, v>> \in Favs /\ ~(e = d /\ v = u)
      BY <1>2, <1>6, <1>7, <1>11, <2>1, <2>5
    <3>2. Favs' = Favs \ {<<d, u>>}
      BY <1>8, <3>1
    <3> QED
      BY <2>2, <2>3, <3>2 DEF Board!Unmark
  <2> QED
    BY <1>11, <2>4, <2>5
<1> QED
  BY <1>9, <1>10, <1>11 DEF Ops

LEMMA BoardStep ==
  TypeOK /\ BornInv /\ [Next]_vars => [Board!BoardNext]_(Board!boardVars)
<1> SUFFICES ASSUME TypeOK, BornInv, [Next]_vars
             PROVE  Board!BoardNext \/ UNCHANGED <<Life, Favs>>
  BY DEF Board!boardVars
<1>1. CASE store' = store
  BY <1>1 DEF Life, Favs
<1>2. CASE \E d \in Docs : Published(d)
  BY <1>2, BoardPublished DEF Board!BoardNext
<1>3. CASE \E d \in Docs, op \in Ops, u \in Uids : Written(op, u, d)
  BY <1>3, BoardWritten DEF Board!BoardNext
<1> QED
  BY <1>1, <1>2, <1>3, StoreStep

\* Whatever the device, its queues, its user and the other devices do, they do
\* it to the shared board one promise at a time: an ad that is gone stays gone.
THEOREM DetailImplementsBoard == Spec => ImplementsBoard
<1>1. Init => BornInv /\ TypeOK /\ Board!BoardInit
  BY InitType, BornInit, BoardInitial
<1>2. TypeOK /\ BornInv /\ [Next]_vars => TypeOK' /\ BornInv'
  BY NextType, BornNext
<1>3. TypeOK /\ BornInv /\ [Next]_vars => [Board!BoardNext]_(Board!boardVars)
  BY BoardStep
<1> QED
  BY <1>1, <1>2, <1>3, PTL DEF Spec, ImplementsBoard, Board!BoardSpec

-----------------------------------------------------------------------------
(***************************************************************************)
(* The completion of a deletion.                                           *)
(***************************************************************************)
AckInv ==
  \A i \in DOMAIN inbox :
    inbox[i].type = "ack" /\ inbox[i].op = "delete" /\ inbox[i].ok =>
      Born(inbox[i].doc) /\ store[inbox[i].doc].state # "ad"

\* An acknowledgement in the inbox after a step was there before, or it tells
\* of the write that the server has just answered.
LEMMA AckStep ==
  ASSUME TypeOK, [Next]_vars,
         NEW i \in DOMAIN inbox', inbox'[i].type = "ack"
  PROVE  \/ \E j \in DOMAIN inbox : inbox[j] = inbox'[i]
         \/ inbox'[i].ok /\ inbox'[i].op = "delete" =>
              /\ inbox'[i].doc \in Docs
              /\ store'[inbox'[i].doc].state = "gone"
<1>0. inbox \in Seq(Callback)
  BY DEF TypeOK, ClientTypeOK
<1>1. CASE UserStep \/ OtherDevice \/ UNCHANGED vars
  BY <1>0, <1>1, UserInbox
<1>2. CASE Answering
  <2>0. PICK r \in Request : \E docs :
          inbox' = Append(inbox, [type |-> "answer", req |-> r, docs |-> docs])
    BY <1>2 DEF Answering, Raise
  <2>1. PICK docs :
          inbox' = Append(inbox, [type |-> "answer", req |-> r, docs |-> docs])
    BY <2>0
  <2> DEFINE a == [type |-> "answer", req |-> r, docs |-> docs]
  <2>2. inbox' = Append(inbox, a) /\ a.type # "ack"
    BY <2>1
  <2> HIDE DEF a
  <2> QED
    BY <1>0, <2>2
<1>3. CASE Committing
  <2>1. PICK d \in Docs : Commit(d)
    BY <1>3 DEF Committing
  <2> DEFINE w == Head(pending[owner])
             a(ok) == [type |-> "ack", op |-> w.op, screen |-> w.screen,
                       doc |-> d, ok |-> ok]
  <2>2. store \in [Docs -> Document]
    BY DEF TypeOK, ClientTypeOK
  <2>3. \/ inbox' = inbox
        \/ inbox' = Append(inbox, a(FALSE))
        \/ /\ inbox' = Append(inbox, a(TRUE))
           /\ store' = [store EXCEPT ![d] = ApplyWrite(w.op, w.uid, @)]
    BY <2>1 DEF Commit, Acked
  <2>4. CASE inbox' = inbox
    BY <2>4
  <2>5. CASE inbox' = Append(inbox, a(FALSE))
    <3>1. ~a(FALSE).ok
      OBVIOUS
    <3>2. inbox'[i] = a(FALSE) \/ \E j \in DOMAIN inbox : inbox[j] = inbox'[i]
      BY <1>0, <2>5, AppendElement
    <3> HIDE DEF a
    <3> QED
      BY <3>1, <3>2
  <2>6. CASE inbox' = Append(inbox, a(TRUE)) /\
             store' = [store EXCEPT ![d] = ApplyWrite(w.op, w.uid, @)]
    <3>1. a(TRUE).doc = d /\ a(TRUE).op = w.op
      OBVIOUS
    <3>2. w.op = "delete" => store'[d].state = "gone"
      BY <2>2, <2>6 DEF ApplyWrite
    <3>3. inbox'[i] = a(TRUE) \/ \E j \in DOMAIN inbox : inbox[j] = inbox'[i]
      BY <1>0, <2>6, AppendElement
    <3> HIDE DEF a, w
    <3> QED
      BY <3>1, <3>2, <3>3
  <2> QED
    BY <2>3, <2>4, <2>5, <2>6
<1>4. CASE Handling
  <2>1. inbox # <<>> /\ inbox' = Tail(inbox)
    BY <1>4 DEF Handling, CheckAnswer, FavoriteAnswer, DeleteAnswer, WriteDone,
                SessionTold, AnswerTo, Delivered
  <2> QED
    BY <1>0, <2>1, InboxType
<1> QED
  BY <1>1, <1>2, <1>3, <1>4 DEF Next

LEMMA AckNext == TypeOK /\ BornInv /\ AckInv /\ [Next]_vars => AckInv'
<1> SUFFICES ASSUME TypeOK, BornInv, AckInv, [Next]_vars,
                    NEW i \in DOMAIN inbox', inbox'[i].type = "ack",
                    inbox'[i].op = "delete", inbox'[i].ok
             PROVE  /\ store'[inbox'[i].doc].state # "unborn"
                    /\ store'[inbox'[i].doc].state # "ad"
  BY DEF AckInv, Born
<1>1. CASE \E j \in DOMAIN inbox : inbox[j] = inbox'[i]
  <2>1. PICK j \in DOMAIN inbox : inbox[j] = inbox'[i]
    BY <1>1
  <2>2. inbox[j] \in Ack
    BY <2>1 DEF TypeOK, ClientTypeOK, Callback, Answer, Told
  <2>3. inbox[j].doc \in Docs
    BY <2>2 DEF Ack
  <2> QED
    BY <2>1, <2>3, DocumentsAge DEF AckInv, Born
<1> QED
  BY <1>1, AckStep

\* "Annonce supprimee" is true when it is said, for every schedule of the two
\* queues, any number of devices and whatever is refused, lost or restarted.
THEOREM DeletionsHold == Spec => []AnnouncedDeletionsHold
<1>1. Init => TypeOK /\ BornInv /\ AckInv
  BY InitType, BornInit DEF Init, ClientInit, AckInv
<1>2. TypeOK /\ BornInv /\ AckInv /\ [Next]_vars => TypeOK' /\ BornInv' /\ AckInv'
  BY NextType, BornNext, AckNext
<1>3. AckInv => AnnouncedDeletionsHold
  BY DEF AckInv, AnnouncedDeletionsHold
<1> QED
  BY <1>1, <1>2, <1>3, PTL DEF Spec

-----------------------------------------------------------------------------
(***************************************************************************)
(* The user of a write and its queue.  A change of session is followed     *)
(* from Auth to the client: the last of those on their way names the user  *)
(* that Auth has, and when none is, the client has that user too.          *)
(***************************************************************************)
LastTold(i) ==
  /\ inbox[i].type = "told" /\ inbox[i].uid = user
  /\ \A j \in DOMAIN inbox : inbox[j].type = "told" => j <= i

SessionInv ==
  IF Telling THEN \E i \in DOMAIN inbox : LastTold(i) ELSE owner = user

\* What a step does to the session and its news.
Keeps ==
  /\ UNCHANGED <<user, owner>>
  /\ \/ inbox' = inbox
     \/ \E c : c.type # "told" /\ inbox' = Append(inbox, c)
     \/ inbox # <<>> /\ Head(inbox).type # "told" /\ inbox' = Tail(inbox)

Hears ==
  /\ inbox # <<>> /\ Head(inbox).type = "told" /\ inbox' = Tail(inbox)
  /\ owner' = Head(inbox).uid /\ user' = user

SessionStep ==
  \/ Keeps
  \/ Hears
  \/ /\ "switch" \in Disturbances
     /\ \E u \in Uids : /\ user # u /\ user' = u /\ owner' = owner
                        /\ inbox' = Append(inbox, [type |-> "told", uid |-> u])
  \/ inbox' = <<>> /\ owner' = user /\ user' = user

LEMMA SessionKept ==
  ASSUME inbox \in Seq(Callback), SessionInv, SessionStep
  PROVE  SessionInv'
<1>1. CASE inbox' = inbox /\ UNCHANGED <<user, owner>>
  BY <1>1 DEF SessionInv, Telling, LastTold
<1>2. ASSUME NEW c, c.type # "told", inbox' = Append(inbox, c), UNCHANGED <<user, owner>>
      PROVE  SessionInv'
  <2>1. /\ DOMAIN inbox' = 1 .. (Len(inbox) + 1) /\ DOMAIN inbox = 1 .. Len(inbox)
        /\ Len(inbox) \in Nat /\ inbox'[Len(inbox) + 1] = c
        /\ \A i \in DOMAIN inbox : inbox'[i] = inbox[i]
    BY <1>2
  <2>2. \A i \in DOMAIN inbox' : inbox'[i].type = "told" => i \in DOMAIN inbox
    BY <1>2, <2>1
  <2>3. \A i \in DOMAIN inbox : i \in DOMAIN inbox'
    BY <2>1
  <2>4. Telling' <=> Telling
    BY <2>1, <2>2, <2>3 DEF Telling
  <2>5. ASSUME NEW i \in DOMAIN inbox, LastTold(i) PROVE LastTold(i)'
    BY <1>2, <2>1, <2>2, <2>5 DEF LastTold
  <2> QED
    BY <1>2, <2>3, <2>4, <2>5 DEF SessionInv
<1>3. ASSUME inbox # <<>>, inbox' = Tail(inbox), user' = user,
             Head(inbox).type # "told" => owner' = owner,
             Head(inbox).type = "told" => owner' = Head(inbox).uid
      PROVE  SessionInv'
  <2>1. /\ DOMAIN inbox' = 1 .. (Len(inbox) - 1) /\ DOMAIN inbox = 1 .. Len(inbox)
        /\ Len(inbox) \in Nat /\ Len(inbox) # 0 /\ Head(inbox) = inbox[1]
        /\ \A i \in 1 .. (Len(inbox) - 1) : inbox'[i] = inbox[i + 1]
    BY <1>3
  <2>2. \A i \in DOMAIN inbox : i = 1 \/ (i - 1 \in DOMAIN inbox' /\ inbox'[i - 1] = inbox[i])
    BY <2>1
  <2>3. \A i \in DOMAIN inbox' : i + 1 \in DOMAIN inbox /\ inbox'[i] = inbox[i + 1]
    BY <2>1
  <2>4. CASE Telling'
    <3>1. Telling
      BY <2>3, <2>4 DEF Telling
    <3>2. PICK i \in DOMAIN inbox : LastTold(i)
      BY <3>1 DEF SessionInv
    <3>3. \A j \in DOMAIN inbox' : inbox'[j].type = "told" => j + 1 <= i
      BY <2>3, <3>2 DEF LastTold
    <3>4. i # 1
      <4>1. PICK j \in DOMAIN inbox' : inbox'[j].type = "told"
        BY <2>4 DEF Telling
      <4>2. j + 1 <= i /\ j \in Nat /\ j # 0
        BY <2>1, <3>3, <4>1
      <4> QED
        BY <4>2
    <3>5. i - 1 \in DOMAIN inbox' /\ inbox'[i - 1] = inbox[i]
      BY <2>2, <3>4
    <3>6. \A j \in DOMAIN inbox' : inbox'[j].type = "told" => j <= i - 1
      BY <2>1, <3>3
    <3>7. LastTold(i - 1)'
      BY <1>3, <3>2, <3>5, <3>6 DEF LastTold
    <3> QED
      BY <2>4, <3>5, <3>7 DEF SessionInv
  <2>5. CASE ~Telling'
    <3>1. \A i \in DOMAIN inbox : inbox[i].type = "told" => i = 1
      BY <2>2, <2>5 DEF Telling
    <3>2. CASE inbox[1].type = "told"
      <4>1. 1 \in DOMAIN inbox
        BY <2>1
      <4>2. Telling
        BY <3>2, <4>1 DEF Telling
      <4>3. PICK i \in DOMAIN inbox : LastTold(i)
        BY <4>2 DEF SessionInv
      <4>4. inbox[1].uid = user
        BY <3>1, <4>3 DEF LastTold
      <4> QED
        BY <1>3, <2>1, <2>5, <3>2, <4>4 DEF SessionInv
    <3>3. CASE inbox[1].type # "told"
      <4>1. ~Telling
        BY <3>1, <3>3 DEF Telling
      <4> QED
        BY <1>3, <2>1, <2>5, <3>3, <4>1 DEF SessionInv
    <3> QED
      BY <3>2, <3>3
  <2> QED
    BY <2>4, <2>5
<1>4. ASSUME NEW u \in Uids, user' = u, inbox' = Append(inbox, [type |-> "told", uid |-> u])
      PROVE  SessionInv'
  <2> DEFINE c == [type |-> "told", uid |-> u]
  <2>0. inbox' = Append(inbox, c) /\ c.type = "told" /\ c.uid = u
    BY <1>4
  <2> HIDE DEF c
  <2>p. PICK n \in Nat : n = Len(inbox) + 1
    OBVIOUS
  <2>1. /\ DOMAIN inbox' = 1 .. n /\ n \in DOMAIN inbox' /\ inbox'[n] = c
    BY <2>0, <2>p
  <2>2. LastTold(n)'
    BY <1>4, <2>0, <2>1 DEF LastTold
  <2>3. Telling'
    BY <2>0, <2>1 DEF Telling
  <2> QED
    BY <2>1, <2>2, <2>3 DEF SessionInv
<1>5. CASE inbox' = <<>> /\ owner' = user /\ user' = user
  <2>1. ~Telling'
    BY <1>5 DEF Telling
  <2> QED
    BY <1>5, <2>1 DEF SessionInv
<1> QED
  BY <1>1, <1>2, <1>3, <1>4, <1>5 DEF SessionStep, Keeps, Hears

LEMMA SessionInit == Init => SessionInv
BY DEF Init, ClientInit, SessionInv, Telling

\* A committed write adds an acknowledgement at most.
LEMMA CommitKeeps ==
  ASSUME NEW d, Commit(d)
  PROVE  Keeps
<1> DEFINE w == Head(pending[owner])
           a(ok) == [type |-> "ack", op |-> w.op, screen |-> w.screen,
                     doc |-> d, ok |-> ok]
<1>1. \A ok : a(ok).type # "told"
  OBVIOUS
<1>2. inbox' = inbox \/ \E ok : inbox' = Append(inbox, a(ok))
  BY DEF Commit, Acked
<1>3. UNCHANGED <<user, owner>>
  BY DEF Commit
<1> HIDE DEF a
<1> QED
  BY <1>1, <1>2, <1>3 DEF Keeps

LEMMA RaiseKeeps ==
  ASSUME NEW r, Raise(r)
  PROVE  Keeps
<1> DEFINE a(docs) == [type |-> "answer", req |-> r, docs |-> docs]
<1>1. \A docs : a(docs).type # "told"
  OBVIOUS
<1>2. \E docs : inbox' = Append(inbox, a(docs))
  BY DEF Raise
<1>3. UNCHANGED <<user, owner>>
  BY DEF Raise
<1> HIDE DEF a
<1> QED
  BY <1>1, <1>2, <1>3 DEF Keeps

LEMMA SessionSteps ==
  ASSUME [Next]_vars PROVE SessionStep
<1>1. CASE Answering
  BY <1>1, RaiseKeeps DEF Answering, SessionStep
<1>2. CASE Committing
  BY <1>2, CommitKeeps DEF Committing, SessionStep
<1>3. CASE SessionTold
  BY <1>3 DEF SessionTold, HandleCredentialChange, Delivered, SessionStep, Hears
<1>4. CASE CheckAnswer \/ FavoriteAnswer \/ DeleteAnswer \/ WriteDone
  <2>1. inbox # <<>> /\ Head(inbox).type # "told" /\ inbox' = Tail(inbox)
    BY <1>4 DEF CheckAnswer, FavoriteAnswer, DeleteAnswer, WriteDone, AnswerTo, Delivered
  <2>2. UNCHANGED <<user, owner>>
    BY <1>4 DEF CheckAnswer, FavoriteAnswer, DeleteAnswer, WriteDone
  <2> QED
    BY <2>1, <2>2 DEF SessionStep, Keeps
<1>5. CASE SwitchUser
  BY <1>5 DEF SwitchUser, ChangeUser, SessionStep
<1>6. CASE Restart
  BY <1>6 DEF Restart, RestartClient, SessionStep
<1> QED
  BY <1>1, <1>2, <1>3, <1>4, <1>5, <1>6
  DEF Next, UserStep, Handling, Open, Appear, Leave, Back, TapFavorite, TapDelete,
      OtherDevice, RemotePublish, RemoteWrite, SessionStep, Keeps, vars, clientVars

\* A write that was not in the queue before is one of Auth's user in the queue
\* of the client's.
NewWrites ==
  \A u \in Uids : \A i \in DOMAIN pending'[u] :
    i > Len(pending[u]) => u = owner /\ pending'[u][i].uid = user

LEMMA EnqueueNew ==
  ASSUME ClientTypeOK, NEW op, NEW s, NEW docs, Enqueue(op, s, docs)
  PROVE  NewWrites
<1> DEFINE w == [op |-> op, uid |-> user, screen |-> s, docs |-> docs]
<1>1. pending' = pending \/ pending' = [pending EXCEPT ![owner] = Append(@, w)]
  BY DEF Enqueue
<1>2. w.uid = user
  OBVIOUS
<1> HIDE DEF w
<1> SUFFICES ASSUME NEW u \in Uids, NEW i \in DOMAIN pending'[u], i > Len(pending[u])
             PROVE  u = owner /\ pending'[u][i].uid = user
  BY DEF NewWrites
<1>3. pending \in [Uids -> Seq(Write)] /\ pending[u] \in Seq(Write)
  BY DEF ClientTypeOK
<1>4. pending'[u] # pending[u]
  BY <1>3
<1>5. u = owner /\ pending'[u] = Append(pending[u], w)
  BY <1>1, <1>3, <1>4
<1>6. i = Len(pending[u]) + 1
  BY <1>3, <1>5
<1> QED
  BY <1>2, <1>3, <1>5, <1>6

LEMMA NoNewWrites ==
  ASSUME ClientTypeOK, \A u \in Uids : Len(pending'[u]) <= Len(pending[u]),
         pending' \in [Uids -> Seq(Write)]
  PROVE  NewWrites
<1>1. \A u \in Uids : /\ Len(pending[u]) \in Nat /\ Len(pending'[u]) \in Nat
                      /\ DOMAIN pending'[u] = 1 .. Len(pending'[u])
  BY DEF ClientTypeOK
<1> QED
  BY <1>1 DEF NewWrites

LEMMA PendingNew ==
  ASSUME TypeOK, [Next]_vars
  PROVE  NewWrites
<1>0. ClientTypeOK /\ pending \in [Uids -> Seq(Write)] /\ pending' \in [Uids -> Seq(Write)]
  BY NextType DEF TypeOK, ClientTypeOK
<1>1. CASE pending' = pending
  BY <1>0, <1>1, NoNewWrites
<1>2. CASE Restart
  <2>1. \A u \in Uids : pending'[u] = Orphan(pending[u])
    BY <1>2 DEF Restart, RestartClient
  <2>2. \A u \in Uids : Len(pending'[u]) = Len(pending[u])
    <3> SUFFICES ASSUME NEW u \in Uids PROVE Len(pending'[u]) = Len(pending[u])
      OBVIOUS
    <3>1. pending[u] \in Seq(Write) /\ pending'[u] \in Seq(Write)
      BY <1>0
    <3>2. DOMAIN pending'[u] = DOMAIN pending[u]
      BY <2>1, <3>1, OrphanType
    <3> QED
      BY <3>1, <3>2
  <2>3. \A u \in Uids : Len(pending[u]) \in Nat
    BY <1>0
  <2> QED
    BY <1>0, <2>2, <2>3, NoNewWrites
<1>3. ASSUME NEW d \in Docs, Commit(d) PROVE NewWrites
  <2>1. /\ pending[owner] \in Seq(Write) /\ pending[owner] # <<>>
        /\ pending' = [pending EXCEPT ![owner] = Answered(@, d)]
    BY <1>3, CommitType DEF Commit
  <2>2. Len(Answered(pending[owner], d)) <= Len(pending[owner])
    BY <2>1, AnsweredType DEF Answered
  <2>3. \A u \in Uids : Len(pending'[u]) <= Len(pending[u])
    <3> SUFFICES ASSUME NEW u \in Uids PROVE Len(pending'[u]) <= Len(pending[u])
      OBVIOUS
    <3>1. Len(pending[u]) \in Nat
      BY <1>0
    <3>2. CASE u = owner
      BY <1>0, <2>1, <2>2, <3>2
    <3>3. CASE u # owner
      BY <1>0, <2>1, <3>1, <3>3
    <3> QED
      BY <3>2, <3>3
  <2> QED
    BY <1>0, <2>3, NoNewWrites
<1>4. CASE FavoriteAnswer \/ DeleteAnswer
  BY <1>0, <1>4, EnqueueNew DEF FavoriteAnswer, DeleteAnswer
<1> QED
  BY <1>1, <1>2, <1>3, <1>4
  DEF Next, UserStep, Open, Appear, Leave, Back, TapFavorite, TapDelete,
      SwitchUser, ChangeUser, Answering, Raise, Committing, Handling, CheckAnswer,
      WriteDone, SessionTold, HandleCredentialChange, OtherDevice, RemotePublish,
      RemoteWrite, vars, clientVars

\* However many changes of account overtake one another, and whatever answers,
\* refusals and restarts come between Auth and the client: once the client has
\* heard of the last, a write is queued for nobody but the account it names.
THEOREM WritesFindTheirQueue == Spec => NamesMatchQueues
<1>1. Init => TypeOK /\ SessionInv
  BY InitType, SessionInit
<1>2. TypeOK /\ SessionInv /\ [Next]_vars => TypeOK' /\ SessionInv'
  BY NextType, SessionSteps, SessionKept DEF TypeOK, ClientTypeOK
<1>3. TypeOK /\ SessionInv /\ [Next]_vars => [NamedForItsQueue]_vars
  BY PendingNew DEF SessionInv, NamedForItsQueue, NewWrites
<1> QED
  BY <1>1, <1>2, <1>3, PTL DEF Spec, NamesMatchQueues

-----------------------------------------------------------------------------
(***************************************************************************)
(* Deletions are the author's, in one session and without shared titles.   *)
(*                                                                         *)
(* The permission is followed from the button to the server: a button that *)
(* is shown belongs to the user, so the titles asked for under it are the  *)
(* user's alone, so are the ads of the answers, and so are those of the    *)
(* queued deletions.                                                       *)
(***************************************************************************)
\* The steps that change both a queue and the documents are commits.
LEMMA OnlyCommits ==
  ASSUME [Next]_vars, pending' # pending, store' # store
  PROVE  \E d \in Docs : Commit(d)
BY DEF Next, UserStep, Open, Appear, Leave, Back, TapFavorite, TapDelete,
       SwitchUser, ChangeUser, Restart, RestartClient, Answering, Raise,
       Committing, Handling, CheckAnswer, FavoriteAnswer, DeleteAnswer,
       WriteDone, SessionTold, HandleCredentialChange, OtherDevice, RemotePublish, RemoteWrite, vars, clientVars

\* What a commit does, seen from the document.
LEMMA CommitStep ==
  ASSUME TypeOK, NEW d \in Docs, Commit(d), store' # store
  PROVE  \E j \in DOMAIN pending[owner] :
           /\ pending[owner][j] \in Write
           /\ d \in pending[owner][j].docs
           /\ store' = [store EXCEPT ![d] =
                ApplyWrite(pending[owner][j].op, pending[owner][j].uid, @)]
BY CommitType DEF Commit

Mine(docs) == \A d \in docs : AuthorOf[d] = user

ButtonInv == \A s \in Screens :
  delShown[s] => open[s] \in Docs /\ AuthorOf[open[s]] = user

ReadInv == \A r \in Request :
  r.kind = "delete" /\ reads[r] > 0 => Mine({d \in Docs : TitleOf[d] = r.title})

AnswerInv == \A i \in DOMAIN inbox :
  inbox[i].type = "answer" /\ inbox[i].req.kind = "delete" => Mine(inbox[i].docs)

WriteInv == \A i \in DOMAIN pending[owner] :
  pending[owner][i].op = "delete" => Mine(pending[owner][i].docs)

\* Without changes of session Auth and the client have one user throughout.
CalmInv == owner = user /\ ~Telling

DeletionInv == CalmInv /\ ButtonInv /\ ReadInv /\ AnswerInv /\ WriteInv

LEMMA CalmKept ==
  ASSUME TypeOK, CalmInv, SessionStep, user' = user
  PROVE  owner' = owner /\ CalmInv'
<1>0. inbox \in Seq(Callback) /\ \A i \in DOMAIN inbox : inbox[i].type # "told"
  BY DEF TypeOK, ClientTypeOK, CalmInv, Telling
<1>1. ~Hears
  BY <1>0 DEF Hears
<1>2. owner' = owner
  BY <1>1 DEF SessionStep, Keeps, CalmInv
<1>3. \A i \in DOMAIN inbox' : inbox'[i].type # "told"
  <2>1. CASE inbox' = inbox \/ inbox' = <<>>
    BY <1>0, <2>1
  <2>2. ASSUME NEW c, c.type # "told", inbox' = Append(inbox, c)
        PROVE  \A i \in DOMAIN inbox' : inbox'[i].type # "told"
    BY <1>0, <2>2, AppendElement
  <2>3. CASE inbox # <<>> /\ inbox' = Tail(inbox)
    BY <1>0, <2>3, InboxType
  <2> QED
    BY <1>1, <2>1, <2>2, <2>3 DEF SessionStep, Keeps
<1> QED
  BY <1>2, <1>3 DEF CalmInv, Telling

LEMMA SameUser ==
  ASSUME "switch" \notin Disturbances, TypeOK, CalmInv, [Next]_vars
  PROVE  user' = user /\ owner' = owner /\ CalmInv'
<1>1. SessionStep
  BY SessionSteps
<1>2. user' = user
  BY <1>1 DEF SessionStep, Keeps, Hears
<1> QED
  BY <1>1, <1>2, CalmKept

\* Only viewDidLoad shows the button, and it asks who the author is.
LEMMA ButtonNext ==
  ASSUME TypeOK, ButtonInv, [Next]_vars, user' = user
  PROVE  ButtonInv'
<1>1. CASE UNCHANGED <<open, delShown>>
  BY <1>1 DEF ButtonInv
<1>2. ASSUME NEW s \in Screens, NEW d \in Docs, Open(s, d) PROVE ButtonInv'
  BY <1>2 DEF Open, ButtonInv, TypeOK
<1>3. ASSUME NEW s \in Screens, Close(s) PROVE ButtonInv'
  BY <1>3 DEF Close, ButtonInv, TypeOK
<1>4. CASE Restart
  BY <1>4 DEF Restart, ButtonInv
<1>5. CASE WriteDone
  <2>1. Head(inbox).screen \in Screens
    BY <1>5, InboxType DEF WriteDone, Delivered, Ack, TypeOK, ClientTypeOK
  <2> QED
    BY <1>1, <1>3, <1>5, <2>1 DEF WriteDone, screenVars
<1> QED
  BY <1>1, <1>2, <1>3, <1>4, <1>5
  DEF Next, UserStep, Appear, Leave, Back, TapFavorite, TapDelete, SwitchUser,
      Answering, Committing, Handling, CheckAnswer, FavoriteAnswer,
      DeleteAnswer, SessionTold, OtherDevice, vars, screenVars

LEMMA ReadNext ==
  ASSUME OneAuthorPerTitle, TypeOK, ButtonInv, ReadInv, [Next]_vars, user' = user
  PROVE  ReadInv'
<1> SUFFICES ASSUME NEW r \in Request, r.kind = "delete", reads'[r] > 0,
                    NEW d \in Docs, TitleOf[d] = r.title
             PROVE  AuthorOf[d] = user
  BY DEF ReadInv, Mine
<1>0. reads \in [Request -> Nat]
  BY DEF TypeOK, ClientTypeOK
<1>1. CASE reads[r] > 0
  BY <1>1 DEF ReadInv, Mine
<1>2. ASSUME NEW k, NEW s \in Screens, AskFor(k, s), reads[r] = 0
      PROVE  k = "delete" /\ r.title = TitleOf[open[s]]
  <2> DEFINE q == [kind |-> k, screen |-> s, title |-> TitleOf[open[s]], uid |-> Compared(k)]
  <2>1. reads' = [reads EXCEPT ![q] = @ + 1]
    BY <1>2 DEF AskFor, Ask
  <2>2. q.kind = k /\ q.title = TitleOf[open[s]]
    OBVIOUS
  <2> HIDE DEF q
  <2>3. r = q
    BY <1>0, <1>2, <2>1
  <2> QED
    BY <2>2, <2>3
<1>3. CASE reads[r] = 0
  <2>1. CASE \E s \in Screens : Appear(s) \/ TapFavorite(s)
    BY <1>2, <1>3, <2>1 DEF Appear, TapFavorite
  <2>2. ASSUME NEW s \in Screens, TapDelete(s) PROVE AuthorOf[d] = user
    <3>1. AskFor("delete", s) /\ open[s] \in Docs /\ AuthorOf[open[s]] = user
      BY <2>2 DEF TapDelete, ButtonInv
    <3>2. TitleOf[d] = TitleOf[open[s]]
      BY <1>2, <1>3, <3>1
    <3> QED
      BY <3>1, <3>2 DEF OneAuthorPerTitle
  <2>3. ASSUME NEW q \in Request, Raise(q) PROVE FALSE
    BY <1>0, <1>3, <2>3 DEF Raise
  <2>4. CASE reads' = reads \/ Restart
    BY <1>0, <1>3, <2>4 DEF Restart, RestartClient
  <2> QED
    BY <2>1, <2>2, <2>3, <2>4
    DEF Next, UserStep, Open, Leave, Back, SwitchUser, ChangeUser, Answering,
        Committing, Commit, Handling, CheckAnswer, FavoriteAnswer, DeleteAnswer,
        WriteDone, SessionTold, HandleCredentialChange, OtherDevice, RemotePublish,
        RemoteWrite, vars, clientVars
<1> QED
  BY <1>0, <1>1, <1>3

LEMMA AnswerNext ==
  ASSUME TypeOK, ReadInv, AnswerInv, [Next]_vars, user' = user
  PROVE  AnswerInv'
<1> SUFFICES ASSUME NEW i \in DOMAIN inbox', inbox'[i].type = "answer",
                    inbox'[i].req.kind = "delete"
             PROVE  Mine(inbox'[i].docs)
  BY DEF AnswerInv, Mine
<1>1. CASE \E j \in DOMAIN inbox : inbox[j] = inbox'[i]
  BY <1>1 DEF AnswerInv
<1>2. ASSUME NEW r \in Request, reads[r] > 0, inbox'[i].req = r,
             inbox'[i].docs \subseteq Known(r)
      PROVE  Mine(inbox'[i].docs)
  BY <1>2 DEF ReadInv, Mine, Known, ByTitle, ByMail
<1> QED
  BY <1>1, <1>2, InboxStep DEF Delivers

LEMMA WriteNext ==
  ASSUME TypeOK, AnswerInv, WriteInv, [Next]_vars, user' = user, owner' = owner
  PROVE  WriteInv'
<1> SUFFICES ASSUME NEW i \in DOMAIN pending'[owner], pending'[owner][i].op = "delete"
             PROVE  Mine(pending'[owner][i].docs)
  BY DEF WriteInv, Mine
<1>0. owner \in Uids /\ inbox \in Seq(Callback)
  BY DEF TypeOK, ClientTypeOK
<1>1. CASE Continues(pending'[owner][i], owner)
  BY <1>1 DEF Continues, WriteInv, Mine
<1>2. CASE Begins(pending'[owner][i], owner)
  BY <1>0, <1>2, InboxType DEF Begins, AnswerInv
<1> QED
  BY <1>0, <1>1, <1>2, PendingStep

\* Nobody's ad is taken down by somebody else's delete button, if no two users
\* use the same title and nobody signs out: the two hypotheses that the code
\* needs and does not check.
THEOREM DeletionSafety ==
  ASSUME OneAuthorPerTitle, "switch" \notin Disturbances
  PROVE  Spec => DeletionsByAuthors
<1>1. Init => TypeOK /\ DeletionInv
  BY InitType
  DEF Init, ClientInit, DeletionInv, CalmInv, Telling, ButtonInv, ReadInv, AnswerInv,
      WriteInv, Uids
<1>2. TypeOK /\ DeletionInv /\ [Next]_vars => TypeOK' /\ DeletionInv'
  BY NextType, SameUser, ButtonNext, ReadNext, AnswerNext, WriteNext DEF DeletionInv
<1>3. TypeOK /\ DeletionInv /\ [Next]_vars => [OnlyAuthorsDelete]_vars
  <2> SUFFICES ASSUME TypeOK, DeletionInv, [Next]_vars, pending' # pending,
                      NEW d \in Docs,
                      store[d].state = "ad", store'[d].state # "ad"
               PROVE  AuthorOf[d] = user
    BY DEF OnlyAuthorsDelete
  <2>0. store \in [Docs -> Document]
    BY DEF TypeOK, ClientTypeOK
  <2>1. PICK e \in Docs : Commit(e)
    BY OnlyCommits
  <2>2. PICK j \in DOMAIN pending[owner] :
          /\ pending[owner][j] \in Write
          /\ e \in pending[owner][j].docs
          /\ store' = [store EXCEPT ![e] =
               ApplyWrite(pending[owner][j].op, pending[owner][j].uid, @)]
    BY <2>1, CommitStep
  <2>3. e = d
    BY <2>0, <2>2
  <2>4. store'[d] = ApplyWrite(pending[owner][j].op, pending[owner][j].uid, store[d])
    BY <2>0, <2>2, <2>3
  <2>5. pending[owner][j].op = "delete"
    BY <2>0, <2>2, <2>4 DEF ApplyWrite, Write, Ops, Exists, Document
  <2> QED
    BY <2>2, <2>3, <2>5 DEF DeletionInv, WriteInv, Mine
<1> QED
  BY <1>1, <1>2, <1>3, PTL DEF Spec, DeletionsByAuthors
=============================================================================
