--------------------------- MODULE FirestoreClient ---------------------------
(***************************************************************************)
(* One device's view of the "ads" collection: the documents at the server, *)
(* the Firestore client that answers the application's queries and sends   *)
(* its writes, and the main dispatch queue on which every callback runs.   *)
(*                                                                         *)
(* A query is answered once, at some later time, from the server's         *)
(* documents with this user's unsent writes laid over them; writes go out  *)
(* one by one in the order they were made, from a queue that is kept per   *)
(* user and survives a restart; answers and acknowledgements reach the     *)
(* application in the order the client produced them.                      *)
(*                                                                         *)
(* Auth changes the account at once; the client hears of it on the main    *)
(* queue, behind the callbacks that were there before.                     *)
(***************************************************************************)
EXTENDS Naturals, Sequences, FiniteSets, SequencesExt, Functions

CONSTANTS
  Docs,            \* the documents the collection may ever hold
  Users,           \* the accounts
  NoUser,          \* nobody is signed in: the field "???" a write then names
  Titles,          \* the values of the field "Title"
  TitleOf,         \* TitleOf[d]: the title ad d is published with
  AuthorOf,        \* AuthorOf[d]: the account whose address is in "Mail"
  Screens,         \* the controllers alive at the same time
  KindsOf,         \* KindsOf[s]: the queries that controller s makes, by handler
  NoScreen,        \* no controller: the callback died with the process
  Disturbances,    \* what may go wrong around the device, see Allowed
  MaxOutstanding   \* bound: calls the user may have under way at once

\* "remote": other devices use the same collection; "reject": the server may
\* refuse a write or a query; "offline": without a connection, queries are
\* answered from the cache; "switch": accounts change; "restart": the process
\* is killed and started again.
Allowed == {"remote", "reject", "offline", "switch", "restart"}

Uids == Users \cup {NoUser}

\* The kinds by their whereField clauses: on the title, on the user's mark, on
\* the author's address.  "listAll" has none.
ByTitle == {"check", "favorite", "delete", "remove"}
ByMark  == {"check", "listMarked"}
ByMail  == {"listOwn"}
Kinds   == ByTitle \cup ByMark \cup ByMail \cup {"listAll"}

ASSUME ClientAssumption ==
  /\ NoUser \notin Users
  /\ NoScreen \notin Screens
  /\ KindsOf \in [Screens -> SUBSET Kinds]
  /\ TitleOf \in [Docs -> Titles]
  /\ AuthorOf \in [Docs -> Users]
  /\ Disturbances \subseteq Allowed
  /\ MaxOutstanding \in Nat

VARIABLES
  store,     \* store[d]: the document at the server
  user,      \* Auth's current user, or NoUser
  owner,     \* the user whose write queue the client works on
  pending,   \* pending[u]: the writes of u not yet answered by the server
  reads,     \* reads[r]: how many copies of query r wait for an answer
  inbox      \* the callbacks waiting for the main queue, oldest first

clientVars == <<store, user, owner, pending, reads, inbox>>

-----------------------------------------------------------------------------
(***************************************************************************)
(* Documents.  A "ghost" has no field but favourite marks: a merge into a  *)
(* document that was deleted creates it anew without its title.            *)
(***************************************************************************)
DocStates == {"unborn", "ad", "gone", "ghost"}
Document  == [state : DocStates, marks : SUBSET Uids]
Exists(s) == s.state \in {"ad", "ghost"}

Ops == {"mark", "unmark", "delete"}

\* One pass of a loop over the documents of an answer: the same write to each
\* of docs.  The server has yet to answer for the documents that remain.
Write == [op : Ops, uid : Uids, screen : Screens \cup {NoScreen},
          docs : SUBSET Docs]

\* Mutant: the merge brings the deleted ad back instead of a bare document.
ApplyWrite_Revives(op, uid, s) ==
  CASE op = "mark"   -> [state |-> "ad", marks |-> s.marks \cup {uid}]
    [] op = "unmark" -> [s EXCEPT !.marks = @ \ {uid}]
    [] op = "delete" -> [state |-> "gone", marks |-> {}]

\* setData(merge) and updateData touch the one field; delete drops them all.
ApplyWrite(op, uid, s) ==
  CASE op = "mark" ->
         IF Exists(s) THEN [s EXCEPT !.marks = @ \cup {uid}]
                      ELSE [state |-> "ghost", marks |-> {uid}]
    [] op = "unmark" ->
         IF Exists(s) THEN [s EXCEPT !.marks = @ \ {uid}] ELSE s
    [] op = "delete" -> [state |-> "gone", marks |-> {}]

\* updateData is sent with the precondition that the document exists.
Accepts(op, s) == op = "unmark" => Exists(s)

\* Mutant: queries are answered from the server's documents alone.
LocalDoc_ServerOnly(d) == store[d]

\* The document as this device sees it: its own unsent writes are applied.
LocalDoc(d) ==
  FoldLeft(LAMBDA s, w : IF d \in w.docs THEN ApplyWrite(w.op, w.uid, s) ELSE s,
           store[d], pending[owner])

-----------------------------------------------------------------------------
(***************************************************************************)
(* Queries and callbacks.  The kind names the handler that will run.       *)
(***************************************************************************)
Request == {r \in [kind : Kinds, screen : Screens, title : Titles, uid : Uids] :
              /\ r.kind \in KindsOf[r.screen]
              /\ r.uid # NoUser => r.kind \in ByMark \cup ByMail}

\* The account that a query asked now compares with, if it does.
Compared(kind) == IF kind \in ByMark \cup ByMail THEN user ELSE NoUser

Answer   == [type : {"answer"}, req : Request, docs : SUBSET Docs]
Ack      == [type : {"ack"}, op : Ops, screen : Screens, doc : Docs, ok : BOOLEAN]
Told     == [type : {"told"}, uid : Uids]
Callback == Answer \cup Ack \cup Told

\* The title is the server's: no write of this device gives a document one, and
\* a ghost has none, so that no loop over an answer keeps it.  With nobody signed
\* in the query asks for the field "oups", which no document has.
Matches(r, d) ==
  LET s == LocalDoc(d)
  IN  /\ store[d].state = "ad" /\ s.state = "ad"
      /\ r.kind \in ByTitle => TitleOf[d] = r.title
      /\ r.kind \in ByMark => r.uid # NoUser /\ r.uid \in s.marks
      /\ r.kind \in ByMail => AuthorOf[d] = r.uid

Result(r) == {d \in Docs : Matches(r, d)}

\* What a cache may still hold of these, whatever became of it since: titles
\* and authors do not change.
Known(r) ==
  {d \in Docs : /\ store[d].state # "unborn"
                /\ r.kind \in ByTitle => TitleOf[d] = r.title
                /\ r.kind \in ByMail => AuthorOf[d] = r.uid}

\* A failed query runs a handler that only logs, as an empty answer does.
Answers(r) ==
  {Result(r)} \cup (IF "reject"  \in Disturbances THEN {{}} ELSE {})
              \cup (IF "offline" \in Disturbances THEN SUBSET Known(r) ELSE {})

ScreenOf(c) ==
  CASE c.type = "answer" -> c.req.screen
    [] c.type = "ack"    -> c.screen
    [] c.type = "told"   -> NoScreen

\* A change of session of which the client has not heard.
Telling == \E i \in DOMAIN inbox : inbox[i].type = "told"

\* A controller that some callback still holds a reference to.
Held(s) ==
  \/ \E r \in Request : r.screen = s /\ reads[r] > 0
  \/ \E i \in DOMAIN inbox : ScreenOf(inbox[i]) = s
  \/ \E u \in Uids : \E i \in DOMAIN pending[u] : pending[u][i].screen = s

Quiet ==
  /\ \A r \in Request : reads[r] = 0
  /\ inbox = <<>>
  /\ pending[owner] = <<>>

\* Calls of the device under way: queries, callbacks, and writes of all users.
Outstanding ==
  SumFunction(reads) + Len(inbox) + SumFunction([u \in Uids |-> Len(pending[u])])

-----------------------------------------------------------------------------
(***************************************************************************)
(* What the application's handlers do to the client.                       *)
(***************************************************************************)

\* getDocuments: the handler runs later.
Ask(r) ==
  /\ Outstanding < MaxOutstanding
  /\ reads' = [reads EXCEPT ![r] = @ + 1]

\* One write to each document of an answer: named for Auth's user of now, put
\* into the queue of the client's.
Enqueue(op, s, docs) ==
  IF docs = {} THEN UNCHANGED pending
  ELSE pending' = [pending EXCEPT ![owner] =
         Append(@, [op |-> op, uid |-> user, screen |-> s, docs |-> docs])]

-----------------------------------------------------------------------------
(***************************************************************************)
(* What the client, the server and the other devices do by themselves.     *)
(***************************************************************************)

\* Mutant: a query that was answered is still waiting, or was never asked.
Raise_Unasked(r) ==
  /\ reads' = [reads EXCEPT ![r] = @ - 1]
  /\ inbox' = Append(inbox, [type |-> "answer", req |-> r, docs |-> Result(r)])
  /\ UNCHANGED <<store, user, owner, pending>>

\* The first synchronised snapshot of a query answers it, or the cache does
\* when there is no connection; the handler is dispatched to the main queue.
Raise(r) ==
  /\ reads[r] > 0
  /\ reads' = [reads EXCEPT ![r] = @ - 1]
  /\ \E docs \in Answers(r) :
       inbox' = Append(inbox, [type |-> "answer", req |-> r, docs |-> docs])
  /\ UNCHANGED <<store, user, owner, pending>>

\* The queue once the server has answered for document d of its head.
Answered(q, d) ==
  IF Head(q).docs = {d} THEN Tail(q)
                        ELSE [q EXCEPT ![1].docs = @ \ {d}]

\* Mutant: the outcome is not looked at.
Acked_AlwaysFine(w, d, ok) ==
  IF w.screen = NoScreen THEN inbox
  ELSE Append(inbox, [type |-> "ack", op |-> w.op, screen |-> w.screen,
                      doc |-> d, ok |-> TRUE])

\* Mutant: an acknowledgement overtakes the answers before it.
Acked_First(w, d, ok) ==
  IF w.screen = NoScreen THEN inbox
  ELSE <<[type |-> "ack", op |-> w.op, screen |-> w.screen,
          doc |-> d, ok |-> ok]>> \o inbox

Acked(w, d, ok) ==
  IF w.screen = NoScreen THEN inbox
  ELSE Append(inbox, [type |-> "ack", op |-> w.op, screen |-> w.screen,
                      doc |-> d, ok |-> ok])

\* Mutant: a write that the server cannot take stays at the head of the queue.
Commit_Retries(d) ==
  /\ pending[owner] # <<>>
  /\ LET w == Head(pending[owner])
     IN  /\ d \in w.docs
         /\ Accepts(w.op, store[d])
         /\ store' = [store EXCEPT ![d] = ApplyWrite(w.op, w.uid, @)]
         /\ inbox' = Acked(w, d, TRUE)
  /\ pending' = [pending EXCEPT ![owner] = Answered(@, d)]
  /\ UNCHANGED <<user, owner, reads>>

\* The server takes or refuses the oldest write; either way it leaves the
\* queue and its completion handler is dispatched.
Commit(d) ==
  /\ pending[owner] # <<>>
  /\ LET w == Head(pending[owner])
     IN  /\ d \in w.docs
         /\ \/ /\ Accepts(w.op, store[d])
               /\ store' = [store EXCEPT ![d] = ApplyWrite(w.op, w.uid, @)]
               /\ inbox' = Acked(w, d, TRUE)
            \/ /\ ~Accepts(w.op, store[d]) \/ "reject" \in Disturbances
               /\ inbox' = Acked(w, d, FALSE)
               /\ UNCHANGED store
  /\ pending' = [pending EXCEPT ![owner] = Answered(@, d)]
  /\ UNCHANGED <<user, owner, reads>>

\* Another device publishes an ad.
RemotePublish(d) ==
  /\ "remote" \in Disturbances
  /\ store[d].state = "unborn"
  /\ store' = [store EXCEPT ![d] = [state |-> "ad", marks |-> {}]]
  /\ UNCHANGED <<user, owner, pending, reads, inbox>>

\* Another device runs this same code on an ad that it has listed.
RemoteWrite(op, u, d) ==
  /\ "remote" \in Disturbances
  /\ store[d].state # "unborn"
  /\ Accepts(op, store[d])
  /\ store' = [store EXCEPT ![d] = ApplyWrite(op, u, @)]
  /\ UNCHANGED <<user, owner, pending, reads, inbox>>

\* Mutant: nothing is posted when the client is already at work for that user.
ChangeUser_IfNew(u) ==
  /\ "switch" \in Disturbances
  /\ user # u /\ Outstanding < MaxOutstanding
  /\ user' = u
  /\ inbox' = IF u = owner THEN inbox ELSE Append(inbox, [type |-> "told", uid |-> u])
  /\ UNCHANGED <<store, owner, pending, reads>>

\* A session begins, ends or makes way for another: Auth has the new user at
\* once and dispatches the notification, which names it, to the main queue.
ChangeUser(u) ==
  /\ "switch" \in Disturbances
  /\ user # u /\ Outstanding < MaxOutstanding
  /\ user' = u
  /\ inbox' = Append(inbox, [type |-> "told", uid |-> u])
  /\ UNCHANGED <<store, owner, pending, reads>>

\* The client hears of it: from now on calls go to that user's write queue.
HandleCredentialChange ==
  /\ owner' = Head(inbox).uid
  /\ UNCHANGED <<store, user, pending, reads>>

\* The process is killed: queries and callbacks are lost, queued writes stay
\* on disk and are sent again, with nobody left to hear of the outcome.
Orphan(q) == [i \in DOMAIN q |-> [q[i] EXCEPT !.screen = NoScreen]]

RestartClient ==
  /\ "restart" \in Disturbances
  /\ reads' = [r \in Request |-> 0]
  /\ inbox' = <<>>
  /\ pending' = [u \in Uids |-> Orphan(pending[u])]
  /\ owner' = user
  /\ UNCHANGED <<store, user>>

ClientInit ==
  /\ store \in [Docs -> [state : {"unborn"}, marks : {{}}]
                          \cup [state : {"ad"}, marks : SUBSET Users]]
  /\ user \in Users /\ owner = user
  /\ pending = [u \in Uids |-> <<>>]
  /\ reads = [r \in Request |-> 0]
  /\ inbox = <<>>

ClientTypeOK ==
  /\ store \in [Docs -> Document]
  /\ user \in Uids /\ owner \in Uids
  /\ pending \in [Uids -> Seq(Write)]
  /\ reads \in [Request -> Nat]
  /\ inbox \in Seq(Callback)
=============================================================================
