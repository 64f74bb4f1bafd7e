------------------------------ MODULE StarProofs ------------------------------
(***************************************************************************)
(* The star of a detail screen follows the user's marks.  What the star    *)
(* will say is decided by the last of the writes, acknowledgements and     *)
(* answers under way; the inductive invariant says that this last word is  *)
(* what the device sees of the ads with the title, unless a deletion that  *)
(* will pop the screen is under way too.                                   *)
(***************************************************************************)
EXTENDS AdDetailProofs

\* One device alone, with one detail screen: nothing is refused, and no account
\* changes; the process may be killed at any time.
OneDetail(s) ==
  Screens = {s} /\ DetailKinds \subseteq KindsOf[s] /\ Disturbances \subseteq {"restart"}

\* The ads with the title as this device sees them, and whether the user has one
\* among the favourites.
LocalAds(t) == {d \in Docs : LocalDoc(d).state = "ad" /\ TitleOf[d] = t}
Wanted(t)   == \E d \in LocalAds(t) : user \in LocalDoc(d).marks

\* The last write in the queue is the screen's, not one that a restart orphaned.
Writing(s) == pending[owner] # <<>> /\ Last(pending[owner]).screen = s

\* What the handler of a callback does to the star, or to the screen.
Blackens(c) ==
  \/ c.type = "answer" /\ c.req.kind = "check" /\ c.docs # {}
  \/ c.type = "ack" /\ c.ok /\ c.op = "mark"
Whitens(c)  == c.type = "ack" /\ c.ok /\ c.op = "unmark"
Pops(c)     == c.type = "ack" /\ c.ok /\ c.op = "delete"

\* The callbacks in the order of the main queue, after what the star says now.
Black(s, i) == IF i = 0 THEN inFavorite[s] = "true" ELSE Blackens(inbox[i])
White(s, i) == IF i = 0 THEN inFavorite[s] = "false" ELSE Whitens(inbox[i])

\* A deletion that will pop the screen is under way.
Doomed(s) ==
  \/ \E i \in DOMAIN pending[owner] :
       pending[owner][i].op = "delete" /\ pending[owner][i].screen = s
  \/ \E i \in DOMAIN inbox : Pops(inbox[i])

Shows(s, t) == open[s] # NoAd /\ TitleOf[open[s]] = t
Alive(s, t) == Shows(s, t) /\ ~Doomed(s)

-----------------------------------------------------------------------------
(***************************************************************************)
(* The parts of the invariant.                                             *)
(***************************************************************************)
FrontOpen(s) == visible = s => open[s] # NoAd

OrphansFirst(s) ==
  \A i, j \in DOMAIN pending[owner] :
    i <= j /\ pending[owner][i].screen = s => pending[owner][j].screen = s

OwnReads(s, t) ==
  Shows(s, t) => \A r \in Request : reads[r] > 0 =>
    r.title = t /\ (r.kind = "check" => r.uid = user)

FullAnswers(s, t) ==
  Alive(s, t) => \A i \in DOMAIN inbox :
    inbox[i].type = "answer" /\ inbox[i].req.kind = "favorite"
      => inbox[i].docs = LocalAds(t)

OwnWrites(s, t) ==
  Alive(s, t) => \A i \in DOMAIN pending[owner] :
    pending[owner][i].screen = s
      => pending[owner][i].docs # {} /\ pending[owner][i].docs \subseteq LocalAds(t)

LastWriteSays(s, t) ==
  Alive(s, t) /\ Writing(s) => (Last(pending[owner]).op = "mark" <=> Wanted(t))

InboxSays(s, t) ==
  Alive(s, t) /\ ~Writing(s) =>
    \A i \in 0 .. Len(inbox) :
      /\ Black(s, i) /\ (\A j \in i + 1 .. Len(inbox) : ~White(s, j)) => Wanted(t)
      /\ White(s, i) /\ (\A j \in i + 1 .. Len(inbox) : ~Black(s, j)) => ~Wanted(t)

\* When nothing has decided the star yet, viewDidAppear's query will.
CheckComes(s, t) ==
  Alive(s, t) /\ ~Writing(s) /\ visible = s /\ Wanted(t)
    /\ (\A i \in 0 .. Len(inbox) : ~Black(s, i) /\ ~White(s, i))
    => \E r \in Request : reads[r] > 0 /\ r.kind = "check"

StarInv(s, t) ==
  /\ FrontOpen(s) /\ OrphansFirst(s) /\ OwnReads(s, t) /\ FullAnswers(s, t)
  /\ OwnWrites(s, t) /\ LastWriteSays(s, t) /\ InboxSays(s, t) /\ CheckComes(s, t)

\* What concerns the screen only while it is there, and no deletion is under way.
LEMMA NotAlive ==
  ASSUME NEW s, NEW t, FrontOpen(s)', OrphansFirst(s)', OwnReads(s, t)', ~Alive(s, t)'
  PROVE  StarInv(s, t)'
BY DEF StarInv, FullAnswers, OwnWrites, LastWriteSays, InboxSays, CheckComes

LEMMA OneDetailParts ==
  ASSUME NEW s, OneDetail(s), TypeOK, CalmInv
  PROVE  /\ s # NoScreen /\ s \in Screens
         /\ {"remote", "reject", "offline", "switch"} \cap Disturbances = {}
         /\ user \in Uids /\ owner = user /\ store \in [Docs -> Document]
         /\ reads \in [Request -> Nat] /\ inbox \in Seq(Callback)
         /\ pending \in [Uids -> Seq(Write)] /\ pending[owner] \in Seq(Write)
         /\ open \in [Screens -> Docs \cup {NoAd}]
         /\ inFavorite \in [Screens -> {"nil", "true", "false"}]
         /\ \A r \in Request : r.screen = s
         /\ \A i \in DOMAIN inbox : ScreenOf(inbox[i]) = s
         /\ \A i \in DOMAIN pending[owner] :
              pending[owner][i] \in Write /\ pending[owner][i].screen \in {s, NoScreen}
<1>1. s \in Screens /\ s # NoScreen /\ Screens = {s}
  BY ClientAssumption DEF OneDetail
<1>2. /\ user \in Uids /\ owner = user /\ store \in [Docs -> Document]
      /\ reads \in [Request -> Nat] /\ inbox \in Seq(Callback)
      /\ pending \in [Uids -> Seq(Write)] /\ pending[owner] \in Seq(Write)
      /\ open \in [Screens -> Docs \cup {NoAd}]
      /\ inFavorite \in [Screens -> {"nil", "true", "false"}]
  BY DEF TypeOK, ClientTypeOK, CalmInv
<1>3. \A r \in Request : r.screen = s
  BY <1>1 DEF Request
<1>4. \A i \in DOMAIN inbox : ScreenOf(inbox[i]) = s
  <2> TAKE i \in DOMAIN inbox
  <2>1. inbox[i] \in Callback
    BY <1>2
  <2>2. inbox[i] \in Answer \cup Ack
    BY <2>1 DEF Callback, Told, CalmInv, Telling
  <2> QED
    BY <1>1, <1>3, <2>2 DEF Answer, Ack, ScreenOf
<1>5. \A i \in DOMAIN pending[owner] :
        pending[owner][i] \in Write /\ pending[owner][i].screen \in {s, NoScreen}
  <2> TAKE i \in DOMAIN pending[owner]
  <2>1. pending[owner][i] \in Write
    BY <1>2
  <2> QED
    BY <1>1, <2>1 DEF Write
<1> QED
  BY <1>1, <1>2, <1>3, <1>4, <1>5 DEF OneDetail

LEMMA SameAds ==
  ASSUME user' = user, \A d \in Docs : LocalDoc(d)' = LocalDoc(d), NEW t
  PROVE  LocalAds(t)' = LocalAds(t) /\ (Wanted(t)' <=> Wanted(t))
BY DEF LocalAds, Wanted

-----------------------------------------------------------------------------
(***************************************************************************)
(* The steps that leave the queues alone.                                  *)
(***************************************************************************)
LEMMA AskForStep ==
  ASSUME NEW s, OneDetail(s), TypeOK, CalmInv, NEW k \in DetailKinds, AskFor(k, s), open[s] # NoAd
  PROVE  \E r \in Request : /\ r.kind = k /\ r.title = TitleOf[open[s]]
                            /\ r.kind = "check" => r.uid = user
                            /\ reads' = [reads EXCEPT ![r] = @ + 1]
<1> DEFINE r == [kind |-> k, screen |-> s, title |-> TitleOf[open[s]], uid |-> Compared(k)]
<1>1. s \in Screens /\ user \in Uids /\ open[s] \in Docs
  BY OneDetailParts
<1>c. /\ r.uid \in Uids /\ (r.kind = "check" => r.uid = user)
      /\ r.uid # NoUser => r.kind \in ByMark \cup ByMail
  BY <1>1 DEF Compared, Uids, ByMark
<1>2. r.title \in Titles /\ r.kind \in KindsOf[s] /\ r.kind \in Kinds
  BY <1>1, ClientAssumption DEF OneDetail, DetailKinds, Kinds, ByTitle
<1>3. r \in Request
  BY <1>1, <1>c, <1>2 DEF Request
<1>4. reads' = [reads EXCEPT ![r] = @ + 1]
  BY DEF AskFor, Ask
<1> QED
  BY <1>c, <1>3, <1>4

LEMMA WaitStep ==
  ASSUME NEW s, NEW t, OneDetail(s), TypeOK, CalmInv, StarInv(s, t),
         UNCHANGED <<store, user, owner, pending, inbox, inFavorite>>,
         \/ reads' = reads /\ visible' \in {visible, NoScreen} /\ open' = open
         \/ /\ \E k \in DetailKinds : AskFor(k, s)
            /\ visible' = visible /\ open' = open /\ open[s] # NoAd
         \/ AskFor("check", s) /\ visible' = s /\ open' = open /\ open[s] # NoAd
         \/ reads' = reads /\ visible' # s /\ open'[s] = NoAd
  PROVE  StarInv(s, t)'
<1>1. /\ s # NoScreen /\ reads \in [Request -> Nat] /\ user' = user
      /\ \A d \in Docs : LocalDoc(d)' = LocalDoc(d)
      /\ "check" \in DetailKinds
  BY OneDetailParts, LocalSame DEF DetailKinds
<1>2. FrontOpen(s)'
  BY <1>1 DEF StarInv, FrontOpen
<1>3. OrphansFirst(s)'
  BY DEF StarInv, OrphansFirst
<1>4. CASE open'[s] = NoAd
  <2>1. ~Alive(s, t)' /\ OwnReads(s, t)'
    BY <1>4 DEF Alive, Shows, OwnReads
  <2> QED
    BY <1>2, <1>3, <2>1, NotAlive
<1>5. CASE open' = open
  <2>1. \/ reads' = reads
        \/ open[s] # NoAd /\ \E r \in Request :
             /\ r.title = TitleOf[open[s]] /\ (r.kind = "check" => r.uid = user)
             /\ reads' = [reads EXCEPT ![r] = @ + 1]
    BY <1>1, AskForStep
  <2>2. \A r \in Request : reads'[r] > 0 =>
          \/ reads[r] > 0
          \/ /\ open[s] # NoAd /\ r.title = TitleOf[open[s]]
             /\ r.kind = "check" => r.uid = user
    BY <1>1, <2>1
  <2>3. \A r \in Request : reads[r] > 0 => reads'[r] > 0
    BY <1>1, <2>1
  <2>4. OwnReads(s, t)'
    BY <1>5, <2>2 DEF StarInv, OwnReads, Shows
  <2>5. (Alive(s, t)' <=> Alive(s, t)) /\ (Writing(s)' <=> Writing(s))
    BY <1>5 DEF Alive, Shows, Doomed, Writing
  <2>6. /\ LocalAds(t)' = LocalAds(t) /\ (Wanted(t)' <=> Wanted(t))
        /\ \A i : (Black(s, i)' <=> Black(s, i)) /\ (White(s, i)' <=> White(s, i))
    BY <1>1, SameAds DEF Black, White
  <2>7. FullAnswers(s, t)' /\ OwnWrites(s, t)' /\ LastWriteSays(s, t)'
    BY <2>5, <2>6 DEF StarInv, FullAnswers, OwnWrites, LastWriteSays
  <2>8. InboxSays(s, t)'
    BY <2>5, <2>6 DEF StarInv, InboxSays
  <2>9. CheckComes(s, t)'
    <3>1. CASE visible' = s /\ visible # s
      <4>1. \E r \in Request : r.kind = "check" /\ reads' = [reads EXCEPT ![r] = @ + 1]
        BY <1>1, <1>5, <3>1, AskForStep
      <4>2. \E r \in Request : r.kind = "check" /\ reads'[r] > 0
        BY <1>1, <4>1
      <4> QED
        BY <4>2 DEF CheckComes
    <3>2. CASE visible' # s
      BY <3>2 DEF CheckComes
    <3>3. CASE visible = s
      BY <2>3, <2>5, <2>6, <3>3 DEF StarInv, CheckComes
    <3> QED
      BY <3>1, <3>2, <3>3
  <2> QED
    BY <1>2, <1>3, <2>4, <2>7, <2>8, <2>9 DEF StarInv
<1> QED
  BY <1>4, <1>5

LEMMA OpenStep ==
  ASSUME NEW s, NEW t, OneDetail(s), TypeOK, CalmInv, StarInv(s, t), NEW d \in Docs, Open(s, d)
  PROVE  StarInv(s, t)'
<1>0. /\ s # NoScreen /\ s \in Screens /\ inbox \in Seq(Callback) /\ user \in Uids /\ owner = user
      /\ pending[owner] \in Seq(Write) /\ inFavorite \in [Screens -> {"nil", "true", "false"}]
      /\ \A r \in Request : r.screen = s
      /\ \A i \in DOMAIN inbox : ScreenOf(inbox[i]) = s
  BY OneDetailParts
<1>1. UNCHANGED <<store, user, owner, pending, reads, inbox, visible>> /\ visible = NoScreen
  BY DEF Open, clientVars
<1>2. inFavorite'[s] = "nil"
  BY <1>0 DEF Open
<1>3. /\ \A r \in Request : ~(reads[r] > 0)
      /\ DOMAIN inbox = {}
      /\ \A i \in DOMAIN pending[owner] : pending[owner][i].screen # s
  BY <1>0 DEF Open, Held
<1>4. inbox = <<>> /\ Len(inbox) = 0
  BY <1>0, <1>3
<1>5. ~Writing(s)
  <2>1. pending[owner] # <<>> => Len(pending[owner]) \in DOMAIN pending[owner]
    BY <1>0
  <2> QED
    BY <1>3, <2>1 DEF Writing, Last
<1>6. FrontOpen(s)' /\ OrphansFirst(s)' /\ OwnReads(s, t)'
  BY <1>0, <1>1, <1>3 DEF StarInv, FrontOpen, OrphansFirst, OwnReads
<1>7. FullAnswers(s, t)' /\ OwnWrites(s, t)' /\ LastWriteSays(s, t)' /\ CheckComes(s, t)'
  BY <1>0, <1>1, <1>3, <1>5 DEF FullAnswers, OwnWrites, LastWriteSays, CheckComes, Writing
<1>8. InboxSays(s, t)'
  <2>1. \A i \in 0 .. Len(inbox') : ~Black(s, i)' /\ ~White(s, i)'
    BY <1>1, <1>2, <1>4 DEF Black, White
  <2> QED
    BY <2>1 DEF InboxSays
<1> QED
  BY <1>6, <1>7, <1>8 DEF StarInv

LEMMA RestartStep ==
  ASSUME NEW s, NEW t, OneDetail(s), TypeOK, CalmInv, Restart
  PROVE  StarInv(s, t)'
<1>0. /\ s # NoScreen /\ s \in Screens /\ user \in Uids /\ owner = user
      /\ pending \in [Uids -> Seq(Write)] /\ user' = user
  BY OneDetailParts DEF Restart, RestartClient
<1>1. open'[s] = NoAd /\ visible' # s
  BY <1>0, DetailAssumption DEF Restart
<1>2. pending'[owner'] = Orphan(pending[owner])
  BY <1>0 DEF Restart, RestartClient
<1>3. \A i \in DOMAIN pending'[owner'] : pending'[owner'][i].screen = NoScreen
  <2>1. \A i \in DOMAIN pending[owner] : pending[owner][i] \in Write
    BY <1>0
  <2>2. \A i \in DOMAIN pending[owner] : Orphan(pending[owner])[i].screen = NoScreen
    BY <2>1 DEF Orphan, Write
  <2> QED
    BY <1>0, <1>2, <2>2, OrphanType
<1>4. FrontOpen(s)' /\ OrphansFirst(s)' /\ OwnReads(s, t)' /\ ~Alive(s, t)'
  BY <1>0, <1>1, <1>3 DEF FrontOpen, OrphansFirst, OwnReads, Alive, Shows
<1> QED
  BY <1>4, NotAlive

-----------------------------------------------------------------------------
(***************************************************************************)
(* The steps that put a callback in the main queue, and those that take    *)
(* one out.                                                                *)
(***************************************************************************)

\* What a query asked by the screen is answered with: all there is.
LEMMA AnswerSays ==
  ASSUME NEW s, NEW t, OneDetail(s), TypeOK, CalmInv, user # NoUser, Shows(s, t), OwnReads(s, t),
         NEW r \in Request, reads[r] > 0, NEW docs \in Answers(r)
  PROVE  /\ r.kind = "favorite" => docs = LocalAds(t)
         /\ r.kind = "check" => (docs # {} <=> Wanted(t))
<1>1. docs = Result(r) /\ r.title = t /\ (r.kind = "check" => r.uid = user)
  BY OneDetailParts DEF Answers, OwnReads
<1>2. \A d \in Docs : LocalDoc(d).state = "ad" => store[d].state = "ad"
  BY LocalType DEF TypeOK
<1>3. CASE r.kind = "favorite"
  <2>1. \A d \in Docs : Matches(r, d) <=> d \in LocalAds(t)
    BY <1>1, <1>2, <1>3 DEF Matches, LocalAds, ByTitle, ByMark, ByMail
  <2> QED
    BY <1>1, <1>3, <2>1 DEF Result, LocalAds
<1>4. CASE r.kind = "check"
  <2>1. \A d \in Docs : Matches(r, d) <=> d \in LocalAds(t) /\ user \in LocalDoc(d).marks
    BY <1>1, <1>2, <1>4 DEF Matches, LocalAds, ByTitle, ByMark, ByMail
  <2> QED
    BY <1>1, <1>4, <2>1 DEF Result, Wanted, LocalAds
<1> QED
  BY <1>3, <1>4

\* A callback is put behind the others; the writes in the queue are as they were.
LEMMA CallbackStep ==
  ASSUME NEW s, NEW t, OneDetail(s), TypeOK, CalmInv, StarInv(s, t), NEW c \in Callback,
         UNCHANGED <<user, owner, pending, screenVars>>, inbox' = Append(inbox, c), ~Pops(c),
         \A d \in Docs : LocalDoc(d)' = LocalDoc(d),
         \A r \in Request : reads'[r] > 0 => reads[r] > 0,
         Shows(s, t) /\ c.type = "answer" /\ c.req.kind = "favorite" => c.docs = LocalAds(t),
         Shows(s, t) /\ Blackens(c) => Wanted(t),
         Shows(s, t) /\ Whitens(c) => ~Wanted(t),
         \A r \in Request :
           Shows(s, t) /\ r.kind = "check" /\ reads[r] > 0 /\ Wanted(t)
             => reads'[r] > 0 \/ Blackens(c)
  PROVE  StarInv(s, t)'
<1>0. inbox \in Seq(Callback) /\ s \in Screens /\ user' = user
  BY OneDetailParts
<1> PICK n \in Nat : n = Len(inbox)
  BY <1>0
<1>1. /\ Len(inbox') = n + 1 /\ inbox'[n + 1] = c /\ DOMAIN inbox = 1 .. n
      /\ DOMAIN inbox' = 1 .. (n + 1) /\ \A i \in 1 .. n : inbox'[i] = inbox[i]
  BY <1>0
<1>2. UNCHANGED <<open, delShown, inFavorite, visible, pending, user, owner>>
  BY DEF screenVars
<1>3. /\ Shows(s, t)' <=> Shows(s, t)
      /\ Doomed(s)' <=> Doomed(s)
      /\ Writing(s)' <=> Writing(s)
  BY <1>0, <1>1, <1>2 DEF Shows, Doomed, Writing
<1>4. Alive(s, t)' <=> Alive(s, t)
  BY <1>3 DEF Alive
<1>5. LocalAds(t)' = LocalAds(t) /\ (Wanted(t)' <=> Wanted(t))
  BY <1>2, SameAds
<1>6. /\ \A i \in 0 .. n : (Black(s, i)' <=> Black(s, i)) /\ (White(s, i)' <=> White(s, i))
      /\ Black(s, n + 1)' <=> Blackens(c)
      /\ White(s, n + 1)' <=> Whitens(c)
  BY <1>0, <1>1, <1>2 DEF Black, White
<1>7. FrontOpen(s)' /\ OrphansFirst(s)' /\ OwnReads(s, t)'
  BY <1>2, <1>3 DEF StarInv, FrontOpen, OrphansFirst, OwnReads
<1>8. FullAnswers(s, t)' /\ OwnWrites(s, t)' /\ LastWriteSays(s, t)'
  BY <1>0, <1>1, <1>2, <1>3, <1>4, <1>5
     DEF StarInv, FullAnswers, OwnWrites, LastWriteSays, Alive
<1>9. ~(Blackens(c) /\ Whitens(c))
  BY DEF Blackens, Whitens
<1>10. InboxSays(s, t)'
  <2> SUFFICES ASSUME Alive(s, t)', ~Writing(s)', NEW i \in 0 .. Len(inbox')
               PROVE  /\ Black(s, i)' /\ (\A j \in i + 1 .. Len(inbox') : ~White(s, j)')
                           => Wanted(t)'
                      /\ White(s, i)' /\ (\A j \in i + 1 .. Len(inbox') : ~Black(s, j)')
                           => ~Wanted(t)'
    BY DEF InboxSays
  <2>0. Shows(s, t)
    BY <1>4 DEF Alive
  <2>1. CASE i = n + 1
    BY <1>5, <1>6, <2>0, <2>1
  <2>2. CASE i \in 0 .. n
    <3>1. n + 1 \in i + 1 .. Len(inbox') /\ i + 1 .. n \subseteq i + 1 .. Len(inbox')
      BY <1>0, <1>1, <2>2
    <3>2. \A j \in i + 1 .. n : j \in 0 .. n
      BY <1>0, <2>2
    <3>3. /\ Black(s, i) /\ (\A j \in i + 1 .. n : ~White(s, j)) => Wanted(t)
          /\ White(s, i) /\ (\A j \in i + 1 .. n : ~Black(s, j)) => ~Wanted(t)
      BY <1>3, <1>4, <2>2 DEF StarInv, InboxSays
    <3> QED
      BY <1>5, <1>6, <2>2, <3>1, <3>2, <3>3
  <2> QED
    BY <1>0, <1>1, <2>1, <2>2
<1>11. CheckComes(s, t)'
  <2> SUFFICES ASSUME Alive(s, t)', ~Writing(s)', visible' = s, Wanted(t)',
                      \A i \in 0 .. Len(inbox') : ~Black(s, i)' /\ ~White(s, i)'
               PROVE  \E r \in Request : reads'[r] > 0 /\ r.kind = "check"
    BY DEF CheckComes
  <2>1. \A i \in 0 .. n : ~Black(s, i) /\ ~White(s, i)
    BY <1>0, <1>1, <1>6
  <2>2. ~Blackens(c)
    BY <1>0, <1>1, <1>6
  <2>3. PICK r \in Request : reads[r] > 0 /\ r.kind = "check"
    BY <1>2, <1>3, <1>4, <1>5, <2>1 DEF StarInv, CheckComes
  <2> QED
    BY <1>4, <1>5, <2>2, <2>3 DEF Alive
<1> QED
  BY <1>7, <1>8, <1>10, <1>11 DEF StarInv

LEMMA RaiseStep ==
  ASSUME NEW s, NEW t, OneDetail(s), TypeOK, CalmInv, user # NoUser, StarInv(s, t),
         NEW r \in Request, Raise(r), UNCHANGED screenVars
  PROVE  StarInv(s, t)'
<1>1. PICK docs \in Answers(r) :
        inbox' = Append(inbox, [type |-> "answer", req |-> r, docs |-> docs])
  BY DEF Raise
<1> DEFINE c == [type |-> "answer", req |-> r, docs |-> docs]
<1>2. /\ c \in Callback /\ c.type = "answer" /\ c.req = r /\ c.docs = docs
      /\ inbox' = Append(inbox, c)
  BY <1>1 DEF Callback, Answer, Answers, Result, Known
<1> HIDE DEF c
<1>3. ~Pops(c) /\ ~Whitens(c) /\ (Blackens(c) <=> r.kind = "check" /\ docs # {})
  BY <1>2 DEF Pops, Whitens, Blackens
<1>4. reads[r] > 0 /\ UNCHANGED <<store, user, owner, pending>> /\ reads \in [Request -> Nat]
  BY OneDetailParts DEF Raise
<1>5. \A x \in Request : x # r => reads'[x] = reads[x]
  BY <1>4 DEF Raise
<1>6. \A d \in Docs : LocalDoc(d)' = LocalDoc(d)
  BY <1>4, LocalSame
<1>7. Shows(s, t) => /\ r.kind = "favorite" => docs = LocalAds(t)
                     /\ r.kind = "check" => (docs # {} <=> Wanted(t))
  BY <1>4, AnswerSays DEF StarInv
<1>8. \A x \in Request : reads'[x] > 0 => reads[x] > 0
  BY <1>4, <1>5
<1>9. \A x \in Request : Shows(s, t) /\ x.kind = "check" /\ reads[x] > 0 /\ Wanted(t)
                           => reads'[x] > 0 \/ Blackens(c)
  BY <1>3, <1>5, <1>7
<1> QED
  BY <1>2, <1>3, <1>4, <1>6, <1>7, <1>8, <1>9, CallbackStep

\* The oldest callback does to the star what it says, and no more.
LEMMA TakeStep ==
  ASSUME NEW s, NEW t, OneDetail(s), TypeOK, CalmInv, StarInv(s, t),
         inbox # <<>>, inbox' = Tail(inbox), ~Pops(Head(inbox)),
         UNCHANGED <<store, user, owner, pending, reads, open, visible>>,
         inFavorite'[s] = IF Blackens(Head(inbox)) THEN "true"
                          ELSE IF Whitens(Head(inbox)) THEN "false" ELSE inFavorite[s]
  PROVE  StarInv(s, t)'
<1>0. inbox \in Seq(Callback) /\ s \in Screens
  BY OneDetailParts
<1> PICK n \in Nat : Len(inbox) = n + 1
  <2>1. Len(inbox) - 1 \in Nat /\ Len(inbox) = (Len(inbox) - 1) + 1
    BY <1>0
  <2> QED
    BY <2>1
<1>1. /\ Len(inbox') = n /\ DOMAIN inbox = 1 .. (n + 1) /\ DOMAIN inbox' = 1 .. n
      /\ Head(inbox) = inbox[1]
      /\ \A i \in 1 .. n : inbox'[i] = inbox[i + 1]
  BY <1>0
<1>2. \A i \in DOMAIN inbox : i = 1 \/ (i - 1 \in DOMAIN inbox' /\ inbox'[i - 1] = inbox[i])
  BY <1>1
<1>3. /\ Shows(s, t)' <=> Shows(s, t)
      /\ Writing(s)' <=> Writing(s)
      /\ Doomed(s)' <=> Doomed(s)
  <2>1. (\E i \in DOMAIN inbox' : Pops(inbox'[i])) <=> (\E i \in DOMAIN inbox : Pops(inbox[i]))
    <3>1. ASSUME NEW i \in DOMAIN inbox', Pops(inbox'[i]) PROVE \E j \in DOMAIN inbox : Pops(inbox[j])
      <4>1. i + 1 \in DOMAIN inbox /\ inbox'[i] = inbox[i + 1]
        BY <1>1
      <4> QED
        BY <3>1, <4>1
    <3>2. ASSUME NEW i \in DOMAIN inbox, Pops(inbox[i]) PROVE \E j \in DOMAIN inbox' : Pops(inbox'[j])
      BY <1>1, <1>2, <3>2
    <3> QED
      BY <3>1, <3>2
  <2> QED
    BY <2>1 DEF Shows, Writing, Doomed
<1>4. Alive(s, t)' <=> Alive(s, t)
  BY <1>3 DEF Alive
<1>5. LocalAds(t)' = LocalAds(t) /\ (Wanted(t)' <=> Wanted(t))
  BY LocalSame, SameAds
<1>6. FrontOpen(s)' /\ OrphansFirst(s)' /\ OwnReads(s, t)'
  BY <1>3 DEF StarInv, FrontOpen, OrphansFirst, OwnReads
<1>7. FullAnswers(s, t)' /\ OwnWrites(s, t)' /\ LastWriteSays(s, t)'
  BY <1>1, <1>3, <1>4, <1>5 DEF StarInv, FullAnswers, OwnWrites, LastWriteSays
<1>8. ~(Blackens(Head(inbox)) /\ Whitens(Head(inbox)))
  BY DEF Blackens, Whitens
<1>9. /\ \A i \in 1 .. n : /\ Black(s, i)' <=> Black(s, i + 1)
                           /\ White(s, i)' <=> White(s, i + 1)
      /\ Black(s, 0)' <=> Black(s, 1) \/ (~White(s, 1) /\ Black(s, 0))
      /\ White(s, 0)' <=> White(s, 1) \/ (~Black(s, 1) /\ White(s, 0))
  BY <1>1, <1>8 DEF Black, White
<1>10. \A i \in 2 .. (n + 1) : /\ i - 1 \in 1 .. n
                               /\ Black(s, i) <=> Black(s, i - 1)'
                               /\ White(s, i) <=> White(s, i - 1)'
  <2> TAKE i \in 2 .. (n + 1)
  <2> PICK k \in 1 .. n : k = i - 1
    OBVIOUS
  <2>1. i = k + 1
    OBVIOUS
  <2>2. (Black(s, i) <=> Black(s, k)') /\ (White(s, i) <=> White(s, k)')
    BY <1>9, <2>1
  <2> QED
    BY <2>2
<1>11. InboxSays(s, t)'
  <2> SUFFICES ASSUME Alive(s, t)', ~Writing(s)', NEW i \in 0 .. n
               PROVE  /\ Black(s, i)' /\ (\A j \in i + 1 .. n : ~White(s, j)') => Wanted(t)'
                      /\ White(s, i)' /\ (\A j \in i + 1 .. n : ~Black(s, j)') => ~Wanted(t)'
    BY <1>1 DEF InboxSays
  <2>1. \A k \in 0 .. (n + 1) :
          /\ Black(s, k) /\ (\A j \in k + 1 .. (n + 1) : ~White(s, j)) => Wanted(t)
          /\ White(s, k) /\ (\A j \in k + 1 .. (n + 1) : ~Black(s, j)) => ~Wanted(t)
    BY <1>3, <1>4 DEF StarInv, InboxSays
  <2>2. \A j \in 2 .. (n + 1) : j > i + 1 => j - 1 \in i + 1 .. n
    OBVIOUS
  <2>3. ASSUME Black(s, i)', \A j \in i + 1 .. n : ~White(s, j)'
        PROVE  \E k \in 0 .. (n + 1) : Black(s, k) /\ \A j \in k + 1 .. (n + 1) : ~White(s, j)
    <3>1. \A j \in 2 .. (n + 1) : j > i + 1 => ~White(s, j)
      BY <1>10, <2>2, <2>3
    <3>2. CASE i \in 1 .. n \/ Black(s, 1)
      <4>1. Black(s, i + 1) /\ i + 1 \in 0 .. (n + 1)
        BY <1>9, <2>3, <3>2
      <4>2. \A j \in (i + 1) + 1 .. (n + 1) : j \in 2 .. (n + 1) /\ j > i + 1
        OBVIOUS
      <4> QED
        BY <3>1, <4>1, <4>2
    <3>3. CASE i = 0 /\ ~Black(s, 1)
      <4>1. Black(s, 0) /\ ~White(s, 1)
        BY <1>9, <2>3, <3>3
      <4>2. \A j \in 0 + 1 .. (n + 1) : j = 1 \/ (j \in 2 .. (n + 1) /\ j > i + 1)
        BY <3>3
      <4> QED
        BY <3>1, <4>1, <4>2
    <3> QED
      BY <3>2, <3>3
  <2>4. ASSUME White(s, i)', \A j \in i + 1 .. n : ~Black(s, j)'
        PROVE  \E k \in 0 .. (n + 1) : White(s, k) /\ \A j \in k + 1 .. (n + 1) : ~Black(s, j)
    <3>1. \A j \in 2 .. (n + 1) : j > i + 1 => ~Black(s, j)
      BY <1>10, <2>2, <2>4
    <3>2. CASE i \in 1 .. n \/ White(s, 1)
      <4>1. White(s, i + 1) /\ i + 1 \in 0 .. (n + 1)
        BY <1>9, <2>4, <3>2
      <4>2. \A j \in (i + 1) + 1 .. (n + 1) : j \in 2 .. (n + 1) /\ j > i + 1
        OBVIOUS
      <4> QED
        BY <3>1, <4>1, <4>2
    <3>3. CASE i = 0 /\ ~White(s, 1)
      <4>1. White(s, 0) /\ ~Black(s, 1)
        BY <1>9, <2>4, <3>3
      <4>2. \A j \in 0 + 1 .. (n + 1) : j = 1 \/ (j \in 2 .. (n + 1) /\ j > i + 1)
        BY <3>3
      <4> QED
        BY <3>1, <4>1, <4>2
    <3> QED
      BY <3>2, <3>3
  <2> QED
    BY <1>5, <2>1, <2>3, <2>4
<1>12. CheckComes(s, t)'
  <2> SUFFICES ASSUME Alive(s, t)', ~Writing(s)', visible' = s, Wanted(t)',
                      \A i \in 0 .. n : ~Black(s, i)' /\ ~White(s, i)'
               PROVE  \E r \in Request : reads'[r] > 0 /\ r.kind = "check"
    BY <1>1 DEF CheckComes
  <2>1. ~Black(s, 0) /\ ~White(s, 0) /\ ~Black(s, 1) /\ ~White(s, 1)
    BY <1>9
  <2>2. \A i \in 2 .. (n + 1) : ~Black(s, i) /\ ~White(s, i)
    BY <1>10
  <2>3. \A i \in 0 .. (n + 1) : i = 0 \/ i = 1 \/ i \in 2 .. (n + 1)
    OBVIOUS
  <2>4. \A i \in 0 .. Len(inbox) : ~Black(s, i) /\ ~White(s, i)
    BY <2>1, <2>2, <2>3
  <2> QED
    BY <1>3, <1>4, <1>5, <2>4 DEF StarInv, CheckComes
<1> QED
  BY <1>6, <1>7, <1>11, <1>12 DEF StarInv

-----------------------------------------------------------------------------
(***************************************************************************)
(* The steps of the queue of writes.                                       *)
(***************************************************************************)

LEMMA AppendParts ==
  ASSUME NEW q \in Seq(Write), NEW w \in Write, NEW n \in Nat, n = Len(q), NEW p,
         p = Append(q, w)
  PROVE  /\ DOMAIN q = 1 .. n /\ DOMAIN p = 1 .. (n + 1) /\ Len(p) = n + 1
         /\ p[n + 1] = w /\ p # <<>> /\ \A i \in 1 .. n : p[i] = q[i]
<1>1. DOMAIN q = 1 .. n /\ Len(p) = n + 1
  OBVIOUS
<1>2. p[n + 1] = w /\ \A i \in 1 .. n : p[i] = q[i]
  OBVIOUS
<1>3. DOMAIN p = 1 .. (n + 1)
  OBVIOUS
<1>4. p # <<>>
  BY <1>1
<1> QED
  BY <1>1, <1>2, <1>3, <1>4

\* The loop over an answer that is not empty puts the screen's word last.
LEMMA WriteStep ==
  ASSUME NEW s, NEW t, OneDetail(s), TypeOK, CalmInv, StarInv(s, t),
         inbox # <<>>, inbox' = Tail(inbox), Head(inbox).type = "answer",
         NEW op \in Ops, Enqueue(op, s, Head(inbox).docs), Head(inbox).docs # {},
         op # "delete" => Head(inbox).req.kind = "favorite",
         UNCHANGED <<store, user, owner, reads, screenVars>>
  PROVE  StarInv(s, t)'
<1> DEFINE q == pending[owner]
           w == [op |-> op, uid |-> user, screen |-> s, docs |-> Head(inbox).docs]
<1>0. /\ inbox \in Seq(Callback) /\ s \in Screens /\ user \in Uids /\ owner = user /\ user' = user
      /\ q \in Seq(Write) /\ pending \in [Uids -> Seq(Write)] /\ ClientTypeOK
  BY OneDetailParts DEF TypeOK
<1>1. /\ Head(inbox) = inbox[1] /\ 1 \in DOMAIN inbox
      /\ Head(inbox).docs \in SUBSET Docs
      /\ \A i \in DOMAIN inbox' : i + 1 \in DOMAIN inbox /\ inbox'[i] = inbox[i + 1]
  BY <1>0, InboxType DEF Answer
<1>2. pending'[owner'] = Append(q, w)
  BY <1>0 DEF Enqueue
<1>3. w \in Write /\ w.op = op /\ w.screen = s /\ w.docs = Head(inbox).docs
  BY <1>0, <1>1 DEF Write
<1>4. UNCHANGED <<open, delShown, inFavorite, visible>>
  BY DEF screenVars
<1> PICK n \in Nat : n = Len(q)
  BY <1>0
<1> HIDE DEF q, w
<1>5. /\ DOMAIN q = 1 .. n /\ DOMAIN pending'[owner'] = 1 .. (n + 1)
      /\ pending'[owner'][n + 1] = w /\ Len(pending'[owner']) = n + 1
      /\ \A i \in 1 .. n : pending'[owner'][i] = q[i]
      /\ pending'[owner'] # <<>>
  <2>1. q \in Seq(Write) /\ w \in Write /\ n = Len(q)
    BY <1>0, <1>3
  <2> DEFINE p == pending'[owner']
  <2>2. p = Append(q, w)
    BY <1>2
  <2> HIDE DEF p
  <2>3. /\ DOMAIN q = 1 .. n /\ DOMAIN p = 1 .. (n + 1) /\ Len(p) = n + 1
        /\ p[n + 1] = w /\ p # <<>> /\ \A i \in 1 .. n : p[i] = q[i]
    BY ONLY <2>1, <2>2, AppendParts, n \in Nat
  <2> QED
    BY <2>3 DEF p
<1>6. Last(pending'[owner']) = w /\ Writing(s)'
  BY <1>3, <1>5 DEF Last, Writing
<1>7. FrontOpen(s)' /\ OwnReads(s, t)' /\ OrphansFirst(s)'
  <2>1. FrontOpen(s)' /\ OwnReads(s, t)'
    BY <1>0, <1>4 DEF StarInv, FrontOpen, OwnReads, Shows
  <2>2. \A i, j \in 1 .. n : i <= j /\ q[i].screen = s => q[j].screen = s
    BY <1>5 DEF StarInv, OrphansFirst, q
  <2>3. ASSUME NEW i \in 1 .. (n + 1), NEW j \in 1 .. (n + 1), i <= j,
               pending'[owner'][i].screen = s
        PROVE  pending'[owner'][j].screen = s
    <3>1. CASE j = n + 1
      BY <1>3, <1>5, <3>1
    <3>2. CASE j \in 1 .. n
      <4>1. i \in 1 .. n
        BY <2>3, <3>2
      <4> QED
        BY <1>5, <2>2, <2>3, <3>2, <4>1
    <3> QED
      BY <3>1, <3>2
  <2> QED
    BY <1>5, <2>1, <2>3 DEF OrphansFirst
<1>8. CASE op = "delete"
  <2>1. Doomed(s)'
    BY <1>3, <1>5, <1>8 DEF Doomed
  <2> QED
    BY <1>7, <2>1, NotAlive DEF Alive
<1>9. CASE op # "delete" /\ ~Alive(s, t)'
  BY <1>7, <1>9, NotAlive
<1>10. CASE op # "delete" /\ Alive(s, t)'
  <2>1. Alive(s, t)
    <3>1. Shows(s, t) /\ ~Doomed(s)'
      BY <1>4, <1>10 DEF Alive, Shows
    <3>2. ~Pops(inbox[1])
      BY <1>1 DEF Pops
    <3>3. ASSUME NEW i \in DOMAIN inbox, Pops(inbox[i]) PROVE FALSE
      <4>1. i - 1 \in DOMAIN inbox' /\ inbox'[i - 1] = inbox[i]
        BY <1>0, <3>2, <3>3
      <4> QED
        BY <3>1, <3>3, <4>1 DEF Doomed
    <3>4. \A i \in 1 .. n : ~(q[i].op = "delete" /\ q[i].screen = s)
      <4>1. \A i \in 1 .. n : i \in DOMAIN pending'[owner'] /\ pending'[owner'][i] = q[i]
        BY <1>5
      <4> QED
        BY <3>1, <4>1 DEF Doomed
    <3> QED
      BY <1>5, <3>1, <3>3, <3>4 DEF Alive, Doomed, q
  <2>2. w.docs = LocalAds(t)
    BY <1>1, <1>3, <1>10, <2>1 DEF StarInv, FullAnswers
  <2>3. \A d \in Docs : LocalDoc(d)' = IF d \in w.docs THEN ApplyWrite(op, user, LocalDoc(d))
                                                     ELSE LocalDoc(d)
    BY <1>0, <1>1, <1>3, LocalEnqueue
  <2>4. \A d \in Docs : LocalDoc(d) \in Document
    BY <1>0, LocalType
  <2>5. op \in {"mark", "unmark"}
    BY <1>10 DEF Ops
  <2>6. \A d \in Docs : LocalDoc(d)'.state = "ad" <=> LocalDoc(d).state = "ad"
    BY <2>2, <2>3, <2>4, <2>5 DEF ApplyWrite, Exists, LocalAds, Document
  <2>7. LocalAds(t)' = LocalAds(t)
    BY <2>6 DEF LocalAds
  <2>8. \A d \in LocalAds(t) : user \in LocalDoc(d)'.marks <=> op = "mark"
    BY <2>2, <2>3, <2>4, <2>5 DEF ApplyWrite, Exists, LocalAds, Document
  <2>9. LocalAds(t) # {}
    BY <1>3, <2>2
  <2>10. Wanted(t)' <=> op = "mark"
    BY <1>0, <2>7, <2>8, <2>9 DEF Wanted
  <2>11. FullAnswers(s, t)'
    BY <1>1, <2>1, <2>7 DEF StarInv, FullAnswers
  <2>12. OwnWrites(s, t)'
    <3>1. \A i \in 1 .. n : q[i].screen = s => q[i].docs # {} /\ q[i].docs \subseteq LocalAds(t)
      BY <1>5, <2>1 DEF StarInv, OwnWrites, q
    <3>2. \A i \in 1 .. (n + 1) : i \in 1 .. n \/ i = n + 1
      OBVIOUS
    <3>3. \A i \in 1 .. (n + 1) : pending'[owner'][i].screen = s =>
            pending'[owner'][i].docs # {} /\ pending'[owner'][i].docs \subseteq LocalAds(t)
      BY <1>3, <1>5, <2>2, <2>9, <3>1, <3>2
    <3> QED
      BY <1>5, <2>7, <3>3 DEF OwnWrites
  <2>13. LastWriteSays(s, t)'
    BY <1>3, <1>6, <2>10 DEF LastWriteSays
  <2>14. InboxSays(s, t)' /\ CheckComes(s, t)'
    BY <1>6 DEF InboxSays, CheckComes
  <2> QED
    BY <1>7, <2>11, <2>12, <2>13, <2>14 DEF StarInv
<1> QED
  BY <1>8, <1>9, <1>10

\* Queue p is what is left of q when the server has answered for document d.
Leaves(q, p, d, n) ==
  /\ DOMAIN q = 1 .. (n + 1) /\ Head(q) = q[1]
  /\ \/ /\ Head(q).docs = {d} /\ Len(p) = n /\ DOMAIN p = 1 .. n
        /\ \A i \in 1 .. n : p[i] = q[i + 1]
     \/ /\ Len(p) = n + 1 /\ DOMAIN p = 1 .. (n + 1)
        /\ p[1].op = q[1].op /\ p[1].screen = q[1].screen
        /\ p[1].docs # {} /\ p[1].docs \subseteq q[1].docs
        /\ \A i \in 2 .. (n + 1) : p[i] = q[i]

LEMMA AnsweredParts ==
  ASSUME NEW q \in Seq(Write), NEW n \in Nat, Len(q) = n + 1, NEW d, d \in Head(q).docs
  PROVE  Leaves(q, Answered(q, d), d, n)
<1> DEFINE p == Answered(q, d)
<1>1. DOMAIN q = 1 .. (n + 1) /\ Head(q) = q[1] /\ q # <<>>
  OBVIOUS
<1>2. CASE Head(q).docs = {d}
  <2>1. p = Tail(q)
    BY <1>2 DEF Answered
  <2> HIDE DEF p
  <2>2. Leaves(q, p, d, n)
    BY <1>1, <1>2, <2>1 DEF Leaves
  <2> QED
    BY <2>2 DEF p
<1>3. CASE Head(q).docs # {d}
  <2>1. p = [q EXCEPT ![1] = [q[1] EXCEPT !.docs = q[1].docs \ {d}]]
    BY <1>3 DEF Answered
  <2>2. q[1] \in Write
    BY <1>1
  <2> DEFINE w == [q[1] EXCEPT !.docs = q[1].docs \ {d}]
  <2>3. w.op = q[1].op /\ w.screen = q[1].screen /\ w.docs = q[1].docs \ {d} /\ w \in Write
    BY <2>2 DEF Write
  <2> HIDE DEF w, p
  <2>4. p = [q EXCEPT ![1] = w]
    BY <2>1 DEF w
  <2>5. Len(p) = n + 1 /\ DOMAIN p = 1 .. (n + 1)
    BY <1>1, <2>3, <2>4
  <2>6. p[1] = w /\ \A i \in 2 .. (n + 1) : p[i] = q[i]
    BY <1>1, <2>4
  <2>7. Leaves(q, p, d, n)
    BY <1>1, <1>3, <2>3, <2>5, <2>6 DEF Leaves
  <2> QED
    BY <2>7 DEF p
<1> QED
  BY <1>2, <1>3

\* The write answered for, its acknowledgement, and what is left.
LEMMA CommitParts ==
  ASSUME NEW s, OneDetail(s), TypeOK, CalmInv, NEW d \in Docs, Commit(d)
  PROVE  LET w == Head(pending[owner])
             a(ok) == [type |-> "ack", op |-> w.op, screen |-> w.screen, doc |-> d, ok |-> ok]
         IN  /\ w \in Write /\ w.screen \in {s, NoScreen} /\ d \in w.docs
             /\ pending[owner] # <<>> /\ pending'[owner'] = Answered(pending[owner], d)
             /\ UNCHANGED <<user, owner, reads>>
             /\ \A e \in Docs : LocalDoc(e)' = LocalDoc(e)
             /\ w.screen = NoScreen => inbox' = inbox
             /\ w.screen = s => \E ok \in BOOLEAN :
                  /\ inbox' = Append(inbox, a(ok)) /\ a(ok) \in Ack
                  /\ ok \/ (w.op = "unmark" /\ ~Exists(store[d]))
<1> DEFINE w == Head(pending[owner])
           a(ok) == [type |-> "ack", op |-> w.op, screen |-> w.screen, doc |-> d, ok |-> ok]
<1>0. /\ s # NoScreen /\ s \in Screens /\ user \in Uids /\ owner = user /\ ClientTypeOK
      /\ "reject" \notin Disturbances
      /\ pending \in [Uids -> Seq(Write)] /\ pending[owner] \in Seq(Write)
      /\ \A i \in DOMAIN pending[owner] :
           pending[owner][i] \in Write /\ pending[owner][i].screen \in {s, NoScreen}
  BY OneDetailParts DEF TypeOK
<1>1. /\ pending[owner] # <<>> /\ d \in w.docs /\ UNCHANGED <<user, owner, reads>>
      /\ pending'[owner'] = Answered(pending[owner], d)
  BY <1>0 DEF Commit
<1>2. w \in Write /\ w.screen \in {s, NoScreen}
  <2>1. w = pending[owner][1] /\ 1 \in DOMAIN pending[owner]
    BY <1>0, <1>1
  <2> HIDE DEF w
  <2> QED
    BY <1>0, <2>1
<1>3. \A e \in Docs : LocalDoc(e)' = LocalDoc(e)
  BY <1>0, LocalCommit
<1>4. \E ok \in BOOLEAN : inbox' = Acked(w, d, ok) /\ (ok \/ ~Accepts(w.op, store[d]))
  BY <1>0 DEF Commit
<1>5. \A ok \in BOOLEAN : w.screen = s => a(ok) \in Ack
  BY <1>0, <1>2 DEF Ack, Write
<1>6. w.screen = NoScreen => inbox' = inbox
  BY <1>4 DEF Acked
<1>7. w.screen = s => \E ok \in BOOLEAN :
        inbox' = Append(inbox, a(ok)) /\ (ok \/ (w.op = "unmark" /\ ~Exists(store[d])))
  BY <1>0, <1>4 DEF Acked, Accepts
<1> QED
  BY <1>1, <1>2, <1>3, <1>5, <1>6, <1>7

LEMMA CommittedStep ==
  ASSUME NEW s, NEW t, OneDetail(s), TypeOK, CalmInv, StarInv(s, t),
         NEW d \in Docs, Commit(d), UNCHANGED screenVars
  PROVE  StarInv(s, t)'
<1> DEFINE q == pending[owner]
           p == pending'[owner']
           w == Head(q)
<1>1. /\ w \in Write /\ w.screen \in {s, NoScreen} /\ d \in w.docs
      /\ q # <<>> /\ p = Answered(q, d)
      /\ UNCHANGED <<user, owner, reads>> /\ \A e \in Docs : LocalDoc(e)' = LocalDoc(e)
      /\ w.screen = NoScreen => inbox' = inbox
  BY CommitParts
<1>2. w.screen = s => \E c : \E ok \in BOOLEAN :
        /\ inbox' = Append(inbox, c) /\ c \in Ack /\ c.type = "ack"
        /\ c.op = w.op /\ c.screen = w.screen /\ c.ok = ok
        /\ ok \/ (w.op = "unmark" /\ ~Exists(store[d]))
  <2> DEFINE a(ok) == [type |-> "ack", op |-> w.op, screen |-> w.screen, doc |-> d, ok |-> ok]
  <2> SUFFICES ASSUME w.screen = s
               PROVE  \E ok \in BOOLEAN :
                        /\ inbox' = Append(inbox, a(ok)) /\ a(ok) \in Ack
                        /\ ok \/ (w.op = "unmark" /\ ~Exists(store[d]))
    OBVIOUS
  <2> QED
    BY CommitParts
<1>3. /\ s # NoScreen /\ q \in Seq(Write) /\ inbox \in Seq(Callback) /\ user' = user
      /\ UNCHANGED <<open, delShown, inFavorite, visible>>
  BY <1>1, OneDetailParts DEF screenVars
<1> PICK n \in Nat : Len(q) = n + 1
  <2>1. Len(q) - 1 \in Nat /\ Len(q) = (Len(q) - 1) + 1
    BY <1>1, <1>3
  <2> QED
    BY <2>1
<1>4. /\ DOMAIN q = 1 .. (n + 1) /\ w = q[1]
      /\ \/ /\ w.docs = {d} /\ Len(p) = n /\ DOMAIN p = 1 .. n
            /\ \A i \in 1 .. n : p[i] = q[i + 1]
         \/ /\ Len(p) = n + 1 /\ DOMAIN p = 1 .. (n + 1)
            /\ p[1].op = q[1].op /\ p[1].screen = q[1].screen
            /\ p[1].docs # {} /\ p[1].docs \subseteq q[1].docs
            /\ \A i \in 2 .. (n + 1) : p[i] = q[i]
  <2>1. Leaves(q, p, d, n)
    BY <1>1, <1>3, AnsweredParts
  <2> HIDE DEF p, q
  <2> QED
    BY <2>1 DEF Leaves
\* Each write that is left is one of the queue, and keeps its place in the order.
<1>5. \E k \in {0, 1} : \A i \in DOMAIN p :
        /\ i + k \in DOMAIN q
        /\ p[i].op = q[i + k].op /\ p[i].screen = q[i + k].screen
        /\ p[i].docs \subseteq q[i + k].docs
        /\ q[i + k].docs # {} => p[i].docs # {}
  <2> HIDE DEF p, q
  <2>1. CASE Len(p) = n /\ DOMAIN p = 1 .. n /\ \A i \in 1 .. n : p[i] = q[i + 1]
    <3>1. \A i \in DOMAIN p : i + 1 \in DOMAIN q /\ p[i] = q[i + 1]
      BY <1>4, <2>1
    <3> QED
      BY <3>1
  <2>2. CASE /\ DOMAIN p = 1 .. (n + 1)
             /\ p[1].op = q[1].op /\ p[1].screen = q[1].screen
             /\ p[1].docs # {} /\ p[1].docs \subseteq q[1].docs
             /\ \A i \in 2 .. (n + 1) : p[i] = q[i]
    <3>1. \A i \in DOMAIN p : i + 0 = i /\ (i = 1 \/ i \in 2 .. (n + 1)) /\ i \in DOMAIN q
      BY <1>4, <2>2
    <3> QED
      BY <2>2, <3>1
  <2> QED
    BY <1>4, <2>1, <2>2
\* The last write stays the last, unless it was the only one.
<1>6. \/ p = <<>> /\ q[1] = Last(q) /\ w.docs = {d}
      \/ /\ p # <<>> /\ Last(p).op = Last(q).op /\ Last(p).screen = Last(q).screen
  <2> HIDE DEF p, q
  <2>1. CASE Len(p) = n /\ DOMAIN p = 1 .. n /\ w.docs = {d} /\ \A i \in 1 .. n : p[i] = q[i + 1]
    <3>1. CASE n = 0
      <4>1. p = <<>>
        BY <1>1, <1>3, <1>4, <2>1, <3>1, AnsweredType
      <4> QED
        BY <2>1, <3>1, <4>1 DEF Last
    <3>2. CASE n # 0
      <4>1. n \in 1 .. n /\ p[n] = q[n + 1] /\ p # <<>>
        BY <2>1, <3>2
      <4> QED
        BY <2>1, <4>1 DEF Last
    <3> QED
      BY <3>1, <3>2
  <2>2. CASE /\ Len(p) = n + 1 /\ DOMAIN p = 1 .. (n + 1)
             /\ p[1].op = q[1].op /\ p[1].screen = q[1].screen
             /\ \A i \in 2 .. (n + 1) : p[i] = q[i]
    <3>1. p # <<>>
      BY <2>2
    <3>2. n + 1 = 1 \/ n + 1 \in 2 .. (n + 1)
      OBVIOUS
    <3> QED
      BY <2>2, <3>1, <3>2 DEF Last
  <2> QED
    BY <1>4, <2>1, <2>2
<1>7. \A i, j \in DOMAIN q : i <= j /\ q[i].screen = s => q[j].screen = s
  BY DEF StarInv, OrphansFirst
<1>8. OrphansFirst(s)'
  <2> HIDE DEF p, q
  <2>1. PICK k \in {0, 1} : \A i \in DOMAIN p :
          i + k \in DOMAIN q /\ p[i].screen = q[i + k].screen
    BY <1>5
  <2>2. \A i, j \in DOMAIN p : i <= j => i + k <= j + k
    BY <1>4
  <2>3. \A i, j \in DOMAIN p : i <= j /\ p[i].screen = s => p[j].screen = s
    BY <1>7, <2>1, <2>2
  <2> QED
    BY <2>3 DEF OrphansFirst, p
<1>9. FrontOpen(s)' /\ OwnReads(s, t)' /\ (Shows(s, t)' <=> Shows(s, t))
  BY <1>1, <1>3 DEF StarInv, FrontOpen, OwnReads, Shows
<1>10. LocalAds(t)' = LocalAds(t) /\ (Wanted(t)' <=> Wanted(t))
  BY <1>1, SameAds
<1>11. CASE ~Alive(s, t)'
  BY <1>8, <1>9, <1>11, NotAlive
<1>12. CASE Alive(s, t)'
  <2>1. \A i \in DOMAIN inbox : i \in DOMAIN inbox' /\ inbox'[i] = inbox[i]
    BY <1>1, <1>2, <1>3
  <2>2. ~Doomed(s)
    <3>1. \A i \in DOMAIN inbox : ~Pops(inbox[i])
      BY <1>12, <2>1 DEF Alive, Doomed
    <3>2. ASSUME NEW i \in DOMAIN q, q[i].op = "delete", q[i].screen = s PROVE FALSE
      <4>1. \A j \in DOMAIN p : ~(p[j].op = "delete" /\ p[j].screen = s)
        BY <1>12 DEF Alive, Doomed
      <4>2. i = 1 /\ w.docs = {d} /\ Len(p) = n
        <5> HIDE DEF p, q
        <5>1. CASE Len(p) = n /\ DOMAIN p = 1 .. n /\ w.docs = {d} /\ \A x \in 1 .. n : p[x] = q[x + 1]
          <6>1. i # 1 => i - 1 \in DOMAIN p /\ p[i - 1] = q[i]
            BY <1>4, <3>2, <5>1
          <6> QED
            BY <3>2, <4>1, <5>1, <6>1
        <5>2. CASE /\ DOMAIN p = 1 .. (n + 1)
                   /\ p[1].op = q[1].op /\ p[1].screen = q[1].screen
                   /\ \A x \in 2 .. (n + 1) : p[x] = q[x]
          <6>1. i \in DOMAIN p /\ p[i].op = q[i].op /\ p[i].screen = q[i].screen
            BY <1>4, <3>2, <5>2
          <6> QED
            BY <3>2, <4>1, <6>1
        <5> QED
          BY <1>4, <5>1, <5>2
      <4>3. w.op = "delete" /\ w.screen = s
        BY <1>4, <3>2, <4>2
      <4>4. PICK c \in Ack : inbox' = Append(inbox, c) /\ Pops(c)
        BY <1>2, <4>3 DEF Pops
      <4>5. Len(inbox) + 1 \in DOMAIN inbox' /\ inbox'[Len(inbox) + 1] = c
        BY <1>3, <4>4
      <4> QED
        BY <1>12, <4>4, <4>5 DEF Alive, Doomed
    <3> QED
      BY <3>1, <3>2 DEF Doomed
  <2>3. Alive(s, t)
    BY <1>9, <1>12, <2>2 DEF Alive
  <2>4. \A i \in DOMAIN q : q[i].screen = s =>
          q[i].op # "delete" /\ q[i].docs # {} /\ q[i].docs \subseteq LocalAds(t)
    BY <2>3 DEF StarInv, OwnWrites, Alive, Doomed
  <2>5. w.screen = s => w.op \in {"mark", "unmark"} /\ \E c \in Ack :
          /\ inbox' = Append(inbox, c) /\ c.type = "ack"
          /\ Blackens(c) <=> w.op = "mark"
          /\ Whitens(c) <=> w.op = "unmark"
    <3> SUFFICES ASSUME w.screen = s
                 PROVE  w.op \in {"mark", "unmark"} /\ \E c \in Ack :
                          /\ inbox' = Append(inbox, c) /\ c.type = "ack"
                          /\ Blackens(c) <=> w.op = "mark"
                          /\ Whitens(c) <=> w.op = "unmark"
      OBVIOUS
    <3>1. w.op \in {"mark", "unmark"} /\ d \in LocalAds(t)
      <4>1. 1 \in DOMAIN q /\ w = q[1]
        BY <1>4
      <4>2. w.op # "delete" /\ w.docs \subseteq LocalAds(t)
        BY <2>4, <4>1
      <4>3. w.op \in Ops
        BY <1>1 DEF Write
      <4> QED
        BY <1>1, <4>2, <4>3 DEF Ops
    <3>2. Exists(store[d])
      <4>1. LocalDoc(d).state = "ad"
        BY <3>1 DEF LocalAds
      <4>2. store[d].state = "ad"
        BY <4>1, LocalType DEF TypeOK
      <4> QED
        BY <4>2 DEF Exists
    <3> QED
      BY <1>2, <3>1, <3>2 DEF Blackens, Whitens
  <2>6. FullAnswers(s, t)'
    <3>1. ASSUME NEW i \in DOMAIN inbox', inbox'[i].type = "answer"
          PROVE  i \in DOMAIN inbox /\ inbox'[i] = inbox[i]
      <4>1. CASE w.screen = NoScreen
        BY <1>1, <3>1, <4>1
      <4>2. CASE w.screen = s
        <5>1. PICK c \in Ack : inbox' = Append(inbox, c) /\ c.type = "ack"
          BY <2>5, <4>2
        <5> QED
          BY <1>3, <3>1, <5>1
      <4> QED
        BY <1>1, <4>1, <4>2
    <3> QED
      BY <1>10, <2>3, <3>1 DEF StarInv, FullAnswers
  <2>7. OwnWrites(s, t)'
    <3> HIDE DEF p, q
    <3>1. PICK k \in {0, 1} : \A i \in DOMAIN p :
            /\ i + k \in DOMAIN q
            /\ p[i].op = q[i + k].op /\ p[i].screen = q[i + k].screen
            /\ p[i].docs \subseteq q[i + k].docs
            /\ q[i + k].docs # {} => p[i].docs # {}
      BY <1>5
    <3>2. \A i \in DOMAIN p : p[i].screen = s => p[i].docs # {} /\ p[i].docs \subseteq LocalAds(t)
      BY <2>4, <3>1
    <3> QED
      BY <1>10, <3>2 DEF OwnWrites, p
  <2>8. Writing(s)' => Writing(s) /\ Last(p).op = Last(q).op
    BY <1>1, <1>6 DEF Writing
  <2>9. LastWriteSays(s, t)'
    BY <1>10, <2>3, <2>8 DEF StarInv, LastWriteSays
  <2>10. InboxSays(s, t)' /\ CheckComes(s, t)'
    <3>1. CASE Writing(s)'
      BY <3>1 DEF InboxSays, CheckComes
    <3>2. CASE ~Writing(s)' /\ ~Writing(s)
      <4>1. w.screen # s
        <5>1. 1 \in DOMAIN q /\ n + 1 \in DOMAIN q /\ 1 <= n + 1 /\ w = q[1] /\ Len(q) = n + 1
          BY <1>4
        <5>2. Last(q).screen # s
          BY <1>1, <3>2 DEF Writing
        <5> QED
          BY <1>7, <5>1, <5>2 DEF Last
      <4>2. inbox' = inbox
        BY <1>1, <4>1
      <4>3. \A i : (Black(s, i)' <=> Black(s, i)) /\ (White(s, i)' <=> White(s, i))
        BY <1>3, <4>2 DEF Black, White
      <4> QED
        BY <1>1, <1>3, <1>10, <2>3, <3>2, <4>2, <4>3 DEF StarInv, InboxSays, CheckComes
    <3>3. CASE ~Writing(s)' /\ Writing(s)
      <4>1. p = <<>> /\ w = Last(q)
        BY <1>4, <1>6, <3>3 DEF Writing
      <4>2. w.screen = s
        BY <3>3, <4>1 DEF Writing
      <4>3. w.op = "mark" <=> Wanted(t)
        BY <2>3, <3>3, <4>1 DEF StarInv, LastWriteSays
      <4>4. PICK c \in Ack : /\ inbox' = Append(inbox, c) /\ c.type = "ack"
                             /\ Blackens(c) <=> w.op = "mark"
                             /\ Whitens(c) <=> w.op = "unmark"
        BY <2>5, <4>2
      <4> PICK m \in Nat : m = Len(inbox) + 1 /\ m # 0
        BY <1>3
      <4>5. Len(inbox') = m /\ inbox'[m] = c
        BY <1>3, <4>4
      <4>6. (Black(s, m)' <=> Wanted(t)) /\ (White(s, m)' <=> ~Wanted(t))
        BY <2>5, <4>2, <4>3, <4>4, <4>5 DEF Black, White
      <4>7. \A i \in 0 .. m : i = m \/ m \in i + 1 .. m
        OBVIOUS
      <4> QED
        BY <1>10, <4>5, <4>6, <4>7 DEF InboxSays, CheckComes
    <3> QED
      BY <3>1, <3>2, <3>3
  <2> QED
    BY <1>8, <1>9, <2>6, <2>7, <2>9, <2>10 DEF StarInv
<1> QED
  BY <1>11, <1>12

-----------------------------------------------------------------------------
(***************************************************************************)
(* Every step, and the theorem.                                            *)
(***************************************************************************)
LEMMA UserStepStar ==
  ASSUME NEW s, NEW t, OneDetail(s), TypeOK, CalmInv, StarInv(s, t), UserStep
  PROVE  StarInv(s, t)'
<1>0. /\ s # NoScreen /\ s \in Screens /\ "switch" \notin Disturbances
      /\ open \in [Screens -> Docs \cup {NoAd}]
  BY OneDetailParts
<1>1. visible = s => open[s] # NoAd
  BY DEF StarInv, FrontOpen
<1>2. CASE Appear(s) \/ Leave(s) \/ Back(s) \/ TapFavorite(s) \/ TapDelete(s)
  <2>1. UNCHANGED <<store, user, owner, pending, inbox, inFavorite>>
    BY <1>2 DEF Appear, Leave, Back, Close, TapFavorite, TapDelete, clientVars, screenVars
  <2>2. CASE Appear(s)
    <3>1. AskFor("check", s) /\ visible' = s /\ open' = open /\ open[s] # NoAd
      BY <2>2 DEF Appear
    <3> QED
      BY <2>1, <3>1, WaitStep
  <2>3. CASE Leave(s)
    <3>1. reads' = reads /\ visible' = NoScreen /\ open' = open
      BY <2>3 DEF Leave, clientVars
    <3> QED
      BY <2>1, <3>1, WaitStep
  <2>4. CASE Back(s)
    <3>1. reads' = reads /\ visible' # s /\ open'[s] = NoAd
      BY <1>0, <2>4 DEF Back, Close, clientVars
    <3> QED
      BY <2>1, <3>1, WaitStep
  <2>5. CASE TapFavorite(s) \/ TapDelete(s)
    <3>1. /\ \E k \in DetailKinds : AskFor(k, s)
          /\ visible' = visible /\ open' = open /\ open[s] # NoAd
      BY <1>1, <2>5 DEF TapFavorite, TapDelete, DetailKinds, screenVars
    <3> QED
      BY <2>1, <3>1, WaitStep
  <2> QED
    BY <1>2, <2>2, <2>3, <2>4, <2>5
<1>3. CASE \E d \in Docs : Open(s, d)
  BY <1>3, OpenStep
<1>4. CASE Restart
  BY <1>4, RestartStep
<1>5. ~SwitchUser
  BY <1>0 DEF SwitchUser, ChangeUser
<1> QED
  BY <1>2, <1>3, <1>4, <1>5 DEF UserStep, OneDetail

LEMMA HandlingStar ==
  ASSUME NEW s, NEW t, OneDetail(s), TypeOK, CalmInv, StarInv(s, t), Handling
  PROVE  StarInv(s, t)'
<1> DEFINE c == Head(inbox)
<1>0. /\ s \in Screens /\ s # NoScreen /\ user \in Uids
      /\ inbox \in Seq(Callback) /\ inFavorite \in [Screens -> {"nil", "true", "false"}]
      /\ open \in [Screens -> Docs \cup {NoAd}]
      /\ \A i \in DOMAIN inbox : ScreenOf(inbox[i]) = s
  BY OneDetailParts
<1>1. inbox # <<>> /\ inbox' = Tail(inbox) /\ UNCHANGED <<store, user, owner, reads>>
  <2>1. inbox # <<>> /\ inbox' = Tail(inbox)
    BY DEF Handling, CheckAnswer, FavoriteAnswer, DeleteAnswer, WriteDone, SessionTold,
           AnswerTo, Delivered
  <2>2. c = inbox[1] /\ 1 \in DOMAIN inbox
    BY <1>0, <2>1
  <2>3. ~SessionTold
    BY <2>2 DEF SessionTold, Delivered, CalmInv, Telling
  <2> QED
    BY <2>1, <2>3 DEF Handling, CheckAnswer, FavoriteAnswer, DeleteAnswer, WriteDone
<1>2. c \in Callback /\ ScreenOf(c) = s
  <2>1. c = inbox[1] /\ 1 \in DOMAIN inbox
    BY <1>0, <1>1
  <2> QED
    BY <1>0, <2>1
<1>3. CASE CheckAnswer
  <2>1. /\ c.type = "answer" /\ c.req.kind = "check" /\ c.req.screen = s
        /\ UNCHANGED <<pending, open, visible>>
        /\ inFavorite' = IF c.docs = {} THEN inFavorite
                         ELSE [inFavorite EXCEPT ![c.req.screen] = "true"]
    BY <1>2, <1>3 DEF CheckAnswer, AnswerTo, Delivered, ScreenOf
  <2>2. ~Pops(c) /\ ~Whitens(c) /\ (Blackens(c) <=> c.docs # {})
    BY <2>1 DEF Pops, Whitens, Blackens
  <2>3. inFavorite'[s] = IF Blackens(c) THEN "true"
                         ELSE IF Whitens(c) THEN "false" ELSE inFavorite[s]
    BY <1>0, <2>1, <2>2
  <2> QED
    BY <1>1, <2>1, <2>2, <2>3, TakeStep
<1>4. CASE FavoriteAnswer \/ DeleteAnswer
  <2>1. /\ c.type = "answer" /\ c.req.screen = s /\ c.req.kind # "check"
        /\ UNCHANGED screenVars
        /\ \E op \in Ops : /\ Enqueue(op, s, c.docs)
                           /\ op # "delete" => c.req.kind = "favorite"
    BY <1>2, <1>4 DEF FavoriteAnswer, DeleteAnswer, AnswerTo, Delivered, ScreenOf, Ops
  <2>2. CASE c.docs # {}
    BY <1>1, <2>1, <2>2, WriteStep
  <2>3. CASE c.docs = {}
    <3>1. UNCHANGED <<pending, open, visible, inFavorite>>
      BY <2>1, <2>3 DEF Enqueue, screenVars
    <3>2. ~Pops(c) /\ ~Whitens(c) /\ ~Blackens(c)
      BY <2>1 DEF Pops, Whitens, Blackens
    <3> QED
      BY <1>1, <3>1, <3>2, TakeStep
  <2> QED
    BY <2>2, <2>3
<1>5. CASE WriteDone
  <2>1. c.type = "ack" /\ c.screen = s /\ pending' = pending
    BY <1>2, <1>5 DEF WriteDone, Delivered, ScreenOf
  <2>2. CASE c.ok /\ c.op = "delete"
    <3>1. open'[s] = NoAd /\ visible' # s
      BY <1>0, <1>5, <2>1, <2>2 DEF WriteDone, Close
    <3>2. FrontOpen(s)' /\ OrphansFirst(s)' /\ OwnReads(s, t)' /\ ~Alive(s, t)'
      BY <1>1, <2>1, <3>1 DEF StarInv, FrontOpen, OrphansFirst, OwnReads, Alive, Shows
    <3> QED
      BY <3>2, NotAlive
  <2>3. CASE c.ok /\ c.op # "delete"
    <3>1. /\ UNCHANGED <<open, visible>>
          /\ inFavorite' = [inFavorite EXCEPT ![c.screen] =
                              IF c.op = "mark" THEN "true" ELSE "false"]
      BY <1>5, <2>3 DEF WriteDone
    <3>2. c.op \in Ops
      BY <1>2, <2>1 DEF Callback, Answer, Ack, Told
    <3>3. ~Pops(c) /\ (Blackens(c) <=> c.op = "mark") /\ (Whitens(c) <=> c.op # "mark")
      BY <2>1, <2>3, <3>2 DEF Pops, Blackens, Whitens, Ops
    <3>4. inFavorite'[s] = IF Blackens(c) THEN "true"
                           ELSE IF Whitens(c) THEN "false" ELSE inFavorite[s]
      BY <1>0, <2>1, <3>1, <3>3
    <3> QED
      BY <1>1, <2>1, <3>1, <3>3, <3>4, TakeStep
  <2>4. CASE ~c.ok
    <3>1. UNCHANGED <<open, visible, inFavorite>>
      BY <1>5, <2>4 DEF WriteDone, screenVars
    <3>2. ~Pops(c) /\ ~Whitens(c) /\ ~Blackens(c)
      BY <2>1, <2>4 DEF Pops, Whitens, Blackens
    <3> QED
      BY <1>1, <2>1, <3>1, <3>2, TakeStep
  <2> QED
    BY <2>2, <2>3, <2>4
<1>6. ~SessionTold
  <2>1. c = inbox[1] /\ 1 \in DOMAIN inbox
    BY <1>0, <1>1
  <2> QED
    BY <2>1 DEF SessionTold, Delivered, CalmInv, Telling
<1> QED
  BY <1>3, <1>4, <1>5, <1>6 DEF Handling

LEMMA StarNext ==
  ASSUME NEW s, NEW t, OneDetail(s), TypeOK, CalmInv, user # NoUser, StarInv(s, t), [Next]_vars
  PROVE  StarInv(s, t)'
<1>1. CASE UserStep
  BY <1>1, UserStepStar
<1>2. CASE Answering
  BY <1>2, RaiseStep DEF Answering
<1>3. CASE Committing
  BY <1>3, CommittedStep DEF Committing
<1>4. CASE Handling
  BY <1>4, HandlingStar
<1>5. ~OtherDevice
  BY OneDetailParts DEF OtherDevice, RemotePublish, RemoteWrite
<1>6. CASE UNCHANGED vars
  <2>1. /\ UNCHANGED <<store, user, owner, pending, inbox, inFavorite>>
        /\ reads' = reads /\ visible' \in {visible, NoScreen} /\ open' = open
    BY <1>6 DEF vars, clientVars, screenVars
  <2> QED
    BY <2>1, WaitStep
<1> QED
  BY <1>1, <1>2, <1>3, <1>4, <1>5, <1>6 DEF Next

LEMMA StarInit ==
  ASSUME NEW s, NEW t, OneDetail(s), Init
  PROVE  StarInv(s, t) /\ user # NoUser /\ CalmInv
<1>1. /\ s # NoScreen /\ user \in Users /\ user # NoUser
      /\ pending[owner] = <<>> /\ visible = NoScreen /\ open[s] = NoAd
  BY ClientAssumption DEF OneDetail, Init, ClientInit, Uids
<1>2. FrontOpen(s) /\ OrphansFirst(s) /\ OwnReads(s, t) /\ ~Alive(s, t)
  BY <1>1 DEF FrontOpen, OrphansFirst, OwnReads, Alive, Shows
<1> QED
  BY <1>1, <1>2
     DEF StarInv, FullAnswers, OwnWrites, LastWriteSays, InboxSays, CheckComes,
         CalmInv, Telling, Init, ClientInit

\* With nothing under way the last word has been said, and the star says it.
LEMMA StarQuiet ==
  ASSUME NEW s, OneDetail(s), TypeOK, CalmInv, \A t : StarInv(s, t), Quiet, visible = s
  PROVE  Starred(s) <=> Marked(TitleOf[open[s]])
<1> DEFINE t == TitleOf[open[s]]
<1>1. /\ s \in Screens /\ user \in Uids /\ open[s] \in Docs \cup {NoAd}
      /\ inFavorite[s] \in {"nil", "true", "false"}
  BY OneDetailParts
<1>2. pending[owner] = <<>> /\ inbox = <<>> /\ \A r \in Request : reads[r] = 0
  BY DEF Quiet
<1>3. open[s] # NoAd
  BY DEF StarInv, FrontOpen
<1>4. StarInv(s, t)
  OBVIOUS
<1>5. Alive(s, t) /\ ~Writing(s)
  BY <1>2, <1>3 DEF Alive, Shows, Doomed, Writing
<1>6. Wanted(t) <=> Marked(t)
  <2>1. \A d \in Docs : LocalDoc(d) = store[d]
    BY <1>2, LocalType DEF TypeOK
  <2> QED
    BY <2>1 DEF Wanted, LocalAds, Marked
<1>7. 0 \in 0 .. Len(inbox) /\ \A i \in 0 .. Len(inbox) : i = 0 /\ ~(i \in 1 .. 0)
  BY <1>2
<1>8. (Black(s, 0) => Wanted(t)) /\ (White(s, 0) => ~Wanted(t))
  BY <1>2, <1>4, <1>5 DEF StarInv, InboxSays
<1>9. Wanted(t) => Black(s, 0) \/ White(s, 0)
  BY <1>2, <1>4, <1>5, <1>7 DEF StarInv, CheckComes
<1> QED
  BY <1>1, <1>6, <1>8, <1>9 DEF Black, White, Starred

\* On a device that is alone with its detail screen, and where no write is
\* refused, the star of the screen in front settles on what the user marked:
\* however the star, the delete button and the tabs are tapped, however many
\* calls are under way, and wherever a restart cuts in between them.
THEOREM StarFollowsTheMarks ==
  ASSUME NEW s, OneDetail(s)
  PROVE  Spec => []StarSettles
<1> DEFINE Inv == TypeOK /\ CalmInv /\ user # NoUser /\ \A t : StarInv(s, t)
<1>1. Init => Inv
  <2>1. Init => \A t : StarInv(s, t) /\ user # NoUser /\ CalmInv
    BY StarInit
  <2> QED
    BY <2>1, InitType
<1>2. Inv /\ [Next]_vars => Inv'
  <2> SUFFICES ASSUME Inv, [Next]_vars PROVE Inv'
    OBVIOUS
  <2>1. TypeOK'
    BY NextType
  <2>2. user' = user /\ CalmInv'
    BY OneDetailParts, SameUser
  <2>4. \A t : StarInv(s, t)'
    BY StarNext
  <2> QED
    BY <2>1, <2>2, <2>4
<1>3. Inv => StarSettles
  BY StarQuiet DEF StarSettles, OneDetail
<1> QED
  BY <1>1, <1>2, <1>3, PTL DEF Spec
=============================================================================
