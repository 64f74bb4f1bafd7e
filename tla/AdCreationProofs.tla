--------------------------- MODULE AdCreationProofs --------------------------
(***************************************************************************)
(* Theorems about AdCreation, for any accounts, any number of forms and    *)
(* taps, and any disturbances.                                             *)
(***************************************************************************)
EXTENDS AdCreation, TLAPS

\* The ad that a tap on the publish button writes.
NewAd == [tap |-> taps + 1, form |-> form, by |-> user, mail |-> mail,
          picture |-> url, gps |-> page.gps, street |-> page.street,
          hidden |-> page.hidden, crossed |-> page.crossed]

-----------------------------------------------------------------------------
(***************************************************************************)
(* Type correctness.                                                       *)
(***************************************************************************)

LEMMA FirstType ==
  ASSUME TypeOK, Queued
  PROVE  /\ user \in Users
         /\ outbox[user] \in Seq(Ad) /\ outbox[user] # <<>>
         /\ First \in Ad
         /\ First.tap \in Nat
         /\ Tail(outbox[user]) \in Seq(Ad)
PROOF
<1>1. user \in Users /\ outbox[user] \in Seq(Ad) /\ outbox[user] # <<>>
  BY DEF TypeOK, Queued, SignedIn, Uids
<1>2. First \in Ad /\ Tail(outbox[user]) \in Seq(Ad)
  BY <1>1 DEF First
<1>3. First.tap \in Nat
  BY <1>2 DEF Ad
<1> QED
  BY <1>1, <1>2, <1>3

LEMMA PublishType ==
  ASSUME TypeOK, Publish
  PROVE  /\ user \in Users
         /\ outbox' = [outbox EXCEPT ![user] = Append(@, NewAd)]
         /\ NewAd \in Ad
         /\ NewAd.tap = taps + 1
PROOF
<1>1. user \in Users /\ mail \in Users /\ url \in Forms /\ form \in Forms
  BY DEF TypeOK, Publish, SignedIn, Uids
<1>2. NewAd \in Ad
  BY <1>1, CreationAssumption DEF TypeOK, Page, Ad, NewAd
<1> QED
  BY <1>1, <1>2 DEF Publish, NewAd

LEMMA TypeStep ==
  ASSUME TypeOK, [Next]_vars
  PROVE  TypeOK'
PROOF
<1> USE CreationAssumption
<1>1. CASE UNCHANGED vars
  BY <1>1 DEF TypeOK, vars
<1>2. CASE Moving
  <2>1. CASE NewForm
    <3>1. form' \in Forms
      BY <2>1 DEF NewForm, TypeOK, Forms
    <3>2. page' \in Page /\ form' \in 0 .. MaxForms /\ mail' \in Uids
      BY <2>1, <3>1 DEF NewForm, TypeOK, Page, Blank, Forms
    <3> QED
      BY <2>1, <3>1, <3>2 DEF NewForm, TypeOK
  <2>2. CASE Back
    BY <2>2 DEF Back, TypeOK, Page, Blank
  <2>3. CASE GoHome \/ LeaveHome \/ OpenDetail
    BY <2>3 DEF GoHome, LeaveHome, OpenDetail, TypeOK
  <2> QED
    BY <1>2, <2>1, <2>2, <2>3 DEF Moving
<1>3. CASE Session
  <2>1. CASE Revoked
    <3>1. page' \in Page
      BY <2>1 DEF Revoked, TypeOK, Page
    <3> QED
      BY <2>1, <3>1 DEF Revoked, TypeOK, Uids
  <2>2. CASE SignOut \/ SignIn
    BY <2>2 DEF SignOut, SignIn, TypeOK, Uids
  <2> QED
    BY <1>3, <2>1, <2>2 DEF Session
<1>4. CASE Addressing
  <2>1. page' \in Page
    BY ZenonT(30), <1>4 DEF Addressing, Locate, Geocoded, Switch, TypeOK, Page
  <2> QED
    BY <1>4, <2>1 DEF Addressing, Locate, Geocoded, Switch, TypeOK
<1>5. CASE Picturing
  <2>1. CASE Pick
    BY <2>1 DEF Pick, TypeOK
  <2>2. ASSUME NEW f \in Forms, PutDone(f)  PROVE TypeOK'
    BY <2>2 DEF PutDone, TypeOK
  <2>3. ASSUME NEW f \in Forms, UrlDone(f)  PROVE TypeOK'
    BY <2>3 DEF UrlDone, TypeOK
  <2> QED
    BY <1>5, <2>1, <2>2, <2>3 DEF Picturing
<1>6. CASE Publishing
  <2>1. CASE Publish
    <3>1. outbox' \in [Users -> Seq(Ad)]
      <4>1. /\ user \in Users /\ NewAd \in Ad
            /\ outbox' = [outbox EXCEPT ![user] = Append(@, NewAd)]
        BY <2>1, PublishType
      <4>2. Append(outbox[user], NewAd) \in Seq(Ad)
        BY <4>1 DEF TypeOK
      <4> QED
        BY <4>1, <4>2 DEF TypeOK
    <3>2. taps' \in 0 .. MaxTaps
      BY <2>1 DEF Publish, TypeOK
    <3> QED
      BY <2>1, <3>1, <3>2 DEF Publish, TypeOK
  <2>2. CASE Commit
    <3>1. Document(First) \in Entry
      BY <2>2, FirstType DEF Commit, Document, Entry
    <3> QED
      BY <2>2, <3>1 DEF Commit, TypeOK
  <2>3. CASE Reply \/ Refuse
    <3>1. outbox' \in [Users -> Seq(Ad)]
      <4>1. /\ Tail(outbox[user]) \in Seq(Ad)
            /\ outbox' = [outbox EXCEPT ![user] = Tail(@)]
        BY <2>3, FirstType DEF Reply, Refuse
      <4> QED
        BY <4>1 DEF TypeOK
    <3>2. /\ page' \in {page, Blank} /\ place' \in {place, "list"}
          /\ UNCHANGED <<user, mail, url, form, uploads, stored, taps, board>>
      BY <2>3 DEF Reply, Refuse
    <3>3. Blank \in Page
      BY DEF Blank, Page
    <3> QED
      BY <3>1, <3>2, <3>3 DEF TypeOK
  <2> QED
    BY <1>6, <2>1, <2>2, <2>3 DEF Publishing
<1>7. CASE Restart
  BY <1>7 DEF Restart, TypeOK, Page, Blank
<1> QED
  BY <1>1, <1>2, <1>3, <1>4, <1>5, <1>6, <1>7 DEF Next

\* Type correctness: what is queued and published is made of accounts, forms
\* that were opened and pictures that were uploaded, never of a missing default.
THEOREM CreationTypeCorrect == Spec => []TypeOK
PROOF
<1>1. Init => TypeOK
  BY CreationAssumption DEF Init, TypeOK, Page, Blank, Uids
<1>2. TypeOK /\ [Next]_vars => TypeOK'
  BY TypeStep
<1> QED
  BY <1>1, <1>2, PTL DEF Spec

-----------------------------------------------------------------------------
(***************************************************************************)
(* The inductive invariant.  What makes a published ad right is true of    *)
(* the form and the defaults when its button is tapped (SessionInv,        *)
(* PictureInv, PageInv), and then of the ad wherever it is (AdsInv).       *)
(***************************************************************************)

\* An ad that was written: it is queued on the device or on the board.
Written(ad) ==
  \/ \E e \in board : e.ad = ad
  \/ \E u \in Users : \E i \in DOMAIN outbox[u] : outbox[u][i] = ad

SessionInv == place = "form" /\ ~page.crossed => SignedIn /\ mail = user

PictureInv ==
  /\ url = NoPicture \/ url \in stored
  /\ \A f \in Forms : uploads[f] = "url" => f \in stored

PageInv == page.street \/ page.known \/ page.geocoding => page.gps

\* What holds of an ad when it is written, and does not change.
Sound(ad) ==
  /\ ad.crossed \/ ad.mail = ad.by
  /\ ad.picture \in stored
  /\ ad.street => ad.gps
  /\ ad.tap <= taps

AdsInv ==
  /\ \A ad \in Ad : Written(ad) => Sound(ad)
  /\ \A a, b \in Ad : Written(a) /\ Written(b) /\ a.tap = b.tap => a = b
  /\ \A e \in board : e.id = e.ad.tap

CreationInv == SessionInv /\ PictureInv /\ PageInv /\ AdsInv

LEMMA InitInv == Init => CreationInv
PROOF
<1> SUFFICES ASSUME Init PROVE CreationInv
  OBVIOUS
<1>1. \A ad : ~Written(ad)
  BY DEF Init, Written
<1> QED
  BY <1>1 DEF Init, CreationInv, SessionInv, PictureInv, PageInv, AdsInv, Blank

LEMMA SessionStep ==
  ASSUME TypeOK, SessionInv, [Next]_vars
  PROVE  SessionInv'
PROOF
<1>1. CASE UNCHANGED vars
  BY <1>1 DEF SessionInv, SignedIn, vars
<1>2. CASE Moving
  BY <1>2 DEF Moving, GoHome, LeaveHome, OpenDetail, NewForm, Back, SessionInv,
              SignedIn
<1>3. CASE Session
  <2>1. CASE Revoked
    BY <2>1 DEF Revoked, SessionInv, TypeOK, Page
  <2>2. CASE SignOut \/ SignIn
    BY <2>2 DEF SignOut, SignIn, SessionInv, SignedIn
  <2> QED
    BY <1>3, <2>1, <2>2 DEF Session
<1>4. CASE Addressing
  <2>1. page'.crossed = page.crossed /\ UNCHANGED <<user, place, mail>>
    BY <1>4 DEF Addressing, Locate, Geocoded, Switch, TypeOK, Page
  <2> QED
    BY <2>1 DEF SessionInv, SignedIn
<1>5. CASE Picturing \/ Publish \/ Commit \/ Refuse
  BY <1>5 DEF Picturing, Pick, PutDone, UrlDone, Publish, Commit, Refuse,
              SessionInv, SignedIn
<1>6. CASE Reply \/ Restart
  BY <1>6 DEF Reply, Restart, SessionInv, SignedIn
<1> QED
  BY <1>1, <1>2, <1>3, <1>4, <1>5, <1>6 DEF Next, Publishing

LEMMA PictureStep ==
  ASSUME TypeOK, PictureInv, [Next]_vars
  PROVE  PictureInv' /\ stored \subseteq stored'
PROOF
<1>1. CASE UNCHANGED <<url, uploads, stored>>
  BY <1>1 DEF PictureInv
<1>2. CASE Pick
  BY <1>2 DEF Pick, PictureInv, TypeOK
<1>3. ASSUME NEW f \in Forms, PutDone(f)
      PROVE  PictureInv' /\ stored \subseteq stored'
  BY <1>3 DEF PutDone, PictureInv, TypeOK
<1>4. ASSUME NEW f \in Forms, UrlDone(f)
      PROVE  PictureInv' /\ stored \subseteq stored'
  BY <1>4 DEF UrlDone, PictureInv, TypeOK
<1>5. CASE Restart
  BY <1>5 DEF Restart, PictureInv
<1>6. CASE Moving \/ Session \/ Addressing \/ Publishing \/ UNCHANGED vars
  BY <1>1, <1>6
  DEF Moving, GoHome, LeaveHome, OpenDetail, NewForm, Back, Session, SignOut,
      Revoked, SignIn, Addressing, Locate, Geocoded, Switch, Publishing, Publish,
      Commit, Reply, Refuse, vars
<1> QED
  BY <1>2, <1>3, <1>4, <1>5, <1>6 DEF Next, Picturing

LEMMA PageStep ==
  ASSUME TypeOK, PageInv, [Next]_vars
  PROVE  PageInv'
PROOF
<1>1. CASE page' = page
  BY <1>1 DEF PageInv
<1>2. CASE page' = Blank
  BY <1>2 DEF PageInv, Blank
<1>3. CASE Addressing \/ Revoked
  BY <1>3 DEF Addressing, Locate, Geocoded, Switch, Revoked, PageInv, TypeOK, Page
<1> QED
  BY <1>1, <1>2, <1>3
  DEF Next, Moving, GoHome, LeaveHome, OpenDetail, NewForm, Back, Session, SignOut,
      SignIn, Picturing, Pick, PutDone, UrlDone, Publishing, Publish, Commit,
      Reply, Refuse, Restart, vars

\* An ad comes into being by a tap on the publish button only; the server's
\* answers move it from the queue to the board, or drop it.
LEMMA WrittenStep ==
  ASSUME TypeOK, [Next]_vars, NEW ad, Written(ad)'
  PROVE  Written(ad) \/ (Publish /\ ad = NewAd)
PROOF
<1>1. CASE UNCHANGED <<outbox, board>>
  BY <1>1 DEF Written
<1>2. CASE Publish
  <2>1. /\ user \in Users /\ board' = board
        /\ outbox' = [outbox EXCEPT ![user] = Append(@, NewAd)]
        /\ outbox \in [Users -> Seq(Ad)] /\ NewAd \in Ad
    BY <1>2, PublishType DEF Publish, TypeOK
  <2>2. CASE \E e \in board : e.ad = ad
    BY <2>2 DEF Written
  <2>3. ASSUME NEW u \in Users, NEW i \in DOMAIN outbox'[u], outbox'[u][i] = ad
        PROVE  Written(ad) \/ ad = NewAd
    <3>1. CASE u = user
      <4>1. outbox'[u] = Append(outbox[u], NewAd) /\ outbox[u] \in Seq(Ad)
        BY <2>1, <3>1
      <4>2. ad = NewAd \/ (i \in DOMAIN outbox[u] /\ outbox[u][i] = ad)
        BY <2>3, <4>1
      <4> QED
        BY <4>2 DEF Written
    <3>2. CASE u # user
      BY <2>1, <2>3, <3>2 DEF Written
    <3> QED
      BY <3>1, <3>2
  <2> QED
    BY <1>2, <2>1, <2>2, <2>3 DEF Written
<1>3. CASE Commit
  <2>1. /\ user \in Users /\ outbox[user] \in Seq(Ad) /\ outbox[user] # <<>>
        /\ board' = board \cup {Document(First)} /\ outbox' = outbox
    BY <1>3, FirstType DEF Commit
  <2>2. Written(First)
    BY <2>1 DEF Written, First
  <2> QED
    BY <2>1, <2>2 DEF Written, Document
<1>4. CASE Reply \/ Refuse
  <2>1. /\ user \in Users /\ outbox[user] \in Seq(Ad) /\ outbox[user] # <<>>
        /\ outbox' = [outbox EXCEPT ![user] = Tail(@)] /\ board' = board
        /\ outbox \in [Users -> Seq(Ad)]
    BY <1>4, FirstType DEF Reply, Refuse, TypeOK
  <2>2. ASSUME NEW u \in Users, NEW i \in DOMAIN outbox'[u], outbox'[u][i] = ad
        PROVE  Written(ad)
    <3>1. CASE u = user
      <4>1. outbox'[u] = Tail(outbox[u])
        BY <2>1, <3>1
      <4>2. i + 1 \in DOMAIN outbox[u] /\ outbox[u][i + 1] = ad
        BY <2>1, <2>2, <3>1, <4>1
      <4> QED
        BY <4>2 DEF Written
    <3>2. CASE u # user
      BY <2>1, <2>2, <3>2 DEF Written
    <3> QED
      BY <3>1, <3>2
  <2> QED
    BY <2>1, <2>2 DEF Written
<1> QED
  BY <1>1, <1>2, <1>3, <1>4
  DEF Next, Moving, GoHome, LeaveHome, OpenDetail, NewForm, Back, Session, SignOut,
      Revoked, SignIn, Addressing, Locate, Geocoded, Switch, Picturing, Pick,
      PutDone, UrlDone, Publishing, Restart, vars

\* What is written by a tap is right because form and defaults are.
LEMMA NewAdSound ==
  ASSUME TypeOK, SessionInv, PictureInv, PageInv, Publish, NEW ad, ad = NewAd
  PROVE  Sound(ad)' /\ ad.tap = taps + 1
PROOF
<1>1. url # NoPicture /\ stored' = stored /\ taps' = taps + 1 /\ place = "form"
  BY DEF Publish
<1>2. /\ ad.crossed \/ ad.mail = ad.by
      /\ ad.picture \in stored
      /\ ad.street => ad.gps
      /\ ad.tap = taps + 1
  BY <1>1 DEF NewAd, SessionInv, PictureInv, PageInv
<1>3. taps + 1 <= taps + 1
  BY DEF TypeOK
<1> QED
  BY <1>1, <1>2, <1>3 DEF Sound

LEMMA AdsStep ==
  ASSUME TypeOK, CreationInv, [Next]_vars
  PROVE  AdsInv'
PROOF
<1>1. stored \subseteq stored'
  BY PictureStep DEF CreationInv
<1>2. taps \in Nat /\ taps' \in Nat /\ taps <= taps'
  <2>1. taps' = taps \/ taps' = taps + 1
    BY DEF Next, Moving, GoHome, LeaveHome, OpenDetail, NewForm, Back, Session,
       SignOut, Revoked, SignIn, Addressing, Locate, Geocoded, Switch, Picturing,
       Pick, PutDone, UrlDone, Publishing, Publish, Commit, Reply, Refuse,
       Restart, vars
  <2> QED
    BY <2>1 DEF TypeOK
<1>3. ASSUME NEW ad \in Ad, Sound(ad)
      PROVE  Sound(ad)'
  BY <1>1, <1>2, <1>3 DEF Sound, Ad
<1>4. ASSUME NEW ad \in Ad, Written(ad)'
      PROVE  Sound(ad)'
  <2>1. CASE Written(ad)
    BY <1>3, <2>1 DEF CreationInv, AdsInv
  <2>2. CASE Publish /\ ad = NewAd
    BY <2>2, NewAdSound DEF CreationInv
  <2> QED
    BY <1>4, <2>1, <2>2, WrittenStep
<1>5. ASSUME NEW a \in Ad, NEW b \in Ad, Written(a)', Written(b)', a.tap = b.tap
      PROVE  a = b
  <2>1. CASE Written(a) /\ Written(b)
    BY <1>5, <2>1 DEF CreationInv, AdsInv
  <2>2. ASSUME NEW x \in Ad, NEW y \in Ad, Publish, x = NewAd, Written(y)
        PROVE  x.tap # y.tap
    <3>1. x.tap = taps + 1
      BY <2>2, NewAdSound DEF CreationInv
    <3>2. y.tap <= taps /\ y.tap \in Nat
      BY <2>2 DEF CreationInv, AdsInv, Sound, Ad
    <3> QED
      BY <1>2, <3>1, <3>2
  <2> QED
    BY <1>5, <2>1, <2>2, WrittenStep
<1>6. ASSUME NEW e \in board'
      PROVE  e.id = e.ad.tap
  <2>1. CASE e \in board
    BY <2>1 DEF CreationInv, AdsInv
  <2>2. CASE Commit /\ e = Document(First)
    BY <2>2 DEF Document
  <2>3. board' = board \/ (Commit /\ board' = board \cup {Document(First)})
    BY DEF Next, Moving, GoHome, LeaveHome, OpenDetail, NewForm, Back, Session,
       SignOut, Revoked, SignIn, Addressing, Locate, Geocoded, Switch, Picturing,
       Pick, PutDone, UrlDone, Publishing, Publish, Commit, Reply, Refuse,
       Restart, vars
  <2> QED
    BY <2>1, <2>2, <2>3
<1> QED
  BY <1>4, <1>5, <1>6 DEF AdsInv

\* The invariant is inductive.
THEOREM CreationInvariant == Spec => [](TypeOK /\ CreationInv)
PROOF
<1>1. Init => TypeOK /\ CreationInv
  BY CreationAssumption, InitInv DEF Init, TypeOK, Page, Blank, Uids
<1>2. TypeOK /\ CreationInv /\ [Next]_vars => TypeOK' /\ CreationInv'
  BY TypeStep, SessionStep, PictureStep, PageStep, AdsStep DEF CreationInv
<1> QED
  BY <1>1, <1>2, PTL DEF Spec

LEMMA PublishedSound ==
  ASSUME TypeOK, CreationInv, NEW ad \in Published
  PROVE  Sound(ad)
PROOF
<1>1. ad \in Ad /\ Written(ad)
  BY DEF TypeOK, Published, Entry, Written
<1> QED
  BY <1>1 DEF CreationInv, AdsInv

\* An ad is under its publisher's address unless a session ended above the form.
THEOREM PublishersOwnAds == Spec => []AuthorIsPublisher
PROOF
<1>1. TypeOK /\ CreationInv => AuthorIsPublisher
  BY PublishedSound DEF AuthorIsPublisher, Sound
<1> QED
  BY <1>1, CreationInvariant, PTL

\* The picture an ad names is in the storage.
THEOREM PublishedPicturesExist == Spec => []PicturesExist
PROOF
<1>1. TypeOK /\ CreationInv => PicturesExist
  BY PublishedSound DEF PicturesExist, Sound
<1> QED
  BY <1>1, CreationInvariant, PTL

\* An ad that shows the street has coordinates.
THEOREM PublishedStreetsHavePlaces == Spec => []StreetHasPlace
PROOF
<1>1. TypeOK /\ CreationInv => StreetHasPlace
  BY PublishedSound DEF StreetHasPlace, Sound
<1> QED
  BY <1>1, CreationInvariant, PTL

\* A tap is one document, through lost replies and restarts.
THEOREM OneDocumentPerTap == Spec => []OncePerTap
PROOF
<1>1. ASSUME TypeOK, CreationInv, NEW e \in board, NEW f \in board,
             e.ad.tap = f.ad.tap
      PROVE  e = f
  <2>1. /\ e \in Entry /\ f \in Entry
        /\ e.ad \in Ad /\ f.ad \in Ad /\ Written(e.ad) /\ Written(f.ad)
    BY <1>1 DEF TypeOK, Entry, Written
  <2>2. e.ad = f.ad /\ e.id = f.id
    BY <1>1, <2>1 DEF CreationInv, AdsInv
  <2> QED
    BY <2>1, <2>2 DEF Entry
<1>2. TypeOK /\ CreationInv => OncePerTap
  BY <1>1 DEF OncePerTap
<1> QED
  BY <1>2, CreationInvariant, PTL
=============================================================================
