----------------------------- MODULE AdCreation ------------------------------
(***************************************************************************)
(* Publishing an ad (AdCreateViewController): the form, the position and   *)
(* the geocoder that fill its address in, the upload of its picture, and   *)
(* the write that puts it on the board.  Two values live outside the form, *)
(* in the user defaults: the address of the seller, which several screens  *)
(* set, and that of the last picture uploaded.                             *)
(***************************************************************************)
EXTENDS Naturals, Sequences, FiniteSets

CONSTANTS
  Users,        \* the accounts
  NoUser,       \* nobody is signed in; no address in the defaults
  MaxForms,     \* bound: forms opened in a behaviour
  MaxTaps,      \* bound: taps on the publish button that write an ad
  Disturbances  \* what may go wrong, see Allowed

\* "reject": uploads, geocodings and writes may fail; "revoke": the session may
\* end by itself; "restart": the process is killed and started again.
Allowed == {"reject", "revoke", "restart"}

ASSUME CreationAssumption ==
  /\ NoUser \notin Users
  /\ MaxForms \in Nat
  /\ MaxTaps \in Nat
  /\ Disturbances \subseteq Allowed

Uids  == Users \cup {NoUser}
Forms == 1 .. MaxForms
NoPicture == 0

VARIABLES
  user,     \* the signed-in account, or NoUser: the login screen covers the rest
  place,    \* where the stack of the search tab stands
  mail,     \* the default "userMail"
  url,      \* the default "url": the form whose upload it names, or NoPicture
  form,     \* forms opened so far; the last is the one on the stack, if any
  page,     \* what the form on the stack holds
  uploads,  \* uploads[f]: where the upload of form f's picture stands
  stored,   \* the forms whose picture is in the storage
  taps,     \* ads written so far, each under an identifier of its own
  outbox,   \* outbox[u]: the ads of u not yet answered by the server
  board     \* the documents of the collection

vars == <<user, place, mail, url, form, page, uploads, stored, taps, outbox, board>>

-----------------------------------------------------------------------------
\* gps: the hidden labels hold coordinates, and not the storyboard's "Label";
\* geocoding: an answer of the geocoder is awaited; known: adsAddress is set;
\* street: locationLabel holds the address; hidden: the switch is on; crossed:
\* a session ended while the form was open.
Page == [gps : BOOLEAN, geocoding : BOOLEAN, known : BOOLEAN,
         street : BOOLEAN, hidden : BOOLEAN, crossed : BOOLEAN]

Blank == [gps |-> FALSE, geocoding |-> FALSE, known |-> FALSE,
          street |-> FALSE, hidden |-> FALSE, crossed |-> FALSE]

\* What is written, with what it was written under: the tap, its form and user.
Ad == [tap : Nat, form : Forms, by : Users, mail : Users, picture : Forms,
       gps : BOOLEAN, street : BOOLEAN, hidden : BOOLEAN, crossed : BOOLEAN]

Entry == [id : Nat, ad : Ad]

Init ==
  /\ user \in Uids
  /\ place = "list"
  /\ mail \in Uids
  /\ url = NoPicture
  /\ form = 0 /\ page = Blank
  /\ uploads = [f \in Forms |-> "none"]
  /\ stored = {}
  /\ taps = 0
  /\ outbox = [u \in Users |-> <<>>]
  /\ board = {}

TypeOK ==
  /\ user \in Uids
  /\ place \in {"list", "home", "form"}
  /\ mail \in Uids
  /\ url \in Forms \cup {NoPicture}
  /\ form \in 0 .. MaxForms /\ (place = "form" => form \in Forms)
  /\ page \in Page
  /\ uploads \in [Forms -> {"none", "put", "url"}]
  /\ stored \subseteq Forms
  /\ taps \in 0 .. MaxTaps
  /\ outbox \in [Users -> Seq(Ad)]
  /\ board \subseteq Entry

-----------------------------------------------------------------------------
(***************************************************************************)
(* Moving about.  Home, the form and the detail screens each store the     *)
(* session's address when they appear, the detail screens on either tab.   *)
(***************************************************************************)
SignedIn == user # NoUser

GoHome ==
  /\ SignedIn /\ place = "list"
  /\ place' = "home" /\ mail' = user
  /\ UNCHANGED <<user, url, form, page, uploads, stored, taps, outbox, board>>

LeaveHome ==
  /\ SignedIn /\ place = "home"
  /\ place' = "list"
  /\ UNCHANGED <<user, mail, url, form, page, uploads, stored, taps, outbox, board>>

OpenDetail ==
  /\ SignedIn
  /\ mail' = user
  /\ UNCHANGED <<user, place, url, form, page, uploads, stored, taps, outbox, board>>

NewForm ==
  /\ SignedIn /\ place = "home"
  /\ form < MaxForms
  /\ place' = "form" /\ form' = form + 1 /\ page' = Blank /\ mail' = user
  /\ UNCHANGED <<user, url, uploads, stored, taps, outbox, board>>

\* Back from the form: Home appears again.
Back ==
  /\ SignedIn /\ place = "form"
  /\ place' = "home" /\ mail' = user /\ page' = Blank
  /\ UNCHANGED <<user, url, form, uploads, stored, taps, outbox, board>>

\* Mutant: there is a sign-out button on every screen.
SignOut_Anywhere ==
  /\ SignedIn
  /\ user' = NoUser
  /\ UNCHANGED <<place, mail, url, form, page, uploads, stored, taps, outbox, board>>

SignOut ==
  /\ SignedIn /\ place = "home"
  /\ user' = NoUser
  /\ UNCHANGED <<place, mail, url, form, page, uploads, stored, taps, outbox, board>>

\* The client signs out by itself when the server refuses the user's token.
Revoked ==
  /\ "revoke" \in Disturbances
  /\ SignedIn
  /\ user' = NoUser
  /\ page' = [page EXCEPT !.crossed = place = "form"]
  /\ UNCHANGED <<place, mail, url, form, uploads, stored, taps, outbox, board>>

\* The login screen goes; if it covered Home, that appears again.
SignIn ==
  /\ ~SignedIn
  /\ user' \in Users
  /\ mail' = IF place = "home" THEN user' ELSE mail
  /\ UNCHANGED <<place, url, form, page, uploads, stored, taps, outbox, board>>

-----------------------------------------------------------------------------
(***************************************************************************)
(* Position and address.  Callbacks run under the login screen too.        *)
(***************************************************************************)

\* Mutant: the coordinates are stored with the address, if at all.
Locate_NoLabels ==
  /\ place = "form" /\ ~page.gps
  /\ page' = [page EXCEPT !.geocoding = TRUE]
  /\ UNCHANGED <<user, place, mail, url, form, uploads, stored, taps, outbox, board>>

\* didUpdateLocations, once: it stops the updates and asks the geocoder.
Locate ==
  /\ place = "form" /\ ~page.gps
  /\ page' = [page EXCEPT !.gps = TRUE, !.geocoding = TRUE]
  /\ UNCHANGED <<user, place, mail, url, form, uploads, stored, taps, outbox, board>>

\* The geocoder's answer, which does not look at the switch, or its error.  The
\* answer for a form that is gone changes nothing anybody reads.
Geocoded ==
  /\ place = "form" /\ page.geocoding
  /\ \/ page' = [page EXCEPT !.geocoding = FALSE, !.known = TRUE, !.street = TRUE]
     \/ /\ "reject" \in Disturbances
        /\ page' = [page EXCEPT !.geocoding = FALSE]
  /\ UNCHANGED <<user, place, mail, url, form, uploads, stored, taps, outbox, board>>

\* adressHidden: the field is emptied, or takes adsAddress, which may be nil.
Switch ==
  /\ SignedIn /\ place = "form"
  /\ page' = [page EXCEPT !.hidden = ~@, !.street = page.hidden /\ page.known]
  /\ UNCHANGED <<user, place, mail, url, form, uploads, stored, taps, outbox, board>>

-----------------------------------------------------------------------------
(***************************************************************************)
(* The picture: put into the storage, then its address is asked for, then  *)
(* kept in the defaults, whatever became of the form in the meantime.      *)
(***************************************************************************)

\* Mutant: the address is kept before there is a picture.
Pick_UrlAtOnce ==
  /\ SignedIn /\ place = "form"
  /\ uploads[form] = "none"
  /\ uploads' = [uploads EXCEPT ![form] = "put"]
  /\ url' = form
  /\ UNCHANGED <<user, place, mail, form, page, stored, taps, outbox, board>>

Pick ==
  /\ SignedIn /\ place = "form"
  /\ uploads[form] = "none"
  /\ uploads' = [uploads EXCEPT ![form] = "put"]
  /\ UNCHANGED <<user, place, mail, url, form, page, stored, taps, outbox, board>>

PutDone(f) ==
  /\ uploads[f] = "put"
  /\ \/ /\ uploads' = [uploads EXCEPT ![f] = "url"]
        /\ stored' = stored \cup {f}
     \/ /\ "reject" \in Disturbances
        /\ uploads' = [uploads EXCEPT ![f] = "none"]
        /\ UNCHANGED stored
  /\ UNCHANGED <<user, place, mail, url, form, page, taps, outbox, board>>

UrlDone(f) ==
  /\ uploads[f] = "url"
  /\ uploads' = [uploads EXCEPT ![f] = "none"]
  /\ url' = f \/ ("reject" \in Disturbances /\ url' = url)
  /\ UNCHANGED <<user, place, mail, form, page, stored, taps, outbox, board>>

-----------------------------------------------------------------------------
(***************************************************************************)
(* Publication.                                                            *)
(***************************************************************************)

\* Mutant: the defaults are taken as they are.
Publish_NoDefaults ==
  /\ SignedIn /\ place = "form"
  /\ taps < MaxTaps
  /\ taps' = taps + 1
  /\ outbox' = [outbox EXCEPT ![user] = Append(@,
       [tap |-> taps + 1, form |-> form, by |-> user, mail |-> mail,
        picture |-> url, gps |-> page.gps, street |-> page.street,
        hidden |-> page.hidden, crossed |-> page.crossed])]
  /\ UNCHANGED <<user, place, mail, url, form, page, uploads, stored, board>>

\* publishButton with valid fields; it does nothing, and says nothing, while
\* either default is missing.  With an invalid field it only alerts.
Publish ==
  /\ SignedIn /\ place = "form"
  /\ mail # NoUser /\ url # NoPicture
  /\ taps < MaxTaps
  /\ taps' = taps + 1
  /\ outbox' = [outbox EXCEPT ![user] = Append(@,
       [tap |-> taps + 1, form |-> form, by |-> user, mail |-> mail,
        picture |-> url, gps |-> page.gps, street |-> page.street,
        hidden |-> page.hidden, crossed |-> page.crossed])]
  /\ UNCHANGED <<user, place, mail, url, form, page, uploads, stored, board>>

Queued == SignedIn /\ outbox[user] # <<>>
First  == Head(outbox[user])

\* An ad is a document under the identifier that the device drew for the tap.
Document(ad) == [id |-> ad.tap, ad |-> ad]

\* Mutant: the server draws the identifier.
Commit_NewId ==
  /\ Queued
  /\ board' = board \cup {[id |-> Cardinality(board) + 1, ad |-> First]}
  /\ UNCHANGED <<user, place, mail, url, form, page, uploads, stored, taps, outbox>>

\* The server takes the oldest ad; it does so again if its reply was lost.
Commit ==
  /\ Queued
  /\ board' = board \cup {Document(First)}
  /\ UNCHANGED <<user, place, mail, url, form, page, uploads, stored, taps, outbox>>

\* Mutant: the reply counts only while the form is there.
Reply_OnForm ==
  /\ Queued /\ Document(First) \in board
  /\ place = "form" /\ form = First.form
  /\ outbox' = [outbox EXCEPT ![user] = Tail(@)]
  /\ place' = "list" /\ page' = Blank
  /\ UNCHANGED <<user, mail, url, form, uploads, stored, taps, board>>

\* Its reply: the completion handler pops the form to the root if it is still
\* on the stack; the handlers of forms gone have no navigation controller.
Reply ==
  /\ Queued /\ Document(First) \in board
  /\ outbox' = [outbox EXCEPT ![user] = Tail(@)]
  /\ IF place = "form" /\ form = First.form
       THEN place' = "list" /\ page' = Blank
       ELSE UNCHANGED <<place, page>>
  /\ UNCHANGED <<user, mail, url, form, uploads, stored, taps, board>>

\* The server refuses the ad: the handler logs, the form stays.
Refuse ==
  /\ "reject" \in Disturbances
  /\ Queued /\ Document(First) \notin board
  /\ outbox' = [outbox EXCEPT ![user] = Tail(@)]
  /\ UNCHANGED <<user, place, mail, url, form, page, uploads, stored, taps, board>>

\* Session, defaults and queued writes are on disk; forms and uploads are not.
Restart ==
  /\ "restart" \in Disturbances
  /\ place' = "list" /\ page' = Blank
  /\ uploads' = [f \in Forms |-> "none"]
  /\ UNCHANGED <<user, mail, url, form, stored, taps, outbox, board>>

-----------------------------------------------------------------------------
Moving     == GoHome \/ LeaveHome \/ OpenDetail \/ NewForm \/ Back
Session    == SignOut \/ Revoked \/ SignIn
Addressing == Locate \/ Geocoded \/ Switch
Picturing  == Pick \/ \E f \in Forms : PutDone(f) \/ UrlDone(f)
Publishing == Publish \/ Commit \/ Reply \/ Refuse

Next == Moving \/ Session \/ Addressing \/ Picturing \/ Publishing \/ Restart

Spec == Init /\ [][Next]_vars

\* The client keeps sending what the signed-in user has queued.
FairSpec == Spec /\ WF_vars(Commit) /\ WF_vars(Reply)

-----------------------------------------------------------------------------
(***************************************************************************)
(* Correctness.                                                            *)
(***************************************************************************)
Published == {e.ad : e \in board}

\* An ad stands under the address of the account that published it, unless a
\* session ended while its form was open.  The address is the one that some
\* screen stored in the user defaults, at some earlier time.
AuthorIsPublisher == \A ad \in Published : ad.crossed \/ ad.mail = ad.by

\* A tap on the publish button puts one ad on the board, however often the
\* write is sent again after lost replies and restarts.
OncePerTap ==
  \A e, f \in board : e.ad.tap = f.ad.tap => e = f

\* The picture an ad names was put into the storage: by this form or an
\* earlier one, of this user or another.
PicturesExist == \A ad \in Published : ad.picture \in stored

\* An ad that shows its seller's street also has the coordinates that the
\* distances of the search list are computed from.
StreetHasPlace == \A ad \in Published : ad.street => ad.gps

\* Once somebody stays signed in, everything they have queued reaches an answer.
PublicationsDrain ==
  \A u \in Users : <>[](user = u) => <>[](outbox[u] = <<>>)

\* An ad published with the switch on does not show the street.
HiddenStaysHidden == \A ad \in Published : ad.hidden => ~ad.street
=============================================================================
