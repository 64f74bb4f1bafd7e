# VoisinMalin, specified

VoisinMalin is an iOS application for second-hand ads between neighbours: ads
live in one Firestore collection (`ads`), anybody signed in can list them, mark
favourites, publish, and take their own ads down. This directory holds TLA+
modules of the application and of what it sees of the Firestore client, TLC
configurations that check them on small instances, and proofs of the main
theorems for every instance. Paths below are relative to
`src/VoisinMalin/VoisinMalin` unless they begin with `Pods`.

## 1. Inventory

All application code runs on the main queue: a tap, an appearance of a screen
or the completion handler of a query, a write, a geocoding or an upload each
run to their end, one after the other. What interleaves is everything in
between, since every network call returns at once and its handler runs later.

| Component | State it keeps | Operations | Talks to |
|---|---|---|---|
| Detail screen (`Controller/DetailViewController.swift`) | the ad it shows (a copy), the flag `inFavorite`, whether the delete button is hidden | `viewDidLoad`, `viewDidAppear`/`checkFavorites`, `favoriteButton`, `delButtonPressed`, five kinds of completion handlers, pop | Firestore, session, navigation stack |
| Firestore client (`Pods/FirebaseFirestore`) | the server's documents as far as known, one write queue per user (on disk), waiting queries | `getDocuments`, `setData(merge)`, `updateData`, `delete`, acknowledgement, refusal, change of user, restart | server; main queue |
| Favourites list (`Controller/FavoritListController.swift`) | `privateAds` | `viewWillAppear`/`loadData`, one more query per cell, removal of a row, selection | Firestore, session, detail screen |
| Search list (`Controller/SearchListController.swift`) | `privateAds`, position, sort control | `viewWillAppear`/`loadData`, `sortSegmentPressed`, position, selection | Firestore, location, detail screen |
| Home (`Controller/HomeViewController.swift`) | `privateAds`, user name | `viewDidAppear`/`uploadData`/`bindUI`, sign-out, removal of a row, selection | Firestore, session, directory |
| Ad creation (`Controller/AdCreateViewController.swift`) | form fields, address, position; the user defaults `url` and `userMail` | position, geocoding, image upload, address switch, publish | Firestore, storage, location, session |
| Session gate (`TabBarController`, `LoginViewController`, `AuthentificationViewController`, `Model/ModuleFirebase/FirebaseAuthManager.swift`) | signed-in user, presented screens | state listener, sign-in, sign-up, sign-out | Firebase Auth |
| User directory (`Model/ModuleFirebase/FirebaseDatabaseManager.swift`) | none | `getUserData` | Firestore |
| Form rules (`Model/StringExtension.swift`, `Model/TestValues.swift`) | none | `isBlank`, `isNumeric`, `validEmailAdress`, `isValidPassword` | used by creation and sign-up |
| Image loading (`Model/UIImage.swift`) | none | `load` | a background queue |
| Presentation, delegates, tests, vendored pods | | | not modelled |

What is hard here:

* **A tap is two calls.** The star and the delete button first query for the
  documents *with the ad's title*, and write to each of them when the answer
  comes. Between the two, other taps, other screens, other devices and other
  sessions run. What a tap does is decided when its answer arrives.
* **The client answers from a view.** Own writes are visible before the server
  has them; they wait in a queue that survives the process, the callbacks do
  not; without a connection the cache answers.
* **A change of session is two steps.** Auth has the new user at once; Firestore
  and the login screen's listener hear of it in a block on the main queue, behind
  the callbacks that were there before.
* **Screens outlive what they show.** Controllers stay on the stacks of the two
  tabs, through deletions, changes of session and further appearances.
* **Documents come back as ghosts.** `setData(merge)` on a deleted document
  creates it anew with one field.
* **Several parts of one step fail separately**: the deletions of one tap are
  separate writes.
* **The login screen is presented by a listener** that runs later than the change
  it is told of, and compares with what it saw last; UIKit drops a presentation
  while another one is on; `dismiss` dismisses whatever is above first.
* **Home's answers outlive the session** that asked for them.

Properties that make each component correct:

* Detail: the star ends up true; only authors take ads down; what was announced
  as deleted stays deleted; a mark goes out from the queue of the account that it
  names, unless a change of session is on its way to the client; nothing hangs.
  All stated in `AdDetail`.
* Lists: what a list shows, once its loads are answered, is what the board holds,
  each ad once, in the order that the control shows; a removed row is gone.
* Creation: an ad is on the board at most once per tap, under its author, with
  the picture that was chosen and the address only if it is not hidden.
* Gate: nobody signed out stays on the tabs. (Somebody signed in may be at the
  login screen: after the launch, see `SessionGate`.)
* Home: no cell of its table shows an ad of anyone but the user it last appeared
  for, and its label is true.
* Forms: what sign-up accepts, sign-in accepts; the field checks mean what their
  comments say.

The hazards are listed one by one in `PROJECT.json`, with the properties that
guard them.

## 2. Plan

All of it is done, in this order:

1. `AdBoard`: the abstract board that all devices share.
2. `FirestoreClient`: the client, its queues and its server, as one device sees
   them; no application code.
3. `AdDetail`: the detail screens on top of the client; implements `AdBoard`.
4. `AdDetailProofs`: type correctness, refinement and safety for all constants.
5. `AdCreation`: the form, position, geocoding, upload and publication, with
   the two user defaults that other screens share.
6. `AdCreationProofs`: type correctness and safety for all constants.
7. `AdLists`: composes the lists (search, favourites) with the detail screens on
   the same client: loading, sorting, selection, removal of rows, overlapping
   appearances, the two tabs.
8. `AdListsProofs`: types, the board, the safety of deletions, the bound on double
   rows and the favourites for the composition.
9. `SessionGate`: Auth, the listener, the login screen and the sign-up sheet.
10. `HomeScreen`: composes Home with the gate that covers it.
11. `SessionGateProofs`, `HomeScreenProofs`: the gate's promise for any numbers of
    accounts and calls, and that Home keeps it.
12. `FormRules`, `FormRulesProofs`: the rules of the forms, for words of any length.
13. `FirestoreClientProofs`: what the client's folds compute, for the proofs about
    both kinds of screens.
14. `StarProofs`: the star of a detail screen settles on the user's marks.

What is left out, and why, is in section 6.

## 3. Modules

### AdBoard
What users rely on: an ad is published once, is on the board, is removed for
good (`life`), and has favourites (`favs`). Steps are `Publish`, `Remove`,
`Mark`, `Unmark`.

### FirestoreClient
State: `store` (documents at the server: `unborn`, `ad`, `gone`, `ghost`, and
the set of users whose favourite field they carry), `user` (Firebase Auth's
current user), `owner` (the user whose write queue the client works on), `pending`
(write queue per user), `reads` (a bag of waiting queries, as a function to
numbers), `inbox` (the main queue's callbacks: answers, acknowledgements, and the
blocks that tell of a change of session).

| Definition | Code |
|---|---|
| `LocalDoc`, `Matches`, `Result` | `LocalDocumentsView::GetDocumentsMatchingCollectionQuery`: remote documents overlaid with the user's mutation batches in order, then filtered |
| `ApplyWrite`, `Accepts` | merge (`Precondition::None`), update (`Precondition::Exists(true)`), delete |
| `Ask`, `Raise` | `Query::GetDocuments`, `QueryListener::ShouldRaiseInitialEvent`: the first event is the synchronised one, or the cache's when offline |
| `Enqueue`, `Commit`, `Answered`, `Acked` | `SyncEngine::WriteMutations`, `HandleSuccessfulWrite`, `HandleRejectedWrite`, `NotifyUser` |
| `ChangeUser` | `FIRAuth updateCurrentUser` sets `_currentUser`; `possiblyPostAuthStateChangeNotification` dispatches a block to the main queue, with the user as it is then |
| `HandleCredentialChange` | that block: `FirebaseCredentialsProvider`'s observer, `SyncEngine::HandleCredentialChange`, `LocalStore::HandleUserChange` |
| `RestartClient`, `Orphan` | `LocalStore::StartMutationQueue`; `mutation_callbacks_` lives in memory only |
| `RemotePublish`, `RemoteWrite` | the same application on another device |

`Enqueue` takes the name of a write from `user`, as the handlers do
(`Auth.auth().currentUser`), and its queue from `owner`. `Telling` is the time in
which the two may differ: a change of session is made and not yet told.

The loop over the documents of an answer makes one write per document; they are
queued in the answer's order, which the application does not choose, so an entry
of the queue is a *set* of documents that `Commit` empties one by one in any
order, and the entry keeps its place. `Disturbances` chooses the environment of
a run: other devices, refusals, cached answers, changes of session, restarts.

A query is a record of its kind, which names the handler that will run, the
controller, and the values its clauses compare (`Compared`: the account, for the
kinds that ask for marks or for an author). `ByTitle`, `ByMark` and `ByMail`
say which clauses a kind has, `KindsOf` which kinds a controller asks; the
modules of the screens fix it (`DetailKinds`, `ListAssumption`).

### AdDetail
One controller per element of `Screens`, at most one in front (`visible`). Each
action is one tap, one appearance or one completion handler as a whole:
`Open` (`viewDidLoad`), `Appear` (`viewDidAppear`), `TapFavorite`, `TapDelete`,
`Leave`, `Back`, `CheckAnswer`, `FavoriteAnswer`, `DeleteAnswer`, `WriteDone`.
`SwitchUser` is a change of session, under any screen; `SessionTold` is its block,
which tells the client and presents the login screen (`Login`) if nobody is signed
in by then, or uncovers what was below it; `Restart` is a new process. A controller's slot is used
again when no callback holds the former controller (`Held`), as a new instance
would be.

### AdCreation
A module of its own, not on top of `FirestoreClient`: a publication is one
`setData` under an identifier that the device draws, and no query of the form
reads anything, so that a queue of ads per user is all there is to see of the
client.

| Variable | Code |
|---|---|
| `user` | Firebase Auth's current user; while there is none the login screen is assumed to cover everything, so nobody taps |
| `place` | what stands on the search tab's stack: the list, Home, or Home and the form |
| `mail`, `url` | the user defaults `userMail` and `url`, shared by all screens and kept on disk |
| `form`, `page` | the form on the stack (forms are numbered) and its labels, switch and `adsAddress` |
| `uploads`, `stored` | the chain `putData`, `downloadURL`, default; the storage |
| `taps`, `outbox`, `board` | the ads written, the write queue of each user, the collection |

| Action | Code |
|---|---|
| `GoHome`, `LeaveHome`, `NewForm`, `Back`, `OpenDetail` | the screens that set `userMail` when they appear |
| `SignOut`, `Revoked`, `SignIn` | Home's button; the token refused by the server; `TabBarController`'s listener and the login screen |
| `Locate`, `Geocoded`, `Switch` | `didUpdateLocations` (which stops the updates), the geocoder's handler, `adressHidden` |
| `Pick`, `PutDone`, `UrlDone` | `imagePickerController`, and the two completion handlers of the upload |
| `Publish` | `publishButton`: validation, the two defaults, `setData` |
| `Commit`, `Reply`, `Refuse` | the server takes the ad; the client is told so and the handler pops the form; the server refuses it |
| `Restart` | session, defaults and queue survive, screens and uploads do not |

`Commit` and `Reply` are apart, and `Commit` may happen again: that is the lost
reply, and the restart in between. An ad carries, for the properties only, the
circumstances it was written under (`by`, `form`, `hidden`, `crossed`).

### AdLists
The search list and the favourites, each at the root of its tab's navigation
stack, with a detail controller per tab. It extends `AdDetail`: lists and detail
screens ask the same client and wait in the same main queue, so that a load of a
list, a tap on a star and a deletion on the other tab interleave.

| Variable | Code |
|---|---|
| `tab`, `shown` | the tab bar's selection; the list in front, if any (`visible` of `AdDetail` is the detail screen in front) |
| `rows` | `privateAds` of the list in front, as the number of rows per ad |
| `order`, `control` | what the rows of the search list were last sorted by; `selectedSegmentIndex` |
| `announced`, `promised` | no state of the program: the ads whose deletion popped the screen in front of the user, and those whose star turned black in front, for the user who still is, and was not taken back |

| Action | Code |
|---|---|
| `ListAppear` | `viewWillAppear`: the rows are dropped and `loadData` asks |
| `LoadAnswer` | the handler of `loadData`: every document is appended, the search list sorted by title |
| `Press` | `sortSegmentPressed` |
| `Select` | `didSelectRowAt` and `prepare`, with the detail screen's `viewDidLoad` (`Open`) |
| `Swipe`, `RemoveAnswer`, `RemoveDone` | `commit editingStyle` with its query's handler and its update's handler, which reloads the table and drops no row |
| `SelectTab`, `DetailAppear`, `TapDetail` | the tab bar, and what the user does on a detail screen |
| `DetailAnswer`, `DetailDone` | the handlers of the detail screen |
| `SessionChange`, `ListsTold` | what was promised was promised to the former user; the block that tells of the change covers the list in front by the login screen |
| `Relaunch` | all is lost with the process |

A list drops its rows whenever it appears, so nothing ever reads the rows of a
list that is out of sight: `rows` is the front list's. The loads of a list out of
sight are kept, since they are appended if it is back in front by then, and that
is where double rows come from. A star that turns black while a change of session
is on its way (`Telling`) is no promise: the mark may be in another's queue.

### SessionGate
Who is signed in, who knows of it, and what is presented above the tabs.

| Variable | Code |
|---|---|
| `user`, `keychain` | `_currentUser` of `FIRAuth` and the copy it keeps; after a launch the copy is read on Auth's queue, some time later |
| `seen` | `previousUserID` of the observer that `addAuthStateDidChangeListener` makes |
| `accounts`, `calls` | the server's accounts; `signIn` and `signUp` calls that it has not answered |
| `main` | blocks on the main queue: the listener's first run and its notifications, the block that presents the login screen, completion handlers |
| `stack` | what is presented above the tab bar controller, each by the one below: an alert or picker, or the login screen with the sign-up sheet or an alert |
| `excuse` | no state of the program: why the login screen may be missing |

| Action | Code |
|---|---|
| `Load` | `initWithAPIKey`: the keychain is read on the work queue; nothing else of that queue runs before (`Loaded`) |
| `Answer`, `SignOut`, `Revoke` | `updateCurrentUser` saves, sets and posts on the main queue, ahead of the completion handler; `signOut`; a refused token (`FIRUser.m`) |
| `Listen` | the observer: told of a *different* user only, and of the user as it is when it runs, not when it was posted; `isUserConnected`'s handler then dispatches |
| `PresentLogin` | `TabBarController`: presents the login screen, without asking again who is signed in |
| `TapSignIn`, `SignInDone` | `loginViewPressButton` and its handler: `dismiss`, or an alert |
| `OpenSignUp`, `TapSignUp`, `SignUpDone` | the segue to the sheet, `signupPressButton`, the handler's unwind segue and its unwind action |
| `Close`, `Cover` | an alert is answered or the sheet pulled down; a screen of the tabs presents a picker or an alert |

A call knows whether the screen that made it is still presented (`here`); the
answer to one that is gone changes the session and finds nothing to dismiss.
`SignUpDone` leaves open whether one screen or both go: the unwind segue and the
unwind action dismiss one after the other, and what the second finds depends on
UIKit's transition.

### HomeScreen
Extends `SessionGate`: the gate's stack covers Home, Home's button signs out.
`place` and `front` say whether Home is on its tab's stack and has appeared,
`mail` is the user default `userMail`, `rows` the authors of `privateAds`, `cells`
those of the rows that are on screen and have a cell, `loads` the list queries that
this Home has under way, by the address they ask for, `hidden` that the table has
hidden itself. `HomeAppear` is `viewDidAppear` as a whole, `ListAnswer` the handler
of `uploadData` with the redraw that follows. `Draw` is `cellForRowAt` for the rows
on screen, which are some of all and not none of some (`Windows`): if one is a
stranger's, the table hides itself; a stranger's row further down hides nothing until
the user moves the list (`Scroll`). `Navigate` is what takes the user away
and back; `Guard` are the gate's steps, under which Home disappears when the
login screen covers it. The table may also be redrawn with a new default before
the rows are dropped (`HomeAppear`'s choice of `hidden'`). What a hidden table holds is
left out: nothing shows it again.

### FormRules
Operators over words whose characters are classes (`upper`, `lower`,
`accented`, `digit`, `space`, `newline`, `other`), which is all that the
pattern and the character sets look at: `ValidPassword` (`isValidPassword`),
`SignUpAccepts` and `SignUpSends` (the sheet checks the trimmed words and sends
the typed ones), `SignInSends` (the login screen trims), `IsBlank`, `IsNumeric`,
`NumberAccepted` (`publishButton`). No state. `MCHomeScreen` compares `Trim` with
a definition by what is stripped, on all words of up to four characters
(`TrimStrips`).

### MCAdDetail, MCAdCreation, MCAdLists, MCHomeScreen
Two ads, two accounts, and the ways to share titles and authors; two accounts;
the four controllers with the queries that each makes, and one ad or two; two
accounts with ads.

## 4. Runs

| Run | Environment | Shows |
|---|---|---|
| `detail_calm` | two ads under one title, their seller or another user signed in, one screen, restarts; three calls under way | `StarSettles`: after any taps, once all is answered, a black star means a favourite and the reverse. `DeletionsByAuthors`: only the seller's device takes an ad down. `EverythingDrains`: no refused or impossible write blocks the queue |
| `detail_stress` | one ad, two accounts, sessions that change between any two steps, another device, refusals, cached answers; two calls under way | `TypeOK`, `AnnouncedDeletionsHold`, `ImplementsBoard`. `NamesMatchQueues`: a write that is queued while no change of session is on its way to the client carries the name of the account whose queue it is in, however many changes overtook one another before |
| `shared_title` | two sellers share a title | violates `DeletionsByAuthors` |
| `stale_star` | the ad is open on both tabs, one call at a time | violates `StarSettles` |
| `stale_button` | sessions change above an open screen | violates `DeleteButtonForAuthor` |
| `create_forms` | two forms one after the other, one publication; sessions end by button or by themselves, everything may fail, restarts | `TypeOK`, `AuthorIsPublisher`, `PicturesExist`, `StreetHasPlace` |
| `create_retry` | one form, two publications; the same disturbances | `OncePerTap`: sent again is not published again. `PublicationsDrain`: the queue of whoever stays signed in empties |
| `hidden_address` | one form, one publication, nothing goes wrong | violates `HiddenStaysHidden` |
| `lists_tabs` | both tabs with a detail controller each, one ad, sign-outs, restarts; two calls under way | `ListsTypeOK`. `CopiesBounded`: double rows come only of loads under way together. `DeletedStaysOffLists`: a load asked for before a deletion and answered after it shows nothing that the user was told is gone. `FavouritesReachTheirList`: a star that turned black is a row of the favourites |
| `sort_control` | two ads, one call at a time, nothing goes wrong | violates `SortFollowsControl` |
| `home_gate` | two accounts with ads, two calls to Auth and two waits in all under way; failures, sessions that end by themselves, pickers and alerts, restarts | `HomeTypeOK`. `LoginComes`: once all blocks have run, who is signed out is at the login screen, or something was presented when it was due, or the session was refused before the listener had noticed it. `CellsOfOneUser`: the cells of a table in front are of the user it last appeared for, or it has hidden itself, whatever is in the rows out of sight |
| `no_ads_label` | two accounts with ads, one call and two waits under way, nothing goes wrong | violates `NoAdsLabelTrue` |

`shared_title`, `stale_star`, `stale_button`, `hidden_address`, `sort_control` and
`no_ads_label` are disagreements between the code and its own comments, labels or design note,
with a finding each in `PROJECT.json`. In `sort_control`, a load sorts by title
whatever the segmented control says, and each appearance loads: back from an ad,
the list is by title under a control that reads "Distance". In `hidden_address`,
the geocoder's answer writes the
street into the field whatever the switch says, so that a seller who hides the
address before the answer comes publishes it. In `no_ads_label`, the table that
hides itself at a stranger's row, which is what `CellsOfOneUser` is about,
never shows itself again: a user who signs in while the former one's list is on
its way is told for good that there are no ads. (The label is also *not* shown to
a user without ads: without rows no cell is drawn, and only cells show it.) `StarSettles` therefore holds for
one controller and not for two; `DeletionsByAuthors` holds while no two sellers
share a title and not otherwise. The passing runs and the theorems say so in
their constants and hypotheses.

Bounds. `MaxOutstanding` is the number of calls (queries, callbacks, queued
writes) under way when the user may still start one; handlers are not held back
by it, so a tap's writes always follow. Three let a check, a tap and the writes
of an earlier tap overlap; two let an answer wait in the main queue ahead of the
block that tells of a change of session, or two such blocks be on their way at once.
One is already enough for `stale_star`, which shows that it is no race. Two documents are enough for "every document with the title"
(`detail_calm`), two users for "somebody else". `detail_stress` has every
disturbance but restarts, and one ad for it; that the parts of a deletion fail
separately, and disturbances with several ads, the proofs cover.
`shared_title` and `stale_star` switch the deadlock check off: with all
ads deleted and nobody to publish, nothing is left to do.

For `AdCreation`, a late callback needs an earlier form and a later one
(`MaxForms = 2`), a repeated write and the queue behind it need two taps
(`MaxTaps = 2`); each run has one of the two, for together they exceed what five
minutes can explore, and the theorems hold for any. A form uploads one picture
at a time and gets one position.

For `AdLists`, two calls are what overlapping loads need, and also a load that is
overtaken by a deletion. One ad is enough for `lists_tabs`: its properties speak of
the rows of one ad, and ads meet only where an answer's documents are written
together, which the runs of `AdDetail` have. The search stops where the segmented control is turned
while a call is under way (`SortWhileIdle`): nothing that the properties of this run read
depends on the control. `sort_control` needs two ads for an order, and no overlap.

For `HomeScreen`, `MaxCalls = 2` lets the answer of one call meet the screens that
the other's changed, and `MaxWaits = 2` is room for the list queries of two
sessions, or for one beside a call. Two accounts are a user and a stranger, and are alike
(symmetry). The proofs have no bounds.

Fairness of `AdDetail` (`FairSpec`, used by `detail_calm` only): the client
eventually answers a waiting query (`Answering`), the server eventually answers
the oldest write (`Committing`), the main queue eventually runs the next callback (`Handling`):
weak fairness each, justified by gRPC's reconnecting streams
(`Pods/FirebaseFirestore/Firestore/core/src/remote`) and by the run loop. The
user, other devices and restarts are not fair. `EverythingDrains` asks for a
user who eventually stops; that is its hypothesis, not an assumption.

Fairness of `AdCreation` (`FairSpec`, used by `create_retry` only): `Commit` and
`Reply`, weakly, for the user who is signed in: the client keeps sending the
oldest write over reconnecting streams until it is answered. Nothing makes a
refusal happen, nor uploads, nor the user.

Mutants. Each property of a passing run has one in `PROJECT.json`: the body of
a mapped definition is replaced by a plausible bug (views without latency
compensation, refused writes retried forever, an unchecked outcome, the delete
button for everybody, merges that resurrect ads, a change of session not
posted when the client already works for that user; defaults taken unchecked, an identifier drawn at each
attempt; lists that keep their rows, that do
not load while another call is under way, acknowledgements that overtake the
answers before them; a listener that takes the launch for a session's end, a login
screen presented by whatever is on top, a Home whose table is not reloaded when its
rows are dropped).

## 5. Proofs

`FirestoreClientProofs` is the ground of the three modules about screens: what the
client's two folds compute, for queues and sets of any size.

* `Outstanding` is a sum (`SumFunction`) over waiting queries and queues. `SumChange`
  says that changing one term changes the sum by as much, `SumSubset` that the loads of
  one list are at most all the calls (`OutstandingParts`).
* `LocalDoc` folds the queue of writes over the server's document. `View(q, d, b)` is
  that fold for any queue; `ViewAppend` and `ViewHead` unfold it at either end,
  `LastWrite` says which write decided it. From these follows what each step does to the
  documents as the device sees them: `LocalEnqueue` applies the new write, `LocalRestart`
  changes nothing, and `LocalCommit`, the theorem among them, neither: a write that the
  server takes was seen before. A refused write, or one of another device, breaks it.

The folds are defined by recursive functions that `CHOOSE` picks by their equation.
That a function with the equation exists, and that any two agree, is induction over a
set, `SetInduction`, which is had from the least counterexample (`NatLessThanWellFounded`,
`WFMin`) and needs no theorem with an operator for parameter.

`AdDetailProofs` proves, for any sets of documents, users, titles and screens,
any disturbances and any `MaxOutstanding`:

* `TypeCorrect`: `Spec => []TypeOK`.
* `DetailImplementsBoard`: `Spec => ImplementsBoard`. A step changes at most one
  document, and along the order unborn, ad, removed (ghosts and gone documents
  are both removed for the board). The inductive part, `BornInv`, says that
  queued writes name documents that were published: without it a write could
  turn an unborn document into a ghost, a jump the board does not have.
* `DeletionsHold`: `Spec => []AnnouncedDeletionsHold`, by `AckInv`: a successful
  acknowledgement of a deletion names a document that is gone or a ghost, and
  these never become an ad again.
* `WritesFindTheirQueue`: `Spec => NamesMatchQueues`, by `SessionInv`: the last
  block on its way that tells of a change names Auth's user, and with none on its
  way the client works for that user. It holds since every change posts a block,
  blocks name the user of the moment and run in order. A write of the time in
  between may be misnamed: then the mark of one account waits in the queue of
  another, which the code does nothing against.
* `DeletionSafety`: if no two authors share a title (`OneAuthorPerTitle`) and
  the session does not change, `Spec => DeletionsByAuthors`. The permission is
  handed on: button shown, query waiting, answer in the inbox, write in the
  queue, deletion committed. `DeletionInv` has one conjunct per stage, each the
  reason for the next, and `CalmInv`: nothing is on its way to the client, which works
  for Auth's user. None is inductive alone. A write of the user's device is
  the only one meant: what other devices do is bound by the same theorem there.

`StarProofs` proves `StarFollowsTheMarks`: `Spec => []StarSettles`, under `OneDetail(s)`:
one detail screen, no other device, no refused or cached answer, no change of account, and
restarts anywhere. Those are the constants of `detail_calm` except for its bounds: any
documents, titles, users and number of calls under way. Each hypothesis is needed: two
screens are `stale_star`; a check that fails leaves the star white over a mark; and
nothing tells the screen of what another device or another account did.

`StarSettles` speaks of a quiet device only, so it says nothing of the steps that lead
there. The invariant, `StarInv(s, t)` for each title, says who has the last word while calls
are under way. The handlers run in the order of the main queue and the writes behind them in
the order of their queue, so that the star will at last be what

1. the last write in the queue says, if it is this screen's and not an orphan of a restart
   (`LastWriteSays`), and otherwise
2. the last callback in the inbox that touches the star (`InboxSays`), and otherwise
3. the query that `viewDidAppear` has under way (`CheckComes`), and without one
4. the flag as it stands (`InboxSays` at position 0),

and in each case that is whether the device sees a mark of the user on an ad with the title
(`Wanted`). Four more parts hold it up: `OwnReads` and `FullAnswers` (a tap's answer names *all*
ads with the title, so that a loop of unmarks leaves none), `OwnWrites` (a write's ads are
still there, so none is refused), `OrphansFirst` (a screen's writes are behind all orphans)
and `FrontOpen`. All but the last speak of a screen that no deletion under way will pop
(`Doomed`), since a tap on the star behind a deletion is lost with the screen; a quiet
device has no such deletion. `CommittedStep` is the heart: the acknowledgement takes the place
that its write had in the order, while `LocalCommit` keeps what is seen.

`AdCreationProofs` proves, for any accounts, numbers of forms and taps, and
disturbances:

* `CreationTypeCorrect`: `Spec => []TypeOK`. Its core is that an ad is only
  written with both defaults present.
* `CreationInvariant`: `CreationInv`, inductive together with `TypeOK`. Its
  parts: `SessionInv` (a form that no session change crossed stands under the
  session whose address is in the default), `PictureInv` (the default, and every
  upload whose address is awaited, name a stored picture), `PageInv` (no street
  and no geocoding without a position), `AdsInv` (every ad, queued or on the
  board, is sound, and two with one tap are one). The last two are about *written*
  ads, because the properties about published ones are not inductive: an ad
  is published later than it is written, from a queue that may be a former
  session's.
* `PublishersOwnAds`, `PublishedPicturesExist`, `PublishedStreetsHavePlaces`,
  `OneDocumentPerTap`: the four invariants of the runs, from it.

`AdListsProofs` proves, for any sets of ads, accounts and titles, of the lists
and the detail screens together. `ListsSteps` is the composition's argument: a
step of `ListsNext` is a step of the detail screens, or asks a query, or handles an
answer without touching the documents; the inductive invariants of
`AdDetailProofs` carry over.

* `ListsTypes`: `ListsSpec => []ListsTypeOK`, with `FrontInv`: either a list or a
  detail screen is in front, and what is not has no rows.
* `ListsImplementBoard`: `ListsSpec => ImplementsBoard`; `ListsDeletionsHold`:
  `ListsSpec => []AnnouncedDeletionsHold`; `ListsFindTheirQueue`: `ListsSpec =>
  NamesMatchQueues`. The run `detail_stress` checks all three without lists.
* `DeletedNotListed`: while queries are answered from the server,
  `ListsSpec => []DeletedStaysOffLists`. `AckLast` says that behind the
  acknowledgement of a deletion the inbox has no answer with that ad; so when its
  handler runs and tells the user, what is left in the inbox lacks the ad, and
  what comes later is computed from documents that no longer have it
  (`OffLists`). Without the order of the main queue it is false (`Acked_First`).
* `CopiesStayBounded`: for finitely many accounts and titles, so that the queries are
  finitely many and their sum exists, `ListsSpec => []CopiesBounded`, whatever the disturbances.
  The property is inductive with the types and `FrontInv`: a list drops its rows with the query
  that it asks, an answer is one load less and at most one row more of each ad, and
  `OutstandingParts` bounds the loads when one is asked for.
* `PromisedFavouritesCome`: on a device alone whose calls are not refused,
  `ListsSpec => []FavouritesReachTheirList`, through tabs, restarts and changes of account.
  The property speaks of loads that are answered; the invariant of those under way.
  `PromisedKept`: every promised ad carries the user's mark as the device sees it, because any
  write that could drop the mark also takes the promise back, when it is made and not when it
  is acknowledged. `PromisedComes`: with the favourites in front, a promised ad that is there
  has a row, or is in an answer in the inbox, or a load of this user is still to be computed
  (`OnItsWay`). Two parts are about the session: `PromisedInSession`, there is no promise while
  a change of session is on its way or nobody is signed in; `LoginCovers`, once it is told that
  nobody is signed in the login screen is in front, and no list, whose loads would ask for no
  document. Both rest on `SessionInv`.

`SessionGateProofs` proves, for any accounts, any number of calls and any
disturbances:

* `GateTypes`: `GateSpec => []GateTypeOK`.
* `LoginAlwaysComes`: `GateSpec => []LoginComes`. The invariant `GateInv` follows
  the main queue. `KeychainAhead`: in memory is the keychain's
  user or nobody. `FirstIsFirst`: the listener's first run is ahead of all blocks, and
  no login screen is up then. `ListenerDue`: while the listener's idea of the user is
  out of date, a notification is waiting. `LoginDue`: if the listener last saw
  that nobody is signed in, the login screen is there or its block is waiting.
  `SignInHeard`: a successful sign-in whose handler will dismiss the login screen was
  heard by the listener, or its notification is ahead of the handler and somebody
  is still signed in. `HandlersLive`: a handler that would dismiss has its screen.
  `LoginDue` is what is wanted: `SignInHeard` keeps it when the login screen
  goes, `HandlersLive` keeps the handlers of former screens from dismissing a new
  one, and `LoginDue` and `SignInHeard` stand under `excuse = "none"`.

`HomeScreenProofs` proves that Home changes nothing of this, and what Home shows:

* `HomeGuarded`: `Spec => GateSpec`, each step of Home is one of the gate or none.
  `HomeLoginComes` follows.
* `HomeTypes`: `Spec => []HomeTypeOK`; that Home is never in front below a login
  screen uses the gate's types.
* `CellsStayOneUsers`: `Spec => []CellsOfOneUser`, with `HomeTypeOK`. It rests on an
  appearance dropping the cells with the rows: elsewhere `mail` changes only while Home is
  not in front.

`FormRulesProofs` proves, for words of any length (finite sequences of classes):

* `SameWordSent`: of an accepted password, sign-up and sign-in send the same word
  exactly if it has no blank at either end.
* `PaddedPasswordLost`: a valid password with a space after it is accepted by the
  sheet, and nothing typed into the login screen makes it send that word. The
  account is made with a password that its owner cannot enter. (No comment or
  document says otherwise, so that it is no finding.)
* `NumberRule`: a price or a phone number is accepted exactly if it has a character
  that is no space and one that is no letter. It needs no digit: "?" will do.

The assumptions are `ClientAssumption`, `DetailAssumption`, `ListAssumption`,
`CreationAssumption`, `GateAssumption` and `HomeAssumption` (sorts of the
constants, and which controller asks what), which TLC evaluates in the runs.

Every invariant and every action property that a passing run checks is stated by a
theorem. Model-checked only are the liveness properties, `EverythingDrains` and
`PublicationsDrain`, which are beyond these provers, and `TrimStrips`, which TLC evaluates
on bounded words.

## 6. What is abstracted, and why it matters little

* The server's step and the dispatch of its acknowledgement are one step. In
  between, the client could only show the write twice, and writes are idempotent.
* An answer is computed when it is dispatched. It may in truth be as old as the
  last synchronisation; with `"offline"` in `Disturbances` an answer is *any* set
  of documents ever seen under the title (`Known`), which covers that and every
  state of the cache.
* A failed query runs a handler that only logs; so does an empty answer. They
  are the same step.
* A session changes at any time, not only by the buttons that ask for it (the token may
  be revoked), and from any user to any other. At a restart the client takes up the
  session of the keychain at once; `SessionGate` has the launch in its steps.
* What the server makes of a write that names one account and comes with the
  credentials of another is left to `"reject"`: rules and credentials are not in the code.
* Titles, authors and prices never change: no code updates them. A ghost has no
  title and is in no answer.
* The pop after a deletion takes this controller off its stack. That two
  acknowledgements pop twice (and the second pops nothing, the list being the
  root) is the same state.
* Phone, mail and the image are outputs; the model has none.
* The form's text fields are valid or the tap only alerts; an alert is no state.
* The picture of an ad may be that of an earlier form: the default keeps its
  value, so `PicturesExist` says only that it is in the storage. The code does not
  promise more, and shows no sign that the upload is still under way.
* A list's cells are filled in by queries of their own, for a copy of the row;
  they change no state of the controller. The position and the distances that a
  load computes are left out: an order is `"title"` or `"distance"`.
* Home covers the search list as the other tab does; the tab bar's second tap,
  which pops to the root, is a `Back`.
* `AdDetail` and `AdLists` present the login screen in the block that tells of the
  change, one block earlier than the listener does, and dismiss it in the block of a
  sign-in. `SessionGate` has each block, and the two cases, named by `excuse`, in which
  the login screen is missing. Queries made while nobody is signed in ask for a name
  that no document has.
* `AdCreation` has one variable for Auth's user and the queue's, and takes it that nobody
  taps while nobody is signed in (`SignedIn`): the taps between a change of session and the
  login screen are left out there.
* `HomeScreen` has ads by their author only, and none comes or goes: `AdLists`
  has lists whose ads change.
* The end of a session by a refused token is `Revoke`; that the keychain may fail in
  it, as it may in `SignOut`, is left out.

Not modelled:

* Home's name label and the user directory behind it (`bindUI`, `getUserData`): an
  answer sets a label that nothing reads; one that comes when Home is gone ends the
  process (`unowned self`), which is the `Restart` of the modules. The document that
  sign-up writes for it.
* The swipe on a row of Home: it deletes a fresh, random document, which changes
  nothing, and logs success, in any order of events.
* Cells and images: which picture a reused cell shows.
* Position and distances on the search list.
* The pattern for addresses (`validEmailAdress`): a regular expression over
  characters, with no decision behind it but its own.
* Layout, alerts' texts, delegates, Core Data (unused), and the pods except for the
  part of Firestore and Auth that the application sees: third-party code, which is
  nearly all of the repository by size.
