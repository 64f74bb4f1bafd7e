--------------------------- MODULE HomeScreenProofs ---------------------------
(***************************************************************************)
(* Theorems about HomeScreen, for any accounts, sellers and bounds: under  *)
(* the home screen the gate takes no step but its own, so that what is     *)
(* proved of it in SessionGateProofs holds here too.                       *)
(***************************************************************************)
EXTENDS HomeScreen, SessionGateProofs

LEMMA InitImplements == Init => GateInit
PROOF
  BY DEF Init

LEMMA StepImplements == [Next]_vars => [GateNext]_gateVars
PROOF
<1> SUFFICES ASSUME [Next]_vars PROVE GateNext \/ UNCHANGED gateVars
  OBVIOUS
<1>1. CASE UNCHANGED vars
  BY <1>1 DEF vars
<1>2. CASE Guard
  BY <1>2 DEF Guard, GateNext
<1>3. CASE HomeSignOut
  BY <1>3 DEF HomeSignOut, GateNext
<1>4. CASE Restart
  BY <1>4 DEF GateNext
<1>5. CASE Navigate
  BY <1>5 DEF Navigate
<1>6. CASE HomeAppear \/ Scroll
  BY <1>6 DEF HomeAppear, Scroll
<1>7. CASE Answering
  BY <1>7 DEF Answering, ListAnswer
<1> QED
  BY <1>1, <1>2, <1>3, <1>4, <1>5, <1>6, <1>7 DEF Next

\* The tabs with the home screen implement the gate by itself.
THEOREM HomeGuarded == Spec => GateSpec
PROOF
  BY InitImplements, StepImplements, PTL DEF Spec, GateSpec

\* With the home screen, its sign-out button and its queries, the login screen
\* still comes whenever nobody is signed in.
THEOREM HomeLoginComes == Spec => []LoginComes
PROOF
  BY HomeGuarded, LoginAlwaysComes, PTL

-----------------------------------------------------------------------------
\* The sign-out button is tapped, and no login screen is there yet.
LEMMA SignOutShows ==
  ASSUME SignOut
  PROVE  ~Shown("login")'
PROOF
<1>1. stack' = <<>> \/ stack' = <<"alert">>
  BY DEF SignOut, Present
<1> QED
  BY <1>1 DEF Shown

LEMMA LoginHidden ==
  ASSUME OnTabs
  PROVE  ~Shown("login")
PROOF
  BY DEF OnTabs, Shown

LEMMA NoLoadsType == NoLoads \in [Users -> Nat]
PROOF
  BY DEF NoLoads

LEMMA HomeTypeInit == Init => HomeTypeOK
PROOF
  BY GateTypeInit, NoLoadsType DEF Init, HomeTypeOK

\* A table that is drawn shows no row of a stranger, or is hidden.
LEMMA DrawnRows ==
  ASSUME NEW list \in SUBSET Users, Draw(list)
  PROVE  /\ hidden' \in BOOLEAN
         /\ rows' \subseteq Users /\ cells' \subseteq Users
         /\ ~hidden' => cells' \subseteq {mail}
PROOF
<1>1. PICK w \in Windows(list) :
        /\ hidden' = Meets(w)
        /\ rows' = IF hidden' THEN {} ELSE list
        /\ cells' = IF hidden' THEN {} ELSE w
  BY DEF Draw
<1>2. w \subseteq Users
  BY DEF Windows
<1>3. hidden' \in BOOLEAN
  BY <1>1 DEF Meets
<1>4. ~hidden' => w \subseteq {mail}
  BY <1>1 DEF Meets
<1> QED
  BY <1>1, <1>2, <1>3, <1>4

LEMMA HomeTypeStep ==
  ASSUME HomeTypeOK, [Next]_vars
  PROVE  HomeTypeOK'
PROOF
<1>0. GateTypeOK'
  BY GateTypeStep, StepImplements DEF HomeTypeOK
<1>t. /\ user \in Uids /\ mail \in Uids /\ loads \in [Users -> Nat]
      /\ place \in {"none", "home", "away"} /\ front \in BOOLEAN
      /\ front => place = "home" /\ ~Shown("login")
      /\ rows \subseteq Users /\ cells \subseteq Users /\ hidden \in BOOLEAN
  BY DEF HomeTypeOK, GateTypeOK
<1>1. CASE UNCHANGED vars
  <2>1. Shown("login")' <=> Shown("login")
    BY <1>1 DEF vars, gateVars, Shown
  <2> QED
    BY <1>0, <1>t, <1>1, <2>1 DEF vars, homeVars, HomeTypeOK
<1>2. CASE Guard
  BY <1>0, <1>t, <1>2 DEF Guard, HomeTypeOK
<1>3. CASE HomeSignOut
  BY <1>0, <1>t, <1>3, SignOutShows DEF HomeSignOut, homeVars, HomeTypeOK
<1>4. CASE Restarted
  BY <1>0, <1>t, <1>4, NoLoadsType DEF Restarted, Popped, HomeTypeOK
<1>5. CASE Navigate
  <2>1. Shown("login")' <=> Shown("login")
    BY <1>5 DEF Navigate, gateVars, Shown
  <2>2. CASE OpenHome
    BY <1>0, <1>t, <2>1, <2>2 DEF OpenHome, HomeTypeOK
  <2>3. CASE GoAway
    BY <1>0, <1>t, <2>3 DEF GoAway, HomeTypeOK
  <2>4. CASE LoadAnother
    <3>1. mail' \in Uids
      BY <1>t, <2>4 DEF LoadAnother
    <3> QED
      BY <1>0, <1>t, <2>1, <2>4, <3>1 DEF LoadAnother, HomeTypeOK
  <2>5. CASE ComeBack
    BY <1>0, <1>t, <2>1, <2>5 DEF ComeBack, HomeTypeOK
  <2>6. CASE LeaveHome
    BY <1>0, <1>t, <2>6, NoLoadsType DEF LeaveHome, Popped, HomeTypeOK
  <2> QED
    BY <1>5, <2>2, <2>3, <2>4, <2>5, <2>6 DEF Navigate
<1>6. CASE HomeAppear
  <2>1. Shown("login")' <=> Shown("login")
    BY <1>6 DEF HomeAppear, gateVars, Shown
  <2>2. loads' \in [Users -> Nat]
    BY <1>t, <1>6 DEF HomeAppear, Ask
  <2>3. hidden' \in BOOLEAN
    BY <1>t, <1>6 DEF HomeAppear
  <2> QED
    BY <1>0, <1>t, <1>6, <2>1, <2>2, <2>3 DEF HomeAppear, HomeTypeOK
<1>7. ASSUME NEW u \in Users, ListAnswer(u)
      PROVE  HomeTypeOK'
  <2>1. Shown("login")' <=> Shown("login")
    BY <1>7 DEF ListAnswer, gateVars, Shown
  <2>2. loads' \in [Users -> Nat]
    BY <1>t, <1>7 DEF ListAnswer
  <2>3. rows' \subseteq Users /\ cells' \subseteq Users /\ hidden' \in BOOLEAN
    <3> DEFINE list == rows \cup ({u} \cap Sellers)
    <3>1. list \in SUBSET Users
      BY <1>t
    <3>2. \/ Draw(list)
          \/ rows' = list /\ UNCHANGED <<cells, hidden>>
          \/ UNCHANGED <<rows, cells, hidden>>
      BY <1>7 DEF ListAnswer
    <3> HIDE DEF list
    <3> QED
      BY <1>t, <3>1, <3>2, DrawnRows
  <2> QED
    BY <1>0, <1>t, <1>7, <2>1, <2>2, <2>3 DEF ListAnswer, HomeTypeOK
<1>8. CASE Scroll
  <2>1. Shown("login")' <=> Shown("login")
    BY <1>8 DEF Scroll, gateVars, Shown
  <2>2. rows' \subseteq Users /\ cells' \subseteq Users /\ hidden' \in BOOLEAN
    BY <1>t, <1>8, DrawnRows DEF Scroll
  <2> QED
    BY <1>0, <1>t, <1>8, <2>1, <2>2 DEF Scroll, HomeTypeOK
<1> QED
  BY <1>1, <1>2, <1>3, <1>4, <1>5, <1>6, <1>7, <1>8 DEF Next, Answering

\* Home is in front of the user only where it is, and never below the login
\* screen; its rows and its queries are those of users.
THEOREM HomeTypes == Spec => []HomeTypeOK
PROOF
  BY HomeTypeInit, HomeTypeStep, PTL DEF Spec

-----------------------------------------------------------------------------
LEMMA CellsStep ==
  ASSUME HomeTypeOK, CellsOfOneUser, [Next]_vars
  PROVE  CellsOfOneUser'
PROOF
<1>0. /\ front => place = "home" /\ ~Shown("login")
      /\ front /\ ~hidden => cells \subseteq {mail}
      /\ hidden \in BOOLEAN /\ front \in BOOLEAN /\ rows \subseteq Users
  BY DEF HomeTypeOK, CellsOfOneUser
<1>1. CASE UNCHANGED vars
  BY <1>0, <1>1 DEF vars, homeVars, CellsOfOneUser
<1>2. CASE Guard
  BY <1>0, <1>2 DEF Guard, CellsOfOneUser
<1>3. CASE HomeSignOut
  BY <1>0, <1>3 DEF HomeSignOut, homeVars, CellsOfOneUser
<1>4. CASE Restarted
  BY <1>4 DEF Restarted, Popped, CellsOfOneUser
<1>5. CASE Navigate
  BY <1>0, <1>5 DEF Navigate, OpenHome, GoAway, LoadAnother, ComeBack, LeaveHome, Popped,
                    CellsOfOneUser
<1>6. CASE HomeAppear
  BY <1>6 DEF HomeAppear, CellsOfOneUser
<1>7. ASSUME NEW u \in Users, ListAnswer(u)
      PROVE  CellsOfOneUser'
  <2> DEFINE list == rows \cup ({u} \cap Sellers)
  <2>1. /\ front' = front /\ mail' = mail /\ list \in SUBSET Users
        /\ \/ Draw(list)
           \/ ~front
           \/ UNCHANGED <<cells, hidden>>
    BY <1>0, <1>7 DEF ListAnswer
  <2> HIDE DEF list
  <2> QED
    BY <1>0, <2>1, DrawnRows DEF CellsOfOneUser
<1>8. CASE Scroll
  BY <1>0, <1>8, DrawnRows DEF Scroll, CellsOfOneUser
<1> QED
  BY <1>1, <1>2, <1>3, <1>4, <1>5, <1>6, <1>7, <1>8 DEF Next, Answering

\* No cell of a table that can be seen is of an ad of somebody else than the user
\* that Home last appeared for, however late the answers to the queries of earlier
\* appearances are, and wherever in the list their rows stand.
THEOREM CellsStayOneUsers == Spec => []CellsOfOneUser
PROOF
<1>1. Init => CellsOfOneUser
  BY DEF Init, CellsOfOneUser
<1>2. HomeTypeOK /\ CellsOfOneUser /\ [Next]_vars => CellsOfOneUser'
  BY CellsStep
<1> QED
  BY <1>1, <1>2, HomeTypes, PTL DEF Spec
=============================================================================
