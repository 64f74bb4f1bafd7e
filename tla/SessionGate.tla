----------------------------- MODULE SessionGate -----------------------------
(***************************************************************************)
(* The session and the screens that guard it: Firebase Auth's current user *)
(* with its copy in the keychain, the listener of TabBarController that    *)
(* presents the login screen, that screen, and the sign-up sheet above it. *)
(*                                                                         *)
(* Auth answers a call at some later time and changes the user on a queue  *)
(* of its own; listener and completion handlers run on the main queue, in  *)
(* the order Auth dispatched them, and find the user as it is then.  A     *)
(* controller presents one screen at a time: UIKit drops a second request. *)
(***************************************************************************)
EXTENDS Naturals, Sequences, FiniteSets
LOCAL INSTANCE Functions

CONSTANTS
  Users,        \* the accounts there are or may be
  NoUser,       \* nobody is signed in
  MaxCalls,     \* bound: calls to Auth whose handler has yet to run
  Disturbances  \* what may go wrong, see Allowed

\* "fail": a call may fail, or its reply be lost; "revoke": the session may end
\* by itself; "cover": the tabs may present a picker or an alert; "restart": the
\* process is killed and started again.
Allowed == {"fail", "revoke", "cover", "restart"}

Uids   == Users \cup {NoUser}
Unseen == "unseen"

ASSUME GateAssumption ==
  /\ NoUser \notin Users /\ Unseen \notin Uids
  /\ MaxCalls \in Nat
  /\ Disturbances \subseteq Allowed

VARIABLES
  user,      \* the current user in memory
  keychain,  \* the current user on disk, read some time after the launch
  seen,      \* previousUserID of the listener, Unseen before its first call
  accounts,  \* the users who have an account at the server
  calls,     \* calls[c]: how many copies of call c wait for the server
  main,      \* the blocks waiting for the main queue, oldest first
  stack,     \* the screens presented above the tabs, each by the one below

  excuse     \* why the login screen may be missing: no variable of the program

authVars == <<user, keychain, seen, accounts>>
gateVars == <<authVars, calls, main, stack, excuse>>

-----------------------------------------------------------------------------
\* here: the screen that made the call is still presented.
Call == [op : {"signIn", "signUp"}, as : Users, here : BOOLEAN]

\* "first" and "posted" run the listener, "login" presents, and the answers
\* to calls run their completion handlers.
Done  == [op : {"signIn", "signUp"}, as : Users, ok : BOOLEAN, here : BOOLEAN]
Block == [op : {"first", "posted", "login"}] \cup Done

\* The login screen is presented by the tabs, the sheet by the login screen.
\* "alert" is an alert, or the picker of the form.
Stacks == {<<>>, <<"alert">>, <<"login">>, <<"login", "alert">>,
           <<"login", "signUp">>, <<"login", "signUp", "alert">>}

Shown(screen) == \E i \in DOMAIN stack : stack[i] = screen
OnTop(screen) == stack # <<>> /\ stack[Len(stack)] = screen

GateInit ==
  /\ keychain \in Uids
  /\ accounts \in SUBSET Users
  /\ keychain # NoUser => keychain \in accounts
  /\ user = NoUser /\ seen = Unseen
  /\ calls = [c \in Call |-> 0]
  /\ main = <<[op |-> "first"]>>
  /\ stack = <<>>
  /\ excuse = "none"

GateTypeOK ==
  /\ user \in Uids /\ keychain \in Uids
  /\ seen \in Uids \cup {Unseen}
  /\ accounts \subseteq Users
  /\ calls \in [Call -> Nat]
  /\ main \in Seq(Block)
  /\ stack \in Stacks
  /\ excuse \in {"none", "covered", "hasty"}

-----------------------------------------------------------------------------
(***************************************************************************)
(* Screens that go take no answers any more: dismiss on a controller that  *)
(* is not presented, and its unwind segue, do nothing.                     *)
(***************************************************************************)
Owner(op) == IF op = "signIn" THEN "login" ELSE "signUp"

Alive(op, screens) == \E i \in DOMAIN screens : screens[i] = Owner(op)

\* The calls as they are once only these screens are left.
Detached(screens) ==
  [c \in Call |->
     IF Alive(c.op, screens) THEN calls[c]
     ELSE IF c.here THEN 0
     ELSE calls[c] + calls[[c EXCEPT !.here = TRUE]]]

DetachedBlock(b, screens) ==
  IF b \in Done THEN [b EXCEPT !.here = @ /\ Alive(b.op, screens)] ELSE b

\* Only these screens are left, and these blocks.
Leave(screens, blocks) ==
  /\ stack' = screens
  /\ calls' = Detached(screens)
  /\ main' = [i \in DOMAIN blocks |-> DetachedBlock(blocks[i], screens)]

\* present: nothing happens if the presenter, which is the last of below,
\* presents something already.
Present(below, screen) ==
  stack' = IF stack = below THEN Append(below, screen) ELSE stack

-----------------------------------------------------------------------------
(***************************************************************************)
(* Auth.  Its queue reads the keychain before it does anything else.       *)
(***************************************************************************)
Posted == [op |-> "posted"]
Loaded == user = keychain

\* updateCurrentUser saves, sets, and has the listeners told.
Update(u, blocks) ==
  /\ user' = u /\ keychain' = u
  /\ main' = main \o <<Posted>> \o blocks

Load ==
  /\ ~Loaded
  /\ user' = keychain
  /\ main' = Append(main, Posted)
  /\ UNCHANGED <<keychain, seen, accounts, calls, stack, excuse>>

\* decoPressButton on Home; if the keychain fails an alert says so.
SignOut ==
  /\ Loaded /\ user # NoUser /\ stack = <<>>
  /\ \/ Update(NoUser, <<>>) /\ UNCHANGED stack
     \/ /\ "fail" \in Disturbances
        /\ Present(<<>>, "alert")
        /\ UNCHANGED <<user, keychain, main>>
  /\ UNCHANGED <<seen, accounts, calls, excuse>>

\* The server refused the token.  The listener will not notice if it has yet to
\* notice that the user was signed in.
Revoke ==
  /\ "revoke" \in Disturbances
  /\ Loaded /\ user # NoUser
  /\ Update(NoUser, <<>>)
  /\ excuse' = IF \E i \in DOMAIN main : main[i] = Posted THEN "hasty" ELSE excuse
  /\ UNCHANGED <<seen, accounts, calls, stack>>

Reply(c, ok) == [op |-> c.op, as |-> c.as, ok |-> ok, here |-> c.here]

Grantable(c) == (c.op = "signIn") = (c.as \in accounts)

\* The server's answer.  A word may be wrong, whoever types it.  Refused, or with
\* the reply lost, the handler hears of an error; an account may have been made
\* all the same.
Answer(c) ==
  /\ Loaded
  /\ calls[c] > 0
  /\ calls' = [calls EXCEPT ![c] = @ - 1]
  /\ \/ /\ Grantable(c)
        /\ accounts' = accounts \cup {c.as}
        /\ Update(c.as, <<Reply(c, TRUE)>>)
     \/ /\ \/ c.op = "signIn" \/ ~Grantable(c) \/ "fail" \in Disturbances
        /\ \/ UNCHANGED accounts
           \/ c.op = "signUp" /\ "fail" \in Disturbances /\ accounts' = accounts \cup {c.as}
        /\ main' = Append(main, Reply(c, FALSE))
        /\ UNCHANGED <<user, keychain>>
  /\ UNCHANGED <<seen, stack, excuse>>

-----------------------------------------------------------------------------
(***************************************************************************)
(* The main queue.                                                         *)
(***************************************************************************)
Due(op) == main # <<>> /\ Head(main).op = op

\* Mutant: the listener takes the start for a session that ended.
Listen_NotAtFirst ==
  /\ Due("first") \/ Due("posted")
  /\ seen' = user
  /\ main' = IF user = NoUser /\ seen \in Users
               THEN Append(Tail(main), [op |-> "login"]) ELSE Tail(main)
  /\ UNCHANGED <<user, keychain, accounts, calls, stack, excuse>>

\* The listener hears of changes of the user only, compared with the last time
\* it ran; its first run may be ahead of the keychain.
Listen ==
  /\ Due("first") \/ Due("posted")
  /\ seen' = user
  /\ main' = IF user = NoUser /\ seen # user
               THEN Append(Tail(main), [op |-> "login"]) ELSE Tail(main)
  /\ UNCHANGED <<user, keychain, accounts, calls, stack, excuse>>

\* Mutant: the login screen is presented by what is on top.
PresentLogin_OnTop ==
  /\ Due("login")
  /\ main' = Tail(main)
  /\ Present(stack, "login")
  /\ excuse' = "none"
  /\ UNCHANGED <<authVars, calls>>

\* The block presents without a second look at the user.
PresentLogin ==
  /\ Due("login")
  /\ main' = Tail(main)
  /\ Present(<<>>, "login")
  /\ excuse' = IF stack = <<>> THEN "none"
               ELSE IF Shown("login") THEN excuse ELSE "covered"
  /\ UNCHANGED <<authVars, calls>>

\* dismiss, on the login screen: what it presents goes if there is something,
\* and else itself.
SignInDone ==
  /\ Due("signIn")
  /\ LET c == Head(main)
     IN  \/ /\ c.here /\ c.ok
            /\ Leave(IF Len(stack) = 1 THEN <<>> ELSE <<"login">>, Tail(main))
         \/ /\ c.here /\ ~c.ok
            /\ Present(<<"login">>, "alert")
            /\ main' = Tail(main) /\ UNCHANGED calls
         \/ /\ ~c.here
            /\ main' = Tail(main) /\ UNCHANGED <<calls, stack>>
  /\ UNCHANGED <<authVars, excuse>>

\* The sheet unwinds to the login screen, whose unwind action dismisses too:
\* whether one or both of them go depends on the sheet's being gone by then.
SignUpDone ==
  /\ Due("signUp")
  /\ LET c == Head(main)
     IN  \/ /\ c.here /\ c.ok
            /\ \E screens \in {<<>>, <<"login">>} : Leave(screens, Tail(main))
         \/ /\ c.here /\ ~c.ok
            /\ Present(<<"login", "signUp">>, "alert")
            /\ main' = Tail(main) /\ UNCHANGED calls
         \/ /\ ~c.here
            /\ main' = Tail(main) /\ UNCHANGED <<calls, stack>>
  /\ UNCHANGED <<authVars, excuse>>

-----------------------------------------------------------------------------
(***************************************************************************)
(* The user.                                                               *)
(***************************************************************************)
UnderWay == SumFunction(calls) + Cardinality({i \in DOMAIN main : main[i] \in Done})

Enter(op, u) ==
  /\ UnderWay < MaxCalls
  /\ calls' = [calls EXCEPT ![[op |-> op, as |-> u, here |-> TRUE]] = @ + 1]

\* loginViewPressButton
TapSignIn(u) ==
  /\ OnTop("login")
  /\ Enter("signIn", u)
  /\ UNCHANGED <<authVars, main, stack, excuse>>

\* signupPressButton: what was typed is refused, with an alert, or sent.
TapSignUp(u) ==
  /\ OnTop("signUp")
  /\ \/ Present(<<"login", "signUp">>, "alert") /\ UNCHANGED calls
     \/ Enter("signUp", u) /\ UNCHANGED stack
  /\ UNCHANGED <<authVars, main, excuse>>

OpenSignUp ==
  /\ OnTop("login")
  /\ Present(<<"login">>, "signUp")
  /\ UNCHANGED <<authVars, calls, main, excuse>>

\* An alert is answered, or the sheet pulled down.
Close ==
  /\ OnTop("alert") \/ OnTop("signUp")
  /\ Leave(SubSeq(stack, 1, Len(stack) - 1), main)
  /\ UNCHANGED <<authVars, excuse>>

\* A screen of the tabs presents: a form its picker, or one of them an alert
\* about an answer of the geocoder.
Cover ==
  /\ "cover" \in Disturbances
  /\ stack = <<>>
  /\ Present(<<>>, "alert")
  /\ UNCHANGED <<authVars, calls, main, excuse>>

Relaunch ==
  /\ user' = NoUser /\ seen' = Unseen
  /\ calls' = [c \in Call |-> 0]
  /\ main' = <<[op |-> "first"]>>
  /\ stack' = <<>>
  /\ excuse' = "none"
  /\ UNCHANGED <<keychain, accounts>>

Restart == "restart" \in Disturbances /\ Relaunch

Authenticating == Load \/ Revoke \/ \E c \in Call : Answer(c)
Queueing       == Listen \/ PresentLogin \/ SignInDone
Tapping        == OpenSignUp \/ Close \/ Cover
                  \/ \E u \in Users : TapSignIn(u) \/ TapSignUp(u)

GateNext == Authenticating \/ Queueing \/ SignUpDone \/ Tapping \/ SignOut \/ Restart

GateSpec == GateInit /\ [][GateNext]_gateVars

-----------------------------------------------------------------------------
(***************************************************************************)
(* Correctness.                                                            *)
(***************************************************************************)
GateQuiet == Loaded /\ main = <<>>

\* With nobody signed in the login screen is there: after a launch, a sign-out,
\* a failed or doubled call, an answer to a login screen that is gone.  There
\* are two ways to miss it and no third: the tabs presented something else when
\* it was due, or the session was revoked before the listener had run for the
\* sign-in that began it.
LoginComes ==
  GateQuiet /\ user = NoUser /\ excuse = "none" => Shown("login")
=============================================================================
