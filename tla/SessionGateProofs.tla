-------------------------- MODULE SessionGateProofs --------------------------
(***************************************************************************)
(* Theorems about SessionGate, for any accounts, any number of calls under *)
(* way and any disturbances.                                               *)
(***************************************************************************)
EXTENDS SessionGate, SequenceTheorems, TLAPS

-----------------------------------------------------------------------------
(***************************************************************************)
(* The screens.                                                            *)
(***************************************************************************)
SheetUp == {<<"login", "signUp">>, <<"login", "signUp", "alert">>}
LoginUp == SheetUp \cup {<<"login">>, <<"login", "alert">>}

LEMMA ScreensUp ==
  ASSUME NEW screens \in Stacks
  PROVE  /\ Alive("signIn", screens) <=> screens \in LoginUp
         /\ Alive("signUp", screens) <=> screens \in SheetUp
PROOF
<1>1. CASE screens = <<>>
  BY <1>1 DEF Alive, Owner, LoginUp, SheetUp
<1>2. CASE screens = <<"alert">>
  BY <1>2 DEF Alive, Owner, LoginUp, SheetUp
<1>3. CASE screens = <<"login">>
  BY <1>3 DEF Alive, Owner, LoginUp, SheetUp
<1>4. CASE screens = <<"login", "alert">>
  BY <1>4 DEF Alive, Owner, LoginUp, SheetUp
<1>5. CASE screens = <<"login", "signUp">>
  BY <1>5 DEF Alive, Owner, LoginUp, SheetUp
<1>6. CASE screens = <<"login", "signUp", "alert">>
  BY <1>6 DEF Alive, Owner, LoginUp, SheetUp
<1> QED
  BY <1>1, <1>2, <1>3, <1>4, <1>5, <1>6 DEF Stacks

LEMMA LoginShown ==
  ASSUME stack \in Stacks
  PROVE  Shown("login") <=> stack \in LoginUp
PROOF
<1>1. Shown("login") <=> Alive("signIn", stack)
  BY DEF Shown, Alive, Owner
<1> QED
  BY <1>1, ScreensUp

LEMMA TopScreen ==
  ASSUME stack \in Stacks
  PROVE  /\ OnTop("login") => stack = <<"login">>
         /\ OnTop("signUp") => stack = <<"login", "signUp">>
         /\ OnTop("alert") => stack \in {<<"alert">>, <<"login", "alert">>,
                                         <<"login", "signUp", "alert">>}
PROOF
<1>1. CASE stack = <<>>
  BY <1>1 DEF OnTop
<1>2. CASE stack = <<"alert">>
  BY <1>2 DEF OnTop
<1>3. CASE stack = <<"login">>
  BY <1>3 DEF OnTop
<1>4. CASE stack = <<"login", "alert">>
  BY <1>4 DEF OnTop
<1>5. CASE stack = <<"login", "signUp">>
  BY <1>5 DEF OnTop
<1>6. CASE stack = <<"login", "signUp", "alert">>
  BY <1>6 DEF OnTop
<1> QED
  BY <1>1, <1>2, <1>3, <1>4, <1>5, <1>6 DEF Stacks

\* What a screen may present, and where the login screen is then.
LEMMA PresentStep ==
  ASSUME stack \in Stacks,
         \/ Present(<<>>, "alert")
         \/ Present(<<"login">>, "alert")
         \/ Present(<<"login">>, "signUp")
         \/ Present(<<"login", "signUp">>, "alert")
  PROVE  /\ stack' \in Stacks
         /\ stack \in LoginUp <=> stack' \in LoginUp
         /\ stack \in SheetUp => stack' \in SheetUp
PROOF
<1>1. CASE stack = <<>>
  BY <1>1 DEF Present, Stacks, LoginUp, SheetUp
<1>2. CASE stack = <<"login">>
  BY <1>2 DEF Present, Stacks, LoginUp, SheetUp
<1>3. CASE stack = <<"login", "signUp">>
  BY <1>3 DEF Present, Stacks, LoginUp, SheetUp
<1>4. CASE stack \notin {<<>>, <<"login">>, <<"login", "signUp">>}
  BY <1>4 DEF Present
<1> QED
  BY <1>1, <1>2, <1>3, <1>4

LEMMA LoginPresented ==
  ASSUME stack \in Stacks, Present(<<>>, "login")
  PROVE  /\ stack' \in Stacks
         /\ stack = <<>> => stack' = <<"login">>
         /\ stack # <<>> => stack' = stack
PROOF
  BY DEF Present, Stacks

LEMMA OneBelow ==
  ASSUME NEW S, NEW s \in Seq(S), Len(s) >= 1
  PROVE  SubSeq(s, 1, 1) = <<s[1]>>
PROOF
<1> DEFINE t == SubSeq(s, 1, 1)
<1>1. t \in Seq(S) /\ Len(t) = 1 /\ t[1] = s[1]
  BY SubSeqProperties
<1>2. <<s[1]>> \in Seq(S) /\ Len(<<s[1]>>) = 1 /\ <<s[1]>>[1] = s[1]
  BY ElementOfSeq
<1> HIDE DEF t
<1>3. t = <<s[1]>>
  BY <1>1, <1>2, SeqEqual
<1> QED
  BY <1>3 DEF t

LEMMA TwoBelow ==
  ASSUME NEW S, NEW s \in Seq(S), Len(s) >= 2
  PROVE  SubSeq(s, 1, 2) = <<s[1], s[2]>>
PROOF
<1> DEFINE t == SubSeq(s, 1, 2)
<1>1. /\ t \in Seq(S) /\ Len(t) = 2
      /\ t[1] = s[1] /\ t[2] = s[2]
  BY SubSeqProperties
<1>2. /\ <<s[1], s[2]>> \in Seq(S) /\ Len(<<s[1], s[2]>>) = 2
      /\ <<s[1], s[2]>>[1] = s[1] /\ <<s[1], s[2]>>[2] = s[2]
  BY ElementOfSeq
<1> HIDE DEF t
<1>3. t = <<s[1], s[2]>>
  BY <1>1, <1>2, SeqEqual
<1> QED
  BY <1>3 DEF t

\* What is closed uncovers what presented it.
LEMMA CloseStep ==
  ASSUME stack \in Stacks, Close
  PROVE  /\ Leave(stack', main)
         /\ stack' \in {<<>>, <<"login">>, <<"login", "signUp">>}
         /\ stack \in LoginUp <=> stack' \in LoginUp
PROOF
<1> DEFINE below == SubSeq(stack, 1, Len(stack) - 1)
<1>1. Leave(below, main) /\ stack' = below
  BY DEF Close, Leave
<1>2. stack \in {<<"alert">>, <<"login", "alert">>, <<"login", "signUp">>,
                 <<"login", "signUp", "alert">>}
  BY TopScreen DEF Close
<1>3. CASE stack = <<"alert">>
  <2>1. below = <<>>
    BY <1>3
  <2> QED
    BY <1>1, <1>3, <2>1 DEF LoginUp, SheetUp
<1>4. CASE stack = <<"login", "alert">>
  <2>1. stack \in Seq({"login", "signUp", "alert"})
    BY <1>4
  <2>2. Len(stack) = 2
    BY <1>4
  <2>3. stack[1] = "login"
    BY <1>4
  <2>4. below = <<"login">>
    BY <2>1, <2>2, <2>3, OneBelow
  <2> QED
    BY <1>1, <1>4, <2>4 DEF LoginUp, SheetUp
<1>5. CASE stack = <<"login", "signUp">>
  <2>1. stack \in Seq({"login", "signUp", "alert"})
    BY <1>5
  <2>2. Len(stack) = 2
    BY <1>5
  <2>3. stack[1] = "login"
    BY <1>5
  <2>4. below = <<"login">>
    BY <2>1, <2>2, <2>3, OneBelow
  <2> QED
    BY <1>1, <1>5, <2>4 DEF LoginUp, SheetUp
<1>6. CASE stack = <<"login", "signUp", "alert">>
  <2>1. stack \in Seq({"login", "signUp", "alert"})
    BY <1>6
  <2>2. Len(stack) = 3
    BY <1>6
  <2>3. stack[1] = "login" /\ stack[2] = "signUp"
    BY <1>6
  <2>4. below = <<"login", "signUp">>
    BY <2>1, <2>2, <2>3, TwoBelow
  <2> QED
    BY <1>1, <1>6, <2>4 DEF LoginUp, SheetUp
<1> QED
  BY <1>2, <1>3, <1>4, <1>5, <1>6

-----------------------------------------------------------------------------
(***************************************************************************)
(* The calls and the blocks of the main queue.                             *)
(***************************************************************************)
LEMMA BlockKinds ==
  ASSUME NEW b \in Block
  PROVE  /\ b \in Done <=> b.op \in {"signIn", "signUp"}
         /\ b.op \in {"first", "posted", "login", "signIn", "signUp"}
         /\ b = Posted <=> b.op = "posted"
PROOF
<1>1. CASE b \in [op : {"first", "posted", "login"}]
  <2>1. b.op \in {"first", "posted", "login"} /\ b = [op |-> b.op]
    BY <1>1
  <2>2. b \notin Done
    BY <2>1 DEF Done
  <2> QED
    BY <2>1, <2>2 DEF Posted
<1>2. CASE b \in Done
  <2>1. b.op \in {"signIn", "signUp"}
    BY <1>2 DEF Done
  <2> QED
    BY <1>2, <2>1 DEF Posted
<1> QED
  BY <1>1, <1>2 DEF Block

LEMMA DetachedBlockIs ==
  ASSUME NEW b \in Block, NEW screens
  PROVE  /\ DetachedBlock(b, screens) \in Block
         /\ DetachedBlock(b, screens).op = b.op
         /\ b \in Done =>
              /\ DetachedBlock(b, screens).ok = b.ok
              /\ DetachedBlock(b, screens).here => b.here /\ Alive(b.op, screens)
PROOF
<1> DEFINE d == DetachedBlock(b, screens)
<1>1. CASE b \in Done
  <2>1. d = [b EXCEPT !.here = b.here /\ Alive(b.op, screens)]
    BY <1>1 DEF DetachedBlock
  <2>2. (b.here /\ Alive(b.op, screens)) \in BOOLEAN
    OBVIOUS
  <2>3. d \in Done /\ d.op = b.op /\ d.ok = b.ok
        /\ d.here = (b.here /\ Alive(b.op, screens))
    BY <1>1, <2>1, <2>2 DEF Done
  <2> QED
    BY <2>3 DEF Block
<1>2. CASE b \notin Done
  BY <1>2 DEF DetachedBlock
<1> QED
  BY <1>1, <1>2

LEMMA DetachedKeeps ==
  ASSUME NEW b \in Block, NEW screens, DetachedBlock(b, screens) \in Done
  PROVE  b \in Done
PROOF
  BY DetachedBlockIs, BlockKinds

LEMMA LeaveStep ==
  ASSUME calls \in [Call -> Nat],
         NEW screens, NEW blocks \in Seq(Block), Leave(screens, blocks)
  PROVE  /\ stack' = screens
         /\ calls' \in [Call -> Nat]
         /\ \A c \in Call : calls'[c] > 0 /\ c.here => Alive(c.op, screens)
         /\ main' \in Seq(Block) /\ Len(main') = Len(blocks)
         /\ \A i \in 1 .. Len(blocks) : main'[i] = DetachedBlock(blocks[i], screens)
PROOF
<1>1. stack' = screens
  BY DEF Leave
<1>2. calls' \in [Call -> Nat]
  <2>1. ASSUME NEW c \in Call
        PROVE  [c EXCEPT !.here = TRUE] \in Call
    BY DEF Call
  <2> QED
    BY <2>1 DEF Leave, Detached
<1>3. ASSUME NEW c \in Call, calls'[c] > 0, c.here
      PROVE  Alive(c.op, screens)
  BY <1>3 DEF Leave, Detached
<1>4. /\ main' \in Seq(Block) /\ Len(main') = Len(blocks)
      /\ \A i \in 1 .. Len(blocks) : main'[i] = DetachedBlock(blocks[i], screens)
  <2> DEFINE d(i) == DetachedBlock(blocks[i], screens)
  <2>1. main' = [i \in 1 .. Len(blocks) |-> d(i)]
    BY LenProperties DEF Leave
  <2>2. \A i \in 1 .. Len(blocks) : d(i) \in Block
    BY DetachedBlockIs, ElementOfSeq
  <2>3. Len(blocks) \in Nat
    BY LenProperties
  <2> HIDE DEF d
  <2>4. main' \in Seq(Block)
    BY <2>1, <2>2, <2>3
  <2> QED
    BY <2>1, <2>3, <2>4 DEF d
<1> QED
  BY <1>1, <1>2, <1>3, <1>4

LEMMA HeadStep ==
  ASSUME main \in Seq(Block), main # <<>>
  PROVE  /\ Head(main) \in Block /\ Head(main) = main[1] /\ Len(main) >= 1
         /\ Tail(main) \in Seq(Block) /\ Len(Tail(main)) = Len(main) - 1
         /\ \A i \in 1 .. Len(main) - 1 : Tail(main)[i] = main[i + 1]
PROOF
  BY HeadTailProperties, EmptySeq

\* A block that joins the queue.
LEMMA AppendStep ==
  ASSUME NEW blocks \in Seq(Block), NEW b \in Block
  PROVE  /\ Append(blocks, b) \in Seq(Block)
         /\ Len(Append(blocks, b)) = Len(blocks) + 1
         /\ \A i \in 1 .. Len(blocks) : Append(blocks, b)[i] = blocks[i]
         /\ Append(blocks, b)[Len(blocks) + 1] = b
PROOF
  BY AppendProperties

LEMMA UpdateStep ==
  ASSUME main \in Seq(Block), NEW u, NEW more \in Seq(Block), Update(u, more)
  PROVE  /\ user' = u /\ keychain' = u
         /\ main' \in Seq(Block) /\ Len(main') = Len(main) + 1 + Len(more)
         /\ \A i \in 1 .. Len(main) : main'[i] = main[i]
         /\ main'[Len(main) + 1] = Posted
         /\ \A i \in 1 .. Len(more) : main'[Len(main) + 1 + i] = more[i]
PROOF
<1> DEFINE front == main \o <<Posted>>
<1>1. Posted \in Block
  BY DEF Posted, Block
<1>2. <<Posted>> \in Seq(Block) /\ Len(<<Posted>>) = 1 /\ <<Posted>>[1] = Posted
  BY <1>1
<1>3. /\ front \in Seq(Block) /\ Len(front) = Len(main) + 1
      /\ \A i \in 1 .. Len(main) : front[i] = main[i]
      /\ front[Len(main) + 1] = Posted
  BY <1>2, ConcatProperties, LenProperties
<1>4. main' = front \o more
  BY DEF Update
<1> HIDE DEF front
<1>5. /\ front \o more \in Seq(Block) /\ Len(front \o more) = Len(front) + Len(more)
      /\ \A i \in 1 .. Len(front) + Len(more) :
           (front \o more)[i] = IF i <= Len(front) THEN front[i] ELSE more[i - Len(front)]
  BY <1>3, ConcatProperties
<1>6. Len(main) \in Nat /\ Len(more) \in Nat
  BY LenProperties
<1> QED
  BY <1>3, <1>4, <1>5, <1>6 DEF Update

\* The two ways in which the model uses it.
LEMMA UpdateAlone ==
  ASSUME main \in Seq(Block), NEW u, Update(u, <<>>)
  PROVE  /\ user' = u /\ keychain' = u
         /\ main' \in Seq(Block) /\ Len(main') = Len(main) + 1
         /\ \A i \in 1 .. Len(main) : main'[i] = main[i]
         /\ main'[Len(main) + 1] = Posted
PROOF
<1>1. <<>> \in Seq(Block) /\ Len(<<>>) = 0
  BY EmptySeq
<1>2. Len(main) \in Nat
  BY LenProperties
<1>3. /\ user' = u /\ keychain' = u
      /\ main' \in Seq(Block) /\ Len(main') = Len(main) + 1 + Len(<<>>)
      /\ \A i \in 1 .. Len(main) : main'[i] = main[i]
      /\ main'[Len(main) + 1] = Posted
  BY <1>1, UpdateStep, Zenon
<1> QED
  BY <1>1, <1>2, <1>3

LEMMA UpdateAndReply ==
  ASSUME main \in Seq(Block), NEW u, NEW b \in Block, Update(u, <<b>>)
  PROVE  /\ user' = u /\ keychain' = u
         /\ main' \in Seq(Block) /\ Len(main') = Len(main) + 2
         /\ \A i \in 1 .. Len(main) : main'[i] = main[i]
         /\ main'[Len(main) + 1] = Posted
         /\ main'[Len(main) + 2] = b
PROOF
<1>1. <<b>> \in Seq(Block) /\ Len(<<b>>) = 1 /\ <<b>>[1] = b
  OBVIOUS
<1>2. Len(main) \in Nat
  BY LenProperties
<1>3. /\ user' = u /\ keychain' = u
      /\ main' \in Seq(Block) /\ Len(main') = Len(main) + 1 + Len(<<b>>)
      /\ \A i \in 1 .. Len(main) : main'[i] = main[i]
      /\ main'[Len(main) + 1] = Posted
      /\ \A i \in 1 .. Len(<<b>>) : main'[Len(main) + 1 + i] = <<b>>[i]
  BY <1>1, UpdateStep, Zenon
<1> QED
  BY <1>1, <1>2, <1>3

-----------------------------------------------------------------------------
(***************************************************************************)
(* Type correctness.                                                       *)
(***************************************************************************)
LEMMA TapStep ==
  ASSUME GateTypeOK, NEW op \in {"signIn", "signUp"}, NEW u \in Users, Enter(op, u)
  PROVE  /\ calls' \in [Call -> Nat]
         /\ \A c \in Call : calls'[c] > 0 => calls[c] > 0 \/ c.op = op
PROOF
<1> DEFINE e == [op |-> op, as |-> u, here |-> TRUE]
<1>1. e \in Call /\ e.op = op
  BY DEF Call
<1>2. calls \in [Call -> Nat] /\ calls' = [calls EXCEPT ![e] = @ + 1]
  BY DEF Enter, GateTypeOK
<1> QED
  BY <1>1, <1>2

LEMMA AnswerStep ==
  ASSUME GateTypeOK, NEW c \in Call, Answer(c)
  PROVE  /\ calls' \in [Call -> Nat]
         /\ \A d \in Call : calls'[d] > 0 => calls[d] > 0
         /\ accounts' \subseteq Users
         /\ \/ c.as \in Users /\ Update(c.as, <<Reply(c, TRUE)>>)
            \/ main' = Append(main, Reply(c, FALSE)) /\ UNCHANGED <<user, keychain>>
         /\ \A ok \in BOOLEAN : Reply(c, ok) \in Done /\ Reply(c, ok).ok = ok
                                /\ Reply(c, ok).op = c.op /\ Reply(c, ok).here = c.here
         /\ calls[c] > 0
PROOF
<1>1. c.as \in Users /\ calls \in [Call -> Nat] /\ accounts \subseteq Users
  BY DEF Call, GateTypeOK
<1>2. calls' = [calls EXCEPT ![c] = @ - 1] /\ calls[c] > 0
  BY DEF Answer
<1>3. ASSUME NEW ok \in BOOLEAN
      PROVE  /\ Reply(c, ok) \in Done /\ Reply(c, ok).ok = ok
             /\ Reply(c, ok).op = c.op /\ Reply(c, ok).here = c.here
  BY DEF Reply, Call, Done
<1>4. accounts' \subseteq Users
  BY <1>1 DEF Answer
<1>5. \/ Update(c.as, <<Reply(c, TRUE)>>)
      \/ main' = Append(main, Reply(c, FALSE)) /\ UNCHANGED <<user, keychain>>
  BY DEF Answer
<1>6. calls' \in [Call -> Nat] /\ \A d \in Call : calls'[d] > 0 => calls[d] > 0
  BY <1>1, <1>2
<1> QED
  BY <1>1, <1>2, <1>3, <1>4, <1>5, <1>6

\* What the handler of a call does: it leaves the screens as they are, or one
\* of them presents, or the login screen is uncovered or goes.
LEMMA DoneStep ==
  ASSUME GateTypeOK, SignInDone \/ SignUpDone
  PROVE  /\ main # <<>> /\ Head(main) \in Done
         /\ \/ /\ Head(main).here /\ Head(main).ok
               /\ stack' \in {<<>>, <<"login">>}
               /\ Leave(stack', Tail(main))
            \/ /\ \/ Present(<<"login">>, "alert") \/ Present(<<"login", "signUp">>, "alert")
                  \/ UNCHANGED stack
               /\ main' = Tail(main) /\ UNCHANGED calls
         /\ UNCHANGED <<authVars, excuse>>
PROOF
<1>1. main # <<>> /\ Head(main).op \in {"signIn", "signUp"}
  BY DEF SignInDone, SignUpDone, Due
<1>2. Head(main) \in Done
  BY <1>1, HeadStep, BlockKinds DEF GateTypeOK
<1>3. CASE SignInDone
  BY <1>1, <1>2, <1>3 DEF SignInDone, Leave
<1>4. CASE SignUpDone
  BY <1>1, <1>2, <1>4 DEF SignUpDone, Leave
<1> QED
  BY <1>3, <1>4

LEMMA GateTypeStep ==
  ASSUME GateTypeOK, [GateNext]_gateVars
  PROVE  GateTypeOK'
PROOF
<1>0. /\ user \in Uids /\ keychain \in Uids /\ NoUser \in Uids
      /\ main \in Seq(Block) /\ stack \in Stacks /\ calls \in [Call -> Nat]
      /\ seen \in Uids \cup {Unseen} /\ accounts \subseteq Users
      /\ excuse \in {"none", "covered", "hasty"}
  BY DEF GateTypeOK, Uids
<1>p. Posted \in Block /\ [op |-> "login"] \in Block /\ [op |-> "first"] \in Block
      /\ <<>> \in Seq(Block)
  BY DEF Posted, Block
<1>1. CASE UNCHANGED gateVars
  BY <1>1 DEF GateTypeOK, gateVars, authVars
<1>2. CASE Load
  <2>1. main' \in Seq(Block)
    BY <1>0, <1>p, <1>2, AppendStep DEF Load
  <2> QED
    BY <1>0, <1>2, <2>1 DEF Load, GateTypeOK
<1>3. CASE Revoke
  <2>1. main' \in Seq(Block) /\ user' \in Uids /\ keychain' \in Uids
    BY <1>0, <1>3, UpdateAlone DEF Revoke
  <2> QED
    BY <1>0, <1>3, <2>1 DEF Revoke, GateTypeOK
<1>4. ASSUME NEW c \in Call, Answer(c) PROVE GateTypeOK'
  <2>1. Reply(c, FALSE) \in Block /\ Reply(c, TRUE) \in Block
    BY <1>4, AnswerStep DEF Block
  <2>2. CASE c.as \in Users /\ Update(c.as, <<Reply(c, TRUE)>>)
    <3>1. main' \in Seq(Block) /\ user' = c.as /\ keychain' = c.as
      BY <1>0, <2>1, <2>2, UpdateAndReply
    <3> QED
      BY <1>0, <1>4, <2>2, <3>1, AnswerStep DEF Answer, GateTypeOK, Uids
  <2>3. CASE main' = Append(main, Reply(c, FALSE)) /\ UNCHANGED <<user, keychain>>
    <3>1. main' \in Seq(Block)
      BY <1>0, <2>1, <2>3, AppendStep
    <3> QED
      BY <1>0, <1>4, <2>3, <3>1, AnswerStep DEF Answer, GateTypeOK
  <2> QED
    BY <1>4, <2>2, <2>3, AnswerStep
<1>5. CASE Listen
  <2>1. main # <<>>
    BY <1>5 DEF Listen, Due
  <2>2. Tail(main) \in Seq(Block) /\ Append(Tail(main), [op |-> "login"]) \in Seq(Block)
    BY <1>0, <1>p, <2>1, HeadStep, AppendStep
  <2>3. main' \in Seq(Block)
    BY <1>5, <2>2 DEF Listen
  <2> QED
    BY <1>0, <1>5, <2>3 DEF Listen, GateTypeOK
<1>6. CASE PresentLogin
  <2>1. main' \in Seq(Block)
    BY <1>0, <1>6, HeadStep DEF PresentLogin, Due
  <2>2. stack' \in Stacks
    BY <1>0, <1>6, LoginPresented DEF PresentLogin
  <2> QED
    BY <1>0, <1>6, <2>1, <2>2 DEF PresentLogin, GateTypeOK, authVars
<1>7. CASE SignInDone \/ SignUpDone
  <2>1. Tail(main) \in Seq(Block)
    BY <1>0, <1>7, DoneStep, HeadStep
  <2>2. main' \in Seq(Block) /\ calls' \in [Call -> Nat] /\ stack' \in Stacks
    <3>1. CASE stack' \in {<<>>, <<"login">>} /\ Leave(stack', Tail(main))
      BY <1>0, <2>1, <3>1, LeaveStep DEF Stacks
    <3>2. CASE /\ \/ Present(<<"login">>, "alert") \/ Present(<<"login", "signUp">>, "alert")
                  \/ UNCHANGED stack
               /\ main' = Tail(main) /\ UNCHANGED calls
      BY <1>0, <2>1, <3>2, PresentStep
    <3> QED
      BY <1>7, <3>1, <3>2, DoneStep
  <2> QED
    BY <1>0, <1>7, <2>2, DoneStep DEF GateTypeOK, authVars
<1>8. CASE OpenSignUp \/ Cover
  <2>1. stack' \in Stacks
    BY <1>0, <1>8, PresentStep DEF OpenSignUp, Cover
  <2> QED
    BY <1>0, <1>8, <2>1 DEF OpenSignUp, Cover, GateTypeOK, authVars
<1>9. CASE Close
  <2>1. stack' \in Stacks /\ Leave(stack', main)
    BY <1>0, <1>9, CloseStep DEF Stacks
  <2>2. calls' \in [Call -> Nat] /\ main' \in Seq(Block)
    BY <1>0, <2>1, LeaveStep
  <2> QED
    BY <1>0, <1>9, <2>1, <2>2 DEF Close, GateTypeOK, authVars
<1>10. ASSUME NEW u \in Users, TapSignIn(u) \/ TapSignUp(u) PROVE GateTypeOK'
  <2>1. calls' \in [Call -> Nat]
    BY <1>0, <1>10, TapStep DEF TapSignIn, TapSignUp
  <2>2. stack' \in Stacks
    BY <1>0, <1>10, PresentStep DEF TapSignIn, TapSignUp
  <2> QED
    BY <1>0, <1>10, <2>1, <2>2 DEF TapSignIn, TapSignUp, GateTypeOK, authVars
<1>11. CASE SignOut
  <2>1. CASE Update(NoUser, <<>>) /\ UNCHANGED stack
    <3>1. main' \in Seq(Block) /\ user' \in Uids /\ keychain' \in Uids
      BY <1>0, <2>1, UpdateAlone
    <3> QED
      BY <1>0, <1>11, <2>1, <3>1 DEF SignOut, GateTypeOK
  <2>2. CASE Present(<<>>, "alert") /\ UNCHANGED <<user, keychain, main>>
    <3>1. stack' \in Stacks
      BY <1>0, <2>2, PresentStep
    <3> QED
      BY <1>0, <1>11, <2>2, <3>1 DEF SignOut, GateTypeOK
  <2> QED
    BY <1>11, <2>1, <2>2 DEF SignOut
<1>12. CASE Restart
  <2>1. main' \in Seq(Block)
    BY <1>p, <1>12 DEF Restart, Relaunch
  <2>2. calls' \in [Call -> Nat]
    BY <1>12 DEF Restart, Relaunch
  <2> QED
    BY <1>0, <1>12, <2>1, <2>2 DEF Restart, Relaunch, GateTypeOK, Stacks
<1> QED
  BY <1>1, <1>2, <1>3, <1>4, <1>5, <1>6, <1>7, <1>8, <1>9, <1>10, <1>11, <1>12
     DEF GateNext, Authenticating, Queueing, Tapping

LEMMA GateTypeInit == GateInit => GateTypeOK
PROOF
<1> SUFFICES ASSUME GateInit PROVE GateTypeOK
  OBVIOUS
<1>1. [op |-> "first"] \in Block
  BY DEF Block
<1>2. main \in Seq(Block)
  BY <1>1 DEF GateInit
<1>3. calls \in [Call -> Nat]
  BY DEF GateInit
<1> QED
  BY <1>2, <1>3 DEF GateInit, GateTypeOK, Uids, Stacks

\* The session, the calls to Auth, the main queue and the stack of presented
\* screens stay in their types.
THEOREM GateTypes == GateSpec => []GateTypeOK
PROOF
  BY GateTypeInit, GateTypeStep, PTL DEF GateSpec

-----------------------------------------------------------------------------
(***************************************************************************)
(* The login screen comes.  The invariant follows the order of the queue:  *)
(* a sign-in is announced to the listener before its handler dismisses the *)
(* login screen, so that a session that ends afterwards is noticed.        *)
(***************************************************************************)
OkHere(b) == b \in Done /\ b.ok /\ b.here

\* Only a screen that is there has handlers that can still do something.
HandlersLive ==
  /\ \A i \in 1 .. Len(main) :
       main[i] \in Done /\ main[i].here => Alive(main[i].op, stack)
  /\ \A c \in Call : calls[c] > 0 /\ c.here => Alive(c.op, stack)

FirstIsFirst ==
  \A i \in 1 .. Len(main) : main[i].op = "first" => i = 1 /\ stack \notin LoginUp

PostedBefore(i) == \E j \in 1 .. i - 1 : main[j].op = "posted"

\* When the login screen is dismissed the listener has seen who signed in.
SignInHeard ==
  excuse = "none" =>
    \A i \in 1 .. Len(main) : OkHere(main[i]) =>
      IF PostedBefore(i) THEN user # NoUser ELSE seen # NoUser

\* What the listener saw last, it acted upon.
LoginDue ==
  excuse = "none" /\ seen = NoUser =>
    stack \in LoginUp \/ \E i \in 1 .. Len(main) : main[i].op = "login"

\* What it has not seen yet, it will.
ListenerDue ==
  seen # user => \E i \in 1 .. Len(main) : main[i].op \in {"first", "posted"}

KeychainAhead == user = keychain \/ user = NoUser

GateInv ==
  /\ HandlersLive /\ FirstIsFirst /\ SignInHeard
  /\ LoginDue /\ ListenerDue /\ KeychainAhead

LEMMA KindsOfBlocks ==
  /\ Posted \in Block /\ Posted.op = "posted" /\ Posted \notin Done
  /\ [op |-> "login"] \in Block /\ [op |-> "login"] \notin Done
  /\ [op |-> "first"] \in Block /\ [op |-> "first"] \notin Done
PROOF
<1>1. /\ Posted \in Block /\ [op |-> "login"] \in Block /\ [op |-> "first"] \in Block
      /\ Posted.op = "posted"
  BY DEF Posted, Block
<1> QED
  BY <1>1, BlockKinds

\* No handler of a gone login screen.
LEMMA HandlersNeedLogin ==
  ASSUME GateTypeOK, HandlersLive, NEW i \in 1 .. Len(main),
         main[i] \in Done, main[i].here
  PROVE  stack \in LoginUp
PROOF
<1>1. main[i].op \in {"signIn", "signUp"} /\ Alive(main[i].op, stack)
  BY DEF HandlersLive, Done
<1> QED
  BY <1>1, ScreensUp DEF GateTypeOK, LoginUp

LEMMA LoginInvInit == GateInit => GateInv
PROOF
<1> SUFFICES ASSUME GateInit PROVE GateInv
  OBVIOUS
<1>1. /\ Len(main) = 1 /\ main[1].op = "first" /\ main[1] \notin Done
      /\ stack \notin LoginUp
  BY KindsOfBlocks DEF GateInit, LoginUp, SheetUp
<1>2. \A c \in Call : calls[c] = 0
  BY DEF GateInit
<1>3. HandlersLive
  BY <1>1, <1>2 DEF HandlersLive
<1>4. FirstIsFirst
  BY <1>1 DEF FirstIsFirst
<1>5. SignInHeard
  BY <1>1 DEF SignInHeard, OkHere
<1>6. LoginDue /\ ListenerDue /\ KeychainAhead
  BY <1>1, GateAssumption DEF LoginDue, ListenerDue, KeychainAhead, GateInit, Uids
<1> QED
  BY <1>3, <1>4, <1>5, <1>6 DEF GateInv

\* A step that leaves the queue and the session alone, and takes no screen of a
\* handler away.
LEMMA ScreensOnly ==
  ASSUME GateTypeOK, GateInv, UNCHANGED <<authVars, main, excuse>>,
         stack' \in Stacks,
         stack \in LoginUp <=> stack' \in LoginUp,
         stack \in SheetUp => stack' \in SheetUp,
         \A c \in Call : calls'[c] > 0 /\ c.here => calls[c] > 0 \/ Alive(c.op, stack')
  PROVE  GateInv'
PROOF
<1>0. GateTypeOK /\ stack \in Stacks /\ main' = main
  BY DEF GateTypeOK
<1>1. ASSUME NEW op \in {"signIn", "signUp"}, Alive(op, stack)
      PROVE  Alive(op, stack')
  BY <1>0, <1>1, ScreensUp DEF GateTypeOK
<1>2. HandlersLive'
  <2>1. ASSUME NEW i \in 1 .. Len(main), main[i] \in Done, main[i].here
        PROVE  Alive(main[i].op, stack')
    BY <1>1, <2>1 DEF GateInv, HandlersLive, Done
  <2>2. ASSUME NEW c \in Call, calls'[c] > 0, c.here
        PROVE  Alive(c.op, stack')
    BY <1>1, <2>2 DEF GateInv, HandlersLive, Call
  <2> QED
    BY <1>0, <2>1, <2>2 DEF HandlersLive
<1>3. FirstIsFirst' /\ SignInHeard' /\ LoginDue' /\ ListenerDue' /\ KeychainAhead'
  BY <1>0 DEF GateInv, FirstIsFirst, SignInHeard, PostedBefore, OkHere, LoginDue,
            ListenerDue, KeychainAhead, authVars
<1> QED
  BY <1>2, <1>3 DEF GateInv

\* A step of Auth: blocks join the queue.
LEMMA QueueGrows ==
  ASSUME GateTypeOK, GateInv, UNCHANGED <<seen, stack>>,
         \A c \in Call : calls'[c] > 0 => calls[c] > 0,
         main' \in Seq(Block), Len(main') >= Len(main),
         \A i \in 1 .. Len(main) : main'[i] = main[i],
         \A i \in 1 .. Len(main') : i > Len(main) =>
            /\ main'[i].op # "first"
            /\ main'[i] \in Done /\ main'[i].here => Alive(main'[i].op, stack)
  PROVE  HandlersLive' /\ FirstIsFirst'
PROOF
<1>0. Len(main) \in Nat /\ Len(main') \in Nat
  BY LenProperties DEF GateTypeOK
<1>1. HandlersLive'
  <2>1. ASSUME NEW i \in 1 .. Len(main'), main'[i] \in Done, main'[i].here
        PROVE  Alive(main'[i].op, stack)
    BY <1>0, <2>1 DEF GateInv, HandlersLive
  <2> QED
    BY <2>1 DEF GateInv, HandlersLive
<1>2. FirstIsFirst'
  BY <1>0 DEF GateInv, FirstIsFirst
<1> QED
  BY <1>1, <1>2

\* The sign-in of the user in memory stays heard of while blocks join the queue:
\* if somebody is signed in then, or was not before, or no screen can hear it.
LEMMA StillHeard ==
  ASSUME GateTypeOK, SignInHeard, excuse = "none", UNCHANGED seen,
         main' \in Seq(Block), Len(main') >= Len(main),
         \A i \in 1 .. Len(main) : main'[i] = main[i],
         \/ user' # NoUser
         \/ user = NoUser
         \/ \A i \in 1 .. Len(main) : ~OkHere(main[i])
         \/ \A i \in 1 .. Len(main) : main[i].op # "posted",
         NEW i \in 1 .. Len(main), OkHere(main'[i])
  PROVE  IF PostedBefore(i)' THEN user' # NoUser ELSE seen' # NoUser
PROOF
<1>0. Len(main) \in Nat
  BY LenProperties DEF GateTypeOK
<1>1. main'[i] = main[i] /\ OkHere(main[i])
  BY <1>0 DEF OkHere
<1>2. IF PostedBefore(i) THEN user # NoUser ELSE seen # NoUser
  BY <1>1 DEF SignInHeard
<1>3. PostedBefore(i)' <=> PostedBefore(i)
  BY <1>0 DEF PostedBefore
<1>4. PostedBefore(i) => \E j \in 1 .. Len(main) : main[j].op = "posted"
  BY <1>0 DEF PostedBefore
<1> QED
  BY <1>0, <1>1, <1>2, <1>3, <1>4

LEMMA LoginStaysDue ==
  ASSUME GateTypeOK, LoginDue, excuse = "none", UNCHANGED seen,
         stack \in LoginUp => stack' \in LoginUp,
         main' \in Seq(Block), Len(main') >= Len(main),
         \A i \in 1 .. Len(main) : main'[i] = main[i]
  PROVE  LoginDue'
PROOF
<1>0. Len(main) \in Nat /\ Len(main') \in Nat
  BY LenProperties DEF GateTypeOK
<1> QED
  BY <1>0 DEF LoginDue

LEMMA LoadInv ==
  ASSUME GateTypeOK, GateInv, Load
  PROVE  GateInv'
PROOF
<1>0. Len(main) \in Nat /\ main \in Seq(Block)
  BY LenProperties DEF GateTypeOK
<1>1. /\ main' \in Seq(Block) /\ Len(main') = Len(main) + 1
      /\ \A i \in 1 .. Len(main) : main'[i] = main[i]
      /\ main'[Len(main) + 1] = Posted
  BY <1>0, KindsOfBlocks, AppendStep DEF Load
<1>2. user = NoUser /\ user' = keychain /\ keychain' = keychain
  BY DEF Load, Loaded, GateInv, KeychainAhead
<1>3. HandlersLive' /\ FirstIsFirst'
  BY <1>0, <1>1, KindsOfBlocks, QueueGrows DEF Load
<1>4. SignInHeard'
  <2> SUFFICES ASSUME excuse' = "none", NEW i \in 1 .. Len(main'), OkHere(main'[i])
               PROVE  IF PostedBefore(i)' THEN user' # NoUser ELSE seen' # NoUser
    BY DEF SignInHeard, OkHere
  <2>1. i \in 1 .. Len(main)
    BY <1>0, <1>1, KindsOfBlocks DEF OkHere
  <2> QED
    BY <1>0, <1>1, <1>2, <2>1, StillHeard DEF GateInv, Load
<1>5. LoginDue'
  BY <1>0, <1>1, LoginStaysDue DEF GateInv, Load, LoginDue
<1>6. ListenerDue' /\ KeychainAhead'
  BY <1>0, <1>1, <1>2, KindsOfBlocks DEF ListenerDue, KeychainAhead
<1> QED
  BY <1>3, <1>4, <1>5, <1>6 DEF GateInv

\* The session ends.
LEMMA EndInv ==
  ASSUME GateTypeOK, GateInv, Update(NoUser, <<>>), UNCHANGED <<seen, calls, stack>>,
         excuse' = "none" =>
           /\ excuse = "none"
           /\ \/ \A i \in 1 .. Len(main) : ~OkHere(main[i])
              \/ \A i \in 1 .. Len(main) : main[i].op # "posted"
  PROVE  GateInv'
PROOF
<1>0. Len(main) \in Nat /\ main \in Seq(Block)
  BY LenProperties DEF GateTypeOK
<1>1. /\ user' = NoUser /\ keychain' = NoUser
      /\ main' \in Seq(Block) /\ Len(main') = Len(main) + 1
      /\ \A i \in 1 .. Len(main) : main'[i] = main[i]
      /\ main'[Len(main) + 1] = Posted
  BY <1>0, UpdateAlone
<1>3. HandlersLive' /\ FirstIsFirst'
  BY <1>0, <1>1, KindsOfBlocks, QueueGrows
<1>4. SignInHeard'
  <2> SUFFICES ASSUME excuse' = "none", NEW i \in 1 .. Len(main'), OkHere(main'[i])
               PROVE  IF PostedBefore(i)' THEN user' # NoUser ELSE seen' # NoUser
    BY DEF SignInHeard, OkHere
  <2>1. i \in 1 .. Len(main)
    BY <1>0, <1>1, KindsOfBlocks DEF OkHere
  <2> QED
    BY <1>0, <1>1, <2>1, StillHeard DEF GateInv
<1>5. LoginDue'
  <2>1. CASE excuse' = "none"
    BY <1>0, <1>1, <2>1, LoginStaysDue DEF GateInv
  <2> QED
    BY <2>1 DEF LoginDue
<1>6. ListenerDue' /\ KeychainAhead'
  BY <1>0, <1>1, KindsOfBlocks DEF ListenerDue, KeychainAhead
<1> QED
  BY <1>3, <1>4, <1>5, <1>6 DEF GateInv

LEMMA RevokeInv ==
  ASSUME GateTypeOK, GateInv, Revoke
  PROVE  GateInv'
PROOF
<1>0. Len(main) \in Nat /\ main \in Seq(Block) /\ DOMAIN main = 1 .. Len(main)
  BY LenProperties DEF GateTypeOK
<1>1. Update(NoUser, <<>>) /\ UNCHANGED <<seen, calls, stack>>
  BY DEF Revoke
<1>2. ASSUME excuse' = "none"
      PROVE  excuse = "none" /\ \A i \in 1 .. Len(main) : main[i].op # "posted"
  <2>1. excuse = "none" /\ \A i \in 1 .. Len(main) : main[i] # Posted
    BY <1>0, <1>2 DEF Revoke
  <2>2. \A i \in 1 .. Len(main) : main[i] \in Block
    BY <1>0, ElementOfSeq
  <2> QED
    BY <2>1, <2>2, BlockKinds
<1> QED
  BY <1>1, <1>2, EndInv

LEMMA SignOutInv ==
  ASSUME GateTypeOK, GateInv, SignOut
  PROVE  GateInv'
PROOF
<1>0. /\ stack = <<>> /\ UNCHANGED <<seen, accounts, calls, excuse>>
      /\ stack \notin LoginUp /\ stack \in Stacks
  BY DEF SignOut, LoginUp, SheetUp, Stacks
<1>1. CASE Update(NoUser, <<>>) /\ UNCHANGED stack
  <2>1. \A i \in 1 .. Len(main) : ~OkHere(main[i])
    BY <1>0, HandlersNeedLogin DEF GateInv, OkHere
  <2> QED
    BY <1>0, <1>1, <2>1, EndInv
<1>2. CASE Present(<<>>, "alert") /\ UNCHANGED <<user, keychain, main>>
  BY <1>0, <1>2, PresentStep, ScreensOnly DEF authVars
<1> QED
  BY <1>1, <1>2 DEF SignOut

LEMMA AnswerInv ==
  ASSUME GateTypeOK, GateInv, NEW c \in Call, Answer(c)
  PROVE  GateInv'
PROOF
<1>0. /\ Len(main) \in Nat /\ main \in Seq(Block)
      /\ UNCHANGED <<seen, stack, excuse>>
      /\ \A d \in Call : calls'[d] > 0 => calls[d] > 0
  BY LenProperties, AnswerStep DEF GateTypeOK, Answer
<1>1. c.here => Alive(c.op, stack)
  BY AnswerStep DEF GateInv, HandlersLive
<1>2. CASE c.as \in Users /\ Update(c.as, <<Reply(c, TRUE)>>)
  <2>0. /\ Reply(c, TRUE) \in Done /\ Reply(c, TRUE).op = c.op
        /\ Reply(c, TRUE).here = c.here /\ c.op # "first"
        /\ Reply(c, TRUE) \in Block
    BY AnswerStep DEF Call, Block
  <2>1. /\ user' = c.as /\ keychain' = c.as /\ user' # NoUser
        /\ main' \in Seq(Block) /\ Len(main') = Len(main) + 2
        /\ \A i \in 1 .. Len(main) : main'[i] = main[i]
        /\ main'[Len(main) + 1] = Posted
        /\ main'[Len(main) + 2] = Reply(c, TRUE)
    BY <1>0, <1>2, <2>0, UpdateAndReply, GateAssumption
  <2>2. HandlersLive' /\ FirstIsFirst'
    <3>1. ASSUME NEW i \in 1 .. Len(main'), i > Len(main)
          PROVE  /\ main'[i].op # "first"
                 /\ main'[i] \in Done /\ main'[i].here => Alive(main'[i].op, stack)
      <4>1. i = Len(main) + 1 \/ i = Len(main) + 2
        BY <1>0, <2>1, <3>1
      <4> QED
        BY <1>1, <2>0, <2>1, <4>1, KindsOfBlocks
    <3> QED
      BY <1>0, <2>1, <3>1, QueueGrows
  <2>3. SignInHeard'
    <3> SUFFICES ASSUME excuse' = "none", NEW i \in 1 .. Len(main'), OkHere(main'[i])
                 PROVE  IF PostedBefore(i)' THEN user' # NoUser ELSE seen' # NoUser
      BY DEF SignInHeard, OkHere
    <3>1. CASE i \in 1 .. Len(main)
      BY <1>0, <2>1, <3>1, StillHeard DEF GateInv
    <3>2. CASE i = Len(main) + 2
      BY <1>0, <2>1, <3>2, KindsOfBlocks DEF PostedBefore
    <3> QED
      BY <1>0, <2>1, <3>1, <3>2, KindsOfBlocks DEF OkHere
  <2>4. LoginDue'
    BY <1>0, <2>1, LoginStaysDue DEF GateInv, LoginDue
  <2>5. ListenerDue' /\ KeychainAhead'
    BY <1>0, <2>1, KindsOfBlocks DEF ListenerDue, KeychainAhead
  <2> QED
    BY <2>2, <2>3, <2>4, <2>5 DEF GateInv
<1>3. CASE main' = Append(main, Reply(c, FALSE)) /\ UNCHANGED <<user, keychain>>
  <2> DEFINE r == Reply(c, FALSE)
  <2>0. /\ r \in Done /\ r.op = c.op /\ r.here = c.here /\ c.op # "first"
        /\ ~r.ok /\ r \in Block /\ main' = Append(main, r)
    BY <1>3, AnswerStep DEF Call, Block
  <2> HIDE DEF r
  <2>1. /\ main' \in Seq(Block) /\ Len(main') = Len(main) + 1
        /\ \A i \in 1 .. Len(main) : main'[i] = main[i]
        /\ main'[Len(main) + 1] = r
    BY <1>0, <2>0, AppendStep
  <2>2. HandlersLive' /\ FirstIsFirst'
    <3>1. ASSUME NEW i \in 1 .. Len(main'), i > Len(main)
          PROVE  main'[i] = r
      BY <1>0, <2>1, <3>1
    <3> QED
      BY <1>0, <1>1, <2>0, <2>1, <3>1, QueueGrows
  <2>3. SignInHeard'
    <3> SUFFICES ASSUME excuse' = "none", NEW i \in 1 .. Len(main'), OkHere(main'[i])
                 PROVE  IF PostedBefore(i)' THEN user' # NoUser ELSE seen' # NoUser
      BY DEF SignInHeard, OkHere
    <3>1. i \in 1 .. Len(main)
      BY <1>0, <2>0, <2>1 DEF OkHere
    <3> QED
      BY <1>0, <1>3, <2>1, <3>1, StillHeard DEF GateInv
  <2>4. LoginDue'
    BY <1>0, <2>1, LoginStaysDue DEF GateInv, LoginDue
  <2>5. ListenerDue' /\ KeychainAhead'
    <3>1. UNCHANGED <<user, keychain, seen>>
      BY <1>0, <1>3
    <3> QED
      BY <1>0, <2>1, <3>1 DEF GateInv, ListenerDue, KeychainAhead
  <2> QED
    BY <2>2, <2>3, <2>4, <2>5 DEF GateInv
<1> QED
  BY <1>2, <1>3, AnswerStep

\* The main queue takes its next block; what that does to the blocks behind it
\* leaves their kinds, and revives no handler.
LEMMA QueueShrinks ==
  ASSUME GateTypeOK, GateInv, main # <<>>,
         main' \in Seq(Block), Len(main') >= Len(main) - 1,
         \A i \in 1 .. Len(main) - 1 :
            /\ main'[i].op = main[i + 1].op
            /\ OkHere(main'[i]) => OkHere(main[i + 1]),
         \A i \in 1 .. Len(main') : i >= Len(main) => main'[i] = [op |-> "login"]
  PROVE  /\ FirstIsFirst'
         /\ \A i \in 1 .. Len(main) - 1 :
              PostedBefore(i)' \/ main[1].op = "posted" <=> PostedBefore(i + 1)
PROOF
<1>0. Len(main) \in Nat /\ Len(main') \in Nat /\ Len(main) >= 1
  BY LenProperties, HeadStep DEF GateTypeOK
<1>1. FirstIsFirst'
  <2> SUFFICES ASSUME NEW i \in 1 .. Len(main'), main'[i].op = "first"
               PROVE  FALSE
    BY DEF FirstIsFirst
  <2>1. CASE i >= Len(main)
    BY <2>1
  <2>2. CASE i \in 1 .. Len(main) - 1
    <3>1. i + 1 \in 1 .. Len(main) /\ main[i + 1].op = "first"
      BY <1>0, <2>2
    <3> QED
      BY <1>0, <3>1 DEF GateInv, FirstIsFirst
  <2> QED
    BY <1>0, <2>1, <2>2
<1>2. ASSUME NEW i \in 1 .. Len(main) - 1
      PROVE  PostedBefore(i)' \/ main[1].op = "posted" <=> PostedBefore(i + 1)
  <2>1. PostedBefore(i + 1) <=> \E j \in 1 .. i : main[j].op = "posted"
    BY <1>0 DEF PostedBefore
  <2>2. \A j \in 1 .. i - 1 : main'[j].op = main[j + 1].op
    BY <1>0
  <2>3. PostedBefore(i)' <=> \E j \in 1 .. i - 1 : main[j + 1].op = "posted"
    BY <2>2 DEF PostedBefore
  <2>4. \A j \in 1 .. i : j = 1 \/ (j - 1 \in 1 .. i - 1 /\ (j - 1) + 1 = j)
    BY <1>0
  <2>5. \A j \in 1 .. i - 1 : j + 1 \in 1 .. i
    BY <1>0
  <2>6. 1 \in 1 .. i
    BY <1>0
  <2> QED
    BY <2>1, <2>3, <2>4, <2>5, <2>6
<1> QED
  BY <1>1, <1>2

LEMMA ListenInv ==
  ASSUME GateTypeOK, GateInv, Listen
  PROVE  GateInv'
PROOF
<1> DEFINE due == user = NoUser /\ seen # user
<1>0. /\ main \in Seq(Block) /\ main # <<>> /\ Len(main) \in Nat /\ Len(main) >= 1
      /\ Tail(main) \in Seq(Block) /\ Len(Tail(main)) = Len(main) - 1
      /\ \A i \in 1 .. Len(main) - 1 : Tail(main)[i] = main[i + 1]
      /\ main[1].op \in {"first", "posted"}
  BY HeadStep, LenProperties DEF GateTypeOK, Listen, Due
<1>1. seen' = user /\ UNCHANGED <<user, keychain, accounts, calls, stack, excuse>>
  BY DEF Listen
<1>2. /\ main' \in Seq(Block)
      /\ \A i \in 1 .. Len(main) - 1 : main'[i] = main[i + 1]
      /\ IF due THEN Len(main') = Len(main) /\ main'[Len(main)] = [op |-> "login"]
                ELSE Len(main') = Len(main) - 1
  <2>1. CASE due
    <3>1. main' = Append(Tail(main), [op |-> "login"])
      BY <2>1 DEF Listen
    <3> QED
      BY <1>0, <2>1, <3>1, AppendStep, KindsOfBlocks
  <2>2. CASE ~due
    <3>1. main' = Tail(main)
      BY <2>2 DEF Listen
    <3> QED
      BY <1>0, <2>2, <3>1
  <2> QED
    BY <2>1, <2>2
<1> HIDE DEF due
<1>3. /\ Len(main') \in Nat /\ Len(main') >= Len(main) - 1
      /\ \A i \in 1 .. Len(main') : i >= Len(main) => main'[i] = [op |-> "login"] /\ due
      /\ \A i \in 1 .. Len(main') : i < Len(main) => i + 1 \in 1 .. Len(main)
  <2>1. Len(main') \in Nat
    BY <1>2, LenProperties
  <2>2. CASE due
    BY <1>0, <1>2, <2>1, <2>2
  <2>3. CASE ~due
    BY <1>0, <1>2, <2>1, <2>3
  <2> QED
    BY <2>2, <2>3
<1>4. /\ FirstIsFirst'
      /\ \A i \in 1 .. Len(main) - 1 :
           PostedBefore(i)' \/ main[1].op = "posted" <=> PostedBefore(i + 1)
  <2>1. \A i \in 1 .. Len(main) - 1 :
          main'[i].op = main[i + 1].op /\ (OkHere(main'[i]) => OkHere(main[i + 1]))
    BY <1>2
  <2> QED
    BY <1>0, <1>2, <1>3, <2>1, QueueShrinks
<1>5. HandlersLive'
  <2>1. ASSUME NEW i \in 1 .. Len(main'), main'[i] \in Done, main'[i].here
        PROVE  Alive(main'[i].op, stack)
    <3>1. i \in 1 .. Len(main) - 1 /\ i + 1 \in 1 .. Len(main)
      BY <1>0, <1>3, <2>1, KindsOfBlocks
    <3> QED
      BY <1>2, <2>1, <3>1 DEF GateInv, HandlersLive
  <2> QED
    BY <1>1, <2>1 DEF GateInv, HandlersLive
<1>6. SignInHeard'
  <2> SUFFICES ASSUME excuse' = "none", NEW i \in 1 .. Len(main'), OkHere(main'[i])
               PROVE  IF PostedBefore(i)' THEN user' # NoUser ELSE seen' # NoUser
    BY DEF SignInHeard, OkHere
  <2>1. i \in 1 .. Len(main) - 1 /\ i + 1 \in 1 .. Len(main)
    BY <1>0, <1>3, KindsOfBlocks DEF OkHere
  <2>2. OkHere(main[i + 1])
    BY <1>2, <2>1 DEF OkHere
  <2>3. stack \in LoginUp
    BY <2>1, <2>2, HandlersNeedLogin DEF GateInv, OkHere
  <2>4. main[1].op = "posted"
    BY <1>0, <2>3 DEF GateInv, FirstIsFirst
  <2>5. user # NoUser
    BY <1>1, <1>4, <2>1, <2>2, <2>4 DEF GateInv, SignInHeard
  <2> QED
    BY <1>1, <2>5
<1>7. LoginDue'
  <2> SUFFICES ASSUME excuse = "none", user = NoUser
               PROVE  stack \in LoginUp \/ \E i \in 1 .. Len(main') : main'[i].op = "login"
    BY <1>1 DEF LoginDue
  <2>1. CASE due
    <3>1. Len(main) \in 1 .. Len(main') /\ main'[Len(main)] = [op |-> "login"]
      BY <1>0, <1>2, <2>1
    <3> QED
      BY <3>1
  <2>2. CASE ~due
    <3>1. seen = NoUser
      BY <2>2 DEF due
    <3>2. \A i \in 1 .. Len(main) : main[i].op = "login" =>
            i - 1 \in 1 .. Len(main') /\ main'[i - 1].op = "login"
      BY <1>0, <1>2, <2>2
    <3> QED
      BY <3>1, <3>2 DEF GateInv, LoginDue
  <2> QED
    BY <2>1, <2>2
<1>8. ListenerDue' /\ KeychainAhead'
  BY <1>1 DEF GateInv, ListenerDue, KeychainAhead
<1> QED
  BY <1>4, <1>5, <1>6, <1>7, <1>8 DEF GateInv

\* A block that is not the listener's leaves the queue.
LEMMA BlockLeaves ==
  ASSUME GateTypeOK, GateInv, main # <<>>, main[1].op \notin {"first", "posted"},
         UNCHANGED authVars,
         main' \in Seq(Block), Len(main') = Len(main) - 1,
         \A i \in 1 .. Len(main) - 1 :
            /\ main'[i].op = main[i + 1].op
            /\ OkHere(main'[i]) => OkHere(main[i + 1])
  PROVE  /\ FirstIsFirst' /\ ListenerDue' /\ KeychainAhead'
         /\ excuse = "none" => SignInHeard'
         /\ (\E i \in 1 .. Len(main) : main[i].op = "login") /\ main[1].op # "login" =>
              \E i \in 1 .. Len(main') : main'[i].op = "login"
PROOF
<1>0. Len(main) \in Nat /\ Len(main) >= 1 /\ Len(main') \in Nat
  BY HeadStep, LenProperties DEF GateTypeOK
<1>1. /\ FirstIsFirst'
      /\ \A i \in 1 .. Len(main) - 1 :
           PostedBefore(i)' \/ main[1].op = "posted" <=> PostedBefore(i + 1)
  BY <1>0, QueueShrinks
<1>2. \A i \in 1 .. Len(main) : i # 1 => i - 1 \in 1 .. Len(main') /\ main'[i - 1].op = main[i].op
  BY SMTT(20), <1>0
<1>3. ListenerDue' /\ KeychainAhead'
  <2>1. UNCHANGED <<user, keychain, seen>>
    BY DEF authVars
  <2> QED
    BY <1>2, <2>1 DEF GateInv, ListenerDue, KeychainAhead
<1>4. ASSUME excuse = "none"
      PROVE  SignInHeard'
  <2> SUFFICES ASSUME NEW i \in 1 .. Len(main'), OkHere(main'[i])
               PROVE  IF PostedBefore(i)' THEN user' # NoUser ELSE seen' # NoUser
    BY DEF SignInHeard, OkHere
  <2>1. i \in 1 .. Len(main) - 1 /\ i + 1 \in 1 .. Len(main)
    BY <1>0
  <2>2. OkHere(main[i + 1])
    BY <2>1
  <2>3. PostedBefore(i)' <=> PostedBefore(i + 1)
    BY <1>1, <2>1
  <2> QED
    BY <1>4, <2>1, <2>2, <2>3 DEF GateInv, SignInHeard, authVars
<1> QED
  BY <1>1, <1>2, <1>3, <1>4

LEMMA PresentLoginInv ==
  ASSUME GateTypeOK, GateInv, PresentLogin
  PROVE  GateInv'
PROOF
<1>0. /\ main \in Seq(Block) /\ main # <<>> /\ main[1].op = "login"
      /\ Len(main) \in Nat /\ Len(main) >= 1
      /\ main' \in Seq(Block) /\ Len(main') = Len(main) - 1
      /\ \A i \in 1 .. Len(main) - 1 : main'[i] = main[i + 1]
  BY HeadStep, LenProperties DEF GateTypeOK, PresentLogin, Due
<1>1. UNCHANGED <<authVars, calls>> /\ stack \in Stacks
  BY DEF PresentLogin, GateTypeOK
<1>2. /\ stack = <<>> => stack' = <<"login">>
      /\ stack # <<>> => stack' = stack
  BY <1>1, LoginPresented DEF PresentLogin
<1>3. excuse' = IF stack = <<>> THEN "none"
                ELSE IF Shown("login") THEN excuse ELSE "covered"
  BY DEF PresentLogin
<1>4. /\ FirstIsFirst' /\ ListenerDue' /\ KeychainAhead'
      /\ excuse = "none" => SignInHeard'
  BY <1>0, <1>1, BlockLeaves
<1>5. stack = <<>> => stack \notin LoginUp
  BY DEF LoginUp, SheetUp
<1>6. HandlersLive'
  <2>1. ASSUME NEW op \in {"signIn", "signUp"}, Alive(op, stack)
        PROVE  Alive(op, stack')
    BY <1>1, <1>2, <1>5, <2>1, ScreensUp DEF LoginUp
  <2>2. ASSUME NEW i \in 1 .. Len(main'), main'[i] \in Done, main'[i].here
        PROVE  Alive(main'[i].op, stack')
    <3>1. i + 1 \in 1 .. Len(main) /\ main'[i] = main[i + 1]
      BY <1>0
    <3> QED
      BY <2>1, <2>2, <3>1 DEF GateInv, HandlersLive, Done
  <2> QED
    BY <1>1, <2>1, <2>2 DEF GateInv, HandlersLive, Call
<1>7. SignInHeard'
  <2>1. CASE stack = <<>>
    <3>1. ASSUME NEW i \in 1 .. Len(main'), OkHere(main'[i])
          PROVE  FALSE
      <4>1. i + 1 \in 1 .. Len(main) /\ OkHere(main[i + 1])
        BY <1>0, <3>1
      <4> QED
        BY <1>5, <2>1, <4>1, HandlersNeedLogin DEF GateInv, OkHere
    <3> QED
      BY <3>1 DEF SignInHeard, OkHere
  <2>2. CASE stack # <<>>
    <3>1. excuse' = "none" => excuse = "none"
      BY <1>3, <2>2
    <3> QED
      BY <1>4, <3>1 DEF SignInHeard
  <2> QED
    BY <2>1, <2>2
<1>8. LoginDue'
  <2>1. <<"login">> \in LoginUp
    BY DEF LoginUp
  <2>2. excuse' = "none" => stack' \in LoginUp
    BY <1>1, <1>2, <1>3, <2>1, LoginShown
  <2> QED
    BY <2>2 DEF LoginDue
<1> QED
  BY <1>4, <1>6, <1>7, <1>8 DEF GateInv

LEMMA DoneInv ==
  ASSUME GateTypeOK, GateInv, SignInDone \/ SignUpDone
  PROVE  GateInv'
PROOF
<1>0. /\ main \in Seq(Block) /\ main # <<>> /\ Head(main) = main[1]
      /\ Len(main) \in Nat /\ Len(main) >= 1 /\ 1 \in 1 .. Len(main)
      /\ Tail(main) \in Seq(Block) /\ Len(Tail(main)) = Len(main) - 1
      /\ \A i \in 1 .. Len(main) - 1 : Tail(main)[i] = main[i + 1]
      /\ \A i \in 1 .. Len(main) : main[i] \in Block
  BY DoneStep, HeadStep, LenProperties, ElementOfSeq DEF GateTypeOK
<1>1. main[1] \in Done /\ main[1].op \notin {"first", "posted", "login"}
  BY <1>0, DoneStep DEF Done
<1>2. UNCHANGED <<authVars, excuse>> /\ stack \in Stacks /\ calls \in [Call -> Nat]
  BY DoneStep DEF GateTypeOK
<1>3. CASE main[1].here /\ main[1].ok /\ stack' \in {<<>>, <<"login">>}
           /\ Leave(stack', Tail(main))
  <2>1. /\ \A c \in Call : calls'[c] > 0 /\ c.here => Alive(c.op, stack')
        /\ main' \in Seq(Block) /\ Len(main') = Len(main) - 1
        /\ \A i \in 1 .. Len(main) - 1 : main'[i] = DetachedBlock(main[i + 1], stack')
    <3> DEFINE blocks == Tail(main)
    <3>1. blocks \in Seq(Block) /\ Len(blocks) = Len(main) - 1
          /\ \A i \in 1 .. Len(main) - 1 : blocks[i] = main[i + 1]
      BY <1>0
    <3>2. Leave(stack', blocks)
      BY <1>3
    <3> HIDE DEF blocks
    <3>3. /\ \A c \in Call : calls'[c] > 0 /\ c.here => Alive(c.op, stack')
          /\ main' \in Seq(Block) /\ Len(main') = Len(blocks)
          /\ \A i \in 1 .. Len(blocks) : main'[i] = DetachedBlock(blocks[i], stack')
      BY <1>2, <3>1, <3>2, LeaveStep
    <3> QED
      BY <3>1, <3>3
  <2>2. ASSUME NEW i \in 1 .. Len(main) - 1
        PROVE  /\ main'[i].op = main[i + 1].op
               /\ OkHere(main'[i]) => OkHere(main[i + 1])
               /\ main'[i] \in Done /\ main'[i].here => Alive(main'[i].op, stack')
    <3>1. i + 1 \in 1 .. Len(main)
      BY <1>0
    <3> QED
      BY <1>0, <2>1, <3>1, DetachedBlockIs, DetachedKeeps DEF OkHere
  <2>3. /\ FirstIsFirst' /\ ListenerDue' /\ KeychainAhead'
        /\ excuse = "none" => SignInHeard'
    BY <1>0, <1>1, <1>2, <2>1, <2>2, BlockLeaves
  <2>4. HandlersLive'
    BY <2>1, <2>2 DEF HandlersLive
  <2>5. excuse = "none" => seen # NoUser
    <3>1. OkHere(main[1]) /\ ~PostedBefore(1)
      BY <1>1, <1>3 DEF OkHere, PostedBefore
    <3> QED
      BY <1>0, <3>1 DEF GateInv, SignInHeard
  <2> QED
    BY <1>2, <2>3, <2>4, <2>5 DEF GateInv, SignInHeard, LoginDue, authVars
<1>4. CASE /\ \/ Present(<<"login">>, "alert") \/ Present(<<"login", "signUp">>, "alert")
              \/ UNCHANGED stack
           /\ main' = Tail(main) /\ UNCHANGED calls
  <2>1. /\ stack \in LoginUp <=> stack' \in LoginUp
        /\ stack \in SheetUp => stack' \in SheetUp
        /\ stack' \in Stacks
    BY <1>2, <1>4, PresentStep
  <2>2. ASSUME NEW op \in {"signIn", "signUp"}, Alive(op, stack)
        PROVE  Alive(op, stack')
    BY <1>2, <2>1, <2>2, ScreensUp
  <2>3. HandlersLive'
    <3>1. ASSUME NEW i \in 1 .. Len(main'), main'[i] \in Done, main'[i].here
          PROVE  Alive(main'[i].op, stack')
      <4>1. i + 1 \in 1 .. Len(main) /\ main'[i] = main[i + 1]
        BY <1>0, <1>4
      <4> QED
        BY <2>2, <3>1, <4>1 DEF GateInv, HandlersLive, Done
    <3> QED
      BY <1>4, <2>2, <3>1 DEF GateInv, HandlersLive, Call
  <2>4. /\ FirstIsFirst' /\ ListenerDue' /\ KeychainAhead'
        /\ excuse = "none" => SignInHeard'
        /\ (\E i \in 1 .. Len(main) : main[i].op = "login") /\ main[1].op # "login" =>
             \E i \in 1 .. Len(main') : main'[i].op = "login"
    BY <1>0, <1>1, <1>2, <1>4, BlockLeaves
  <2> QED
    BY <1>1, <1>2, <2>1, <2>3, <2>4 DEF GateInv, SignInHeard, LoginDue, authVars
<1> QED
  BY <1>0, <1>3, <1>4, DoneStep

LEMMA CloseInv ==
  ASSUME GateTypeOK, GateInv, Close
  PROVE  GateInv'
PROOF
<1>0. /\ main \in Seq(Block) /\ Len(main) \in Nat /\ calls \in [Call -> Nat]
      /\ \A i \in 1 .. Len(main) : main[i] \in Block
  BY LenProperties, ElementOfSeq DEF GateTypeOK
<1>1. /\ Leave(stack', main) /\ UNCHANGED <<authVars, excuse>>
      /\ stack \in LoginUp <=> stack' \in LoginUp
  BY CloseStep DEF Close, GateTypeOK
<1>2. /\ \A c \in Call : calls'[c] > 0 /\ c.here => Alive(c.op, stack')
      /\ main' \in Seq(Block) /\ Len(main') = Len(main)
      /\ \A i \in 1 .. Len(main) : main'[i] = DetachedBlock(main[i], stack')
  BY <1>0, <1>1, LeaveStep
<1>3. ASSUME NEW i \in 1 .. Len(main)
      PROVE  /\ main'[i].op = main[i].op
             /\ OkHere(main'[i]) => OkHere(main[i])
             /\ main'[i] \in Done /\ main'[i].here => Alive(main'[i].op, stack')
  BY <1>0, <1>2, DetachedBlockIs, DetachedKeeps DEF OkHere
<1>4. HandlersLive'
  BY <1>2, <1>3 DEF HandlersLive
<1>5. FirstIsFirst' /\ LoginDue' /\ ListenerDue' /\ KeychainAhead'
  BY <1>1, <1>2, <1>3 DEF GateInv, FirstIsFirst, LoginDue, ListenerDue, KeychainAhead, authVars
<1>6. SignInHeard'
  <2>1. \A i \in 1 .. Len(main) : PostedBefore(i)' <=> PostedBefore(i)
    BY SMTT(20), <1>0, <1>3 DEF PostedBefore
  <2> QED
    BY <1>1, <1>2, <1>3, <2>1 DEF GateInv, SignInHeard, authVars
<1> QED
  BY <1>4, <1>5, <1>6 DEF GateInv

LEMMA LoginInvStep ==
  ASSUME GateTypeOK, GateInv, [GateNext]_gateVars
  PROVE  GateInv'
PROOF
<1>0. stack \in Stacks /\ calls \in [Call -> Nat] /\ main \in Seq(Block)
  BY DEF GateTypeOK
<1>1. CASE UNCHANGED gateVars
  <2>1. UNCHANGED <<user, keychain, seen, calls, main, stack, excuse>>
    BY <1>1 DEF gateVars, authVars
  <2> QED
    BY <2>1 DEF GateInv, HandlersLive, FirstIsFirst, SignInHeard, PostedBefore, OkHere,
                LoginDue, ListenerDue, KeychainAhead
<1>2. CASE Authenticating
  BY <1>2, LoadInv, RevokeInv, AnswerInv DEF Authenticating
<1>3. CASE Queueing \/ SignUpDone
  BY <1>3, ListenInv, PresentLoginInv, DoneInv DEF Queueing
<1>4. CASE OpenSignUp \/ Cover
  <2>1. UNCHANGED <<authVars, calls, main, excuse>>
    BY <1>4 DEF OpenSignUp, Cover
  <2>2. Present(<<"login">>, "signUp") \/ Present(<<>>, "alert")
    BY <1>4 DEF OpenSignUp, Cover
  <2> QED
    BY <1>0, <2>1, <2>2, PresentStep, ScreensOnly
<1>5. ASSUME NEW u \in Users, TapSignIn(u)
      PROVE  GateInv'
  <2>1. stack = <<"login">> /\ UNCHANGED <<authVars, main, stack, excuse>>
    BY <1>0, <1>5, TopScreen DEF TapSignIn
  <2>2. \A c \in Call : calls'[c] > 0 => calls[c] > 0 \/ c.op = "signIn"
    BY <1>5, TapStep DEF TapSignIn
  <2>3. Alive("signIn", stack')
    BY <1>0, <2>1, ScreensUp DEF LoginUp
  <2> QED
    BY <1>0, <2>1, <2>2, <2>3, ScreensOnly
<1>6. ASSUME NEW u \in Users, TapSignUp(u)
      PROVE  GateInv'
  <2>1. stack = <<"login", "signUp">> /\ UNCHANGED <<authVars, main, excuse>>
    BY <1>0, <1>6, TopScreen DEF TapSignUp
  <2>2. CASE Present(<<"login", "signUp">>, "alert") /\ UNCHANGED calls
    BY <1>0, <2>1, <2>2, PresentStep, ScreensOnly
  <2>3. CASE Enter("signUp", u) /\ UNCHANGED stack
    <3>1. \A c \in Call : calls'[c] > 0 => calls[c] > 0 \/ c.op = "signUp"
      BY <2>3, TapStep
    <3>2. Alive("signUp", stack')
      BY <1>0, <2>1, <2>3, ScreensUp DEF SheetUp
    <3> QED
      BY <1>0, <2>1, <2>3, <3>1, <3>2, ScreensOnly
  <2> QED
    BY <1>6, <2>2, <2>3 DEF TapSignUp
<1>7. CASE Close
  BY <1>7, CloseInv
<1>8. CASE SignOut
  BY <1>8, SignOutInv
<1>9. CASE Restart
  <2>1. /\ user' = NoUser /\ seen' = Unseen /\ main' = <<[op |-> "first"]>>
        /\ stack' = <<>> /\ \A c \in Call : calls'[c] = 0
    BY <1>9 DEF Restart, Relaunch
  <2>2. /\ Len(main') = 1 /\ main'[1].op = "first" /\ main'[1] \notin Done
        /\ <<>> \notin LoginUp
    BY <2>1, KindsOfBlocks DEF LoginUp, SheetUp
  <2>3. HandlersLive' /\ FirstIsFirst'
    BY <2>1, <2>2 DEF HandlersLive, FirstIsFirst
  <2>4. SignInHeard'
    BY <2>2 DEF SignInHeard, OkHere
  <2>5. LoginDue' /\ ListenerDue' /\ KeychainAhead'
    BY <2>1, <2>2, GateAssumption DEF LoginDue, ListenerDue, KeychainAhead, Uids
  <2> QED
    BY <2>3, <2>4, <2>5 DEF GateInv
<1> QED
  BY <1>1, <1>2, <1>3, <1>4, <1>5, <1>6, <1>7, <1>8, <1>9 DEF GateNext, Tapping

LEMMA LoginInvShows ==
  ASSUME GateTypeOK, GateInv
  PROVE  LoginComes
PROOF
<1> SUFFICES ASSUME main = <<>>, user = NoUser, excuse = "none"
             PROVE  Shown("login")
  BY DEF LoginComes, GateQuiet
<1>1. Len(main) = 0
  OBVIOUS
<1>2. seen = NoUser
  BY <1>1 DEF GateInv, ListenerDue
<1>3. stack \in LoginUp
  BY <1>1, <1>2 DEF GateInv, LoginDue
<1> QED
  BY <1>3, LoginShown DEF GateTypeOK

\* Once the queue is empty nobody is signed in without the login screen being
\* there, but for the two ways to miss it: whatever the order of the listener,
\* of the presentations, of the answers and of the ends of sessions.
THEOREM LoginAlwaysComes == GateSpec => []LoginComes
PROOF
<1>1. GateInit => GateTypeOK /\ GateInv
  BY GateTypeInit, LoginInvInit
<1>2. GateTypeOK /\ GateInv /\ [GateNext]_gateVars => (GateTypeOK /\ GateInv)'
  BY GateTypeStep, LoginInvStep
<1>3. GateTypeOK /\ GateInv => LoginComes
  BY LoginInvShows
<1> QED
  BY <1>1, <1>2, <1>3, PTL DEF GateSpec
=============================================================================
