------------------------ MODULE FirestoreClientProofs ------------------------
(***************************************************************************)
(* What the folds of the client compute: the calls under way, which are a  *)
(* sum over queries and queues, and the documents as the device sees them, *)
(* which are the server's with the unsent writes applied from the first to *)
(* the last.                                                               *)
(***************************************************************************)
EXTENDS FirestoreClient, FiniteSetTheorems, TLAPS

\* Induction over a set of natural numbers.
LEMMA SetInduction ==
  ASSUME NEW G, 0 \in G, \A n \in Nat : n \in G => n + 1 \in G
  PROVE  \A n \in Nat : n \in G
<1> DEFINE T == {n \in Nat : n \notin G}
<1> SUFFICES ASSUME T # {} PROVE FALSE
  OBVIOUS
<1>1. PICK x \in T : \A y \in T : ~ (<<y, x>> \in OpToRel(<, Nat))
  <2> HIDE DEF T
  <2>1. T \subseteq Nat
    BY DEF T
  <2> QED
    BY <2>1, NatLessThanWellFounded, WFMin
<1>2. \A y \in T : ~ (y < x)
  BY <1>1 DEF OpToRel
<1>3. x \in Nat /\ x # 0 /\ x - 1 \in Nat
  OBVIOUS
<1>4. x - 1 \in G
  BY <1>2, <1>3
<1> QED
  BY <1>3, <1>4

-----------------------------------------------------------------------------
(***************************************************************************)
(* Sums of natural numbers over a finite set.                              *)
(***************************************************************************)
Chosen(S) == CHOOSE x \in S : TRUE

\* The equation that the sums of f over the subsets of S are defined by.
Sums(f, S, g) ==
  g = [T \in SUBSET S |-> IF T = {} THEN 0 ELSE f[Chosen(T)] + g[T \ {Chosen(T)}]]

LEMMA SumsExist ==
  ASSUME NEW S, IsFiniteSet(S), NEW f
  PROVE  \E g : Sums(f, S, g)
<1> DEFINE
      Upto(n) == {T \in SUBSET S : Cardinality(T) <= n}
      Def(n, g) == g = [T \in Upto(n) |->
                          IF T = {} THEN 0 ELSE f[Chosen(T)] + g[T \ {Chosen(T)}]]
      G == {n \in Nat : \E g : Def(n, g)}
<1>0. \A T \in SUBSET S : IsFiniteSet(T) /\ Cardinality(T) \in Nat
  BY FS_Subset, FS_CardinalityType
<1>1. \A T \in SUBSET S : T # {} =>
        /\ T \ {Chosen(T)} \in SUBSET S
        /\ Cardinality(T \ {Chosen(T)}) = Cardinality(T) - 1
  <2> SUFFICES ASSUME NEW T \in SUBSET S, T # {}
               PROVE  Cardinality(T \ {Chosen(T)}) = Cardinality(T) - 1
    OBVIOUS
  <2>1. Chosen(T) \in T
    BY DEF Chosen
  <2> QED
    BY <1>0, <2>1, FS_RemoveElement
<1>2. 0 \in G
  <2>1. \A T \in Upto(0) : T = {}
    BY <1>0, FS_EmptySet
  <2>2. Def(0, [T \in Upto(0) |-> 0])
    BY <2>1
  <2> QED
    BY <2>2
<1>3. ASSUME NEW n \in Nat, n \in G PROVE n + 1 \in G
  <2>1. PICK g : Def(n, g)
    BY <1>3
  <2> DEFINE h == [T \in Upto(n + 1) |->
                     IF T = {} THEN 0 ELSE f[Chosen(T)] + g[T \ {Chosen(T)}]]
  <2>2. \A T \in Upto(n) : T \in Upto(n + 1)
    BY <1>0
  <2>3. \A T \in Upto(n) : g[T] = IF T = {} THEN 0 ELSE f[Chosen(T)] + g[T \ {Chosen(T)}]
    <3> HIDE DEF Upto
    <3> QED
      BY <2>1
  <2>4. \A T \in Upto(n) : h[T] = g[T]
    <3> HIDE DEF Upto
    <3> QED
      BY <2>2, <2>3
  <2>5. \A T \in Upto(n + 1) : T # {} => T \ {Chosen(T)} \in Upto(n)
    BY <1>0, <1>1
  <2>6. \A T \in Upto(n + 1) :
          h[T] = IF T = {} THEN 0 ELSE f[Chosen(T)] + h[T \ {Chosen(T)}]
    <3> HIDE DEF Upto
    <3> QED
      BY <2>4, <2>5
  <2>7. Def(n + 1, h)
    <3> HIDE DEF Upto
    <3> QED
      BY <2>6
  <2> HIDE DEF Def
  <2> QED
    BY <2>7
<1>4. Cardinality(S) \in G
  <2> HIDE DEF G
  <2> QED
    BY <1>0, <1>2, <1>3, SetInduction
<1>5. Upto(Cardinality(S)) = SUBSET S
  BY FS_Subset
<1> QED
  BY <1>4, <1>5 DEF Sums

\* The sum over S is the value of those sums, which the equation determines.
LEMMA SumsAgree ==
  ASSUME NEW S, IsFiniteSet(S), NEW R \in SUBSET S, NEW f, NEW g, NEW h,
         Sums(f, S, g), Sums(f, R, h)
  PROVE  g[R] = h[R]
<1> DEFINE G == {n \in Nat : \A T \in SUBSET R : Cardinality(T) = n => g[T] = h[T]}
<1>0. \A T \in SUBSET R : IsFiniteSet(T) /\ Cardinality(T) \in Nat
  BY FS_Subset, FS_CardinalityType
<1>1. \A T \in SUBSET R :
        /\ g[T] = IF T = {} THEN 0 ELSE f[Chosen(T)] + g[T \ {Chosen(T)}]
        /\ h[T] = IF T = {} THEN 0 ELSE f[Chosen(T)] + h[T \ {Chosen(T)}]
  BY DEF Sums
<1>2. 0 \in G
  BY <1>0, <1>1, FS_EmptySet
<1>3. ASSUME NEW n \in Nat, n \in G PROVE n + 1 \in G
  <2>1. ASSUME NEW T \in SUBSET R, Cardinality(T) = n + 1
        PROVE  g[T] = h[T]
    <3>1. T # {}
      BY <2>1, FS_EmptySet
    <3>2. Chosen(T) \in T
      BY <3>1 DEF Chosen
    <3>3. Cardinality(T \ {Chosen(T)}) = n
      BY <1>0, <2>1, <3>2, FS_RemoveElement
    <3>4. g[T \ {Chosen(T)}] = h[T \ {Chosen(T)}]
      BY <1>3, <3>3
    <3> QED
      BY <1>1, <3>1, <3>4
  <2> QED
    BY <2>1
<1>4. Cardinality(R) \in G
  <2> HIDE DEF G
  <2> QED
    BY <1>0, <1>2, <1>3, SetInduction
<1> QED
  BY <1>4

LEMMA SumValue ==
  ASSUME NEW S, IsFiniteSet(S), NEW f
  PROVE  \E g : Sums(f, S, g) /\ SumFunctionOnSet(f, S) = g[S]
<1> DEFINE g == CHOOSE g : Sums(f, S, g)
<1>1. Sums(f, S, g)
  BY SumsExist
<1>2. SumFunctionOnSet(f, S) = g[S]
  BY DEF SumFunctionOnSet, FoldFunctionOnSet, MapThenFoldSet, Sums, Chosen
<1> QED
  BY <1>1, <1>2

LEMMA SumEmpty == ASSUME NEW f PROVE SumFunctionOnSet(f, {}) = 0
BY DEF SumFunctionOnSet, FoldFunctionOnSet, MapThenFoldSet

LEMMA SumChoice ==
  ASSUME NEW S, IsFiniteSet(S), S # {}, NEW f
  PROVE  SumFunctionOnSet(f, S) = f[Chosen(S)] + SumFunctionOnSet(f, S \ {Chosen(S)})
<1> DEFINE R == S \ {Chosen(S)}
<1>1. R \in SUBSET S /\ IsFiniteSet(R)
  BY FS_Subset
<1>2. PICK g : Sums(f, S, g) /\ SumFunctionOnSet(f, S) = g[S]
  BY SumValue
<1>3. PICK h : Sums(f, R, h) /\ SumFunctionOnSet(f, R) = h[R]
  <2> HIDE DEF R
  <2> QED
    BY <1>1, SumValue
<1>4. g[R] = h[R]
  <2> HIDE DEF R
  <2> QED
    BY <1>1, <1>2, <1>3, SumsAgree
<1>5. g[S] = f[Chosen(S)] + g[R]
  BY <1>2 DEF Sums
<1> QED
  BY <1>2, <1>3, <1>4, <1>5

LEMMA SumNat ==
  ASSUME NEW S, IsFiniteSet(S), NEW f, \A x \in S : f[x] \in Nat
  PROVE  SumFunctionOnSet(f, S) \in Nat
<1> DEFINE G == {n \in Nat : \A T \in SUBSET S :
                   Cardinality(T) = n => SumFunctionOnSet(f, T) \in Nat}
<1>0. \A T \in SUBSET S : IsFiniteSet(T) /\ Cardinality(T) \in Nat
  BY FS_Subset, FS_CardinalityType
<1>1. 0 \in G
  BY <1>0, SumEmpty, FS_EmptySet
<1>2. ASSUME NEW n \in Nat, n \in G PROVE n + 1 \in G
  <2>1. ASSUME NEW T \in SUBSET S, Cardinality(T) = n + 1
        PROVE  SumFunctionOnSet(f, T) \in Nat
    <3>1. T # {}
      BY <2>1, FS_EmptySet
    <3>2. Chosen(T) \in T
      BY <3>1 DEF Chosen
    <3>3. Cardinality(T \ {Chosen(T)}) = n
      <4> HIDE DEF G
      <4>1. Cardinality(T \ {Chosen(T)}) = Cardinality(T) - 1
        BY <1>0, <3>2, FS_RemoveElement
      <4> QED
        BY <2>1, <4>1
    <3>4. SumFunctionOnSet(f, T \ {Chosen(T)}) \in Nat
      BY <1>2, <3>3
    <3>5. SumFunctionOnSet(f, T) = f[Chosen(T)] + SumFunctionOnSet(f, T \ {Chosen(T)})
      BY <1>0, <3>1, SumChoice
    <3>6. f[Chosen(T)] \in Nat
      BY <3>2
    <3> QED
      BY <3>4, <3>5, <3>6
  <2> QED
    BY <2>1
<1>3. Cardinality(S) \in G
  <2> HIDE DEF G
  <2> QED
    BY <1>0, <1>1, <1>2, SetInduction
<1> QED
  BY <1>3

\* Chosen element can be taken out of the sum.
LEMMA SumTake ==
  ASSUME NEW S, IsFiniteSet(S), NEW f, \A x \in S : f[x] \in Nat, NEW y \in S
  PROVE  SumFunctionOnSet(f, S) = f[y] + SumFunctionOnSet(f, S \ {y})
<1> DEFINE G == {n \in Nat : \A T \in SUBSET S : Cardinality(T) = n =>
                   \A z \in T :
                     SumFunctionOnSet(f, T) = f[z] + SumFunctionOnSet(f, T \ {z})}
<1>0. \A T \in SUBSET S : IsFiniteSet(T) /\ Cardinality(T) \in Nat
  BY FS_Subset, FS_CardinalityType
<1>1. 0 \in G
  BY <1>0, FS_EmptySet
<1>2. ASSUME NEW n \in Nat, n \in G PROVE n + 1 \in G
  <2>1. ASSUME NEW T \in SUBSET S, Cardinality(T) = n + 1, NEW z \in T
        PROVE  SumFunctionOnSet(f, T) = f[z] + SumFunctionOnSet(f, T \ {z})
    <3> DEFINE x == Chosen(T)
    <3>1. x \in T
      BY DEF Chosen
    <3>2. SumFunctionOnSet(f, T) = f[x] + SumFunctionOnSet(f, T \ {x})
      BY <1>0, SumChoice
    <3> HIDE DEF x
    <3>3. CASE z = x
      BY <3>2, <3>3
    <3>4. CASE z # x
      <4>1. /\ Cardinality(T \ {x}) = n /\ Cardinality(T \ {z}) = n
            /\ z \in T \ {x} /\ x \in T \ {z}
            /\ T \ {x} \in SUBSET S /\ T \ {z} \in SUBSET S
        BY <1>0, <2>1, <3>1, <3>4, FS_RemoveElement
      <4>2. /\ SumFunctionOnSet(f, T \ {x}) = f[z] + SumFunctionOnSet(f, (T \ {x}) \ {z})
            /\ SumFunctionOnSet(f, T \ {z}) = f[x] + SumFunctionOnSet(f, (T \ {z}) \ {x})
        BY <1>2, <4>1
      <4>3. (T \ {x}) \ {z} = (T \ {z}) \ {x}
        OBVIOUS
      <4>4. SumFunctionOnSet(f, (T \ {z}) \ {x}) \in Nat
        <5>1. (T \ {z}) \ {x} \in SUBSET S
          OBVIOUS
        <5> QED
          BY <1>0, <5>1, SumNat
      <4>5. f[x] \in Nat /\ f[z] \in Nat
        BY <2>1, <3>1
      <4> QED
        BY <3>2, <4>2, <4>3, <4>4, <4>5
    <3> QED
      BY <3>3, <3>4
  <2> QED
    BY <2>1
<1>3. Cardinality(S) \in G
  <2> HIDE DEF G
  <2> QED
    BY <1>0, <1>1, <1>2, SetInduction
<1> QED
  BY <1>3

\* Only the values of f on S count.
LEMMA SumCongruent ==
  ASSUME NEW S, IsFiniteSet(S), NEW f, NEW g, \A x \in S : f[x] = g[x]
  PROVE  SumFunctionOnSet(f, S) = SumFunctionOnSet(g, S)
<1>1. PICK h : Sums(f, S, h) /\ SumFunctionOnSet(f, S) = h[S]
  BY SumValue
<1>2. Sums(g, S, h)
  <2>1. \A T \in SUBSET S : T # {} => Chosen(T) \in S
    BY DEF Chosen
  <2>2. \A T \in SUBSET S : T # {} => f[Chosen(T)] = g[Chosen(T)]
    BY <2>1
  <2> QED
    BY <1>1, <2>2 DEF Sums
<1>3. PICK k : Sums(g, S, k) /\ SumFunctionOnSet(g, S) = k[S]
  BY SumValue
<1>4. h[S] = k[S]
  BY <1>2, <1>3, SumsAgree
<1> QED
  BY <1>1, <1>3, <1>4

LEMMA SumSubset ==
  ASSUME NEW S, IsFiniteSet(S), NEW f, \A x \in S : f[x] \in Nat, NEW A \in SUBSET S
  PROVE  SumFunctionOnSet(f, A) <= SumFunctionOnSet(f, S)
<1> DEFINE G == {n \in Nat : \A T \in SUBSET S : Cardinality(T) = n =>
                   \A B \in SUBSET T : SumFunctionOnSet(f, B) <= SumFunctionOnSet(f, T)}
<1>0. \A T \in SUBSET S : /\ IsFiniteSet(T) /\ Cardinality(T) \in Nat
                           /\ SumFunctionOnSet(f, T) \in Nat
  <2>1. \A T \in SUBSET S : IsFiniteSet(T) /\ Cardinality(T) \in Nat
    BY FS_Subset, FS_CardinalityType
  <2> QED
    BY <2>1, SumNat
<1>1. 0 \in G
  <2>1. \A T \in SUBSET S : Cardinality(T) = 0 => T = {}
    BY <1>0, FS_EmptySet
  <2>2. \A T \in SUBSET S : SumFunctionOnSet(f, T) <= SumFunctionOnSet(f, T)
    BY <1>0
  <2> QED
    BY <2>1, <2>2
<1>2. ASSUME NEW n \in Nat, n \in G PROVE n + 1 \in G
  <2>1. ASSUME NEW T \in SUBSET S, Cardinality(T) = n + 1, NEW B \in SUBSET T
        PROVE  SumFunctionOnSet(f, B) <= SumFunctionOnSet(f, T)
    <3>1. CASE B = T
      BY <1>0, <3>1
    <3>2. CASE B # T
      <4>1. PICK z \in T : z \notin B
        BY <3>2
      <4>2. Cardinality(T \ {z}) = n
        <5> HIDE DEF G
        <5>1. Cardinality(T \ {z}) = Cardinality(T) - 1
          BY <1>0, FS_RemoveElement
        <5> QED
          BY <2>1, <5>1
      <4>3. SumFunctionOnSet(f, B) <= SumFunctionOnSet(f, T \ {z})
        BY <1>2, <4>1, <4>2
      <4>4. SumFunctionOnSet(f, T) = f[z] + SumFunctionOnSet(f, T \ {z})
        BY <1>0, SumTake
      <4>5. /\ SumFunctionOnSet(f, B) \in Nat /\ SumFunctionOnSet(f, T \ {z}) \in Nat
            /\ f[z] \in Nat
        <5>1. T \ {z} \in SUBSET S /\ B \in SUBSET S
          OBVIOUS
        <5> QED
          BY <1>0, <5>1
      <4> HIDE DEF G
      <4> QED
        BY <4>3, <4>4, <4>5
    <3> QED
      BY <3>1, <3>2
  <2> QED
    BY <2>1
<1>3. Cardinality(S) \in G
  <2> HIDE DEF G
  <2> QED
    BY <1>0, <1>1, <1>2, SetInduction
<1> QED
  BY <1>3

\* One value of f changes.
LEMMA SumChange ==
  ASSUME NEW S, IsFiniteSet(S), NEW f, NEW g, NEW y, NEW v \in Nat,
         \A x \in S : f[x] \in Nat /\ (x # y => g[x] = f[x]), g[y] = v
  PROVE  SumFunctionOnSet(g, S)
           = IF y \in S THEN SumFunctionOnSet(f, S) - f[y] + v ELSE SumFunctionOnSet(f, S)
<1>1. CASE y \in S
  <2> DEFINE T == S \ {y}
  <2>1. IsFiniteSet(T) /\ \A x \in T : f[x] = g[x] /\ f[x] \in Nat
    BY FS_Subset
  <2>2. SumFunctionOnSet(f, T) = SumFunctionOnSet(g, T) /\ SumFunctionOnSet(f, T) \in Nat
    <3> HIDE DEF T
    <3> QED
      BY <2>1, SumCongruent, SumNat
  <2>3. SumFunctionOnSet(f, S) = f[y] + SumFunctionOnSet(f, T)
    BY <1>1, SumTake
  <2>4. SumFunctionOnSet(g, S) = g[y] + SumFunctionOnSet(g, T)
    <3>1. \A x \in S : g[x] \in Nat
      OBVIOUS
    <3> QED
      BY <1>1, <3>1, SumTake
  <2>5. g[y] = v /\ f[y] \in Nat
    BY <1>1
  <2> HIDE DEF T
  <2> QED
    BY <1>1, <2>2, <2>3, <2>4, <2>5
<1>2. CASE y \notin S
  <2>1. \A x \in S : f[x] = g[x]
    BY <1>2
  <2> QED
    BY <1>2, <2>1, SumCongruent
<1> QED
  BY <1>1, <1>2

-----------------------------------------------------------------------------
(***************************************************************************)
(* The operators of the client.                                            *)
(***************************************************************************)

\* A write leaves a document a document.
LEMMA ApplyWriteType ==
  ASSUME NEW op \in Ops, NEW uid \in Uids, NEW s \in Document
  PROVE  ApplyWrite(op, uid, s) \in Document
BY DEF ApplyWrite, Ops, Document, DocStates, Exists

\* Answering for one document shortens the queue or its head, and the writes
\* that remain are writes of the queue, to no more documents than before.
LEMMA AnsweredType ==
  ASSUME NEW q \in Seq(Write), q # <<>>, NEW d \in Docs
  PROVE  /\ Answered(q, d) \in Seq(Write)
         /\ \A i \in DOMAIN Answered(q, d) : \E j \in DOMAIN q :
              /\ Answered(q, d)[i].op = q[j].op
              /\ Answered(q, d)[i].uid = q[j].uid
              /\ Answered(q, d)[i].docs \subseteq q[j].docs
<1>1. Head(q) = q[1] /\ q[1] \in Write /\ 1 \in DOMAIN q
  OBVIOUS
<1>2. CASE Head(q).docs = {d}
  <2>1. Answered(q, d) = Tail(q)
    BY <1>2 DEF Answered
  <2>2. Tail(q) \in Seq(Write) /\ Len(Tail(q)) = Len(q) - 1
    OBVIOUS
  <2>3. \A i \in DOMAIN Tail(q) : i + 1 \in DOMAIN q /\ Tail(q)[i] = q[i + 1]
    OBVIOUS
  <2> QED
    BY <2>1, <2>2, <2>3
<1>3. CASE Head(q).docs # {d}
  <2> DEFINE w == [q[1] EXCEPT !.docs = @ \ {d}]
  <2>1. w \in Write /\ w.op = q[1].op /\ w.uid = q[1].uid /\ w.docs = q[1].docs \ {d}
    BY <1>1 DEF Write
  <2>2. Answered(q, d) = [q EXCEPT ![1] = w]
    BY <1>1, <1>3 DEF Answered
  <2>3. [q EXCEPT ![1] = w] \in Seq(Write)
    BY <1>1, <2>1
  <2>4. \A i \in DOMAIN q : [q EXCEPT ![1] = w][i] = IF i = 1 THEN w ELSE q[i]
    OBVIOUS
  <2>5. DOMAIN [q EXCEPT ![1] = w] = DOMAIN q
    OBVIOUS
  <2> HIDE DEF w
  <2> QED
    BY <1>1, <2>1, <2>2, <2>3, <2>4, <2>5
<1> QED
  BY <1>2, <1>3

\* A restart changes nothing of a queued write but who hears of its outcome.
LEMMA OrphanType ==
  ASSUME NEW q \in Seq(Write)
  PROVE  /\ Orphan(q) \in Seq(Write)
         /\ DOMAIN Orphan(q) = DOMAIN q
         /\ \A i \in DOMAIN q : /\ Orphan(q)[i].op = q[i].op
                                /\ Orphan(q)[i].uid = q[i].uid
                                /\ Orphan(q)[i].docs = q[i].docs
<1>1. \A i \in DOMAIN q : q[i] \in Write
  OBVIOUS
<1>2. \A i \in DOMAIN q : [q[i] EXCEPT !.screen = NoScreen] \in Write
  BY <1>1 DEF Write
<1> QED
  BY <1>1, <1>2 DEF Orphan, Write

\* What Enqueue appends is a write of the user that Auth has.
LEMMA EnqueueType ==
  ASSUME pending \in [Uids -> Seq(Write)], user \in Uids, owner \in Uids,
         NEW op \in Ops, NEW s \in Screens, NEW docs \in SUBSET Docs,
         Enqueue(op, s, docs)
  PROVE  pending' \in [Uids -> Seq(Write)]
<1> DEFINE w == [op |-> op, uid |-> user, screen |-> s, docs |-> docs]
<1>1. w \in Write
  BY DEF Write
<1>2. \/ pending' = pending
      \/ pending' = [pending EXCEPT ![owner] = Append(@, w)]
  BY DEF Enqueue
<1> HIDE DEF w
<1>3. Append(pending[owner], w) \in Seq(Write)
  BY <1>1
<1> QED
  BY <1>2, <1>3

\* The callback at the head of the queue, and the queue once it is taken.
LEMMA InboxType ==
  ASSUME inbox \in Seq(Callback), inbox # <<>>
  PROVE  /\ Head(inbox) = inbox[1] /\ 1 \in DOMAIN inbox
         /\ Head(inbox) \in Callback
         /\ Head(inbox).type = "answer" => Head(inbox) \in Answer
         /\ Head(inbox).type = "ack" => Head(inbox) \in Ack
         /\ Head(inbox).type = "told" => Head(inbox) \in Told
         /\ Tail(inbox) \in Seq(Callback)
         /\ \A i \in DOMAIN Tail(inbox) :
              i + 1 \in DOMAIN inbox /\ Tail(inbox)[i] = inbox[i + 1]
<1>1. Head(inbox) = inbox[1] /\ 1 \in DOMAIN inbox /\ inbox[1] \in Callback
  OBVIOUS
<1>2. Tail(inbox) \in Seq(Callback)
  OBVIOUS
<1>3. \A i \in DOMAIN Tail(inbox) :
        i + 1 \in DOMAIN inbox /\ Tail(inbox)[i] = inbox[i + 1]
  OBVIOUS
<1>4. inbox[1].type = "answer" => inbox[1] \in Answer
  BY <1>1 DEF Callback, Ack, Told
<1>5. inbox[1].type = "ack" => inbox[1] \in Ack
  BY <1>1 DEF Callback, Answer, Told
<1>6. inbox[1].type = "told" => inbox[1] \in Told
  BY <1>1 DEF Callback, Answer, Ack
<1> QED
  BY <1>1, <1>2, <1>3, <1>4, <1>5, <1>6

\* An element of a queue that grew is an old one or the new one.
LEMMA AppendElement ==
  ASSUME NEW S, NEW q \in Seq(S), NEW x, NEW i \in DOMAIN Append(q, x)
  PROVE  \/ i \in DOMAIN q /\ Append(q, x)[i] = q[i]
         \/ Append(q, x)[i] = x
OBVIOUS

-----------------------------------------------------------------------------
(***************************************************************************)
(* The calls under way.                                                    *)
(***************************************************************************)
FiniteClient == IsFiniteSet(Users) /\ IsFiniteSet(Titles) /\ IsFiniteSet(Screens)

LEMMA FiniteRequests ==
  ASSUME FiniteClient
  PROVE  IsFiniteSet(Request) /\ IsFiniteSet(Uids)
<1>1. IsFiniteSet(Kinds)
  <2>1. Kinds = (((((({} \cup {"check"}) \cup {"favorite"}) \cup {"delete"})
                    \cup {"remove"}) \cup {"listMarked"}) \cup {"listOwn"}) \cup {"listAll"}
    BY DEF Kinds, ByTitle, ByMark, ByMail
  <2> QED
    BY ZenonT(30), <2>1, FS_EmptySet, FS_AddElement
<1>2. IsFiniteSet(Uids)
  BY FS_AddElement DEF Uids, FiniteClient
<1> DEFINE P == ((Kinds \X Screens) \X Titles) \X Uids
           f == [r \in Request |-> <<<<<<r.kind, r.screen>>, r.title>>, r.uid>>]
<1>3. IsFiniteSet(P)
  BY <1>1, <1>2, FS_Product DEF FiniteClient
<1>4. f \in [Request -> P]
  BY DEF Request
<1>5. \A q, r \in Request : f[q] = f[r] => q = r
  BY DEF Request
<1>6. f \in Injection(Request, P)
  <2> HIDE DEF f, P
  <2> QED
    BY <1>4, <1>5 DEF Injection, IsInjective
<1>7. IsFiniteSet(Request)
  <2> HIDE DEF f, P
  <2> QED
    BY <1>3, <1>6, FS_Injection
<1> QED
  BY <1>2, <1>7

LEMMA OutstandingParts ==
  ASSUME FiniteClient, ClientTypeOK
  PROVE  \E w \in Nat :
           Outstanding = SumFunctionOnSet(reads, Request) + Len(inbox) + w
<1> DEFINE l == [u \in Uids |-> Len(pending[u])]
<1>1. DOMAIN reads = Request /\ DOMAIN l = Uids
  BY DEF ClientTypeOK
<1>2. \A u \in Uids : l[u] \in Nat
  BY DEF ClientTypeOK
<1>3. SumFunctionOnSet(l, Uids) \in Nat
  <2> HIDE DEF l
  <2> QED
    BY <1>2, FiniteRequests, SumNat
<1>4. Outstanding = SumFunctionOnSet(reads, Request) + Len(inbox) + SumFunctionOnSet(l, Uids)
  BY <1>1 DEF Outstanding, SumFunction
<1> QED
  BY <1>3, <1>4

-----------------------------------------------------------------------------
(***************************************************************************)
(* The documents as the device sees them.                                  *)
(***************************************************************************)

\* What one loop of writes makes of document d, and a queue of them.
Seen(s, w, d) == IF d \in w.docs THEN ApplyWrite(w.op, w.uid, s) ELSE s

View(q, d, b) ==
  FoldLeft(LAMBDA s, w : IF d \in w.docs THEN ApplyWrite(w.op, w.uid, s) ELSE s, b, q)

LEMMA LocalView == \A d : LocalDoc(d) = View(pending[owner], d, store[d])
BY DEF LocalDoc, View, FoldLeft, MapThenFoldSet

LEMMA GreatestElement ==
  ASSUME NEW n \in Nat, NEW T \in SUBSET (1 .. n), T # {}
  PROVE  Max(T) \in T /\ \A y \in T : y <= Max(T)
<1> DEFINE U == {k \in Nat : \A y \in T : y <= k}
<1>1. PICK k \in U : \A j \in U : ~ (<<j, k>> \in OpToRel(<, Nat))
  <2>1. n \in U /\ U \subseteq Nat
    OBVIOUS
  <2> HIDE DEF U
  <2> QED
    BY <2>1, NatLessThanWellFounded, WFMin
<1>2. k \in T
  <2> SUFFICES ASSUME k \notin T PROVE FALSE
    OBVIOUS
  <2>1. PICK y \in T : TRUE
    OBVIOUS
  <2>2. k \in Nat /\ k # 0 /\ k - 1 \in Nat
    BY <2>1
  <2>3. k - 1 \in U
    BY <2>2
  <2>4. <<k - 1, k>> \in OpToRel(<, Nat)
    BY <2>2 DEF OpToRel
  <2> QED
    BY <1>1, <2>3, <2>4
<1>3. \A y \in T : y \in Nat /\ y <= k
  OBVIOUS
<1>4. \E x \in T : \A y \in T : x >= y
  BY <1>2, <1>3
<1>5. Max(T) \in T /\ \A y \in T : Max(T) >= y
  BY <1>4 DEF Max
<1> QED
  BY <1>3, <1>5

\* The equation that the fold over the first writes of q is defined by.
Views(q, d, b, g) ==
  g = [T \in SUBSET DOMAIN q |->
         IF T = {} THEN b ELSE Seen(g[T \ {Max(T)}], q[Max(T)], d)]

LEMMA ViewsExist ==
  ASSUME NEW q \in Seq(Write), NEW d, NEW b
  PROVE  \E g : Views(q, d, b, g)
<1> DEFINE
      S == DOMAIN q
      Upto(n) == {T \in SUBSET S : Cardinality(T) <= n}
      Def(n, g) == g = [T \in Upto(n) |->
                          IF T = {} THEN b ELSE Seen(g[T \ {Max(T)}], q[Max(T)], d)]
      G == {n \in Nat : \E g : Def(n, g)}
<1>0. /\ IsFiniteSet(S)
      /\ \A T \in SUBSET S : IsFiniteSet(T) /\ Cardinality(T) \in Nat
      /\ \A T \in SUBSET S : T # {} => Max(T) \in T
  <2>1. Len(q) \in Nat /\ S = 1 .. Len(q)
    OBVIOUS
  <2>2. IsFiniteSet(S)
    BY <2>1, FS_Interval
  <2> HIDE DEF S
  <2>3. \A T \in SUBSET S : IsFiniteSet(T) /\ Cardinality(T) \in Nat
    BY <2>2, FS_Subset, FS_CardinalityType
  <2> QED
    BY <2>1, <2>2, <2>3, GreatestElement
<1> HIDE DEF S
<1>1. \A T \in SUBSET S : T # {} =>
        /\ T \ {Max(T)} \in SUBSET S
        /\ Cardinality(T \ {Max(T)}) = Cardinality(T) - 1
  BY <1>0, FS_RemoveElement
<1>2. 0 \in G
  <2>1. \A T \in Upto(0) : T = {}
    BY <1>0, FS_EmptySet
  <2>2. Def(0, [T \in Upto(0) |-> b])
    BY <2>1
  <2> QED
    BY <2>2
<1>3. ASSUME NEW n \in Nat, n \in G PROVE n + 1 \in G
  <2>1. PICK g : Def(n, g)
    BY <1>3
  <2> DEFINE h == [T \in Upto(n + 1) |->
                     IF T = {} THEN b ELSE Seen(g[T \ {Max(T)}], q[Max(T)], d)]
  <2>2. \A T \in Upto(n) : T \in Upto(n + 1)
    BY <1>0
  <2>3. \A T \in Upto(n) :
          g[T] = IF T = {} THEN b ELSE Seen(g[T \ {Max(T)}], q[Max(T)], d)
    <3> HIDE DEF Upto
    <3> QED
      BY <2>1
  <2>4. \A T \in Upto(n) : h[T] = g[T]
    <3> HIDE DEF Upto
    <3> QED
      BY <2>2, <2>3
  <2>5. \A T \in Upto(n + 1) : T # {} => T \ {Max(T)} \in Upto(n)
    BY SMTT(20), <1>0, <1>1
  <2>6. \A T \in Upto(n + 1) :
          h[T] = IF T = {} THEN b ELSE Seen(h[T \ {Max(T)}], q[Max(T)], d)
    <3> HIDE DEF Upto
    <3> QED
      BY <2>4, <2>5
  <2>7. Def(n + 1, h)
    <3> HIDE DEF Upto
    <3> QED
      BY <2>6
  <2> HIDE DEF Def
  <2> QED
    BY <2>7
<1>4. Cardinality(S) \in G
  <2>1. Cardinality(S) \in Nat
    BY <1>0
  <2> HIDE DEF G
  <2> QED
    BY <1>2, <1>3, <2>1, SetInduction
<1>5. Upto(Cardinality(S)) = SUBSET S
  BY <1>0, FS_Subset
<1> QED
  BY <1>4, <1>5 DEF Views, S

LEMMA ViewValue ==
  ASSUME NEW q \in Seq(Write), NEW d, NEW b
  PROVE  \E g : Views(q, d, b, g) /\ View(q, d, b) = g[DOMAIN q]
<1> DEFINE g == CHOOSE g : Views(q, d, b, g)
<1>1. Views(q, d, b, g)
  BY ViewsExist
<1>2. View(q, d, b) = g[DOMAIN q]
  BY DEF View, FoldLeft, MapThenFoldSet, Views, Seen
<1> QED
  BY <1>1, <1>2

\* The values of a fold depend on what the writes do to the document, and on
\* nothing behind the writes that are applied.
LEMMA ViewsAgree ==
  ASSUME NEW q \in Seq(Write), NEW p \in Seq(Write), NEW d, NEW b, NEW g, NEW h,
         Views(q, d, b, g), Views(p, d, b, h),
         NEW n \in Nat, n <= Len(q), n <= Len(p),
         \A i \in 1 .. n : \A s : Seen(s, q[i], d) = Seen(s, p[i], d)
  PROVE  g[1 .. n] = h[1 .. n]
<1> DEFINE R == 1 .. n
           G == {k \in Nat : \A T \in SUBSET R : Cardinality(T) = k => g[T] = h[T]}
<1>0. /\ IsFiniteSet(R)
      /\ \A T \in SUBSET R : IsFiniteSet(T) /\ Cardinality(T) \in Nat
      /\ \A T \in SUBSET R : T # {} => Max(T) \in T
  <2>1. IsFiniteSet(R)
    BY FS_Interval
  <2> QED
    BY <2>1, FS_Subset, FS_CardinalityType, GreatestElement
<1>1. \A T \in SUBSET R :
        /\ g[T] = IF T = {} THEN b ELSE Seen(g[T \ {Max(T)}], q[Max(T)], d)
        /\ h[T] = IF T = {} THEN b ELSE Seen(h[T \ {Max(T)}], p[Max(T)], d)
  <2>1. \A T \in SUBSET R : T \in SUBSET DOMAIN q /\ T \in SUBSET DOMAIN p
    OBVIOUS
  <2> HIDE DEF R
  <2> QED
    BY <2>1 DEF Views
<1> HIDE DEF R
<1>2. 0 \in G
  BY <1>0, <1>1, FS_EmptySet
<1>3. ASSUME NEW k \in Nat, k \in G PROVE k + 1 \in G
  <2>1. ASSUME NEW T \in SUBSET R, Cardinality(T) = k + 1
        PROVE  g[T] = h[T]
    <3>1. T # {}
      <4>1. Cardinality(T) # 0
        BY <2>1
      <4> HIDE DEF G
      <4> QED
        BY <4>1, FS_EmptySet
    <3>2. Max(T) \in T
      BY <1>0, <3>1
    <3>3. Cardinality(T \ {Max(T)}) = k
      <4> HIDE DEF G
      <4>1. Cardinality(T \ {Max(T)}) = Cardinality(T) - 1
        BY <1>0, <3>2, FS_RemoveElement
      <4> QED
        BY <2>1, <4>1
    <3>4. g[T \ {Max(T)}] = h[T \ {Max(T)}]
      BY <1>3, <3>3
    <3>5. \A s : Seen(s, q[Max(T)], d) = Seen(s, p[Max(T)], d)
      BY <3>2 DEF R
    <3> QED
      BY <1>1, <3>1, <3>4, <3>5
  <2> QED
    BY <2>1
<1>4. Cardinality(R) \in G
  <2>1. Cardinality(R) \in Nat
    BY <1>0
  <2> HIDE DEF G
  <2> QED
    BY <1>2, <1>3, <2>1, SetInduction
<1> QED
  BY <1>4 DEF R

LEMMA ViewEmpty == ASSUME NEW d, NEW b PROVE View(<<>>, d, b) = b
<1>1. PICK g : Views(<<>>, d, b, g) /\ View(<<>>, d, b) = g[DOMAIN <<>>]
  <2>1. <<>> \in Seq(Write)
    OBVIOUS
  <2> QED
    BY <2>1, ViewValue
<1>2. DOMAIN <<>> = {}
  OBVIOUS
<1> QED
  BY <1>1, <1>2 DEF Views

\* The write made last is applied last.
LEMMA ViewAppend ==
  ASSUME NEW q \in Seq(Write), NEW w \in Write, NEW d, NEW b
  PROVE  View(Append(q, w), d, b) = Seen(View(q, d, b), w, d)
<1> DEFINE p == Append(q, w)
           n == Len(q)
<1>1. /\ p \in Seq(Write) /\ n \in Nat /\ Len(p) = n + 1 /\ p[n + 1] = w
      /\ \A i \in 1 .. n : p[i] = q[i]
      /\ DOMAIN p = 1 .. (n + 1) /\ DOMAIN q = 1 .. n
  OBVIOUS
<1> HIDE DEF p, n
<1>2. PICK g : Views(p, d, b, g) /\ View(p, d, b) = g[1 .. (n + 1)]
  BY <1>1, ViewValue
<1>3. PICK h : Views(q, d, b, h) /\ View(q, d, b) = h[1 .. n]
  BY <1>1, ViewValue
<1>4. Max(1 .. (n + 1)) = n + 1
  <2>1. /\ n + 1 \in Nat /\ 1 .. (n + 1) \in SUBSET (1 .. (n + 1))
        /\ 1 .. (n + 1) # {} /\ n + 1 \in 1 .. (n + 1)
    BY <1>1
  <2>2. Max(1 .. (n + 1)) \in 1 .. (n + 1) /\ n + 1 <= Max(1 .. (n + 1))
    BY <2>1, GreatestElement
  <2> QED
    BY <1>1, <2>2
<1>5. (1 .. (n + 1)) \ {n + 1} = 1 .. n /\ 1 .. (n + 1) # {}
  <2>1. \A i : i \in (1 .. (n + 1)) \ {n + 1} <=> i \in 1 .. n
    BY <1>1
  <2>2. n + 1 \in 1 .. (n + 1)
    BY <1>1
  <2> QED
    BY <2>1, <2>2
<1>6. g[1 .. (n + 1)] = Seen(g[1 .. n], w, d)
  BY ZenonT(30), <1>1, <1>2, <1>4, <1>5 DEF Views
<1>7. g[1 .. n] = h[1 .. n]
  <2>1. n <= Len(p) /\ n <= Len(q)
    BY <1>1 DEF n
  <2>2. \A i \in 1 .. n : \A s : Seen(s, p[i], d) = Seen(s, q[i], d)
    BY <1>1
  <2> QED
    BY <1>1, <1>2, <1>3, <2>1, <2>2, ViewsAgree
<1> QED
  BY <1>2, <1>3, <1>6, <1>7 DEF p

\* Two queues whose writes do the same to the document.
LEMMA ViewSame ==
  ASSUME NEW q \in Seq(Write), NEW p \in Seq(Write), NEW d, NEW b, Len(p) = Len(q),
         \A i \in DOMAIN q : \A s : Seen(s, q[i], d) = Seen(s, p[i], d)
  PROVE  View(p, d, b) = View(q, d, b)
<1> DEFINE n == Len(q)
<1>1. n \in Nat /\ DOMAIN q = 1 .. n /\ DOMAIN p = 1 .. n /\ n <= Len(q) /\ n <= Len(p)
  OBVIOUS
<1>2. PICK g : Views(q, d, b, g) /\ View(q, d, b) = g[1 .. n]
  <2> HIDE DEF n
  <2> QED
    BY <1>1, ViewValue
<1>3. PICK h : Views(p, d, b, h) /\ View(p, d, b) = h[1 .. n]
  <2> HIDE DEF n
  <2> QED
    BY <1>1, ViewValue
<1>4. g[1 .. n] = h[1 .. n]
  <2> HIDE DEF n
  <2> QED
    BY <1>1, <1>2, <1>3, ViewsAgree
<1> QED
  BY <1>2, <1>3, <1>4

LEMMA LastWrite ==
  ASSUME NEW q \in Seq(Write), q # <<>>
  PROVE  \E p \in Seq(Write), w \in Write :
           /\ Len(q) = Len(p) + 1 /\ q = Append(p, w) /\ Head(q) \in Write
           /\ p # <<>> => Head(q) = Head(p) /\ Tail(q) = Append(Tail(p), w)
           /\ p = <<>> => Head(q) = w /\ Tail(q) = <<>>
<1> DEFINE n == Len(q) - 1
           p == [i \in 1 .. n |-> q[i]]
           w == q[Len(q)]
<1>0. n \in Nat /\ Len(q) = n + 1
  OBVIOUS
<1>1. /\ p \in Seq(Write) /\ w \in Write /\ Head(q) \in Write /\ Head(q) = q[1]
      /\ Len(p) = n /\ \A i \in 1 .. n : p[i] = q[i]
  <2>1. w \in Write /\ Head(q) \in Write /\ Head(q) = q[1]
    OBVIOUS
  <2>2. \A i \in 1 .. n : q[i] \in Write
    OBVIOUS
  <2> HIDE DEF n
  <2>3. p \in Seq(Write) /\ Len(p) = n /\ \A i \in 1 .. n : p[i] = q[i]
    BY <1>0, <2>2
  <2> QED
    BY <2>1, <2>3
<1>2. q = Append(p, w)
  OBVIOUS
<1>3. /\ Tail(q) \in Seq(Write) /\ Len(Tail(q)) = n
      /\ \A i \in 1 .. n : Tail(q)[i] = q[i + 1]
  OBVIOUS
<1>4. w = q[n + 1]
  OBVIOUS
<1> HIDE DEF p, w, n
<1>5. CASE p = <<>>
  <2>1. n = 0
    BY <1>1, <1>5
  <2>2. Head(q) = w
    BY <1>1, <1>4, <2>1
  <2>3. Tail(q) = <<>>
    <3>1. \A r \in Seq(Write) : Len(r) = 0 => r = <<>>
      OBVIOUS
    <3> QED
      BY <1>3, <2>1, <3>1
  <2> QED
    BY <1>0, <1>1, <1>2, <1>5, <2>2, <2>3
<1>6. CASE p # <<>>
  <2>1. n # 0 /\ n - 1 \in Nat
    BY <1>0, <1>1, <1>6
  <2>2. Head(p) = p[1] /\ Head(q) = Head(p)
    BY <1>0, <1>1, <1>6, <2>1
  <2>3. /\ Tail(p) \in Seq(Write) /\ Len(Tail(p)) = n - 1
        /\ \A i \in 1 .. (n - 1) : Tail(p)[i] = p[i + 1]
    BY <1>1, <1>6
  <2>4. /\ Append(Tail(p), w) \in Seq(Write) /\ Len(Append(Tail(p), w)) = n
        /\ Append(Tail(p), w)[n] = w
        /\ \A i \in 1 .. (n - 1) : Append(Tail(p), w)[i] = p[i + 1]
    BY <1>0, <1>1, <2>1, <2>3
  <2>5. \A i \in 1 .. n : Append(Tail(p), w)[i] = q[i + 1]
    <3>1. \A i \in 1 .. n : i = n \/ (i \in 1 .. (n - 1) /\ i + 1 \in 1 .. n)
      BY <1>0
    <3> QED
      BY <1>1, <1>4, <2>4, <3>1
  <2>6. Tail(q) = Append(Tail(p), w)
    BY <1>3, <2>4, <2>5
  <2> QED
    BY <1>0, <1>1, <1>2, <1>6, <2>2, <2>6
<1> QED
  BY <1>5, <1>6

\* The oldest write is applied first.
LEMMA ViewHead ==
  ASSUME NEW q \in Seq(Write), q # <<>>, NEW d, NEW b
  PROVE  View(q, d, b) = View(Tail(q), d, Seen(b, Head(q), d))
<1> DEFINE Good(r) == View(r, d, b) = View(Tail(r), d, Seen(b, Head(r), d))
           G == {n \in Nat : \A r \in Seq(Write) : Len(r) = n /\ r # <<>> => Good(r)}
<1>1. ASSUME NEW r \in Seq(Write), r # <<>>,
             \A p \in Seq(Write) : p # <<>> /\ Len(r) = Len(p) + 1 => Good(p)
      PROVE  Good(r)
  <2>1. PICK p \in Seq(Write), w \in Write :
          /\ Len(r) = Len(p) + 1 /\ r = Append(p, w)
          /\ p # <<>> => Head(r) = Head(p) /\ Tail(r) = Append(Tail(p), w)
          /\ p = <<>> => Head(r) = w /\ Tail(r) = <<>>
    BY <1>1, LastWrite
  <2>2. View(r, d, b) = Seen(View(p, d, b), w, d)
    BY <2>1, ViewAppend
  <2>3. CASE p = <<>>
    BY <2>1, <2>2, <2>3, ViewEmpty
  <2>4. CASE p # <<>>
    <3>1. View(p, d, b) = View(Tail(p), d, Seen(b, Head(p), d))
      BY <1>1, <2>1, <2>4
    <3>2. Tail(p) \in Seq(Write)
      BY <2>4
    <3>3. View(Append(Tail(p), w), d, Seen(b, Head(r), d))
            = Seen(View(Tail(p), d, Seen(b, Head(r), d)), w, d)
      BY ZenonT(30), <3>2, ViewAppend
    <3> QED
      BY <2>1, <2>2, <2>4, <3>1, <3>3
  <2> QED
    BY <2>3, <2>4
<1> HIDE DEF Good
<1>2. 0 \in G
  <2>1. \A r \in Seq(Write) : Len(r) = 0 => r = <<>>
    OBVIOUS
  <2> QED
    BY <2>1
<1>3. ASSUME NEW n \in Nat, n \in G PROVE n + 1 \in G
  <2>1. ASSUME NEW r \in Seq(Write), Len(r) = n + 1, r # <<>> PROVE Good(r)
    <3>1. \A p \in Seq(Write) : Len(r) = Len(p) + 1 => Len(p) = n
      BY <2>1
    <3>2. \A p \in Seq(Write) : Len(p) = n /\ p # <<>> => Good(p)
      BY <1>3
    <3> HIDE DEF G
    <3> QED
      BY <1>1, <2>1, <3>1, <3>2
  <2> QED
    BY <2>1
<1>4. Len(q) \in Nat
  OBVIOUS
<1>5. \A n \in Nat : n \in G
  <2> HIDE DEF G
  <2> QED
    BY <1>2, <1>3, SetInduction
<1>6. Good(q)
  BY <1>4, <1>5
<1> QED
  BY <1>6 DEF Good

\* Writes leave a document a document, and make an ad of none.
LEMMA SeenType ==
  ASSUME NEW w \in Write, NEW d, NEW s \in Document
  PROVE  Seen(s, w, d) \in Document /\ (Seen(s, w, d).state = "ad" => s.state = "ad")
<1>1. w.op \in Ops /\ w.uid \in Uids
  BY DEF Write
<1>2. ApplyWrite(w.op, w.uid, s) \in Document
  BY <1>1, ApplyWriteType
<1>3. CASE w.op = "mark"
  BY <1>2, <1>3 DEF Seen, ApplyWrite, Document, Exists
<1>4. CASE w.op = "unmark"
  BY <1>2, <1>4 DEF Seen, ApplyWrite, Document, Exists
<1>5. CASE w.op = "delete"
  BY <1>2, <1>5 DEF Seen, ApplyWrite
<1> QED
  BY <1>1, <1>3, <1>4, <1>5 DEF Ops

LEMMA ViewType ==
  ASSUME NEW q \in Seq(Write), NEW d, NEW b \in Document
  PROVE  View(q, d, b) \in Document /\ (View(q, d, b).state = "ad" => b.state = "ad")
<1> DEFINE Good(r) == View(r, d, b) \in Document /\ (View(r, d, b).state = "ad" => b.state = "ad")
           G == {n \in Nat : \A r \in Seq(Write) : Len(r) = n => Good(r)}
<1>1. 0 \in G
  <2>1. \A r \in Seq(Write) : Len(r) = 0 => r = <<>>
    OBVIOUS
  <2> QED
    BY <2>1, ViewEmpty
<1>2. ASSUME NEW n \in Nat, n \in G PROVE n + 1 \in G
  <2>1. ASSUME NEW r \in Seq(Write), Len(r) = n + 1 PROVE Good(r)
    <3>1. r # <<>>
      BY <2>1
    <3>2. PICK p \in Seq(Write), w \in Write : Len(r) = Len(p) + 1 /\ r = Append(p, w)
      BY <3>1, LastWrite
    <3>3. Len(p) = n
      BY <2>1, <3>2
    <3>4. Good(p)
      BY <1>2, <3>3
    <3>5. View(r, d, b) = Seen(View(p, d, b), w, d)
      BY <3>2, ViewAppend
    <3> QED
      BY <3>4, <3>5, SeenType
  <2> HIDE DEF Good
  <2> QED
    BY <2>1
<1>3. Len(q) \in Nat
  OBVIOUS
<1>4. \A n \in Nat : n \in G
  <2> HIDE DEF G
  <2> QED
    BY <1>1, <1>2, SetInduction
<1> QED
  BY <1>3, <1>4

-----------------------------------------------------------------------------
(***************************************************************************)
(* What the steps of the client do to the documents as the device sees     *)
(* them.                                                                   *)
(***************************************************************************)
LEMMA LocalType ==
  ASSUME ClientTypeOK, NEW d \in Docs
  PROVE  /\ LocalDoc(d) \in Document
         /\ LocalDoc(d).state = "ad" => store[d].state = "ad"
         /\ pending[owner] = <<>> => LocalDoc(d) = store[d]
<1>1. pending[owner] \in Seq(Write) /\ store[d] \in Document
  BY DEF ClientTypeOK
<1>2. LocalDoc(d) = View(pending[owner], d, store[d])
  BY LocalView
<1> QED
  BY <1>1, <1>2, ViewType, ViewEmpty

\* An outgoing write that the server does not refuse changes nothing of what the
\* device sees: it was seen before.
THEOREM LocalCommit ==
  ASSUME ClientTypeOK, "reject" \notin Disturbances, NEW e \in Docs, Commit(e),
         NEW d \in Docs
  PROVE  LocalDoc(d)' = LocalDoc(d)
<1> DEFINE q == pending[owner]
           p == Answered(q, e)
           w == Head(q)
           b == store[d]
           c == store'[d]
<1>1. q \in Seq(Write) /\ q # <<>> /\ w \in Write /\ w = q[1] /\ 1 \in DOMAIN q
  <2>1. q \in Seq(Write) /\ q # <<>>
    BY DEF Commit, ClientTypeOK
  <2> QED
    BY <2>1
<1>2. pending'[owner'] = p
  BY DEF Commit, ClientTypeOK
<1>3. LocalDoc(d) = View(Tail(q), d, Seen(b, w, d))
  BY <1>1, LocalView, ViewHead
<1>4. LocalDoc(d)' = View(p, d, c)
  <2>1. LocalDoc(d)' = View(pending'[owner'], d, c)
    BY DEF LocalDoc, View, FoldLeft, MapThenFoldSet
  <2> QED
    BY <1>2, <2>1
<1>5. e \in w.docs /\ c = IF d = e THEN Seen(b, w, d) ELSE b
  <2>1. store \in [Docs -> Document]
    BY DEF ClientTypeOK
  <2>2. CASE store' = [store EXCEPT ![e] = ApplyWrite(w.op, w.uid, @)]
    BY <2>1, <2>2 DEF Seen, Commit
  <2>3. CASE store' = store /\ ~Accepts(w.op, store[e])
    BY <2>1, <2>3 DEF Seen, Accepts, ApplyWrite, Commit
  <2> QED
    BY <2>2, <2>3 DEF Commit
<1>6. CASE w.docs = {e}
  <2>1. p = Tail(q)
    BY <1>6 DEF Answered
  <2>2. c = Seen(b, w, d)
    BY <1>5, <1>6 DEF Seen
  <2> QED
    BY <1>3, <1>4, <2>1, <2>2
<1>7. CASE w.docs # {e}
  <2> DEFINE v == [w EXCEPT !.docs = @ \ {e}]
  <2>1. v \in Write /\ v.op = w.op /\ v.uid = w.uid /\ v.docs = w.docs \ {e}
    BY <1>1 DEF Write
  <2>2. p = [q EXCEPT ![1] = v]
    BY <1>1, <1>7 DEF Answered
  <2> HIDE DEF v
  <2>3. p \in Seq(Write) /\ p # <<>> /\ Head(p) = v /\ Len(p) = Len(q)
    BY <1>1, <2>1, <2>2
  <2>4. Tail(p) = Tail(q)
    <3>1. \A i \in 1 .. Len(q) : i # 1 => p[i] = q[i]
      BY <1>1, <2>2
    <3>2. /\ Tail(p) \in Seq(Write) /\ Tail(q) \in Seq(Write)
          /\ Len(Tail(p)) = Len(q) - 1 /\ Len(Tail(q)) = Len(q) - 1
          /\ \A i \in 1 .. (Len(q) - 1) : Tail(p)[i] = p[i + 1] /\ Tail(q)[i] = q[i + 1]
      BY <1>1, <2>3
    <3>3. \A i \in 1 .. (Len(q) - 1) : i + 1 \in 1 .. Len(q) /\ i + 1 # 1
      BY <1>1
    <3>4. \A i \in 1 .. (Len(q) - 1) : Tail(p)[i] = Tail(q)[i]
      BY <3>1, <3>2, <3>3
    <3> HIDE DEF p, q
    <3> QED
      BY <3>2, <3>4
  <2>5. View(p, d, c) = View(Tail(p), d, Seen(c, v, d))
    BY <2>3, ViewHead
  <2>6. Seen(c, v, d) = Seen(b, w, d)
    BY <1>5, <2>1 DEF Seen
  <2> QED
    BY <1>3, <1>4, <2>4, <2>5, <2>6
<1> QED
  BY <1>6, <1>7

\* A write that is made is seen at once.
LEMMA LocalEnqueue ==
  ASSUME ClientTypeOK, NEW op \in Ops, NEW s \in Screens, NEW docs \in SUBSET Docs,
         Enqueue(op, s, docs), store' = store, owner' = owner, NEW d \in Docs
  PROVE  LocalDoc(d)' = IF d \in docs THEN ApplyWrite(op, user, LocalDoc(d)) ELSE LocalDoc(d)
<1> DEFINE q == pending[owner]
           w == [op |-> op, uid |-> user, screen |-> s, docs |-> docs]
<1>1. q \in Seq(Write) /\ user \in Uids /\ owner \in Uids /\ pending \in [Uids -> Seq(Write)]
  BY DEF ClientTypeOK
<1>2. w \in Write
  BY <1>1 DEF Write
<1>3. LocalDoc(d)' = View(pending'[owner], d, store[d])
  BY DEF LocalDoc, View, FoldLeft, MapThenFoldSet
<1>4. LocalDoc(d) = View(q, d, store[d])
  BY LocalView
<1>5. CASE docs = {}
  <2>1. pending' = pending
    BY <1>5 DEF Enqueue
  <2> QED
    BY <1>3, <1>4, <1>5, <2>1
<1>6. CASE docs # {}
  <2>1. pending'[owner] = Append(q, w)
    BY <1>1, <1>6 DEF Enqueue
  <2>2. /\ w.op = op /\ w.uid = user /\ w.docs = docs
    OBVIOUS
  <2> HIDE DEF w
  <2>3. LocalDoc(d)' = Seen(LocalDoc(d), w, d)
    BY <1>1, <1>2, <1>3, <1>4, <2>1, ViewAppend
  <2> QED
    BY <2>2, <2>3 DEF Seen
<1> QED
  BY <1>5, <1>6

\* A restart loses no write.
LEMMA LocalRestart ==
  ASSUME ClientTypeOK, RestartClient, owner = user, NEW d \in Docs
  PROVE  LocalDoc(d)' = LocalDoc(d)
<1> DEFINE q == pending[owner]
           p == Orphan(q)
<1>1. q \in Seq(Write) /\ user \in Uids
  BY DEF ClientTypeOK
<1>2. pending'[owner'] = p /\ store' = store
  BY <1>1 DEF RestartClient
<1>3. LocalDoc(d)' = View(p, d, store[d])
  <2>1. LocalDoc(d)' = View(pending'[owner'], d, store'[d])
    BY DEF LocalDoc, View, FoldLeft, MapThenFoldSet
  <2> QED
    BY <1>2, <2>1
<1>4. p \in Seq(Write) /\ Len(p) = Len(q)
  BY <1>1, OrphanType
<1>5. \A i \in DOMAIN q : \A s : Seen(s, q[i], d) = Seen(s, p[i], d)
  BY <1>1, OrphanType DEF Seen
<1> HIDE DEF p, q
<1>6. View(p, d, store[d]) = View(q, d, store[d])
  BY <1>1, <1>4, <1>5, ViewSame
<1> QED
  BY <1>3, <1>6, LocalView DEF q

LEMMA LocalSame ==
  ASSUME UNCHANGED <<store, owner, pending>>, NEW d
  PROVE  LocalDoc(d)' = LocalDoc(d)
BY DEF LocalDoc, FoldLeft, MapThenFoldSet

\* A loop of writes makes an ad of nothing that was none.
LEMMA LocalNoNewAd ==
  ASSUME ClientTypeOK, NEW op \in Ops, NEW s \in Screens, NEW docs \in SUBSET Docs,
         Enqueue(op, s, docs), store' = store, owner' = owner, NEW d \in Docs,
         LocalDoc(d)'.state = "ad"
  PROVE  LocalDoc(d).state = "ad"
<1> DEFINE w == [op |-> op, uid |-> user, screen |-> s, docs |-> docs]
<1>1. w \in Write /\ w.op = op /\ w.uid = user /\ w.docs = docs
  BY DEF Write, ClientTypeOK
<1> HIDE DEF w
<1>2. LocalDoc(d)' = Seen(LocalDoc(d), w, d)
  BY <1>1, LocalEnqueue DEF Seen
<1>3. LocalDoc(d) \in Document
  BY LocalType
<1> QED
  BY <1>1, <1>2, <1>3, SeenType
=============================================================================
