--------------------------- MODULE FormRulesProofs ---------------------------
(***************************************************************************)
(* Theorems about FormRules, for words of any length.                      *)
(***************************************************************************)
EXTENDS FormRules, SequenceTheorems, WellFoundedInduction, TLAPS

-----------------------------------------------------------------------------
LEMMA LeastOf ==
  ASSUME NEW T \in SUBSET Nat, T # {}
  PROVE  Min(T) \in T /\ \A y \in T : Min(T) <= y
PROOF
<1>1. \E x \in T : \A y \in T : ~ (<<y, x>> \in OpToRel(<, Nat))
  BY NatLessThanWellFounded, WFMin
<1>2. PICK x \in T : \A y \in T : ~ (<<y, x>> \in OpToRel(<, Nat))
  BY <1>1
<1>3. \A y \in T : ~ (y < x)
  BY <1>2 DEF OpToRel
<1>4. \A y \in T : x <= y
  BY <1>3
<1> QED
  BY <1>4 DEF Min

LEMMA GreatestOf ==
  ASSUME NEW n \in Nat, NEW T \in SUBSET (1 .. n), T # {}
  PROVE  Max(T) \in T /\ \A y \in T : y <= Max(T)
PROOF
<1> DEFINE U == {n - x : x \in T}
<1>1. U \in SUBSET Nat /\ U # {}
  <2>1. \A x \in T : x \in Nat /\ n - x \in Nat
    OBVIOUS
  <2> QED
    BY <2>1
<1>2. Min(U) \in U /\ \A z \in U : Min(U) <= z
  BY <1>1, LeastOf
<1>3. PICK x \in T : Min(U) = n - x
  BY <1>2
<1>4. ASSUME NEW y \in T
      PROVE  x >= y
  <2>1. n - y \in U
    OBVIOUS
  <2>2. n - x <= n - y
    BY <1>2, <1>3, <2>1
  <2> QED
    BY <2>2
<1>5. \A m \in T : (\A y \in T : m >= y) => \A y \in T : y <= m
  OBVIOUS
<1>6. Max(T) \in T /\ \A y \in T : Max(T) >= y
  BY <1>4 DEF Max
<1> QED
  BY <1>5, <1>6

\* What is left of a word is what lies between the first and the last character
\* that are kept.
Middle(w, S, a, b) ==
  /\ a <= b /\ w[a] \notin S /\ w[b] \notin S
  /\ \A i \in 1 .. Len(w) : w[i] \notin S => a <= i /\ i <= b
  /\ Len(Trim(w, S)) = b - a + 1
  /\ \A i \in 1 .. b - a + 1 : Trim(w, S)[i] = w[a + i - 1]

LEMMA TrimIs ==
  ASSUME NEW C, NEW w \in Seq(C), NEW S, Kept(w, S) # {}
  PROVE  /\ Trim(w, S) \in Seq(C)
         /\ \E a, b \in 1 .. Len(w) : Middle(w, S, a, b)
PROOF
<1> DEFINE T == Kept(w, S)
           a == Min(T)
           b == Max(T)
<1>0. Len(w) \in Nat /\ DOMAIN w = 1 .. Len(w)
  BY LenProperties
<1>1. T \in SUBSET (1 .. Len(w)) /\ T # {}
      /\ \A i \in 1 .. Len(w) : i \in T <=> w[i] \notin S
  BY <1>0 DEF Kept
<1>2. T \in SUBSET Nat
  BY <1>0, <1>1
<1>3. a \in T /\ \A y \in T : a <= y
  BY <1>1, <1>2, LeastOf
<1>4. b \in T /\ \A y \in T : y <= b
  BY <1>0, <1>1, GreatestOf
<1>5. Trim(w, S) = SubSeq(w, a, b)
  BY <1>1 DEF Trim
<1> HIDE DEF T, a, b
<1>6. a \in 1 .. Len(w) /\ b \in 1 .. Len(w) /\ a <= b
  BY <1>1, <1>3, <1>4
<1>7. /\ Trim(w, S) \in Seq(C) /\ Len(Trim(w, S)) = b - a + 1
      /\ \A i \in 1 .. b - a + 1 : Trim(w, S)[i] = w[a + i - 1]
  BY <1>0, <1>5, <1>6, SubSeqProperties
<1>8. Middle(w, S, a, b)
  BY <1>1, <1>3, <1>4, <1>6, <1>7 DEF Middle
<1> QED
  BY <1>6, <1>7, <1>8

LEMMA TrimmedAway ==
  ASSUME NEW C, NEW w \in Seq(C), NEW S
  PROVE  Trim(w, S) = <<>> <=> \A i \in 1 .. Len(w) : w[i] \in S
PROOF
<1>1. Kept(w, S) = {} <=> \A i \in 1 .. Len(w) : w[i] \in S
  BY LenProperties DEF Kept
<1>2. CASE Kept(w, S) = {}
  BY <1>1, <1>2 DEF Trim
<1>3. CASE Kept(w, S) # {}
  <2>1. PICK a, b \in 1 .. Len(w) : Middle(w, S, a, b)
    BY <1>3, TrimIs
  <2>2. Trim(w, S) # <<>>
    BY <2>1 DEF Middle
  <2> QED
    BY <1>1, <1>3, <2>2
<1> QED
  BY <1>2, <1>3

\* What is left of a word ends with a character that is kept.
LEMMA TrimmedEnd ==
  ASSUME NEW C, NEW w \in Seq(C), NEW S, Kept(w, S) # {}
  PROVE  LET t == Trim(w, S) IN t[Len(t)] \notin S
PROOF
<1>1. PICK a, b \in 1 .. Len(w) : Middle(w, S, a, b)
  BY TrimIs
<1>2. Len(w) \in Nat /\ a \in Nat /\ b \in Nat /\ b - a + 1 \in 1 .. b - a + 1
  BY <1>1, LenProperties DEF Middle
<1>3. Trim(w, S)[b - a + 1] = w[b]
  BY <1>1, <1>2 DEF Middle
<1> QED
  BY <1>1, <1>3 DEF Middle

\* Trimming takes nothing away exactly if both ends are kept.
LEMMA TrimKeeps ==
  ASSUME NEW C, NEW w \in Seq(C), NEW S, Kept(w, S) # {}
  PROVE  Trim(w, S) = w <=> w[1] \notin S /\ w[Len(w)] \notin S
PROOF
<1>0. Len(w) \in Nat
  BY LenProperties
<1>1. PICK a, b \in 1 .. Len(w) : Middle(w, S, a, b)
  BY TrimIs
<1>2. ASSUME Trim(w, S) = w
      PROVE  w[1] \notin S /\ w[Len(w)] \notin S
  <2>1. Len(w) = b - a + 1
    BY <1>1, <1>2 DEF Middle
  <2>2. a = 1 /\ b = Len(w)
    BY <1>0, <2>1
  <2> QED
    BY <1>1, <2>2 DEF Middle
<1>3. ASSUME w[1] \notin S, w[Len(w)] \notin S
      PROVE  Trim(w, S) = w
  <2>1. 1 \in 1 .. Len(w) /\ Len(w) \in 1 .. Len(w)
    BY <1>0
  <2>2. a = 1 /\ b = Len(w)
    BY <1>0, <1>1, <1>3, <2>1 DEF Middle
  <2>3. Len(Trim(w, S)) = Len(w) /\ \A i \in 1 .. Len(w) : Trim(w, S)[i] = w[i]
    BY <1>0, <1>1, <2>2 DEF Middle
  <2> QED
    BY <2>3, TrimIs, SeqEqual
<1> QED
  BY <1>2, <1>3

-----------------------------------------------------------------------------
\* Who signs up and who signs in with the same word are sent the same word
\* exactly if it begins and ends without a blank: the sheet sends what was typed,
\* the login screen what is left of it.
THEOREM SameWordSent ==
  ASSUME NEW w \in Seq(Classes), SignUpAccepts(w)
  PROVE  SignInSends(w) = SignUpSends(w) <=> w[1] \notin Blanks /\ w[Len(w)] \notin Blanks
PROOF
<1>1. Trim(w, Spaces) # <<>>
  BY DEF SignUpAccepts, ValidPassword
<1>2. Kept(w, Spaces) # {}
  BY <1>1 DEF Trim
<1>3. PICK a, b \in 1 .. Len(w) : Middle(w, Spaces, a, b)
  BY <1>2, TrimIs
<1>4. PICK i \in 1 .. b - a + 1 : Trim(w, Spaces)[i] = "upper"
  <2>1. Trim(w, Spaces) \in Seq(Classes)
    BY <1>2, TrimIs
  <2> QED
    BY <1>3, <2>1, LenProperties DEF Middle, SignUpAccepts, ValidPassword, Has
<1>5. a + i - 1 \in 1 .. Len(w) /\ w[a + i - 1] = "upper"
  BY <1>3, <1>4, LenProperties DEF Middle
<1>6. Kept(w, Blanks) # {}
  BY <1>5, LenProperties DEF Kept, Blanks
<1> QED
  BY <1>6, TrimKeeps DEF SignInSends, SignUpSends

\* Any valid password with a space after it is accepted by the sheet, and its
\* owner is lost: whatever is typed into the login screen, it sends another word.
THEOREM PaddedPasswordLost ==
  ASSUME NEW v \in Seq(Classes), ValidPassword(v),
         v[1] \notin Blanks, v[Len(v)] \notin Blanks,
         NEW w \in Seq(Classes), w = Append(v, "space")
  PROVE  SignUpAccepts(w) /\ \A x \in Seq(Classes) : SignInSends(x) # SignUpSends(w)
PROOF
<1>0. Len(v) \in Nat /\ Len(v) >= 8 /\ "space" \in Classes
  BY LenProperties DEF ValidPassword, Classes, Blanks
<1>1. /\ Len(w) = Len(v) + 1 /\ w[Len(v) + 1] = "space"
      /\ \A i \in 1 .. Len(v) : w[i] = v[i]
  BY <1>0, AppendProperties
<1>2. w[1] \notin Spaces /\ w[Len(v)] \notin Spaces /\ w[Len(v) + 1] \in Spaces
  BY <1>0, <1>1 DEF Blanks, Spaces
<1>3. Kept(w, Spaces) # {}
  BY <1>0, <1>1, <1>2, LenProperties DEF Kept
<1>4. PICK a, b \in 1 .. Len(w) : Middle(w, Spaces, a, b)
  BY <1>3, TrimIs
<1>5. a = 1 /\ b = Len(v)
  <2>1. 1 \in 1 .. Len(w) /\ Len(v) \in 1 .. Len(w)
    BY <1>0, <1>1
  <2>2. a = 1 /\ Len(v) <= b
    BY <1>2, <1>4, <2>1 DEF Middle
  <2>3. b # Len(v) + 1
    BY <1>2, <1>4 DEF Middle
  <2> QED
    BY <1>0, <1>1, <2>2, <2>3
<1>6. Trim(w, Spaces) = v
  <2>1. Len(Trim(w, Spaces)) = Len(v) /\ \A i \in 1 .. Len(v) : Trim(w, Spaces)[i] = v[i]
    BY <1>0, <1>1, <1>4, <1>5 DEF Middle
  <2> QED
    BY <1>3, <2>1, TrimIs, SeqEqual
<1>7. SignUpAccepts(w)
  BY <1>6 DEF SignUpAccepts
<1>8. w[Len(w)] \in Blanks
  BY <1>1 DEF Blanks
<1>9. ASSUME NEW x \in Seq(Classes)
      PROVE  SignInSends(x) # w
  <2>1. CASE Trim(x, Blanks) = <<>>
    BY <1>0, <1>1, <2>1 DEF SignInSends
  <2>2. CASE Trim(x, Blanks) # <<>>
    <3>1. Kept(x, Blanks) # {}
      BY <2>2 DEF Trim
    <3>2. LET t == Trim(x, Blanks) IN t[Len(t)] \notin Blanks
      BY <3>1, TrimmedEnd
    <3> QED
      BY <1>8, <3>2 DEF SignInSends
  <2> QED
    BY <2>1, <2>2
<1> QED
  BY <1>7, <1>9 DEF SignUpSends

\* A price or a phone number is accepted exactly if it has a character that is no
\* space and one that is no letter: it needs no digit, and may be a letter and a
\* space.
THEOREM NumberRule ==
  ASSUME NEW w \in Seq(Classes)
  PROVE  NumberAccepted(w) <=> /\ \E i \in 1 .. Len(w) : w[i] \notin Spaces
                               /\ \E i \in 1 .. Len(w) : w[i] \notin Letters
PROOF
  BY TrimmedAway DEF NumberAccepted, IsBlank, IsNumeric
=============================================================================
