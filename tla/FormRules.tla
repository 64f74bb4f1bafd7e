------------------------------ MODULE FormRules ------------------------------
(***************************************************************************)
(* What the forms check of the words typed into them, and what they send   *)
(* of them (TestValues, StringExtension, the two account screens and the   *)
(* publication).  A character counts by its class.                         *)
(***************************************************************************)
EXTENDS Naturals, Sequences, FiniteSetsExt

Letters == {"upper", "lower", "accented"}
Spaces  == {"space"}               \* CharacterSet.whitespaces
Blanks  == {"space", "newline"}    \* CharacterSet.whitespacesAndNewlines
Classes == Letters \cup Blanks \cup {"digit", "other"}

\* trimmingCharacters(in: S)
Kept(w, S) == {i \in DOMAIN w : w[i] \notin S}
Trim(w, S) ==
  IF Kept(w, S) = {} THEN <<>> ELSE SubSeq(w, Min(Kept(w, S)), Max(Kept(w, S)))

Has(w, class) == \E i \in DOMAIN w : w[i] = class

\* isValidPassword: the pattern matches the whole word, and its dots no newline.
ValidPassword(w) ==
  /\ Len(w) >= 8
  /\ Has(w, "upper") /\ Has(w, "digit") /\ Has(w, "lower")
  /\ ~Has(w, "newline")

\* The checks of the sign-up sheet are made on the trimmed word, and the typed one
\* is sent; the login screen sends a trimmed one.
SignUpAccepts(w) == ValidPassword(Trim(w, Spaces))
SignUpSends(w)   == w
SignInSends(w)   == Trim(w, Blanks)

\* isBlank, and isNumeric, which is true of words without a number.
IsBlank(w)   == Trim(w, Spaces) = <<>>
IsNumeric(w) == Trim(w, Letters) = <<>>

\* What publishButton asks of a price and of a phone number.
NumberAccepted(w) == ~IsBlank(w) /\ ~IsNumeric(w)
=============================================================================
