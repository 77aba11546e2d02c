---------------------------- MODULE NamesProofs ----------------------------
(***************************************************************************)
(* Proofs about is_valid_name, for every maximum name size and every       *)
(* character set.                                                          *)
(***************************************************************************)
EXTENDS Names, SequenceTheorems, TLAPS

USE NamesAssumption

\* The range comparisons of is_valid_name decide the character classes of
\* section 4.4: for every string of character codes, is_valid_name returns
\* exactly what the spec's predicate says.
LEMMA IsValidNameCorrect ==
  ASSUME NEW s \in Seq(Int)
  PROVE  IsValidName(s) = SpecValidName(s)
<1>1. Len(s) \in Nat
  BY LenProperties
<1>2. \A i \in 1..Len(s) : s[i] \in Int
  BY ElementOfSeq
<1>. QED
  BY <1>1, <1>2 DEF IsValidName, SpecValidName, Lower, NameChars,
                    CharA, CharZ, Char0, Char9, CharDash

\* The invariant the run checks, strengthened by the shape of the inputs.
NamesInv == name \in Seq(Chars) /\ NameValidationMatchesSpec

\* Whatever sequence of calls is made, the result of the last call of
\* is_valid_name agrees with section 4.4 of the spec.
THEOREM NameValidationCorrect == Spec => []NameValidationMatchesSpec
<1>1. Init => NamesInv
  <2>. SUFFICES ASSUME Init PROVE NamesInv
    OBVIOUS
  <2>1. name \in Seq(Chars)
    BY EmptySeq DEF Init
  <2>2. SpecValidName(name) = FALSE
    BY EmptySeq DEF Init, SpecValidName
  <2>. QED
    BY <2>1, <2>2 DEF Init, NamesInv, NameValidationMatchesSpec
<1>2. NamesInv /\ [Next]_vars => NamesInv'
  <2>. SUFFICES ASSUME NamesInv, [Next]_vars PROVE NamesInv'
    OBVIOUS
  <2>1. ASSUME NEW str \in Seq(Chars), Validate(str) PROVE NamesInv'
    <3>1. str \in Seq(Int)
      BY SeqMonotonic
    <3>. QED
      BY <2>1, <3>1, IsValidNameCorrect
         DEF Validate, NamesInv, NameValidationMatchesSpec
  <2>2. CASE \E c \in Chars : Len(name) < MaxLen /\ Validate(Append(name, c))
    <3>. PICK c \in Chars : Len(name) < MaxLen /\ Validate(Append(name, c))
      BY <2>2
    <3>. QED
      BY <2>1, AppendProperties DEF NamesInv
  <2>3. CASE Validate(<<>>)
    BY <2>1, <2>3, EmptySeq
  <2>4. CASE UNCHANGED vars
    BY <2>4 DEF NamesInv, NameValidationMatchesSpec, vars
  <2>. QED
    BY <2>2, <2>3, <2>4 DEF Next
<1>3. NamesInv => NameValidationMatchesSpec
  BY DEF NamesInv
<1>. QED
  BY <1>1, <1>2, <1>3, PTL DEF Spec

=============================================================================
