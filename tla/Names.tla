------------------------------- MODULE Names -------------------------------
(***************************************************************************)
(* name_record::is_valid_name (src/libraries/blockchain/chain_interface.cpp *)
(* lines 38-51), the character-class predicate the registration logic     *)
(* applies to human-readable names.                                        *)
(*                                                                         *)
(* A std::string is a sequence of char values.  The code compares chars    *)
(* numerically against character literals, so a character is modelled by  *)
(* its code: an integer, negative for the bytes >= 0x80 where char is      *)
(* signed.                                                                 *)
(***************************************************************************)
EXTENDS Integers, Sequences

CONSTANTS
  Chars,         \* the character codes names are built from
  MaxNameSize,   \* BTS_BLOCKCHAIN_MAX_NAME_SIZE
  MaxLen         \* bound on the length of the strings passed

ASSUME NamesAssumption ==
  /\ Chars \subseteq Int
  /\ MaxNameSize \in Nat
  /\ MaxLen \in Nat

\* The character literals of lines 42-47.
CharA == 97      \* 'a'
CharZ == 122     \* 'z'
Char0 == 48      \* '0'
Char9 == 57      \* '9'
CharDash == 45   \* '-'

\* Mutant: the size check lets a name of exactly the maximum size fail.
IsValidNameOffByOne(str) ==
  /\ Len(str) # 0
  /\ ~(Len(str) >= MaxNameSize)
  /\ ~(str[1] < CharA \/ str[1] > CharZ)
  /\ \A i \in 1..Len(str) :
        \/ str[i] >= CharA /\ str[i] <= CharZ
        \/ str[i] >= Char0 /\ str[i] <= Char9
        \/ str[i] = CharDash

\* is_valid_name( str ): each early "return false" is a conjunct; the loop
\* of lines 43-49 returns false at the first character in none of the three
\* classes, and true when there is none.
IsValidName(str) ==
  /\ Len(str) # 0
  /\ ~(Len(str) > MaxNameSize)
  /\ ~(str[1] < CharA \/ str[1] > CharZ)
  /\ \A i \in 1..Len(str) :
        \/ str[i] >= CharA /\ str[i] <= CharZ
        \/ str[i] >= Char0 /\ str[i] <= Char9
        \/ str[i] = CharDash

VARIABLES
  name,    \* the string last validated
  valid    \* what is_valid_name returned for it

vars == <<name, valid>>

Init == name = <<>> /\ valid = FALSE

\* One call of is_valid_name.
Validate(str) == name' = str /\ valid' = IsValidName(str)

\* The inputs are enumerated as a walk over prefixes: the next call passes
\* the previous string extended by one character, or the empty string, so
\* that every string of at most MaxLen characters is passed.
Next ==
  \/ \E c \in Chars : Len(name) < MaxLen /\ Validate(Append(name, c))
  \/ Validate(<<>>)

Spec == Init /\ [][Next]_vars

-----------------------------------------------------------------------------

\* The predicate of section 4.4 of the spec, stated over sets of characters
\* rather than the code's range comparisons.
Lower == {c \in Int : CharA <= c /\ c <= CharZ}
NameChars == Lower \cup {c \in Int : Char0 <= c /\ c <= Char9} \cup {CharDash}

SpecValidName(s) ==
  /\ 1 <= Len(s) /\ Len(s) <= MaxNameSize
  /\ s[1] \in Lower
  /\ \A i \in 1..Len(s) : s[i] \in NameChars

\* is_valid_name accepts exactly the names section 4.4 allows: empty and
\* over-long names, a first character that is not a lowercase letter, and
\* any character outside [a-z0-9-] (signed high bytes included) are
\* rejected, and everything else accepted.
NameValidationMatchesSpec == valid = SpecValidName(name)

=============================================================================
