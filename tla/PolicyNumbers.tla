---------------------------- MODULE PolicyNumbers ----------------------------
(***************************************************************************)
(* The numbers that issue_policy prints on its policies: the family and the*)
(* year of the counter, and the sequence that was claimed from it.         *)
(***************************************************************************)
EXTENDS PolicyIssuance, Serials

CONSTANTS FamilyOf,  \* FAMILIES: the three characters of a slot's family code
          YearOf,    \* the inception year of a slot
          Earlier    \* claims made of a counter before those modelled, 0 in the program

\* No letter of a family code is outside ALPHABET; a year has four digits and a
\* sequence ten.
ASSUME NumberAssumption ==
  /\ FamilyOf \in [Slots -> [1 .. 3 -> Letter]]
  /\ \A s \in Slots : YearOf[s] \in Nat /\ 1900 <= YearOf[s] /\ YearOf[s] <= 9999
  /\ Earlier \in Nat /\ (Earlier + MaxSeq) \div 10 ^ 9 \in Digit

NumberOf(s, seq) == PolicyNumber(FamilyOf[s], YearOf[s], Earlier + seq)

\* The sequences whose number is accepted as printed and in no mistyped form.
Guarded == [s \in Slots |->
  {seq \in 0 .. MaxSeq : /\ Parses(NumberOf(s, seq))
                         /\ \A typed \in Typos(NumberOf(s, seq)) : ~Parses(typed)}]

\* "Typo rejection before any database lookup" (serials.py): every number issue_policy
\* gives out is accepted as it is, and refused with one character wrong or two
\* neighbours swapped, so a claim or a payment never lands on somebody else's policy.
TyposAreRefused == \A p \in policies : p.seq \in Guarded[p.slot]
=============================================================================
