------------------------------- MODULE Serials -------------------------------
(***************************************************************************)
(* Policy numbers and their Luhn mod-34 check character                    *)
(* (domain/serials.py).                                                    *)
(*                                                                         *)
(* A character is its index in ALPHABET: the digits are 0 .. 9, the letters*)
(* but I and O 10 .. 33.  A number is the sequence of its characters; the  *)
(* separators, which only fix the shape, are left out.                     *)
(***************************************************************************)
EXTENDS Integers, SequencesExt

Size    == 34             \* len(ALPHABET)
Foreign == Size           \* stands for every character that is not in ALPHABET
Digit   == 0 .. 9
Letter  == 10 .. Size - 1

Country  == <<22, 16>>    \* "NG"
YearAt   == 6 .. 9        \* places of YYYY, after NG<KIND3>
SeqAt    == 10 .. 19      \* places of SEQ10
CheckAt  == 20

\* Mutant: the carry of a doubled character is dropped, not folded back.
AddendNoCarry(factor, cp) == (factor * cp) % Size

\* A doubled character counts as the sum of its two base-34 digits.
Addend(factor, cp) == ((factor * cp) \div Size) + ((factor * cp) % Size)

\* Every other character is doubled, the rightmost one first.
Factor(place, body) == IF ((Len(body) - place) % 2) = 0 THEN 2 ELSE 1

\* luhn_mod_n_check; total[i] is the sum over the first i characters.
LuhnCheck(body) ==
  LET total[i \in 0 .. Len(body)] ==
        IF i = 0 THEN 0 ELSE total[i - 1] + Addend(Factor(i, body), body[i])
  IN  (Size - (total[Len(body)] % Size)) % Size

\* n, zero-padded to width digits.
Padded(n, width) == [i \in 1 .. width |-> (n \div 10 ^ (width - i)) % 10]

\* build_policy_number.
PolicyNumber(family, year, sequence) ==
  LET body == Country \o family \o Padded(year, 4) \o Padded(sequence, 10)
  IN  Append(body, LuhnCheck(body))

\* _NUMBER_RE, on what is left without the separators.
WellShaped(typed) ==
  /\ Len(typed) = CheckAt
  /\ SubSeq(typed, 1, 2) = Country
  /\ \A i \in 3 .. 5 : typed[i] \notin Digit
  /\ \A i \in YearAt \cup SeqAt : typed[i] \in Digit

\* parse_policy_number lets it through to the database: right shape, all characters in
\* ALPHABET, and the check character that belongs to them.
Parses(typed) ==
  /\ WellShaped(typed)
  /\ \A i \in 1 .. CheckAt : typed[i] # Foreign
  /\ LuhnCheck(Front(typed)) = Last(typed)

-----------------------------------------------------------------------------
(* How a number is mistyped: one character replaced, or two neighbours        *)
(* exchanged.                                                                 *)

Swapped(number, i) == [number EXCEPT ![i] = number[i + 1], ![i + 1] = number[i]]

Typos(number) ==
  ({[number EXCEPT ![i] = cp] : i \in 1 .. CheckAt, cp \in Digit \cup Letter \cup {Foreign}}
   \cup {Swapped(number, i) : i \in 1 .. CheckAt - 1}) \ {number}
=============================================================================
