------------------------------- MODULE Rating -------------------------------
(***************************************************************************)
(* The rating engine (domain/rating.py): a pure function of a rate table,  *)
(* the declared lines and the route risk, in integers only.                *)
(*                                                                         *)
(* A line is [value, class]; rates are [base, default, loading, fee, cap]  *)
(* in basis points and kobo, base being defined on some of the classes.    *)
(***************************************************************************)
EXTENDS Integers, SequencesExt

CONSTANTS Classes,  \* risk classes
          NoRate    \* default_base_bp absent

BpDenom == 10000

\* Mutant: rounded down.
BpMulFloor(amount, bp) == (amount * bp) \div BpDenom

\* amount * bp / 10000, half up; defined for non-negative arguments only.
BpMul(amount, bp) == (amount * bp + BpDenom \div 2) \div BpDenom

Base(rates, class) ==
  IF class \in DOMAIN rates.base THEN rates.base[class] ELSE rates.default

Least(a, b) == IF a <= b THEN a ELSE b

\* base + capped route risk + loading; a loading or a cap may be negative.
LineRate(rates, class, route) == Base(rates, class) + Least(route, rates.cap) + rates.loading[class]

\* Mutant: the sign of the total rate is not looked at.
RateableAnySign(rates, lines, route) ==
  /\ rates.fee >= 0 /\ route >= 0
  /\ lines # <<>>
  /\ \A i \in DOMAIN lines :
       /\ lines[i].value > 0
       /\ Base(rates, lines[i].class) # NoRate
       /\ LineRate(rates, lines[i].class, route) <= BpDenom

\* What rate_quote (or bp_mul, called by it) does not refuse.
Rateable(rates, lines, route) ==
  /\ rates.fee >= 0 /\ route >= 0
  /\ lines # <<>>
  /\ \A i \in DOMAIN lines :
       /\ lines[i].value > 0
       /\ Base(rates, lines[i].class) # NoRate
       /\ LineRate(rates, lines[i].class, route) \in 0 .. BpDenom

Premium(rates, lines, route) ==
  LET plus(sum, line) == sum + BpMul(line.value, LineRate(rates, line.class, route))
  IN  rates.fee + FoldLeft(plus, 0, lines)

-----------------------------------------------------------------------------
(* The reference: exact arithmetic, in kobo times 10000, without rounding.  *)

ExactPrice(rates, lines, route) ==
  LET plus(sum, line) == sum + line.value * LineRate(rates, line.class, route)
  IN  BpDenom * rates.fee + FoldLeft(plus, 0, lines)

Worth(lines) == FoldLeft(LAMBDA sum, line : sum + line.value, 0, lines)

\* A premium is within half a kobo per line of the exact price, and a line is never
\* charged more than it is worth.
FairPremium(premium, rates, lines, route) ==
  LET error == BpDenom * premium - ExactPrice(rates, lines, route)
      half  == (BpDenom \div 2) * Len(lines)
  IN  /\ -half < error /\ error <= half
      /\ premium <= rates.fee + Worth(lines)
=============================================================================
