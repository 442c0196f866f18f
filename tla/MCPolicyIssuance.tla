-------------------------- MODULE MCPolicyIssuance --------------------------
(* Three workers, four quotes: two can only take the one year's counter, so  *)
(* that counter runs out, and four policies overrun a list of three bits.   *)
EXTENDS PolicyNumbers, TLC

CONSTANTS w1, w2, w3, q1, q2, q3, q4, crg26, crg27

MCWorkers == {w1, w2, w3}
MCQuotes == {q1, q2, q3, q4}
MCSlots == {crg26, crg27}
MCSlotOf == (q1 :> {crg26}) @@ (q2 :> {crg26})
              @@ (q3 :> {crg26, crg27}) @@ (q4 :> {crg27})

\* The characters of CRG, and the years.
MCFamilyOf == [s \in MCSlots |-> <<12, 25, 16>>]
MCYearOf == (crg26 :> 2026) @@ (crg27 :> 2027)
=============================================================================
