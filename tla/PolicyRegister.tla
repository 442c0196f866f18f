--------------------------- MODULE PolicyRegister ---------------------------
(***************************************************************************)
(* What issuance promises: a register that one clerk keeps.  Each entry is *)
(* made in one step, for a quote that has none yet, with the next number   *)
(* of its family and year and the next bit of the status list.             *)
(***************************************************************************)
EXTENDS Integers

CONSTANTS Quotes, Slots

VARIABLES register, nextSeq, nextIndex

vars == <<register, nextSeq, nextIndex>>

Init == /\ register = {}
        /\ nextSeq = [s \in Slots |-> 0]
        /\ nextIndex = 0

Enter(q, s) ==
  /\ \A p \in register : p.quote # q
  /\ register' = register \cup
       {[quote |-> q, slot |-> s, seq |-> nextSeq[s], index |-> nextIndex]}
  /\ nextSeq' = [nextSeq EXCEPT ![s] = @ + 1]
  /\ nextIndex' = nextIndex + 1

Next == \E q \in Quotes, s \in Slots : Enter(q, s)

Spec == Init /\ [][Next]_vars
=============================================================================
