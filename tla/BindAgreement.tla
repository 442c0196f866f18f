---------------------------- MODULE BindAgreement ----------------------------
(***************************************************************************)
(* What bind promises, without requests, snapshots or rows: two different  *)
(* principals come to one agreement per quote, the premium is booked in    *)
(* the same step, and cover is issued only on an agreement to bind.        *)
(***************************************************************************)
EXTENDS Integers

CONSTANTS Quotes, Principals, Premiums

VARIABLES price,      \* the premium offered for a quote, -1 before the offer
          agreement,  \* set of [quote, maker, checker, outcome]
          booked,     \* set of [quote, amount]
          issued      \* quotes with a policy

vars == <<price, agreement, booked, issued>>

Init == /\ price = [q \in Quotes |-> -1]
        /\ agreement = {}
        /\ booked = {}
        /\ issued = {}

Offer(q, premium) ==
  /\ price[q] = -1
  /\ price' = [price EXCEPT ![q] = premium]
  /\ UNCHANGED <<agreement, booked, issued>>

Agree(q, maker, checker, outcome) ==
  /\ price[q] # -1
  /\ maker # checker
  /\ \A a \in agreement : a.quote # q
  /\ agreement' = agreement \cup
       {[quote |-> q, maker |-> maker, checker |-> checker, outcome |-> outcome]}
  /\ booked' = booked \cup (IF outcome = "BIND" /\ price[q] > 0
                            THEN {[quote |-> q, amount |-> price[q]]} ELSE {})
  /\ UNCHANGED <<price, issued>>

Issue(q) ==
  /\ q \notin issued
  /\ \E a \in agreement : a.quote = q /\ a.outcome = "BIND"
  /\ issued' = issued \cup {q}
  /\ UNCHANGED <<price, agreement, booked>>

Next == \/ \E q \in Quotes, premium \in Premiums : Offer(q, premium)
        \/ \E q \in Quotes, maker, checker \in Principals, outcome \in {"BIND", "DECLINE"} :
              Agree(q, maker, checker, outcome)
        \/ \E q \in Quotes : Issue(q)

Spec == Init /\ [][Next]_vars
=============================================================================
