--------------------------- MODULE PolicyEconomics ---------------------------
(***************************************************************************)
(* What an issued policy costs and what is owed on it: endorsements        *)
(* (maker-checker on premium deltas), the premium receipt, and the status  *)
(* changes they interact with (services/lifecycle.py, services/premiums.py,*)
(* services/journal.py).                                                   *)
(*                                                                         *)
(* Every handler here takes FOR UPDATE on the policy row and refreshes it  *)
(* before it decides anything, so an action is a whole handler.  What is   *)
(* hard is the order in which principals who know nothing of each other    *)
(* call them.  The status-list bits these handlers also write are in       *)
(* StatusLists, the audit row they append in EventDelivery.                *)
(***************************************************************************)
EXTENDS Integers, Sequences

CONSTANTS Policies,         \* issued policies
          BoundPremium,     \* the premium each was bound at, already journaled
          Principals, NoOne,
          Deltas,           \* premium deltas (kobo) an underwriter may ask for
          Amounts,          \* amounts (kobo) a payment may have
          Currencies, NGN,
          References,       \* external references of payments
          Unknown,          \* a policy number that names no policy
          MaxEndorsements   \* bound: endorsements per policy

ASSUME PremiumAssumption == BoundPremium \in [Policies -> Nat]
ASSUME MoneyAssumption == Deltas \subseteq Int /\ Amounts \subseteq Nat
ASSUME NamesAssumption == NoOne \notin Principals /\ Unknown \notin Policies
ASSUME BoundAssumption == MaxEndorsements \in Nat

VARIABLES policies,      \* the policies table: status, premium_kobo, premium_paid_at
          due,           \* policies whose expiry_at has passed
          endorsements,  \* the endorsements of each policy, by endorsement_no
          receipts,      \* the premium_receipts table
          posted,        \* references of the journals posted here
          balance        \* debits less credits of each account, policy by policy

vars == <<policies, due, endorsements, receipts, posted, balance>>

PolicyStatuses == {"ACTIVE", "SUSPENDED", "LAPSED", "CANCELLED"}

Policy == [status : PolicyStatuses, premium : Nat, paid : BOOLEAN]

Endorsement == [delta : Deltas, status : {"PROPOSED", "APPROVED", "REJECTED"},
                maker : Principals, checker : Principals \cup {NoOne}]

Receipt == [ref : References, policy : Policies \cup {Unknown}, amount : Amounts,
            status : {"APPLIED", "QUARANTINED"}]

Accounts == {"premium:receivable", "premium:income", "insurer:clearing"}

\* post_journal: two legs of one amount, which makes every journal balance.
Post(p, debited, credited, amount) ==
  [balance EXCEPT ![p][debited] = @ + amount, ![p][credited] = @ - amount]

\* UNIQUE (external_reference) on premium_receipts.
Fresh(ref) == \A r \in receipts : r.ref # ref

\* Mutant: a return premium is posted like an additional one.
DeltaLegsOneWay(p, delta) ==
  Post(p, "premium:receivable", "premium:income", IF delta > 0 THEN delta ELSE 0 - delta)

\* The legs of an endorsement: additional premium, or return premium (contra).
DeltaLegs(p, delta) ==
  IF delta > 0 THEN Post(p, "premium:receivable", "premium:income", delta)
               ELSE Post(p, "premium:income", "premium:receivable", 0 - delta)

\* Mutant: only additional premiums are range-checked.
DeltaInRangeUp(p, delta) == delta > 0 => policies[p].premium + delta >= 0

\* A return premium may not exceed the premium.
DeltaInRange(p, delta) == policies[p].premium + delta >= 0

\* Mutant: the maker of a return premium may approve it too.
MayDecideRefund(e, checker) == e.delta < 0 \/ checker # e.maker

\* Maker-checker, in the service and as ck_endorsement_dual_control.
MayDecide(e, checker) == checker # e.maker

-----------------------------------------------------------------------------

\* Policies as issue_policy leaves them, the recognition at bind already posted.
Init == /\ policies = [p \in Policies |->
                         [status |-> "ACTIVE", premium |-> BoundPremium[p], paid |-> FALSE]]
        /\ due = {}
        /\ endorsements = [p \in Policies |-> <<>>]
        /\ receipts = {}
        /\ posted = {}
        /\ balance = [p \in Policies |->
             [a \in Accounts |-> CASE a = "premium:receivable" -> BoundPremium[p]
                                   [] a = "premium:income"     -> 0 - BoundPremium[p]
                                   [] OTHER                    -> 0]]

\* Mutant: return premiums need no checker.
InitialStatusRefund(delta) == IF delta > 0 THEN "PROPOSED" ELSE "APPROVED"

\* Only an endorsement that moves money waits for a checker.
InitialStatus(delta) == IF delta # 0 THEN "PROPOSED" ELSE "APPROVED"

\* add_endorsement: money waits for a checker, anything else takes effect at once.
AddEndorsement(p, delta, maker) ==
  /\ policies[p].status = "ACTIVE"
  /\ Len(endorsements[p]) < MaxEndorsements
  /\ endorsements' = [endorsements EXCEPT ![p] =
       Append(@, [delta |-> delta, status |-> InitialStatus(delta), maker |-> maker,
                  checker |-> NoOne])]
  /\ UNCHANGED <<policies, due, receipts, posted, balance>>

\* approve_endorsement.  Neither the policy's status nor premium_paid_at is looked at.
ApproveEndorsement(p, n, checker) ==
  LET e == endorsements[p][n]
  IN  /\ n \in 1 .. Len(endorsements[p])
      /\ e.status = "PROPOSED"
      /\ MayDecide(e, checker)
      /\ DeltaInRange(p, e.delta)
      /\ <<"endorsement", p, n>> \notin posted
      /\ balance' = DeltaLegs(p, e.delta)
      /\ posted' = posted \cup {<<"endorsement", p, n>>}
      /\ policies' = [policies EXCEPT ![p].premium = @ + e.delta]
      /\ endorsements' = [endorsements EXCEPT ![p][n].status = "APPROVED",
                                              ![p][n].checker = checker]
      /\ UNCHANGED <<due, receipts>>

\* reject_endorsement.
RejectEndorsement(p, n, checker) ==
  /\ n \in 1 .. Len(endorsements[p])
  /\ endorsements[p][n].status = "PROPOSED"
  /\ MayDecide(endorsements[p][n], checker)
  /\ endorsements' = [endorsements EXCEPT ![p][n].status = "REJECTED",
                                          ![p][n].checker = checker]
  /\ UNCHANGED <<policies, due, receipts, posted, balance>>

-----------------------------------------------------------------------------
(* record_premium_receipt, outcome by outcome.  A payment for a policy that *)
(* is CANCELLED or LAPSED is answered bad-state and leaves nothing.        *)

\* Mutant: premium_paid_at is not consulted; the unique journal reference is trusted
\* to stop a second settlement.
OpenToPayment(p) == policies[p].status \in {"ACTIVE", "SUSPENDED"}

\* A payment can only be applied to cover that is live and not yet paid for.
Payable(p) == policies[p].status \in {"ACTIVE", "SUSPENDED"} /\ ~policies[p].paid

Matches(p, amount, currency) == currency = NGN /\ amount = policies[p].premium

Row(ref, p, amount, status) ==
  [ref |-> ref, policy |-> p, amount |-> amount, status |-> status]

QuarantineUnknown(ref, amount) ==
  /\ Fresh(ref)
  /\ receipts' = receipts \cup {Row(ref, Unknown, amount, "QUARANTINED")}
  /\ UNCHANGED <<policies, due, endorsements, posted, balance>>

\* Already settled, or not the premium to the kobo.
QuarantinePayment(ref, p, amount, currency) ==
  /\ policies[p].status \in {"ACTIVE", "SUSPENDED"}
  /\ Fresh(ref)
  /\ policies[p].paid \/ ~Matches(p, amount, currency)
  /\ receipts' = receipts \cup {Row(ref, p, amount, "QUARANTINED")}
  /\ UNCHANGED <<policies, due, endorsements, posted, balance>>

ApplyPayment(ref, p, amount, currency) ==
  /\ Payable(p)
  /\ Fresh(ref)
  /\ Matches(p, amount, currency)
  /\ IF amount > 0
     THEN /\ <<"receipt", p>> \notin posted
          /\ posted' = posted \cup {<<"receipt", p>>}
          /\ balance' = Post(p, "insurer:clearing", "premium:receivable", amount)
     ELSE UNCHANGED <<posted, balance>>
  /\ receipts' = receipts \cup {Row(ref, p, amount, "APPLIED")}
  /\ policies' = [policies EXCEPT ![p].paid = TRUE]
  /\ UNCHANGED <<due, endorsements>>

-----------------------------------------------------------------------------
(* Status changes.                                                         *)

Move(p, from, to) ==
  /\ policies[p].status = from
  /\ policies' = [policies EXCEPT ![p].status = to]
  /\ UNCHANGED <<due, endorsements, receipts, posted, balance>>

CancelPolicy(p)    == Move(p, "ACTIVE", "CANCELLED")
SuspendPolicy(p)   == Move(p, "ACTIVE", "SUSPENDED")
ReinstatePolicy(p) == Move(p, "SUSPENDED", "ACTIVE")

CoverEnds(p) ==
  /\ p \notin due
  /\ due' = due \cup {p}
  /\ UNCHANGED <<policies, endorsements, receipts, posted, balance>>

\* lapse_sweep: what it finds ACTIVE, due and not locked, up to a batch.
LapseSweep(batch) ==
  /\ batch # {}
  /\ \A p \in batch : p \in due /\ policies[p].status = "ACTIVE"
  /\ policies' = [p \in Policies |-> IF p \in batch
                                     THEN [policies[p] EXCEPT !.status = "LAPSED"]
                                     ELSE policies[p]]
  /\ UNCHANGED <<due, endorsements, receipts, posted, balance>>

-----------------------------------------------------------------------------

Endorse(p) ==
  \/ \E delta \in Deltas, maker \in Principals : AddEndorsement(p, delta, maker)
  \/ \E n \in 1 .. MaxEndorsements, checker \in Principals :
       ApproveEndorsement(p, n, checker) \/ RejectEndorsement(p, n, checker)

Pay(ref, amount) ==
  \/ QuarantineUnknown(ref, amount)
  \/ \E p \in Policies, currency \in Currencies :
       QuarantinePayment(ref, p, amount, currency) \/ ApplyPayment(ref, p, amount, currency)

Next == \/ \E p \in Policies : Endorse(p)
        \/ \E ref \in References, amount \in Amounts : Pay(ref, amount)
        \/ \E p \in Policies : CancelPolicy(p) \/ SuspendPolicy(p) \/ ReinstatePolicy(p)
        \/ \E p \in Policies : CoverEnds(p)
        \/ \E batch \in SUBSET Policies : LapseSweep(batch)

Spec == Init /\ [][Next]_vars

-----------------------------------------------------------------------------
(* What the component must keep.                                           *)

\* Rows, accounts and references have their types.
TypeOK ==
  /\ policies \in [Policies -> Policy]
  /\ due \subseteq Policies
  /\ endorsements \in [Policies -> Seq(Endorsement)]
  /\ receipts \subseteq Receipt
  /\ posted \subseteq ({"receipt"} \X Policies) \cup ({"endorsement"} \X Policies \X Nat)
  /\ balance \in [Policies -> [Accounts -> Int]]

Applied(p) == {r \in receipts : r.policy = p /\ r.status = "APPLIED"}

\* The subledger agrees with the policy rows whatever order endorsements and
\* payments came in: what the policy costs now is what was recognised as income,
\* and what is still owed is that less the money received.
BooksFollowPolicy ==
  \A p \in Policies :
    /\ balance[p]["premium:income"] = 0 - policies[p].premium
    /\ balance[p]["premium:receivable"] + balance[p]["insurer:clearing"] = policies[p].premium

\* premium_paid_at is set exactly when one receipt, and only one, was applied,
\* and that receipt's amount is what reached insurer:clearing.
PaidOnce ==
  \A p \in Policies :
    /\ policies[p].paid <=> Applied(p) # {}
    /\ \A r1, r2 \in Applied(p) : r1 = r2
    /\ \A r \in Applied(p) : balance[p]["insurer:clearing"] = r.amount
    /\ ~policies[p].paid => balance[p]["insurer:clearing"] = 0

\* An approved endorsement has its journal and no other has: "the PROPOSED gate
\* plus the unique journal reference make a double post impossible".
EndorsementJournals ==
  \A p \in Policies, n \in 1 .. MaxEndorsements :
    <<"endorsement", p, n>> \in posted
      <=> /\ n <= Len(endorsements[p])
          /\ endorsements[p][n].status = "APPROVED"
          /\ endorsements[p][n].delta # 0

\* The deltas that were approved, each with its endorsement.
AgreedDeltas(es) ==
  {<<n, es[n].delta>> : n \in {k \in 1 .. Len(es) : es[k].status = "APPROVED" /\ es[k].delta # 0}}

\* The premium moves only when a second principal approves an endorsement that was
\* still PROPOSED, and by its delta; such an approval is never taken back.  So the
\* premium is the one agreed at bind plus the deltas that two agreed on, whatever was
\* paid, suspended, cancelled or lapsed in between.
PremiumNeedsTwo ==
  [][\A p \in Policies :
       \/ /\ policies'[p].premium = policies[p].premium
          /\ AgreedDeltas(endorsements'[p]) = AgreedDeltas(endorsements[p])
       \/ \E n \in 1 .. Len(endorsements[p]) :
            LET e == endorsements[p][n]
            IN  /\ e.status = "PROPOSED"
                /\ endorsements'[p][n].checker # e.maker
                /\ policies'[p].premium = policies[p].premium + e.delta
                /\ AgreedDeltas(endorsements'[p]) = AgreedDeltas(endorsements[p]) \cup {<<n, e.delta>>}]_vars

-----------------------------------------------------------------------------
(* What the repository says and the code does not do.                      *)

\* A payment that is quarantined as "already settled" is "real money that cannot be
\* matched" (premiums.py:63-65).  So naira to the kobo of what the books say is owed on
\* a live policy are never quarantined.
OwedCanBePaid ==
  [][\A ref \in References, p \in Policies, amount \in Amounts :
       amount > 0 /\ amount = balance[p]["premium:receivable"]
         => ~QuarantinePayment(ref, p, amount, NGN)]_vars
=============================================================================
