------------------------------- MODULE Claims -------------------------------
(***************************************************************************)
(* First notice of loss -> documents -> adjuster (maker-checker) ->        *)
(* settlement (maker-checker, journal) -> payout receipt                   *)
(* (services/claims.py, api/routes_claims.py).                             *)
(*                                                                         *)
(* Handlers that lock and refresh their row before deciding are one action *)
(* each.  Three decide on what the route loaded without a lock and are two *)
(* actions each, with the request in between: file_fnol (the policy's      *)
(* status), attach_document and record_payout_receipt (the claim's status).*)
(* An UPDATE from such a request still waits for the row, then overwrites  *)
(* the column with what the stale snapshot called for.  A member of filing *)
(* or attaching stands for one or more requests that differ in nothing: it  *)
(* may be left behind when one of them is done.                             *)
(***************************************************************************)
EXTENDS Integers, FiniteSetsExt

CONSTANTS Policies, InsuredValue,  \* insured_value_kobo of each policy
          ClaimIds,                \* bound: claims that can be filed
          Principals, NoOne,
          Amounts,                 \* amounts (kobo) claimed, settled and paid
          References,              \* external references of payouts
          Unknown,                 \* a claim_ref that names no claim
          MaxFilings, MaxStale     \* bounds: requests past their check at a time

ASSUME MoneyAssumption == /\ InsuredValue \in [Policies -> Nat \ {0}]
                          /\ Amounts \subseteq Nat \ {0}
ASSUME NamesAssumption == NoOne \notin Principals /\ Unknown \notin ClaimIds
ASSUME BoundAssumption == MaxFilings \in Nat /\ MaxStale \in Nat

VARIABLES policies,   \* status and premium_paid_at of each policy
          claims,     \* the claims table
          documented, \* claims with a claim_documents row
          journal,    \* journals with a settlement:<claim_ref> reference
          receipts,   \* the payout_receipts table
          filing,     \* file_fnol handlers past their status check
          attaching,  \* attach_document handlers past theirs
          paying,     \* record_payout_receipt handlers past theirs
          overwritten \* history: claims written by a handler that had read another status

inflight == <<filing, attaching, paying>>
vars == <<policies, claims, documented, journal, receipts, inflight, overwritten>>

ClaimStatuses == {"FNOL", "UNDER_REVIEW", "ADJUSTER_PENDING", "ADJUSTER_ASSIGNED",
                  "SETTLEMENT_PENDING", "SETTLED", "PAID", "REJECTED"}

PolicyStatuses == {"ACTIVE", "SUSPENDED", "CANCELLED"}

Policy == [status : PolicyStatuses, paid : BOOLEAN]

Someone == Principals \cup {NoOne}

Claim == [status : ClaimStatuses, policy : Policies, claimed : Amounts, settled : Amounts \cup {0},
          adjuster : Someone, assignProposed : Someone, assignConfirmed : Someone,
          settleProposed : Someone, settleApproved : Someone]

NoClaim == [status |-> "NONE"]

Receipt == [ref : References, claim : ClaimIds \cup {Unknown}, amount : Amounts,
            status : {"APPLIED", "QUARANTINED"}]

-----------------------------------------------------------------------------

Filed == {c \in ClaimIds : claims[c].status # "NONE"}

\* coalesce(sum(claimed_kobo), 0) over the policy's claims that are not REJECTED.
Aggregate(p) ==
  LET open == {c \in Filed : claims[c].policy = p /\ claims[c].status # "REJECTED"}
  IN  MapThenSumSet(LAMBDA c : claims[c].claimed, open)

\* CHECK constraints ck_claim_assign_dual and ck_claim_settle_dual.
DualControlCheck(row) ==
  /\ row.assignConfirmed = NoOne \/ row.assignConfirmed # row.assignProposed
  /\ row.settleApproved = NoOne \/ row.settleApproved # row.settleProposed

\* UNIQUE (reference) on journals, UNIQUE (external_reference) on payout_receipts.
Unposted(c) == \A j \in journal : j.claim # c
Fresh(ref)  == \A r \in receipts : r.ref # ref

Init == /\ policies = [p \in Policies |-> [status |-> "ACTIVE", paid |-> FALSE]]
        /\ claims = [c \in ClaimIds |-> NoClaim]
        /\ documented = {}
        /\ journal = {}
        /\ receipts = {}
        /\ filing = {} /\ attaching = {} /\ paying = {}
        /\ overwritten = {}

-----------------------------------------------------------------------------
(* The policy side, as claims see it (PolicyEconomics has it in full).     *)

SetPolicy(p, from, to) ==
  /\ policies[p].status = from
  /\ policies' = [policies EXCEPT ![p].status = to]
  /\ UNCHANGED <<claims, documented, journal, receipts, inflight, overwritten>>

PolicyMoves(p) == \/ SetPolicy(p, "ACTIVE", "SUSPENDED")
                  \/ SetPolicy(p, "SUSPENDED", "ACTIVE")
                  \/ SetPolicy(p, "ACTIVE", "CANCELLED")

PremiumReceived(p) ==
  /\ policies[p].status # "CANCELLED"
  /\ policies' = [policies EXCEPT ![p].paid = TRUE]
  /\ UNCHANGED <<claims, documented, journal, receipts, inflight, overwritten>>

-----------------------------------------------------------------------------
(* file_fnol.                                                              *)

\* The status check, on the policy as the route loaded it.
LoadFnol(p, amount) ==
  /\ Cardinality(filing) < MaxFilings
  /\ policies[p].status = "ACTIVE"
  /\ filing' = filing \cup {[policy |-> p, amount |-> amount]}
  /\ UNCHANGED <<policies, claims, documented, journal, receipts, attaching, paying, overwritten>>

\* Mutant: each claim is held to the insured value on its own.
WithinCapAlone(p, amount) == amount <= InsuredValue[p]

\* The amount alone, then with the other claims on the policy.
WithinCap(p, amount) ==
  /\ amount <= InsuredValue[p]
  /\ Aggregate(p) + amount <= InsuredValue[p]

\* The policy row is locked, so the cap is checked against every committed claim;
\* its status is not looked at again.
FileFnol(f, c) ==
  /\ f \in filing
  /\ claims[c].status = "NONE"
  /\ WithinCap(f.policy, f.amount)
  /\ claims' = [claims EXCEPT ![c] =
       [status |-> "FNOL", policy |-> f.policy, claimed |-> f.amount, settled |-> 0,
        adjuster |-> NoOne, assignProposed |-> NoOne, assignConfirmed |-> NoOne,
        settleProposed |-> NoOne, settleApproved |-> NoOne]]
  /\ filing' \in {filing, filing \ {f}}
  /\ UNCHANGED <<policies, documented, journal, receipts, attaching, paying, overwritten>>

-----------------------------------------------------------------------------
(* attach_document.                                                        *)

\* Bound on the requests that have loaded a claim and not yet written.
MayLoad == Cardinality(attaching) + Cardinality(paying) < MaxStale

\* Mutant: any claim that is not closed takes documents.
LoadDocumentOpen(c) ==
  /\ MayLoad
  /\ claims[c].status \notin {"NONE", "PAID", "REJECTED"}
  /\ attaching' = attaching \cup {[claim |-> c, seen |-> claims[c].status]}
  /\ UNCHANGED <<policies, claims, documented, journal, receipts, filing, paying, overwritten>>

LoadDocument(c) ==
  /\ MayLoad
  /\ claims[c].status \in {"FNOL", "UNDER_REVIEW"}
  /\ attaching' = attaching \cup {[claim |-> c, seen |-> claims[c].status]}
  /\ UNCHANGED <<policies, claims, documented, journal, receipts, filing, paying, overwritten>>

\* Mutant: the claim goes under review whether or not the document is stored.
AttachDocumentLost(a) ==
  /\ a \in attaching
  /\ claims' = IF a.seen = "FNOL"
               THEN [claims EXCEPT ![a.claim].status = "UNDER_REVIEW"]
               ELSE claims
  /\ overwritten' = IF a.seen = "FNOL" /\ claims[a.claim].status # "FNOL"
                    THEN overwritten \cup {a.claim} ELSE overwritten
  /\ attaching' \in {attaching, attaching \ {a}}
  /\ UNCHANGED <<policies, documented, journal, receipts, filing, paying>>

\* The document is inserted; a claim seen as FNOL is set to UNDER_REVIEW.
AttachDocument(a) ==
  /\ a \in attaching
  /\ documented' = documented \cup {a.claim}
  /\ claims' = IF a.seen = "FNOL"
               THEN [claims EXCEPT ![a.claim].status = "UNDER_REVIEW"]
               ELSE claims
  /\ overwritten' = IF a.seen = "FNOL" /\ claims[a.claim].status # "FNOL"
                    THEN overwritten \cup {a.claim} ELSE overwritten
  /\ attaching' \in {attaching, attaching \ {a}}
  /\ UNCHANGED <<policies, journal, receipts, filing, paying>>

-----------------------------------------------------------------------------
(* Adjuster and settlement.  Update(c, row) is the UPDATE of a locked row.  *)

Update(c, row) ==
  /\ DualControlCheck(row)
  /\ claims' = [claims EXCEPT ![c] = row]
  /\ UNCHANGED <<policies, documented, receipts, inflight, overwritten>>

ProposeAdjuster(c, adjuster, p) ==
  /\ claims[c].status = "UNDER_REVIEW"
  /\ Update(c, [claims[c] EXCEPT !.status = "ADJUSTER_PENDING", !.adjuster = adjuster,
                                 !.assignProposed = p])
  /\ UNCHANGED journal

ConfirmAdjuster(c, p) ==
  /\ claims[c].status = "ADJUSTER_PENDING"
  /\ p # claims[c].assignProposed
  /\ Update(c, [claims[c] EXCEPT !.status = "ADJUSTER_ASSIGNED", !.assignConfirmed = p])
  /\ UNCHANGED journal

\* Mutant: any adjuster may propose, at any stage from assignment on.
ProposeSettlementAgain(c, amount, p) ==
  /\ claims[c].status \in {"ADJUSTER_ASSIGNED", "SETTLED"}
  /\ amount <= claims[c].claimed
  /\ Update(c, [claims[c] EXCEPT !.status = "SETTLEMENT_PENDING", !.settled = amount,
                                 !.settleProposed = p])
  /\ UNCHANGED journal

ProposeSettlement(c, amount, p) ==
  /\ claims[c].status = "ADJUSTER_ASSIGNED"
  /\ p = claims[c].adjuster
  /\ amount <= claims[c].claimed
  /\ Update(c, [claims[c] EXCEPT !.status = "SETTLEMENT_PENDING", !.settled = amount,
                                 !.settleProposed = p])
  /\ UNCHANGED journal

\* Mutant: the reference of the journal is not unique to the claim.
ApproveSettlementAgain(c, p) ==
  /\ claims[c].status = "SETTLEMENT_PENDING"
  /\ p # claims[c].settleProposed
  /\ policies[claims[c].policy].paid
  /\ journal' = journal \cup {[claim |-> c, amount |-> claims[c].settled]}
  /\ Update(c, [claims[c] EXCEPT !.status = "SETTLED", !.settleApproved = p])

\* The premium must have been received.  (The policy object the route loaded is
\* reused, so a premium that came in since then is missed: a refusal, no more.)
ApproveSettlement(c, p) ==
  /\ claims[c].status = "SETTLEMENT_PENDING"
  /\ p # claims[c].settleProposed
  /\ policies[claims[c].policy].paid
  /\ Unposted(c)
  /\ journal' = journal \cup {[claim |-> c, amount |-> claims[c].settled]}
  /\ Update(c, [claims[c] EXCEPT !.status = "SETTLED", !.settleApproved = p])

\* Mutant: a settlement can be rejected until it is paid.
RejectClaimSettled(c) ==
  /\ claims[c].status \notin {"NONE", "PAID", "REJECTED"}
  /\ Update(c, [claims[c] EXCEPT !.status = "REJECTED"])
  /\ UNCHANGED journal

RejectClaim(c) ==
  /\ claims[c].status \notin {"NONE", "SETTLED", "PAID", "REJECTED"}
  /\ Update(c, [claims[c] EXCEPT !.status = "REJECTED"])
  /\ UNCHANGED journal

-----------------------------------------------------------------------------
(* record_payout_receipt.                                                  *)

Row(ref, c, amount, status) ==
  [ref |-> ref, claim |-> c, amount |-> amount, status |-> status]

QuarantineUnknown(ref, amount) ==
  /\ Fresh(ref)
  /\ receipts' = receipts \cup {Row(ref, Unknown, amount, "QUARANTINED")}
  /\ UNCHANGED <<policies, claims, documented, journal, inflight, overwritten>>

\* Status and amount are judged on the claim as loaded, without a lock.
LoadPayout(ref, c, amount, inNaira) ==
  /\ MayLoad
  /\ claims[c].status = "SETTLED"
  /\ paying' = paying \cup
       {Row(ref, c, amount, IF inNaira /\ amount = claims[c].settled
                            THEN "APPLIED" ELSE "QUARANTINED")}
  /\ UNCHANGED <<policies, claims, documented, journal, receipts, filing, attaching, overwritten>>

\* Mutant: an applied receipt takes its amount from the claim as it is now.
RecordPayoutAsSettled(r) ==
  LET row == IF r.status = "APPLIED" THEN [r EXCEPT !.amount = claims[r.claim].settled] ELSE r
  IN  /\ r \in paying
      /\ Fresh(r.ref)
      /\ receipts' = receipts \cup {row}
      /\ claims' = IF r.status = "APPLIED" THEN [claims EXCEPT ![r.claim].status = "PAID"]
                                           ELSE claims
      /\ overwritten' = IF r.status = "APPLIED" /\ claims[r.claim].status # "SETTLED"
                        THEN overwritten \cup {r.claim} ELSE overwritten
      /\ paying' = paying \ {r}
      /\ UNCHANGED <<policies, documented, journal, filing, attaching>>

RecordPayout(r) ==
  /\ r \in paying
  /\ Fresh(r.ref)
  /\ receipts' = receipts \cup {r}
  /\ claims' = IF r.status = "APPLIED" THEN [claims EXCEPT ![r.claim].status = "PAID"]
                                       ELSE claims
  /\ overwritten' = IF r.status = "APPLIED" /\ claims[r.claim].status # "SETTLED"
                    THEN overwritten \cup {r.claim} ELSE overwritten
  /\ paying' = paying \ {r}
  /\ UNCHANGED <<policies, documented, journal, filing, attaching>>

-----------------------------------------------------------------------------

\* A request ends without a commit: a refusal after the lock, a lost connection.
Abandon(f, a, r) ==
  /\ filing' = filing \ f
  /\ attaching' = attaching \ a
  /\ paying' = paying \ r
  /\ UNCHANGED <<policies, claims, documented, journal, receipts, overwritten>>

PolicyNext == \E p \in Policies : PolicyMoves(p) \/ PremiumReceived(p)

FnolNext == \/ \E p \in Policies, amount \in Amounts : LoadFnol(p, amount)
            \/ \E f \in filing, c \in ClaimIds : FileFnol(f, c)
            \/ \E f \in filing : Abandon({f}, {}, {})

ReviewNext(c) ==
  \/ \E p, adjuster \in Principals : ProposeAdjuster(c, adjuster, p)
  \/ \E p \in Principals : ConfirmAdjuster(c, p) \/ ApproveSettlement(c, p)
  \/ \E p \in Principals, amount \in Amounts : ProposeSettlement(c, amount, p)
  \/ LoadDocument(c) \/ RejectClaim(c)

PayoutNext ==
  \/ \E ref \in References, amount \in Amounts : QuarantineUnknown(ref, amount)
  \/ \E ref \in References, c \in ClaimIds, amount \in Amounts, inNaira \in BOOLEAN :
       LoadPayout(ref, c, amount, inNaira)
  \/ \E r \in paying : RecordPayout(r) \/ Abandon({}, {}, {r})

Next == \/ PolicyNext
        \/ FnolNext
        \/ \E c \in ClaimIds : ReviewNext(c)
        \/ \E a \in attaching : AttachDocument(a) \/ Abandon({}, {a}, {})
        \/ PayoutNext

Spec == Init /\ [][Next]_vars

-----------------------------------------------------------------------------
(* What the component must keep, whatever the interleaving.                *)

\* Rows, requests and journals have their types.
TypeOK ==
  /\ policies \in [Policies -> Policy]
  /\ claims \in [ClaimIds -> Claim \cup {NoClaim}]
  /\ documented \subseteq ClaimIds
  /\ journal \subseteq [claim : ClaimIds, amount : Amounts]
  /\ receipts \subseteq Receipt
  /\ filing \subseteq [policy : Policies, amount : Amounts]
  /\ attaching \subseteq [claim : ClaimIds, seen : {"FNOL", "UNDER_REVIEW"}]
  /\ paying \subseteq Receipt
  /\ overwritten \subseteq ClaimIds

\* A payout is applied only for an amount that was posted for that claim, to the
\* kobo, even when the claim row has moved on since the payout was loaded: the
\* journal, unlike the row, cannot be overwritten.
PayoutMatchesJournal ==
  \A r \in receipts : r.status = "APPLIED" => [claim |-> r.claim, amount |-> r.amount] \in journal

\* No claims payable before the premium is received, no second posting for a
\* claim, and never more than was claimed.
SettlementsCovered ==
  /\ \A j \in journal : /\ policies[claims[j.claim].policy].paid
                        /\ j.amount <= claims[j.claim].claimed
  /\ \A j1, j2 \in journal : j1.claim = j2.claim => j1 = j2

\* Money is posted only on evidence and along the whole four-eyes chain: an adjuster
\* proposed by one and confirmed by another made the proposal, someone else approved
\* it, and a document is on file.
PostedByTwoPairs ==
  [][\A c \in ClaimIds : (\E j \in journal' \ journal : j.claim = c) =>
       /\ c \in documented
       /\ claims[c].assignConfirmed \notin {NoOne, claims[c].assignProposed}
       /\ claims[c].settleProposed = claims[c].adjuster
       /\ claims'[c].settleApproved \notin {NoOne, claims[c].settleProposed}]_vars

-----------------------------------------------------------------------------
(* What it keeps of every claim that no stale write has hit: overlapping      *)
(* requests are harmless as long as none writes over a status it did not read. *)

\* "The sum of claimed amounts across all non-rejected claims can never exceed
\* the insured value" (file_fnol), concurrent filings included.  A rejected claim
\* gives its share back, so one revived by a late document breaks the cap.
AggregateCap ==
  \A p \in Policies :
    (\A c \in overwritten : claims[c].policy # p) => Aggregate(p) <= InsuredValue[p]

\* Row, journal and receipts tell one story: SETTLED and PAID claims, and no
\* others, have their settlement posted, and a PAID claim was paid once.
OneStory ==
  \A c \in Filed \ overwritten :
    /\ claims[c].status \in {"SETTLED", "PAID"}
         <=> [claim |-> c, amount |-> claims[c].settled] \in journal
    /\ claims[c].status \notin {"SETTLED", "PAID"} => Unposted(c)
    /\ Cardinality({r \in receipts : r.claim = c /\ r.status = "APPLIED"})
         = IF claims[c].status = "PAID" THEN 1 ELSE 0

Stage == [s \in ClaimStatuses \cup {"NONE"} |->
            CASE s = "NONE" -> 0 [] s = "FNOL" -> 1 [] s = "UNDER_REVIEW" -> 2
              [] s = "ADJUSTER_PENDING" -> 3 [] s = "ADJUSTER_ASSIGNED" -> 4
              [] s = "SETTLEMENT_PENDING" -> 5 [] s = "SETTLED" -> 6
              [] s = "PAID" -> 7 [] s = "REJECTED" -> 8]

\* A claim moves forward stage by stage, or out: REJECTED and PAID are final.
StageByStage ==
  [][\A c \in ClaimIds \ overwritten' :
       LET from == claims[c].status
           to == claims'[c].status
       IN  \/ to = from
           \/ Stage[to] = Stage[from] + 1 /\ to # "REJECTED"
           \/ to = "REJECTED" /\ Stage[from] \in 1 .. 5]_vars

-----------------------------------------------------------------------------
(* What the repository says and the code does not do.                      *)

\* A payout "must match the settlement exactly or be quarantined" (claims.py), so a
\* claim is paid once.
OnePayout ==
  \A r1, r2 \in receipts :
    r1.status = "APPLIED" /\ r2.status = "APPLIED" /\ r1.claim = r2.claim => r1 = r2
=============================================================================
