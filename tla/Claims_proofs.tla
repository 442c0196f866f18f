---------------------------- MODULE Claims_proofs ----------------------------
(***************************************************************************)
(* Machine-checked proofs about Claims, for any policies, claims, amounts, *)
(* principals and references, and any number of requests at a time.        *)
(***************************************************************************)
EXTENDS Claims, Induction

Evidenced == ClaimStatuses \ {"FNOL", "REJECTED"}

Staffed == {"ADJUSTER_ASSIGNED", "SETTLEMENT_PENDING"}

Posting(c, amount) == [claim |-> c, amount |-> amount]

\* What is true of row c of the claims table at every stage, given the documents and
\* the journal: evidence is on file from the review on, an adjuster who was confirmed
\* by a second principal made the proposal, and SETTLED means posted.
RowOK(c, row, docs, posts) ==
  /\ row.settled <= row.claimed
  /\ row.status \in Evidenced => c \in docs
  /\ row.status \in Staffed => row.assignConfirmed \notin {NoOne, row.assignProposed}
  /\ row.status = "SETTLEMENT_PENDING" =>
       row.settled \in Amounts /\ row.settleProposed = row.adjuster /\ row.adjuster \in Principals
  /\ row.status = "SETTLED" => Posting(c, row.settled) \in posts

RowsOK == \A c \in Filed : RowOK(c, claims[c], documented, journal)

\* Requests in flight are about claims that were filed, and a payout to be applied
\* matches a posting already.
RequestsOK ==
  /\ \A a \in attaching : a.claim \in Filed
  /\ \A r \in paying : /\ r.claim \in Filed /\ r.claim \in documented
                       /\ r.status = "APPLIED" => Posting(r.claim, r.amount) \in journal

IndInv == /\ TypeOK
          /\ RowsOK
          /\ RequestsOK
          /\ PayoutMatchesJournal
          /\ SettlementsCovered
          /\ \A j \in journal : j.claim \in Filed

-----------------------------------------------------------------------------

\* A claim is filed exactly when its row has the columns of a claim.
LEMMA FiledRows ==
  ASSUME TypeOK
  PROVE  /\ Filed \subseteq ClaimIds
         /\ \A c \in Filed : claims[c] \in Claim
         /\ \A c \in ClaimIds : c \in Filed <=> claims[c].status # "NONE"
<1>1. \A row \in Claim : row.status # "NONE"
  BY DEF Claim, ClaimStatuses
<1>2. NoClaim.status = "NONE"
  BY DEF NoClaim
<1> QED
  BY <1>1, <1>2 DEF TypeOK, Filed

LEMMA InitOK == Init => IndInv
<1> SUFFICES ASSUME Init PROVE IndInv
  OBVIOUS
<1>1. TypeOK
  BY DEF Init, TypeOK, Policy, PolicyStatuses
<1>2. Filed = {}
  BY DEF Init, Filed, NoClaim
<1> QED
  BY <1>1, <1>2 DEF Init, IndInv, RowsOK, RequestsOK, PayoutMatchesJournal, SettlementsCovered

\* Steps that write no claim and post nothing.
LEMMA StillStep ==
  ASSUME IndInv, UNCHANGED <<claims, journal, overwritten>>,
         policies' \in [Policies -> Policy],
         \A p \in Policies : policies[p].paid => policies'[p].paid,
         documented \subseteq documented', documented' \subseteq ClaimIds,
         filing' \subseteq [policy : Policies, amount : Amounts],
         attaching' \subseteq [claim : ClaimIds, seen : {"FNOL", "UNDER_REVIEW"}],
         paying' \subseteq Receipt, receipts' \subseteq Receipt,
         \A a \in attaching' : a.claim \in Filed,
         \A r \in paying' : /\ r.claim \in Filed /\ r.claim \in documented
                            /\ r.status = "APPLIED" => Posting(r.claim, r.amount) \in journal,
         \A r \in receipts' : r \in receipts \/ r \in paying \/ r.status # "APPLIED"
  PROVE  IndInv'
<1>1. TypeOK'
  BY DEF IndInv, TypeOK
<1>2. Filed' = Filed
  BY DEF Filed
<1>3. RowsOK'
  BY <1>2 DEF IndInv, RowsOK, RowOK
<1>4. RequestsOK'
  BY <1>2 DEF IndInv, RequestsOK
<1>5. PayoutMatchesJournal'
  BY DEF IndInv, PayoutMatchesJournal, RequestsOK, Posting
<1>6. SettlementsCovered'
  <2>1. \A j \in journal : claims[j.claim].policy \in Policies
    BY FiledRows DEF IndInv, Claim
  <2> QED
    BY <2>1 DEF IndInv, SettlementsCovered
<1> QED
  BY <1>1, <1>2, <1>3, <1>4, <1>5, <1>6 DEF IndInv

\* Steps that write one row and post at most its settlement.
LEMMA RowStep ==
  ASSUME IndInv, NEW c \in ClaimIds, NEW row \in Claim,
         claims' = [claims EXCEPT ![c] = row],
         c \in Filed => row.policy = claims[c].policy /\ row.claimed = claims[c].claimed,
         UNCHANGED policies, overwritten' \subseteq ClaimIds,
         documented \subseteq documented', documented' \subseteq ClaimIds,
         filing' \subseteq filing, attaching' \subseteq attaching, paying' \subseteq paying,
         receipts' \subseteq receipts \cup paying,
         \/ UNCHANGED journal
         \/ /\ journal' = journal \cup {Posting(c, row.settled)}
            /\ Unposted(c) /\ row.settled \in Amounts /\ policies[row.policy].paid,
         RowOK(c, row, documented', journal')
  PROVE  IndInv'
<1> TypeOK
  BY DEF IndInv
<1>1. claims'[c] = row /\ \A d \in ClaimIds \ {c} : claims'[d] = claims[d]
  BY DEF TypeOK
<1>2. row.status # "NONE"
  BY DEF Claim, ClaimStatuses
<1>3. Filed' = Filed \cup {c}
  BY <1>1, <1>2 DEF Filed
<1>4. journal \subseteq journal'
  OBVIOUS
<1>5. TypeOK'
  <2>1. journal' \subseteq [claim : ClaimIds, amount : Amounts]
    BY DEF TypeOK, Posting
  <2>2. claims' \in [ClaimIds -> Claim \cup {NoClaim}]
    BY DEF TypeOK
  <2> QED
    BY <2>1, <2>2 DEF TypeOK
<1>6. RowsOK'
  <2> SUFFICES ASSUME NEW d \in Filed' PROVE RowOK(d, claims'[d], documented', journal')
    BY DEF RowsOK, RowOK, Posting
  <2>1. CASE d = c
    BY <1>1, <2>1
  <2>2. CASE d # c
    <3>1. RowOK(d, claims[d], documented, journal) /\ claims'[d] = claims[d]
      BY <1>1, <1>3, <2>2, FiledRows DEF IndInv, RowsOK
    <3> QED
      BY <1>4, <3>1 DEF RowOK
  <2> QED
    BY <2>1, <2>2
<1>7. RequestsOK'
  BY <1>3, <1>4 DEF IndInv, RequestsOK
<1>8. PayoutMatchesJournal'
  BY <1>4 DEF IndInv, RequestsOK, PayoutMatchesJournal, Posting
<1>9. \A j \in journal : j.claim \in Filed /\ claims[j.claim].policy = claims'[j.claim].policy
                         /\ claims[j.claim].claimed = claims'[j.claim].claimed
  BY <1>1, FiledRows DEF IndInv
<1>10. ASSUME NEW j \in journal'
       PROVE  policies'[claims'[j.claim].policy].paid /\ j.amount <= claims'[j.claim].claimed
  <2>1. CASE j \in journal
    BY <1>9, <2>1 DEF IndInv, SettlementsCovered
  <2>2. CASE j = Posting(c, row.settled) /\ policies[row.policy].paid
    BY <1>1, <2>2 DEF Posting, RowOK
  <2> QED
    BY <2>1, <2>2
<1>11. \A j1, j2 \in journal' : j1.claim = j2.claim => j1 = j2
  BY DEF IndInv, SettlementsCovered, Unposted, Posting
<1>12. \A j \in journal' : j.claim \in Filed'
  BY <1>3 DEF IndInv, Posting
<1> QED
  BY <1>5, <1>6, <1>7, <1>8, <1>10, <1>11, <1>12 DEF IndInv, SettlementsCovered

-----------------------------------------------------------------------------
(* The handlers.                                                           *)

LEMMA PolicySteps ==
  ASSUME IndInv, PolicyNext
  PROVE  IndInv'
<1> TypeOK
  BY DEF IndInv
<1>1. PICK p \in Policies : PolicyMoves(p) \/ PremiumReceived(p)
  BY DEF PolicyNext
<1>2. UNCHANGED <<claims, documented, journal, receipts, inflight, overwritten>>
  BY <1>1 DEF PolicyMoves, SetPolicy, PremiumReceived
<1>3. \/ \E to \in PolicyStatuses : policies' = [policies EXCEPT ![p].status = to]
      \/ policies' = [policies EXCEPT ![p].paid = TRUE]
  BY <1>1 DEF PolicyMoves, SetPolicy, PremiumReceived, PolicyStatuses
<1>4. policies' \in [Policies -> Policy] /\ \A q \in Policies : policies[q].paid => policies'[q].paid
  BY <1>3 DEF TypeOK, Policy
<1> QED
  BY <1>2, <1>4, StillStep DEF IndInv, TypeOK, RequestsOK, inflight

LEMMA FnolSteps ==
  ASSUME IndInv, FnolNext
  PROVE  IndInv'
<1> TypeOK
  BY DEF IndInv
<1>1. CASE \E p \in Policies, amount \in Amounts : LoadFnol(p, amount)
  <2>1. filing' \subseteq [policy : Policies, amount : Amounts]
        /\ UNCHANGED <<policies, claims, documented, journal, receipts, attaching, paying, overwritten>>
    BY <1>1 DEF LoadFnol, TypeOK
  <2> QED
    BY <2>1, StillStep DEF IndInv, TypeOK, RequestsOK
<1>2. ASSUME NEW f \in filing, NEW c \in ClaimIds, FileFnol(f, c) PROVE IndInv'
  <2> DEFINE row == [status |-> "FNOL", policy |-> f.policy, claimed |-> f.amount, settled |-> 0,
                     adjuster |-> NoOne, assignProposed |-> NoOne, assignConfirmed |-> NoOne,
                     settleProposed |-> NoOne, settleApproved |-> NoOne]
  <2>1. f.policy \in Policies /\ f.amount \in Amounts /\ f.amount \in Nat
    BY MoneyAssumption DEF TypeOK
  <2>2. row \in Claim
    BY <2>1 DEF Claim, ClaimStatuses, Someone
  <2>3. RowOK(c, row, documented, journal)
    BY <2>1 DEF RowOK, Evidenced, Staffed
  <2>4. /\ claims' = [claims EXCEPT ![c] = row] /\ claims[c].status = "NONE"
        /\ filing' \subseteq filing
        /\ UNCHANGED <<policies, documented, journal, receipts, attaching, paying, overwritten>>
    BY <1>2 DEF FileFnol
  <2>5. c \notin Filed
    BY <2>4 DEF Filed
  <2> HIDE DEF row
  <2> QED
    BY <2>2, <2>3, <2>4, <2>5, RowStep DEF TypeOK
<1>3. CASE \E f \in filing : Abandon({f}, {}, {})
  <2>1. filing' \subseteq filing /\ attaching' = attaching /\ paying' = paying
        /\ UNCHANGED <<policies, claims, documented, journal, receipts, overwritten>>
    BY <1>3 DEF Abandon
  <2> QED
    BY <2>1, StillStep DEF IndInv, TypeOK, RequestsOK
<1> QED
  BY <1>1, <1>2, <1>3 DEF FnolNext

LEMMA DocumentSteps ==
  ASSUME IndInv, NEW a \in attaching, AttachDocument(a)
  PROVE  IndInv'
<1> TypeOK
  BY DEF IndInv
<1>1. /\ a.claim \in ClaimIds /\ a.claim \in Filed /\ claims[a.claim] \in Claim
      /\ RowOK(a.claim, claims[a.claim], documented, journal)
  BY FiledRows DEF IndInv, RequestsOK, RowsOK, TypeOK
<1>2. /\ documented' = documented \cup {a.claim} /\ attaching' \subseteq attaching
      /\ UNCHANGED <<policies, journal, receipts, filing, paying>>
      /\ overwritten' \subseteq overwritten \cup {a.claim}
      /\ a.seen # "FNOL" => UNCHANGED <<claims, overwritten>>
      /\ a.seen = "FNOL" => claims' = [claims EXCEPT ![a.claim].status = "UNDER_REVIEW"]
  BY DEF AttachDocument
<1>3. CASE a.seen = "FNOL"
  <2> DEFINE row == [claims[a.claim] EXCEPT !.status = "UNDER_REVIEW"]
  <2>1. row \in Claim
    BY <1>1 DEF Claim, ClaimStatuses
  <2>2. row.status = "UNDER_REVIEW" /\ row.policy = claims[a.claim].policy
        /\ row.claimed = claims[a.claim].claimed /\ row.settled = claims[a.claim].settled
    BY <1>1 DEF Claim
  <2>3. claims' = [claims EXCEPT ![a.claim] = row]
    BY <1>2, <1>3
  <2> HIDE DEF row
  <2>4. RowOK(a.claim, row, documented', journal)
    BY <1>1, <1>2, <2>2 DEF RowOK, Staffed
  <2>5. RowOK(a.claim, row, documented', journal')
    BY <1>2, <2>4
  <2>6. /\ documented \subseteq documented' /\ documented' \subseteq ClaimIds
        /\ overwritten' \subseteq ClaimIds
    BY <1>1, <1>2 DEF TypeOK
  <2> QED
    BY <1>1, <1>2, <2>1, <2>2, <2>3, <2>5, <2>6, RowStep
<1>4. CASE a.seen # "FNOL"
  <2>1. documented \subseteq documented' /\ documented' \subseteq ClaimIds
    BY <1>1, <1>2 DEF TypeOK
  <2> QED
    BY <1>2, <1>4, <2>1, StillStep DEF IndInv, TypeOK, RequestsOK
<1> QED
  BY <1>3, <1>4

\* The UPDATE of a locked row whose policy and amount claimed stay.
LEMMA UpdateStep ==
  ASSUME IndInv, NEW c \in Filed, NEW row \in Claim, Update(c, row),
         row.policy = claims[c].policy, row.claimed = claims[c].claimed,
         \/ UNCHANGED journal
         \/ /\ journal' = journal \cup {Posting(c, row.settled)}
            /\ Unposted(c) /\ row.settled \in Amounts /\ policies[row.policy].paid,
         DualControlCheck(row) => RowOK(c, row, documented, journal')
  PROVE  IndInv'
<1>1. c \in ClaimIds /\ TypeOK
  BY DEF Filed, IndInv
<1> QED
  BY <1>1, RowStep DEF Update, TypeOK, inflight

LEMMA ReviewSteps ==
  ASSUME IndInv, NEW c \in ClaimIds, ReviewNext(c)
  PROVE  IndInv'
<1> TypeOK
  BY DEF IndInv
<1>1. NoClaim.status = "NONE"
  BY DEF NoClaim
<1>2. ASSUME c \in Filed
      PROVE  /\ claims[c] \in Claim
             /\ RowOK(c, claims[c], documented, journal)
             /\ claims[c].settled \in Nat /\ claims[c].claimed \in Nat
  <2>1. claims[c] \in Claim
    BY <1>2, FiledRows
  <2>2. RowOK(c, claims[c], documented, journal)
    BY <1>2 DEF IndInv, RowsOK
  <2>3. \A amount \in Amounts \cup {0} : amount \in Nat
    BY MoneyAssumption
  <2>4. claims[c].settled \in Amounts \cup {0} /\ claims[c].claimed \in Amounts
    BY <2>1 DEF Claim
  <2>5. claims[c].settled \in Nat /\ claims[c].claimed \in Nat
    BY <2>3, <2>4
  <2> QED
    BY <2>1, <2>2, <2>5
<1>3. ASSUME NEW p \in Principals, NEW adjuster \in Principals, ProposeAdjuster(c, adjuster, p)
      PROVE  IndInv'
  <2> DEFINE row == [claims[c] EXCEPT !.status = "ADJUSTER_PENDING", !.adjuster = adjuster,
                                      !.assignProposed = p]
  <2>1. Update(c, row) /\ UNCHANGED journal /\ claims[c].status = "UNDER_REVIEW"
    BY <1>3 DEF ProposeAdjuster
  <2>2. c \in Filed
    BY <2>1 DEF Filed
  <2>3. row \in Claim
    BY <1>2, <2>2 DEF Claim, ClaimStatuses, Someone
  <2>4. row.status = "ADJUSTER_PENDING" /\ row.policy = claims[c].policy
        /\ row.claimed = claims[c].claimed /\ row.settled = claims[c].settled
    BY <1>2, <2>2 DEF Claim
  <2> HIDE DEF row
  <2>5. RowOK(c, row, documented, journal')
    BY <1>2, <2>1, <2>2, <2>4 DEF RowOK, Evidenced, ClaimStatuses, Staffed
  <2> QED
    BY <2>1, <2>2, <2>3, <2>4, <2>5, UpdateStep
<1>4. ASSUME NEW p \in Principals, ConfirmAdjuster(c, p) PROVE IndInv'
  <2> DEFINE row == [claims[c] EXCEPT !.status = "ADJUSTER_ASSIGNED", !.assignConfirmed = p]
  <2>1. Update(c, row) /\ UNCHANGED journal /\ claims[c].status = "ADJUSTER_PENDING"
        /\ p # claims[c].assignProposed
    BY <1>4 DEF ConfirmAdjuster
  <2>2. c \in Filed
    BY <2>1 DEF Filed
  <2>3. row \in Claim
    BY <1>2, <2>2 DEF Claim, ClaimStatuses, Someone
  <2>4. row.status = "ADJUSTER_ASSIGNED" /\ row.policy = claims[c].policy
        /\ row.claimed = claims[c].claimed /\ row.settled = claims[c].settled
        /\ row.assignConfirmed = p /\ row.assignProposed = claims[c].assignProposed
    BY <1>2, <2>2 DEF Claim
  <2> HIDE DEF row
  <2>5. RowOK(c, row, documented, journal')
    BY <1>2, <2>1, <2>2, <2>4, NamesAssumption DEF RowOK, Evidenced, ClaimStatuses
  <2> QED
    BY <2>1, <2>2, <2>3, <2>4, <2>5, UpdateStep
<1>5. ASSUME NEW p \in Principals, NEW amount \in Amounts, ProposeSettlement(c, amount, p)
      PROVE  IndInv'
  <2> DEFINE row == [claims[c] EXCEPT !.status = "SETTLEMENT_PENDING", !.settled = amount,
                                      !.settleProposed = p]
  <2>1. Update(c, row) /\ UNCHANGED journal /\ claims[c].status = "ADJUSTER_ASSIGNED"
        /\ p = claims[c].adjuster /\ amount <= claims[c].claimed
    BY <1>5 DEF ProposeSettlement
  <2>2. c \in Filed
    BY <2>1 DEF Filed
  <2>3. row \in Claim
    BY <1>2, <2>2 DEF Claim, ClaimStatuses, Someone
  <2>4. row.status = "SETTLEMENT_PENDING" /\ row.policy = claims[c].policy
        /\ row.claimed = claims[c].claimed /\ row.settled = amount
        /\ row.settleProposed = p /\ row.adjuster = claims[c].adjuster
        /\ row.assignConfirmed = claims[c].assignConfirmed
        /\ row.assignProposed = claims[c].assignProposed
    BY <1>2, <2>2 DEF Claim
  <2> HIDE DEF row
  <2>5. RowOK(c, row, documented, journal')
    BY <1>2, <2>1, <2>2, <2>4 DEF RowOK, Evidenced, ClaimStatuses, Staffed
  <2> QED
    BY <2>1, <2>2, <2>3, <2>4, <2>5, UpdateStep
<1>6. ASSUME NEW p \in Principals, ApproveSettlement(c, p) PROVE IndInv'
  <2> DEFINE row == [claims[c] EXCEPT !.status = "SETTLED", !.settleApproved = p]
  <2>1. /\ Update(c, row) /\ claims[c].status = "SETTLEMENT_PENDING"
        /\ policies[claims[c].policy].paid /\ Unposted(c)
        /\ journal' = journal \cup {Posting(c, claims[c].settled)}
    BY <1>6 DEF ApproveSettlement, Posting
  <2>2. c \in Filed
    BY <2>1 DEF Filed
  <2>3. row \in Claim
    BY <1>2, <2>2 DEF Claim, ClaimStatuses, Someone
  <2>4. row.status = "SETTLED" /\ row.policy = claims[c].policy
        /\ row.claimed = claims[c].claimed /\ row.settled = claims[c].settled
    BY <1>2, <2>2 DEF Claim
  <2>5. claims[c].settled \in Amounts
    BY <1>2, <2>1, <2>2 DEF RowOK
  <2> HIDE DEF row
  <2>6. RowOK(c, row, documented, journal')
    BY <1>2, <2>1, <2>2, <2>4 DEF RowOK, Evidenced, ClaimStatuses, Staffed
  <2> QED
    BY <2>1, <2>2, <2>3, <2>4, <2>5, <2>6, UpdateStep
<1>7. CASE RejectClaim(c)
  <2> DEFINE row == [claims[c] EXCEPT !.status = "REJECTED"]
  <2>1. Update(c, row) /\ UNCHANGED journal /\ claims[c].status # "NONE"
    BY <1>7 DEF RejectClaim
  <2>2. c \in Filed
    BY <2>1 DEF Filed
  <2>3. row \in Claim
    BY <1>2, <2>2 DEF Claim, ClaimStatuses
  <2>4. row.status = "REJECTED" /\ row.policy = claims[c].policy
        /\ row.claimed = claims[c].claimed /\ row.settled = claims[c].settled
    BY <1>2, <2>2 DEF Claim
  <2> HIDE DEF row
  <2>5. RowOK(c, row, documented, journal')
    BY <1>2, <2>1, <2>2, <2>4 DEF RowOK, Evidenced, Staffed
  <2> QED
    BY <2>1, <2>2, <2>3, <2>4, <2>5, UpdateStep
<1>8. CASE LoadDocument(c)
  <2>1. /\ attaching' = attaching \cup {[claim |-> c, seen |-> claims[c].status]}
        /\ claims[c].status \in {"FNOL", "UNDER_REVIEW"}
        /\ UNCHANGED <<policies, claims, documented, journal, receipts, filing, paying, overwritten>>
    BY <1>8 DEF LoadDocument
  <2>2. c \in Filed
    BY <2>1 DEF Filed
  <2> QED
    BY <2>1, <2>2, StillStep DEF IndInv, TypeOK, RequestsOK
<1> QED
  BY <1>3, <1>4, <1>5, <1>6, <1>7, <1>8 DEF ReviewNext

LEMMA PayoutSteps ==
  ASSUME IndInv, PayoutNext
  PROVE  IndInv'
<1> TypeOK
  BY DEF IndInv
<1>1. ASSUME NEW ref \in References, NEW amount \in Amounts, QuarantineUnknown(ref, amount)
      PROVE  IndInv'
  <2> DEFINE row == Row(ref, Unknown, amount, "QUARANTINED")
  <2>1. row \in Receipt /\ row.status = "QUARANTINED"
    BY DEF Row, Receipt
  <2>2. receipts' = receipts \cup {row}
        /\ UNCHANGED <<policies, claims, documented, journal, inflight, overwritten>>
    BY <1>1 DEF QuarantineUnknown
  <2> HIDE DEF row
  <2> QED
    BY <2>1, <2>2, StillStep DEF IndInv, TypeOK, RequestsOK, inflight
<1>2. ASSUME NEW ref \in References, NEW c \in ClaimIds, NEW amount \in Amounts,
             NEW inNaira \in BOOLEAN, LoadPayout(ref, c, amount, inNaira)
      PROVE  IndInv'
  <2> DEFINE row == Row(ref, c, amount, IF inNaira /\ amount = claims[c].settled
                                        THEN "APPLIED" ELSE "QUARANTINED")
  <2>1. /\ paying' = paying \cup {row} /\ claims[c].status = "SETTLED"
        /\ UNCHANGED <<policies, claims, documented, journal, receipts, filing, attaching, overwritten>>
    BY <1>2 DEF LoadPayout
  <2>2. c \in Filed /\ c \in documented /\ Posting(c, claims[c].settled) \in journal
    BY <2>1 DEF Filed, IndInv, RowsOK, RowOK, Evidenced, ClaimStatuses
  <2>3. /\ row \in Receipt /\ row.claim = c /\ row.amount = amount
        /\ row.status = "APPLIED" => amount = claims[c].settled
    BY DEF Row, Receipt
  <2> HIDE DEF row
  <2> QED
    BY <2>1, <2>2, <2>3, StillStep DEF IndInv, TypeOK, RequestsOK
<1>3. ASSUME NEW r \in paying, RecordPayout(r) PROVE IndInv'
  <2>1. /\ r \in Receipt /\ r.claim \in Filed /\ r.claim \in ClaimIds /\ r.claim \in documented
        /\ claims[r.claim] \in Claim
        /\ RowOK(r.claim, claims[r.claim], documented, journal)
    BY FiledRows DEF IndInv, RequestsOK, RowsOK, TypeOK
  <2>2. /\ receipts' = receipts \cup {r} /\ paying' \subseteq paying
        /\ UNCHANGED <<policies, documented, journal, filing, attaching>>
        /\ overwritten' \subseteq overwritten \cup {r.claim}
        /\ r.status # "APPLIED" => UNCHANGED <<claims, overwritten>>
        /\ r.status = "APPLIED" => claims' = [claims EXCEPT ![r.claim].status = "PAID"]
    BY <1>3 DEF RecordPayout
  <2>3. CASE r.status = "APPLIED"
    <3> DEFINE row == [claims[r.claim] EXCEPT !.status = "PAID"]
    <3>1. row \in Claim
      BY <2>1 DEF Claim, ClaimStatuses
    <3>2. row.status = "PAID" /\ row.policy = claims[r.claim].policy
          /\ row.claimed = claims[r.claim].claimed /\ row.settled = claims[r.claim].settled
      BY <2>1 DEF Claim
    <3>3. claims' = [claims EXCEPT ![r.claim] = row]
      BY <2>2, <2>3
    <3> HIDE DEF row
    <3>4. RowOK(r.claim, row, documented, journal)
      BY <2>1, <3>2 DEF RowOK, Staffed
    <3> QED
      BY <2>1, <2>2, <3>1, <3>2, <3>3, <3>4, RowStep DEF TypeOK
  <2>4. CASE r.status # "APPLIED"
    BY <2>1, <2>2, <2>4, StillStep DEF IndInv, TypeOK, RequestsOK
  <2> QED
    BY <2>3, <2>4
<1>4. ASSUME NEW r \in paying, Abandon({}, {}, {r}) PROVE IndInv'
  <2>1. filing' = filing /\ attaching' = attaching /\ paying' \subseteq paying
        /\ UNCHANGED <<policies, claims, documented, journal, receipts, overwritten>>
    BY <1>4 DEF Abandon
  <2> QED
    BY <2>1, StillStep DEF IndInv, TypeOK, RequestsOK
<1> QED
  BY <1>1, <1>2, <1>3, <1>4 DEF PayoutNext

LEMMA IndInvStep == IndInv /\ [Next]_vars => IndInv'
<1> SUFFICES ASSUME IndInv, [Next]_vars PROVE IndInv'
  OBVIOUS
<1>1. ASSUME NEW a \in attaching, Abandon({}, {a}, {}) PROVE IndInv'
  <2>1. filing' = filing /\ attaching' \subseteq attaching /\ paying' = paying
        /\ UNCHANGED <<policies, claims, documented, journal, receipts, overwritten>>
    BY <1>1 DEF Abandon
  <2> QED
    BY <2>1, StillStep DEF IndInv, TypeOK, RequestsOK
<1>2. CASE UNCHANGED vars
  BY <1>2, StillStep DEF IndInv, TypeOK, RequestsOK, vars, inflight
<1> QED
  BY <1>1, <1>2, PolicySteps, FnolSteps, ReviewSteps, DocumentSteps, PayoutSteps DEF Next

LEMMA Inductive == Spec => []IndInv
BY InitOK, IndInvStep, PTL DEF Spec

-----------------------------------------------------------------------------
(* Types and money.                                                        *)

\* Rows, requests, journals and receipts have their types in every state.
THEOREM TypeCorrect == Spec => []TypeOK
<1>1. IndInv => TypeOK
  BY DEF IndInv
<1> QED
  BY <1>1, Inductive, PTL

\* A receipt record_payout_receipt has applied is for an amount approve_settlement
\* posted for that claim, whatever became of the row in between.
THEOREM PayoutsWerePosted == Spec => []PayoutMatchesJournal
<1>1. IndInv => PayoutMatchesJournal
  BY DEF IndInv
<1> QED
  BY <1>1, Inductive, PTL

\* approve_settlement posts once for a claim, never before the premium came in, and
\* never more than was claimed.
THEOREM SettlementsAreCovered == Spec => []SettlementsCovered
<1>1. IndInv => SettlementsCovered
  BY DEF IndInv
<1> QED
  BY <1>1, Inductive, PTL

-----------------------------------------------------------------------------
(* Who posts.                                                              *)

\* approve_settlement is the only handler that posts a settlement.
LEMMA OnlyApprovalPosts ==
  ASSUME [Next]_vars
  PROVE  \/ UNCHANGED journal
         \/ \E c \in ClaimIds, p \in Principals : ApproveSettlement(c, p)
<1>1. PolicyNext => UNCHANGED journal
  BY DEF PolicyNext, PolicyMoves, SetPolicy, PremiumReceived
<1>2. FnolNext => UNCHANGED journal
  BY DEF FnolNext, LoadFnol, FileFnol, Abandon
<1>3. ASSUME NEW c \in ClaimIds, ReviewNext(c)
      PROVE  UNCHANGED journal \/ \E p \in Principals : ApproveSettlement(c, p)
  BY <1>3 DEF ReviewNext, ProposeAdjuster, ConfirmAdjuster, ProposeSettlement, LoadDocument,
              RejectClaim
<1>4. ASSUME NEW a \in attaching, AttachDocument(a) \/ Abandon({}, {a}, {})
      PROVE  UNCHANGED journal
  BY <1>4 DEF AttachDocument, Abandon
<1>5. PayoutNext => UNCHANGED journal
  BY DEF PayoutNext, QuarantineUnknown, LoadPayout, RecordPayout, Abandon
<1> QED
  BY <1>1, <1>2, <1>3, <1>4, <1>5 DEF Next, vars

\* Money leaves on evidence and through two pairs of principals: a confirmed adjuster
\* proposed the settlement, and someone else approved it.
THEOREM TwoPairsPost == Spec => PostedByTwoPairs
<1> DEFINE Posted(c) ==
      (\E j \in journal' \ journal : j.claim = c) =>
        /\ c \in documented
        /\ claims[c].assignConfirmed \notin {NoOne, claims[c].assignProposed}
        /\ claims[c].settleProposed = claims[c].adjuster
        /\ claims'[c].settleApproved \notin {NoOne, claims[c].settleProposed}
<1>1. IndInv /\ [Next]_vars => \A c \in ClaimIds : Posted(c)
  <2> SUFFICES ASSUME IndInv, [Next]_vars, NEW c \in ClaimIds,
                      NEW j \in journal' \ journal, j.claim = c
               PROVE  /\ c \in documented
                      /\ claims[c].assignConfirmed \notin {NoOne, claims[c].assignProposed}
                      /\ claims[c].settleProposed = claims[c].adjuster
                      /\ claims'[c].settleApproved \notin {NoOne, claims[c].settleProposed}
    OBVIOUS
  <2>1. PICK d \in ClaimIds, p \in Principals : ApproveSettlement(d, p)
    BY OnlyApprovalPosts
  <2>2. d = c
    BY <2>1 DEF ApproveSettlement
  <2>3. /\ claims[c].status = "SETTLEMENT_PENDING" /\ p # claims[c].settleProposed
        /\ claims' = [claims EXCEPT ![c] = [claims[c] EXCEPT !.status = "SETTLED",
                                                             !.settleApproved = p]]
    BY <2>1, <2>2 DEF ApproveSettlement, Update
  <2>4. c \in Filed /\ claims[c] \in Claim /\ RowOK(c, claims[c], documented, journal)
    BY <2>3, FiledRows DEF Filed, IndInv, RowsOK
  <2>5. claims'[c].settleApproved = p
    BY <2>3, <2>4 DEF IndInv, TypeOK, Claim
  <2> QED
    BY <2>3, <2>4, <2>5, NamesAssumption DEF RowOK, Evidenced, Staffed, ClaimStatuses
<1> QED
  BY <1>1, Inductive, PTL DEF Spec, PostedByTwoPairs

-----------------------------------------------------------------------------
(* The life of a claim that no stale write has hit.                        *)

Posts(c)   == {j \in journal : j.claim = c}
Applied(c) == {r \in receipts : r.claim = c /\ r.status = "APPLIED"}

\* What a step does to claim c: nothing, one of the moves that no money goes with, its
\* settlement, or its payout.
MoneyStill(c) == Posts(c)' = Posts(c) /\ Applied(c)' = Applied(c)

MoneylessMove(from, to) ==
  \/ from = "NONE" /\ to = "FNOL"
  \/ from = "FNOL" /\ to = "UNDER_REVIEW"
  \/ from = "UNDER_REVIEW" /\ to = "ADJUSTER_PENDING"
  \/ from = "ADJUSTER_PENDING" /\ to = "ADJUSTER_ASSIGNED"
  \/ from = "ADJUSTER_ASSIGNED" /\ to = "SETTLEMENT_PENDING"
  \/ from \in ClaimStatuses \ {"SETTLED", "PAID", "REJECTED"} /\ to = "REJECTED"

Move(c) ==
  \/ claims'[c] = claims[c] /\ MoneyStill(c)
  \/ MoneylessMove(claims[c].status, claims'[c].status) /\ MoneyStill(c)
  \/ /\ claims[c].status = "SETTLEMENT_PENDING" /\ claims'[c].status = "SETTLED"
     /\ Posts(c)' = Posts(c) \cup {Posting(c, claims'[c].settled)} /\ Applied(c)' = Applied(c)
  \/ /\ claims[c].status = "SETTLED" /\ claims'[c].status = "PAID"
     /\ claims'[c].settled = claims[c].settled
     /\ Posts(c)' = Posts(c) /\ \E r : Applied(c)' = Applied(c) \cup {r}

\* What row, journal and receipts say of claim c.
StoryOf(c) ==
  /\ Posts(c) = IF claims[c].status \in {"SETTLED", "PAID"}
                THEN {Posting(c, claims[c].settled)} ELSE {}
  /\ IF claims[c].status = "PAID" THEN \E r : Applied(c) = {r} ELSE Applied(c) = {}

\* A step that leaves the row, the journal and the receipts of a claim alone.
LEMMA NoMove ==
  ASSUME NEW c, UNCHANGED <<claims, journal, receipts>>
  PROVE  Move(c)
BY DEF Move, MoneyStill, Posts, Applied

\* The UPDATE of a locked row, seen from each claim.
LEMMA UpdateMoves ==
  ASSUME IndInv, NEW d \in Filed, NEW row, Update(d, row), UNCHANGED journal,
         MoneylessMove(claims[d].status, row.status), NEW c \in ClaimIds
  PROVE  Move(c)
<1>1. claims'[c] = IF c = d THEN row ELSE claims[c]
  BY DEF Update, IndInv, TypeOK
<1>2. MoneyStill(c)
  BY DEF MoneyStill, Posts, Applied, Update
<1> QED
  BY <1>1, <1>2 DEF Move

LEMMA ReviewMoves ==
  ASSUME IndInv, NEW d \in ClaimIds, ReviewNext(d), NEW c \in ClaimIds
  PROVE  Move(c)
<1>1. d \in Filed => claims[d] \in Claim
  BY FiledRows DEF IndInv
<1>2. ASSUME NEW p \in Principals, NEW adjuster \in Principals, ProposeAdjuster(d, adjuster, p)
      PROVE  Move(c)
  BY <1>1, <1>2, UpdateMoves DEF ProposeAdjuster, MoneylessMove, Filed, Claim
<1>3. ASSUME NEW p \in Principals, ConfirmAdjuster(d, p) PROVE Move(c)
  BY <1>1, <1>3, UpdateMoves DEF ConfirmAdjuster, MoneylessMove, Filed, Claim
<1>4. ASSUME NEW p \in Principals, NEW amount \in Amounts, ProposeSettlement(d, amount, p)
      PROVE  Move(c)
  BY <1>1, <1>4, UpdateMoves DEF ProposeSettlement, MoneylessMove, Filed, Claim
<1>5. CASE RejectClaim(d)
  BY <1>1, <1>5, UpdateMoves DEF RejectClaim, MoneylessMove, Filed, Claim
<1>6. CASE LoadDocument(d)
  BY <1>6, NoMove DEF LoadDocument
<1>7. ASSUME NEW p \in Principals, ApproveSettlement(d, p) PROVE Move(c)
  <2> DEFINE row == [claims[d] EXCEPT !.status = "SETTLED", !.settleApproved = p]
  <2>1. /\ claims[d].status = "SETTLEMENT_PENDING"
        /\ claims' = [claims EXCEPT ![d] = row] /\ UNCHANGED receipts
        /\ journal' = journal \cup {Posting(d, claims[d].settled)}
    BY <1>7 DEF ApproveSettlement, Update, Posting
  <2>2. row.status = "SETTLED" /\ row.settled = claims[d].settled
    BY <1>1, <2>1 DEF Filed, Claim
  <2>3. claims'[c] = IF c = d THEN row ELSE claims[c]
    BY <2>1 DEF IndInv, TypeOK
  <2> HIDE DEF row
  <2>4. Applied(c)' = Applied(c)
    BY <2>1 DEF Applied
  <2>5. Posts(c)' = IF c = d THEN Posts(c) \cup {Posting(d, claims[d].settled)} ELSE Posts(c)
    BY <2>1 DEF Posts, Posting
  <2> QED
    BY <2>1, <2>2, <2>3, <2>4, <2>5 DEF Move, MoneyStill
<1> QED
  BY <1>2, <1>3, <1>4, <1>5, <1>6, <1>7 DEF ReviewNext

LEMMA FnolMoves ==
  ASSUME IndInv, FnolNext, NEW c \in ClaimIds
  PROVE  Move(c)
<1>1. ASSUME NEW f \in filing, NEW d \in ClaimIds, FileFnol(f, d) PROVE Move(c)
  <2>1. claims[d].status = "NONE" /\ UNCHANGED <<journal, receipts>>
    BY <1>1 DEF FileFnol
  <2>2. \/ claims'[c] = claims[c]
        \/ c = d /\ claims'[c].status = "FNOL"
    BY <1>1 DEF FileFnol, IndInv, TypeOK
  <2> QED
    BY <2>1, <2>2 DEF Move, MoneyStill, MoneylessMove, Posts, Applied
<1>2. CASE \E p \in Policies, amount \in Amounts : LoadFnol(p, amount)
  BY <1>2, NoMove DEF LoadFnol
<1>3. CASE \E f \in filing : Abandon({f}, {}, {})
  BY <1>3, NoMove DEF Abandon
<1> QED
  BY <1>1, <1>2, <1>3 DEF FnolNext

LEMMA DocumentMoves ==
  ASSUME IndInv, NEW a \in attaching, AttachDocument(a), NEW c \in ClaimIds \ overwritten'
  PROVE  Move(c)
<1>1. UNCHANGED <<journal, receipts>> /\ MoneyStill(c)
  BY DEF AttachDocument, MoneyStill, Posts, Applied
<1>2. CASE a.seen = "FNOL" /\ c = a.claim
  <2>1. claims[c].status = "FNOL"
    BY <1>2 DEF AttachDocument
  <2>2. claims[c] \in Claim
    BY <2>1, FiledRows DEF Filed, IndInv
  <2>3. claims'[c].status = "UNDER_REVIEW"
    BY <1>2, <2>2 DEF AttachDocument, IndInv, TypeOK, Claim
  <2> QED
    BY <1>1, <2>1, <2>3 DEF Move, MoneylessMove
<1>3. CASE ~(a.seen = "FNOL" /\ c = a.claim)
  <2>1. claims'[c] = claims[c]
    BY <1>3 DEF AttachDocument, IndInv, TypeOK
  <2> QED
    BY <1>1, <2>1 DEF Move
<1> QED
  BY <1>2, <1>3

LEMMA PayoutMoves ==
  ASSUME IndInv, PayoutNext, NEW c \in ClaimIds \ overwritten'
  PROVE  Move(c)
<1>1. ASSUME NEW ref \in References, NEW amount \in Amounts, QuarantineUnknown(ref, amount)
      PROVE  Move(c)
  <2>1. /\ UNCHANGED <<claims, journal>>
        /\ receipts' = receipts \cup {Row(ref, Unknown, amount, "QUARANTINED")}
    BY <1>1 DEF QuarantineUnknown
  <2> QED
    BY <2>1 DEF Move, MoneyStill, Posts, Applied, Row
<1>2. CASE \E ref \in References, d \in ClaimIds, amount \in Amounts, inNaira \in BOOLEAN :
             LoadPayout(ref, d, amount, inNaira)
  BY <1>2, NoMove DEF LoadPayout
<1>3. ASSUME NEW r \in paying, RecordPayout(r) PROVE Move(c)
  <2>1. /\ UNCHANGED journal /\ Posts(c)' = Posts(c)
        /\ receipts' = receipts \cup {r}
    BY <1>3 DEF RecordPayout, Posts
  <2>2. CASE r.status = "APPLIED" /\ r.claim = c
    <3>1. claims[c].status = "SETTLED"
      BY <1>3, <2>2 DEF RecordPayout
    <3>2. claims[c] \in Claim
      BY <3>1, FiledRows DEF Filed, IndInv
    <3>3. claims'[c] = [claims[c] EXCEPT !.status = "PAID"]
      BY <1>3, <2>2 DEF RecordPayout, IndInv, TypeOK
    <3>4. claims'[c].status = "PAID" /\ claims'[c].settled = claims[c].settled
      BY <3>2, <3>3 DEF Claim
    <3>5. Applied(c)' = Applied(c) \cup {r}
      BY <2>1, <2>2 DEF Applied
    <3> QED
      BY <2>1, <3>1, <3>4, <3>5 DEF Move
  <2>3. CASE ~(r.status = "APPLIED" /\ r.claim = c)
    <3>1. claims'[c] = claims[c]
      BY <1>3, <2>3 DEF RecordPayout, IndInv, TypeOK
    <3>2. Applied(c)' = Applied(c)
      BY <2>1, <2>3 DEF Applied
    <3> QED
      BY <2>1, <3>1, <3>2 DEF Move, MoneyStill
  <2> QED
    BY <2>2, <2>3
<1>4. CASE \E r \in paying : Abandon({}, {}, {r})
  BY <1>4, NoMove DEF Abandon
<1> QED
  BY <1>1, <1>2, <1>3, <1>4 DEF PayoutNext

LEMMA OverwrittenGrows ==
  ASSUME [Next]_vars
  PROVE  overwritten \subseteq overwritten'
<1>1. PolicyNext \/ FnolNext => UNCHANGED overwritten
  BY DEF PolicyNext, PolicyMoves, SetPolicy, PremiumReceived, FnolNext, LoadFnol, FileFnol, Abandon
<1>2. ASSUME NEW c \in ClaimIds, ReviewNext(c) PROVE UNCHANGED overwritten
  BY <1>2 DEF ReviewNext, ProposeAdjuster, ConfirmAdjuster, ProposeSettlement, ApproveSettlement,
              LoadDocument, RejectClaim, Update
<1>3. ASSUME NEW a \in attaching, AttachDocument(a) \/ Abandon({}, {a}, {})
      PROVE  overwritten \subseteq overwritten'
  BY <1>3 DEF AttachDocument, Abandon
<1>4. PayoutNext => overwritten \subseteq overwritten'
  BY DEF PayoutNext, QuarantineUnknown, LoadPayout, RecordPayout, Abandon
<1> QED
  BY <1>1, <1>2, <1>3, <1>4 DEF Next, vars

\* Whatever handler takes the step, a claim it does not overwrite makes a legal move.
LEMMA EveryStepMoves ==
  ASSUME IndInv, [Next]_vars, NEW c \in ClaimIds \ overwritten'
  PROVE  Move(c)
<1>1. CASE PolicyNext
  BY <1>1, NoMove DEF PolicyNext, PolicyMoves, SetPolicy, PremiumReceived
<1>2. CASE \E a \in attaching : Abandon({}, {a}, {})
  BY <1>2, NoMove DEF Abandon
<1>3. CASE UNCHANGED vars
  BY <1>3, NoMove DEF vars
<1> QED
  BY <1>1, <1>2, <1>3, FnolMoves, ReviewMoves, DocumentMoves, PayoutMoves DEF Next

\* No request that overlaps others takes a claim it does not overwrite back, past a
\* stage, or out of REJECTED and PAID.
THEOREM StagesInOrder == Spec => StageByStage
<1> DEFINE Staged(c) ==
      LET from == claims[c].status
          to == claims'[c].status
      IN  \/ to = from
          \/ Stage[to] = Stage[from] + 1 /\ to # "REJECTED"
          \/ to = "REJECTED" /\ Stage[from] \in 1 .. 5
<1>1. /\ Stage["NONE"] = 0 /\ Stage["FNOL"] = 1 /\ Stage["UNDER_REVIEW"] = 2
      /\ Stage["ADJUSTER_PENDING"] = 3 /\ Stage["ADJUSTER_ASSIGNED"] = 4
      /\ Stage["SETTLEMENT_PENDING"] = 5 /\ Stage["SETTLED"] = 6 /\ Stage["PAID"] = 7
  BY DEF Stage, ClaimStatuses
<1>2. IndInv /\ [Next]_vars => \A c \in ClaimIds \ overwritten' : Staged(c)
  <2> SUFFICES ASSUME IndInv, [Next]_vars, NEW c \in ClaimIds \ overwritten' PROVE Staged(c)
    OBVIOUS
  <2>1. Move(c)
    BY EveryStepMoves
  <2>2. CASE MoneylessMove(claims[c].status, claims'[c].status)
    BY <1>1, <2>2 DEF MoneylessMove, ClaimStatuses
  <2>3. CASE ~MoneylessMove(claims[c].status, claims'[c].status)
    BY <1>1, <2>1, <2>3 DEF Move
  <2> QED
    BY <2>2, <2>3
<1> QED
  BY <1>2, Inductive, PTL DEF Spec, StageByStage

Story == \A c \in Filed \ overwritten : StoryOf(c)

LEMMA StoryStep ==
  ASSUME IndInv, IndInv', Story, [Next]_vars
  PROVE  Story'
<1> SUFFICES ASSUME NEW c \in (Filed \ overwritten)' PROVE StoryOf(c)'
  BY DEF Story
<1>1. c \in ClaimIds \ overwritten' /\ c \notin overwritten /\ claims'[c].status # "NONE"
  BY OverwrittenGrows DEF Filed
<1>2. Move(c)
  BY <1>1, EveryStepMoves
<1>3. CASE c \in Filed
  <2>1. StoryOf(c)
    BY <1>1, <1>3 DEF Story
  <2> QED
    BY <1>2, <2>1 DEF StoryOf, Move, MoneyStill, MoneylessMove, ClaimStatuses
<1>4. CASE c \notin Filed
  <2>1. claims[c].status = "NONE"
    BY <1>1, <1>4 DEF Filed
  <2>2. Posts(c) = {} /\ Applied(c) = {}
    BY <1>4 DEF Posts, Applied, IndInv, PayoutMatchesJournal
  <2>3. claims'[c].status = "FNOL" /\ MoneyStill(c)
    BY <1>1, <1>2, <2>1 DEF Move, MoneylessMove, ClaimStatuses
  <2> QED
    BY <2>2, <2>3 DEF StoryOf, MoneyStill
<1> QED
  BY <1>3, <1>4

\* The claim's row, the journal and the receipts agree on every claim no stale write
\* has hit: posted exactly when SETTLED or PAID, paid out once exactly when PAID.
THEOREM RecordsAgree == Spec => []OneStory
<1>1. Init => Story
  BY DEF Init, Story, Filed, NoClaim
<1>2. IndInv /\ Story => OneStory
  <2> SUFFICES ASSUME Story, NEW c \in Filed \ overwritten
               PROVE  /\ claims[c].status \in {"SETTLED", "PAID"}
                           <=> [claim |-> c, amount |-> claims[c].settled] \in journal
                      /\ claims[c].status \notin {"SETTLED", "PAID"} => Unposted(c)
                      /\ Cardinality({r \in receipts : r.claim = c /\ r.status = "APPLIED"})
                           = IF claims[c].status = "PAID" THEN 1 ELSE 0
    BY DEF OneStory
  <2>1. StoryOf(c)
    BY DEF Story
  <2>2. Cardinality(Applied(c)) = IF claims[c].status = "PAID" THEN 1 ELSE 0
    BY <2>1, FS_Singleton, FS_EmptySet DEF StoryOf
  <2> QED
    BY <2>1, <2>2 DEF StoryOf, Posts, Posting, Applied, Unposted
<1> QED
  BY <1>1, <1>2, Inductive, StoryStep, PTL DEF Spec

-----------------------------------------------------------------------------
(* The aggregate cap.                                                      *)

Open(p) == {c \in Filed : claims[c].policy = p /\ claims[c].status # "REJECTED"}

Claimed == [c \in Filed |-> claims[c].claimed]

CapInv == IsFiniteSet(Filed) /\ overwritten \subseteq Filed /\ AggregateCap

AddsUp(p) == /\ Aggregate(p) = Sum(Claimed, Open(p))
             /\ IsFiniteSet(Open(p)) /\ \A c \in Filed : Claimed[c] \in Nat

\* The query of file_fnol adds up what is claimed by the open claims.
LEMMA AggregateIsSum == TypeOK /\ IsFiniteSet(Filed) => \A p \in Policies : AddsUp(p)
<1> SUFFICES ASSUME TypeOK, IsFiniteSet(Filed), NEW p \in Policies PROVE AddsUp(p)
  OBVIOUS
<1> DEFINE S == Open(p)
           f == Claimed
           pick == [s \in SUBSET S |-> CHOOSE c \in s : TRUE]
           Solves(it) == it = [s \in SUBSET S |->
                                 IF s = {} THEN 0
                                 ELSE LET c == CHOOSE c \in s : TRUE
                                      IN  claims[c].claimed + it[s \ {c}]]
           sums == CHOOSE it : Solves(it)
<1>1. Aggregate(p) = sums[S]
  BY DEF Aggregate, Open, MapThenSumSet, MapThenFoldSet
<1>2. \A c \in Filed : f[c] \in Nat /\ f[c] = claims[c].claimed
  BY FiledRows, MoneyAssumption DEF Claimed, Claim
<1>3. IsFiniteSet(S) /\ S \subseteq Filed
  BY FS_Subset DEF Open
<1>4. Whole(f, S)
  BY <1>2, <1>3 DEF Whole
<1>5. \A s \in SUBSET S : s # {} => pick[s] \in s /\ pick[s] = CHOOSE c \in s : TRUE
  OBVIOUS
<1>6. \A it : Solves(it) <=> SumFirst(it, f, pick, S)
  <2> DEFINE One(it, s) == IF s = {} THEN 0
                           ELSE LET c == CHOOSE c \in s : TRUE
                                IN  claims[c].claimed + it[s \ {c}]
             Two(it, s) == IF s = {} THEN 0 ELSE f[pick[s]] + it[s \ {pick[s]}]
  <2>1. ASSUME NEW it, NEW s \in SUBSET S PROVE One(it, s) = Two(it, s)
    <3> DEFINE first == CHOOSE c \in s : TRUE
    <3> SUFFICES ASSUME s # {} PROVE One(it, s) = Two(it, s)
      OBVIOUS
    <3>1. pick[s] = first /\ first \in Filed
      BY <1>3, <1>5
    <3>2. f[first] = claims[first].claimed
      BY <1>2, <3>1
    <3> HIDE DEF S, f, pick
    <3> QED
      BY <3>1, <3>2
  <2>2. \A it : [s \in SUBSET S |-> One(it, s)] = [s \in SUBSET S |-> Two(it, s)]
    <3> HIDE DEF One, Two, S
    <3> QED
      BY <2>1
  <2> QED
    BY <2>2 DEF SumFirst
<1> HIDE DEF S, f, pick, Solves
<1>7. (\E it : SumFirst(it, f, pick, S)) => SumFirst(sums, f, pick, S)
  BY <1>6
<1> HIDE DEF sums
<1>8. sums[S] = Sum(f, S)
  BY <1>3, <1>4, <1>5, <1>7, FoldIsSum
<1> QED
  BY <1>1, <1>2, <1>3, <1>8 DEF S, f, AddsUp

LEMMA AggregateIsSumNext == (TypeOK /\ IsFiniteSet(Filed) => \A p \in Policies : AddsUp(p))'
  BY AggregateIsSum, PTL

\* No handler but file_fnol files a claim, and none changes its policy or its amount.
LEMMA FilingsKept ==
  ASSUME IndInv, [Next]_vars
  PROVE  \/ \E f \in filing, c \in ClaimIds : FileFnol(f, c)
         \/ /\ Filed' = Filed
            /\ \A c \in Filed : claims'[c].policy = claims[c].policy
                                /\ claims'[c].claimed = claims[c].claimed
<1> DEFINE Kept == \A c \in ClaimIds :
                     \/ claims'[c] = claims[c]
                     \/ /\ c \in Filed /\ claims'[c].status # "NONE"
                        /\ claims'[c].policy = claims[c].policy
                        /\ claims'[c].claimed = claims[c].claimed
<1>1. \A c \in ClaimIds : c \in Filed <=> claims[c].status # "NONE"
  BY DEF Filed
<1>2. ASSUME NEW d \in Filed, NEW row, claims' = [claims EXCEPT ![d] = row],
             row.status # "NONE", row.policy = claims[d].policy, row.claimed = claims[d].claimed
      PROVE  Kept
  BY <1>2 DEF IndInv, TypeOK
<1>3. \A c \in Filed : claims[c] \in Claim /\ c \in ClaimIds
  BY FiledRows DEF IndInv
<1>4. UNCHANGED claims => Kept
  OBVIOUS
<1> HIDE DEF Kept
<1>5. PolicyNext \/ UNCHANGED vars => Kept
  BY <1>4 DEF PolicyNext, PolicyMoves, SetPolicy, PremiumReceived, vars
<1>6. FnolNext => Kept \/ \E f \in filing, c \in ClaimIds : FileFnol(f, c)
  BY <1>4 DEF FnolNext, LoadFnol, Abandon
<1>7. ASSUME NEW d \in ClaimIds, ReviewNext(d) PROVE Kept
  <2>1. ASSUME NEW row, Update(d, row), d \in Filed, row.status # "NONE",
               row.policy = claims[d].policy, row.claimed = claims[d].claimed
        PROVE  Kept
    BY <1>2, <2>1 DEF Update
  <2>2. ASSUME NEW p \in Principals, NEW adjuster \in Principals, ProposeAdjuster(d, adjuster, p)
        PROVE  Kept
    BY <1>1, <1>3, <2>1, <2>2 DEF ProposeAdjuster, Claim
  <2>3. ASSUME NEW p \in Principals, ConfirmAdjuster(d, p) PROVE Kept
    BY <1>1, <1>3, <2>1, <2>3 DEF ConfirmAdjuster, Claim
  <2>4. ASSUME NEW p \in Principals, NEW amount \in Amounts, ProposeSettlement(d, amount, p)
        PROVE  Kept
    BY <1>1, <1>3, <2>1, <2>4 DEF ProposeSettlement, Claim
  <2>5. ASSUME NEW p \in Principals, ApproveSettlement(d, p) PROVE Kept
    BY <1>1, <1>3, <2>1, <2>5 DEF ApproveSettlement, Claim
  <2>6. CASE RejectClaim(d)
    BY <1>1, <1>3, <2>1, <2>6 DEF RejectClaim, Claim
  <2>7. CASE LoadDocument(d)
    BY <1>4, <2>7 DEF LoadDocument
  <2> QED
    BY <1>7, <2>2, <2>3, <2>4, <2>5, <2>6, <2>7 DEF ReviewNext
<1>8. ASSUME NEW a \in attaching, AttachDocument(a) \/ Abandon({}, {a}, {}) PROVE Kept
  <2>1. a.claim \in Filed /\ claims[a.claim] \in Claim
    BY <1>3 DEF IndInv, RequestsOK
  <2>2. \/ UNCHANGED claims
        \/ claims' = [claims EXCEPT ![a.claim] = [claims[a.claim] EXCEPT !.status = "UNDER_REVIEW"]]
    BY <1>8 DEF AttachDocument, Abandon
  <2> QED
    BY <1>2, <1>4, <2>1, <2>2 DEF Claim
<1>9. PayoutNext => Kept
  <2>1. ASSUME NEW r \in paying, RecordPayout(r) PROVE Kept
    <3>1. r.claim \in Filed /\ claims[r.claim] \in Claim
      BY <1>3 DEF IndInv, RequestsOK
    <3>2. \/ UNCHANGED claims
          \/ claims' = [claims EXCEPT ![r.claim] = [claims[r.claim] EXCEPT !.status = "PAID"]]
      BY <2>1 DEF RecordPayout
    <3> QED
      BY <1>2, <1>4, <3>1, <3>2 DEF Claim
  <2> QED
    BY <1>4, <2>1 DEF PayoutNext, QuarantineUnknown, LoadPayout, Abandon
<1>10. Kept \/ \E f \in filing, c \in ClaimIds : FileFnol(f, c)
  BY <1>5, <1>6, <1>7, <1>8, <1>9 DEF Next
<1> QED
  BY <1>1, <1>3, <1>10 DEF Kept, Filed

\* Filing checks the cap with the claim that it adds.
LEMMA CapAtFiling ==
  ASSUME IndInv, IndInv', CapInv, NEW f \in filing, NEW d \in ClaimIds, FileFnol(f, d)
  PROVE  CapInv'
<1> TypeOK /\ TypeOK' /\ IsFiniteSet(Filed)
  BY DEF IndInv, CapInv
<1>1. f.policy \in Policies /\ f.amount \in Nat /\ d \notin Filed
  BY MoneyAssumption DEF FileFnol, Filed, TypeOK
<1>2. /\ claims'[d].policy = f.policy /\ claims'[d].claimed = f.amount /\ claims'[d].status = "FNOL"
      /\ \A c \in ClaimIds \ {d} : claims'[c] = claims[c]
      /\ UNCHANGED overwritten
  BY DEF FileFnol, TypeOK
<1>3. Filed' = Filed \cup {d}
  BY <1>2 DEF Filed
<1>4. IsFiniteSet(Filed)' /\ (overwritten \subseteq Filed)'
  BY <1>2, <1>3, FS_AddElement DEF CapInv
<1>5. ASSUME NEW p \in Policies, \A c \in overwritten' : claims'[c].policy # p
      PROVE  Aggregate(p)' <= InsuredValue[p]
  <2>1. /\ Aggregate(p) = Sum(Claimed, Open(p)) /\ IsFiniteSet(Open(p))
        /\ \A c \in Filed : Claimed[c] \in Nat
    BY AggregateIsSum DEF AddsUp
  <2>2. /\ Aggregate(p)' = Sum(Claimed', Open(p)') /\ IsFiniteSet(Open(p)')
        /\ \A c \in Filed' : Claimed'[c] \in Nat
    BY <1>4, AggregateIsSumNext DEF AddsUp
  <2>3. Open(p)' = IF p = f.policy THEN Open(p) \cup {d} ELSE Open(p)
    BY <1>1, <1>2, <1>3 DEF Open, Filed
  <2>4. /\ Open(p) \subseteq Filed /\ d \notin Open(p)
        /\ \A c \in Open(p) : Claimed'[c] = Claimed[c]
        /\ Claimed'[d] = f.amount
    BY <1>1, <1>2, <1>3 DEF Open, Claimed, Filed
  <2>5. Whole(Claimed, Open(p)) /\ Whole(Claimed', Open(p)) /\ Whole(Claimed', Open(p) \cup {d})
    BY <1>3, <2>1, <2>2, <2>4 DEF Whole
  <2>6. PICK rest \in {Open(p)}, old \in {Claimed}, new \in {Claimed'} : TRUE
    OBVIOUS
  <2>7. Sum(new, rest) = Sum(old, rest)
    BY <2>1, <2>4, <2>5, <2>6, SumSame
  <2>8. CASE p = f.policy
    <3>1. Sum(new, rest \cup {d}) = f.amount + Sum(new, rest)
      <4>1. d \notin rest /\ IsFiniteSet(rest) /\ Whole(new, rest \cup {d}) /\ new[d] = f.amount
        BY <2>1, <2>4, <2>5, <2>6
      <4> QED
        BY <4>1, SumAdd
    <3>2. Aggregate(p) + f.amount <= InsuredValue[p]
      BY <2>8 DEF FileFnol, WithinCap
    <3>3. Aggregate(p)' = f.amount + Aggregate(p)
      BY <2>1, <2>2, <2>3, <2>6, <2>7, <2>8, <3>1
    <3>4. Aggregate(p) \in Int
      BY <2>1, <2>5, SumStep
    <3> QED
      BY <1>1, <3>2, <3>3, <3>4
  <2>9. CASE p # f.policy
    <3>1. Aggregate(p)' = Aggregate(p)
      BY <2>1, <2>2, <2>3, <2>6, <2>7, <2>9
    <3>2. \A c \in overwritten : claims[c].policy # p
      BY <1>1, <1>2, <1>5 DEF CapInv, Filed
    <3> QED
      BY <3>1, <3>2 DEF CapInv, AggregateCap
  <2> QED
    BY <2>8, <2>9
<1> QED
  BY <1>4, <1>5 DEF CapInv, AggregateCap

\* No other step adds to what is open on a policy none of whose claims is overwritten.
LEMMA CapKept ==
  ASSUME IndInv, IndInv', CapInv, [Next]_vars, Filed' = Filed, overwritten' \subseteq Filed,
         \A c \in Filed : claims'[c].policy = claims[c].policy /\ claims'[c].claimed = claims[c].claimed
  PROVE  CapInv'
<1> TypeOK /\ TypeOK' /\ IsFiniteSet(Filed)
  BY DEF IndInv, CapInv
<1>1. ASSUME NEW p \in Policies, \A c \in overwritten' : claims'[c].policy # p
      PROVE  Aggregate(p)' <= InsuredValue[p]
  <2>1. /\ Aggregate(p) = Sum(Claimed, Open(p)) /\ IsFiniteSet(Open(p))
        /\ \A c \in Filed : Claimed[c] \in Nat
    BY AggregateIsSum DEF AddsUp
  <2>2. Aggregate(p)' = Sum(Claimed', Open(p)') /\ IsFiniteSet(Open(p)')
    BY AggregateIsSumNext DEF AddsUp
  <2>3. Claimed' = Claimed
    BY DEF Claimed
  <2>4. ASSUME NEW c \in Open(p)' PROVE c \in Open(p)
    <3>1. c \in Filed /\ c \in ClaimIds \ overwritten' /\ claims[c].policy = p
          /\ claims'[c].status # "REJECTED"
      BY <1>1 DEF Open, Filed
    <3>2. Move(c)
      BY <3>1, EveryStepMoves
    <3>3. claims[c].status # "REJECTED"
      BY <3>1, <3>2 DEF Move, MoneylessMove
    <3> QED
      BY <3>1, <3>3 DEF Open
  <2>5. PICK old \in {Open(p)}, new \in {Open(p)'} : TRUE
    OBVIOUS
  <2>6. new \in SUBSET old /\ \A c \in old : Claimed[c] \in Nat
    BY <2>1, <2>4, <2>5 DEF Open
  <2>7. Sum(Claimed, new) <= Sum(Claimed, old) /\ Sum(Claimed, new) \in Nat
    BY <2>1, <2>5, <2>6, SumOfPart
  <2>8. Aggregate(p)' <= Aggregate(p) /\ Aggregate(p)' \in Int
    BY <2>1, <2>2, <2>3, <2>5, <2>7
  <2>9. Aggregate(p) <= InsuredValue[p]
    <3>1. \A c \in overwritten : claims[c].policy # p
      BY <1>1, OverwrittenGrows DEF CapInv
    <3> QED
      BY <3>1 DEF CapInv, AggregateCap
  <2>10. Aggregate(p) \in Int /\ InsuredValue[p] \in Int
    <3>1. Whole(Claimed, Open(p))
      BY <2>1 DEF Whole, Open
    <3>2. Aggregate(p) \in Int
      BY <2>1, <3>1, SumStep
    <3> QED
      BY <3>2, MoneyAssumption
  <2> QED
    BY <2>8, <2>9, <2>10
<1> QED
  BY <1>1 DEF CapInv, AggregateCap

\* Only claims that are there are overwritten.
LEMMA OverwrittenFiled ==
  ASSUME IndInv, CapInv, [Next]_vars
  PROVE  overwritten' \subseteq Filed
<1>0. overwritten \subseteq Filed
  BY DEF CapInv
<1>1. PolicyNext \/ FnolNext => UNCHANGED overwritten
  BY DEF PolicyNext, PolicyMoves, SetPolicy, PremiumReceived, FnolNext, LoadFnol, FileFnol, Abandon
<1>2. ASSUME NEW c \in ClaimIds, ReviewNext(c) PROVE UNCHANGED overwritten
  BY <1>2 DEF ReviewNext, ProposeAdjuster, ConfirmAdjuster, ProposeSettlement, ApproveSettlement,
              LoadDocument, RejectClaim, Update
<1>3. ASSUME NEW a \in attaching, AttachDocument(a) \/ Abandon({}, {a}, {})
      PROVE  overwritten' \subseteq Filed
  BY <1>0, <1>3 DEF AttachDocument, Abandon, IndInv, RequestsOK
<1>4. PayoutNext => overwritten' \subseteq Filed
  BY <1>0 DEF PayoutNext, QuarantineUnknown, LoadPayout, RecordPayout, Abandon, IndInv, RequestsOK
<1> QED
  BY <1>0, <1>1, <1>2, <1>3, <1>4 DEF Next, vars

LEMMA CapStep ==
  ASSUME IndInv, IndInv', CapInv, [Next]_vars
  PROVE  CapInv'
BY FilingsKept, CapAtFiling, CapKept, OverwrittenFiled

\* What is claimed on a policy by claims that are not rejected never exceeds the insured
\* value, however many first notices come in at the same time (file_fnol), unless a
\* handler has written over a status it did not read on a claim of that policy.
THEOREM CapIsKept == Spec => []AggregateCap
<1>1. Init => CapInv
  <2> SUFFICES ASSUME Init PROVE CapInv
    OBVIOUS
  <2>1. Filed = {} /\ overwritten = {}
    BY DEF Init, Filed, NoClaim
  <2>2. TypeOK /\ IsFiniteSet(Filed)
    BY <2>1, InitOK, FS_EmptySet DEF IndInv
  <2>3. ASSUME NEW p \in Policies PROVE Aggregate(p) <= InsuredValue[p]
    <3>1. Aggregate(p) = Sum(Claimed, Open(p))
      BY <2>2, AggregateIsSum DEF AddsUp
    <3>2. Open(p) = {}
      BY <2>1 DEF Open
    <3>3. Sum(Claimed, {}) = 0
      BY SumStep, FS_EmptySet DEF Whole
    <3> QED
      BY <3>1, <3>2, <3>3, MoneyAssumption
  <2> QED
    BY <2>1, <2>2, <2>3 DEF CapInv, AggregateCap
<1>2. CapInv => AggregateCap
  BY DEF CapInv
<1> QED
  BY <1>1, <1>2, Inductive, CapStep, PTL DEF Spec
=============================================================================
