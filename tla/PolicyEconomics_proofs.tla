----------------------- MODULE PolicyEconomics_proofs -----------------------
(***************************************************************************)
(* Machine-checked proofs about PolicyEconomics, for any policies,         *)
(* premiums, deltas, payments and principals.                              *)
(***************************************************************************)
EXTENDS PolicyEconomics, SequenceTheorems, TLAPS

Recv == "premium:receivable"
Inc  == "premium:income"
Clr  == "insurer:clearing"

\* PaidOnce without the set of applied receipts: which receipts a policy may have.
ReceiptsFollowPolicy ==
  /\ \A r \in receipts : r.status = "APPLIED" /\ r.policy \in Policies =>
       /\ policies[r.policy].paid
       /\ balance[r.policy][Clr] = r.amount
  /\ \A p \in Policies : policies[p].paid => \E r \in receipts : r.policy = p /\ r.status = "APPLIED"
  /\ \A p \in Policies : ~policies[p].paid => balance[p][Clr] = 0
  /\ \A r1, r2 \in receipts :
       r1.policy \in Policies /\ r1.policy = r2.policy /\ r1.status = "APPLIED" /\ r2.status = "APPLIED"
         => r1 = r2

\* The books of one policy.
BooksOf(p) ==
  /\ balance[p][Inc] = 0 - policies[p].premium
  /\ balance[p][Recv] + balance[p][Clr] = policies[p].premium

\* Only endorsements that move money wait for a decision.
ProposalsMoveMoney ==
  \A p \in Policies : \A n \in 1 .. Len(endorsements[p]) :
    endorsements[p][n].status = "PROPOSED" => endorsements[p][n].delta # 0

IndInv == /\ TypeOK
          /\ BooksFollowPolicy
          /\ ReceiptsFollowPolicy
          /\ EndorsementJournals
          /\ ProposalsMoveMoney

-----------------------------------------------------------------------------

\* The legs of an endorsement move receivable and income by the delta, the
\* return premium of a negative delta included.
LEMMA DeltaMoves ==
  ASSUME balance \in [Policies -> [Accounts -> Int]], NEW p \in Policies, NEW delta \in Int
  PROVE  /\ DeltaLegs(p, delta) \in [Policies -> [Accounts -> Int]]
         /\ DeltaLegs(p, delta)[p][Recv] = balance[p][Recv] + delta
         /\ DeltaLegs(p, delta)[p][Inc] = balance[p][Inc] - delta
         /\ DeltaLegs(p, delta)[p][Clr] = balance[p][Clr]
         /\ \A x \in Policies \ {p} : DeltaLegs(p, delta)[x] = balance[x]
<1> USE DEF Accounts, Recv, Inc, Clr, Post
<1>1. CASE delta > 0
  BY <1>1 DEF DeltaLegs
<1>2. CASE ~(delta > 0)
  <2>1. DeltaLegs(p, delta) = [balance EXCEPT ![p][Inc] = @ + (0 - delta), ![p][Recv] = @ - (0 - delta)]
    BY <1>2 DEF DeltaLegs
  <2>2. balance[p][Inc] \in Int /\ balance[p][Recv] \in Int /\ balance[p] \in [Accounts -> Int]
    OBVIOUS
  <2>3. QED
    BY <2>1, <2>2
<1>3. QED
  BY <1>1, <1>2

-----------------------------------------------------------------------------

\* The update of approve_endorsement and reject_endorsement.
Decide(p, n, checker, outcome) ==
  endorsements' = [endorsements EXCEPT ![p][n].status = outcome, ![p][n].checker = checker]

\* A decision rewrites one endorsement, whose delta and maker stay.
LEMMA EndorsementDecided ==
  ASSUME TypeOK, NEW p \in Policies, NEW n \in 1 .. Len(endorsements[p]),
         NEW checker \in Principals, NEW outcome \in {"APPROVED", "REJECTED"},
         Decide(p, n, checker, outcome)
  PROVE  /\ endorsements' \in [Policies -> Seq(Endorsement)]
         /\ Len(endorsements'[p]) = Len(endorsements[p])
         /\ endorsements'[p][n].status = outcome
         /\ endorsements'[p][n].checker = checker
         /\ endorsements'[p][n].delta = endorsements[p][n].delta
         /\ endorsements'[p][n].maker = endorsements[p][n].maker
         /\ \A m \in 1 .. Len(endorsements[p]) : m # n => endorsements'[p][m] = endorsements[p][m]
         /\ \A x \in Policies \ {p} : endorsements'[x] = endorsements[x]
<1> DEFINE row == [endorsements[p][n] EXCEPT !.status = outcome, !.checker = checker]
<1>1. endorsements[p] \in Seq(Endorsement) /\ endorsements[p][n] \in Endorsement
  BY DEF TypeOK
<1>2. row \in Endorsement
  BY <1>1 DEF Endorsement
<1>3. endorsements' = [endorsements EXCEPT ![p] = [endorsements[p] EXCEPT ![n] = row]]
  BY <1>1 DEF TypeOK, Decide
<1> HIDE DEF row
<1>4. /\ [endorsements[p] EXCEPT ![n] = row] \in Seq(Endorsement)
      /\ Len([endorsements[p] EXCEPT ![n] = row]) = Len(endorsements[p])
      /\ \A m \in 1 .. Len(endorsements[p]) :
           [endorsements[p] EXCEPT ![n] = row][m] = IF m = n THEN row ELSE endorsements[p][m]
  BY <1>1, <1>2, ExceptSeq
<1>5. /\ row.status = outcome /\ row.checker = checker
      /\ row.delta = endorsements[p][n].delta /\ row.maker = endorsements[p][n].maker
  BY <1>1 DEF row, Endorsement
<1>6. QED
  BY <1>3, <1>4, <1>5 DEF TypeOK

-----------------------------------------------------------------------------
(* The steps, by what they change.                                         *)

\* Status changes, the clock and turned-away payments leave the books alone.
LEMMA StatusSteps ==
  ASSUME IndInv, policies' \in [Policies -> Policy],
         \A p \in Policies : policies'[p].premium = policies[p].premium
                             /\ policies'[p].paid = policies[p].paid,
         due' \subseteq Policies,
         UNCHANGED <<endorsements, receipts, posted, balance>>
  PROVE  IndInv'
<1>1. TypeOK'
  BY DEF IndInv, TypeOK
<1>2. BooksFollowPolicy'
  BY DEF IndInv, BooksFollowPolicy
<1>3. ReceiptsFollowPolicy'
  BY DEF IndInv, ReceiptsFollowPolicy
<1>4. EndorsementJournals' /\ ProposalsMoveMoney'
  BY DEF IndInv, EndorsementJournals, ProposalsMoveMoney
<1>5. QED
  BY <1>1, <1>2, <1>3, <1>4 DEF IndInv

\* A quarantined receipt is a row and nothing else.
LEMMA QuarantineSteps ==
  ASSUME IndInv, NEW row \in Receipt, row.status = "QUARANTINED", Fresh(row.ref),
         receipts' = receipts \cup {row},
         UNCHANGED <<policies, due, endorsements, posted, balance>>
  PROVE  IndInv'
<1>1. TypeOK'
  BY DEF IndInv, TypeOK
<1>2. BooksFollowPolicy' /\ EndorsementJournals' /\ ProposalsMoveMoney'
  BY DEF IndInv, BooksFollowPolicy, EndorsementJournals, ProposalsMoveMoney
<1>3. ReceiptsFollowPolicy'
  BY DEF IndInv, ReceiptsFollowPolicy
<1>4. QED
  BY <1>1, <1>2, <1>3 DEF IndInv

\* A new endorsement is appended; the ones before it keep their journals.
LEMMA AddStep ==
  ASSUME IndInv, NEW p \in Policies, NEW delta \in Deltas, NEW maker \in Principals,
         AddEndorsement(p, delta, maker)
  PROVE  IndInv'
<1> DEFINE row == [delta |-> delta, status |-> InitialStatus(delta), maker |-> maker,
                   checker |-> NoOne]
<1>1. /\ row \in Endorsement
      /\ row.status = "APPROVED" => row.delta = 0
      /\ row.status = "PROPOSED" => row.delta # 0
  BY DEF Endorsement, InitialStatus
<1>2. /\ endorsements' = [endorsements EXCEPT ![p] = Append(endorsements[p], row)]
      /\ Len(endorsements[p]) < MaxEndorsements
      /\ UNCHANGED <<policies, due, receipts, posted, balance>>
  BY DEF AddEndorsement
<1> HIDE DEF row
<1>3. endorsements \in [Policies -> Seq(Endorsement)]
  BY DEF IndInv, TypeOK
<1>4. /\ Append(endorsements[p], row) \in Seq(Endorsement)
      /\ Len(Append(endorsements[p], row)) = Len(endorsements[p]) + 1
      /\ \A n \in 1 .. Len(endorsements[p]) : Append(endorsements[p], row)[n] = endorsements[p][n]
      /\ Append(endorsements[p], row)[Len(endorsements[p]) + 1] = row
  BY <1>1, <1>3, AppendProperties
<1>5. TypeOK'
  BY <1>2, <1>3, <1>4 DEF IndInv, TypeOK
<1>6. BooksFollowPolicy' /\ ReceiptsFollowPolicy'
  BY <1>2 DEF IndInv, BooksFollowPolicy, ReceiptsFollowPolicy
<1>7. EndorsementJournals'
  <2> SUFFICES ASSUME NEW x \in Policies, NEW n \in 1 .. MaxEndorsements
               PROVE  <<"endorsement", x, n>> \in posted'
                        <=> /\ n <= Len(endorsements'[x])
                            /\ endorsements'[x][n].status = "APPROVED"
                            /\ endorsements'[x][n].delta # 0
    BY DEF EndorsementJournals
  <2>1. <<"endorsement", x, n>> \in posted
          <=> /\ n <= Len(endorsements[x])
              /\ endorsements[x][n].status = "APPROVED"
              /\ endorsements[x][n].delta # 0
    BY DEF IndInv, EndorsementJournals
  <2>2. CASE x # p
    BY <1>2, <1>3, <2>1, <2>2
  <2>3. CASE x = p
    <3>1. Len(endorsements[p]) \in Nat /\ endorsements'[p] = Append(endorsements[p], row)
      BY <1>2, <1>3
    <3>2. CASE n <= Len(endorsements[p])
      BY <1>2, <1>4, <2>1, <2>3, <3>1, <3>2
    <3>3. CASE n = Len(endorsements[p]) + 1
      BY <1>1, <1>2, <1>4, <2>1, <2>3, <3>1, <3>3
    <3>4. CASE n > Len(endorsements[p]) + 1
      BY <1>2, <1>4, <2>1, <2>3, <3>1, <3>4
    <3>5. QED
      BY <3>1, <3>2, <3>3, <3>4
  <2>4. QED
    BY <2>2, <2>3
<1>8. ProposalsMoveMoney'
  <2> SUFFICES ASSUME NEW x \in Policies, NEW n \in 1 .. Len(endorsements'[x]),
                      endorsements'[x][n].status = "PROPOSED"
               PROVE  endorsements'[x][n].delta # 0
    BY DEF ProposalsMoveMoney
  <2>1. CASE x # p
    BY <1>2, <1>3, <2>1 DEF IndInv, ProposalsMoveMoney
  <2>2. CASE x = p
    <3>1. endorsements'[p] = Append(endorsements[p], row) /\ Len(endorsements[p]) \in Nat
      BY <1>2, <1>3
    <3>2. n \in 1 .. Len(endorsements[p]) \/ n = Len(endorsements[p]) + 1
      BY <1>4, <2>2, <3>1
    <3>3. QED
      BY <1>1, <1>4, <2>2, <3>1, <3>2 DEF IndInv, ProposalsMoveMoney
  <2>3. QED
    BY <2>1, <2>2
<1>9. QED
  BY <1>5, <1>6, <1>7, <1>8 DEF IndInv

\* Journals still match approvals, and proposals move money, when endorsement n of
\* p is decided and, if it is approved, its journal is posted.
LEMMA DecisionJournals ==
  ASSUME IndInv, NEW p \in Policies, NEW n \in 1 .. Len(endorsements[p]),
         NEW checker \in Principals, NEW outcome \in {"APPROVED", "REJECTED"},
         endorsements[p][n].status = "PROPOSED",
         Decide(p, n, checker, outcome),
         posted' = IF outcome = "APPROVED" THEN posted \cup {<<"endorsement", p, n>>} ELSE posted
  PROVE  EndorsementJournals' /\ ProposalsMoveMoney'
<1> TypeOK
  BY DEF IndInv
<1>1. endorsements[p] \in Seq(Endorsement) /\ Len(endorsements[p]) \in Nat
      /\ endorsements[p][n] \in Endorsement
  BY DEF TypeOK
<1>2. /\ Len(endorsements'[p]) = Len(endorsements[p])
      /\ endorsements'[p][n].status = outcome
      /\ endorsements'[p][n].delta = endorsements[p][n].delta
      /\ \A k \in 1 .. Len(endorsements[p]) : k # n => endorsements'[p][k] = endorsements[p][k]
      /\ \A y \in Policies \ {p} : endorsements'[y] = endorsements[y]
  BY EndorsementDecided
<1>4. endorsements[p][n].delta # 0
  BY DEF IndInv, ProposalsMoveMoney
<1>5. ASSUME NEW x \in Policies, NEW m \in 1 .. MaxEndorsements
      PROVE  <<"endorsement", x, m>> \in posted'
               <=> /\ m <= Len(endorsements'[x])
                   /\ endorsements'[x][m].status = "APPROVED"
                   /\ endorsements'[x][m].delta # 0
  <2>1. <<"endorsement", x, m>> \in posted
          <=> /\ m <= Len(endorsements[x])
              /\ endorsements[x][m].status = "APPROVED"
              /\ endorsements[x][m].delta # 0
    BY DEF IndInv, EndorsementJournals
  <2>2. CASE x = p /\ m = n
    <3>1. <<"endorsement", p, n>> \in posted' <=> outcome = "APPROVED"
      BY <2>1, <2>2
    <3>2. n <= Len(endorsements'[p])
      BY <1>1, <1>2
    <3>3. QED
      BY <1>2, <1>4, <2>2, <3>1, <3>2
  <2>3. CASE ~(x = p /\ m = n)
    <3>1. <<"endorsement", x, m>> \in posted' <=> <<"endorsement", x, m>> \in posted
      <4>1. <<"endorsement", x, m>> # <<"endorsement", p, n>>
        BY <2>3
      <4>2. QED
        BY <4>1
    <3>2. CASE x # p
      BY <1>2, <2>1, <3>1, <3>2
    <3>3. CASE x = p /\ m # n
      BY <1>1, <1>2, <2>1, <3>1, <3>3
    <3>4. QED
      BY <2>3, <3>2, <3>3
  <2>4. QED
    BY <2>2, <2>3
<1>6. ASSUME NEW x \in Policies, NEW m \in 1 .. Len(endorsements'[x]),
             endorsements'[x][m].status = "PROPOSED"
      PROVE  endorsements'[x][m].delta # 0
  <2>1. ~(x = p /\ m = n)
    BY <1>2, <1>6
  <2>2. CASE x # p
    BY <1>2, <1>6, <2>2 DEF IndInv, ProposalsMoveMoney
  <2>3. CASE x = p /\ m # n
    BY <1>1, <1>2, <1>6, <2>3 DEF IndInv, ProposalsMoveMoney
  <2>4. QED
    BY <2>1, <2>2, <2>3
<1>7. QED
  BY <1>5, <1>6 DEF EndorsementJournals, ProposalsMoveMoney

\* Turning down a PROPOSED endorsement touches no journal and no balance.
LEMMA RejectStep ==
  ASSUME IndInv, NEW p \in Policies, NEW n \in 1 .. MaxEndorsements, NEW checker \in Principals,
         RejectEndorsement(p, n, checker)
  PROVE  IndInv'
<1>1. /\ n \in 1 .. Len(endorsements[p]) /\ endorsements[p][n].status = "PROPOSED"
      /\ Decide(p, n, checker, "REJECTED")
      /\ UNCHANGED <<policies, due, receipts, posted, balance>>
  BY DEF RejectEndorsement, Decide
<1>2. TypeOK'
  BY <1>1, EndorsementDecided DEF IndInv, TypeOK
<1>3. BooksFollowPolicy' /\ ReceiptsFollowPolicy'
  BY <1>1 DEF IndInv, BooksFollowPolicy, ReceiptsFollowPolicy
<1>4. EndorsementJournals' /\ ProposalsMoveMoney'
  BY <1>1, DecisionJournals
<1>5. QED
  BY <1>2, <1>3, <1>4 DEF IndInv

\* An approval moves premium, receivable and income by the same delta, the money
\* already received stays where it is.
LEMMA ApproveStep ==
  ASSUME IndInv, NEW p \in Policies, NEW n \in 1 .. MaxEndorsements, NEW checker \in Principals,
         ApproveEndorsement(p, n, checker)
  PROVE  IndInv'
<1> DEFINE delta == endorsements[p][n].delta
<1>1. /\ n \in 1 .. Len(endorsements[p]) /\ endorsements[p][n].status = "PROPOSED"
      /\ policies[p].premium + delta >= 0
      /\ balance' = DeltaLegs(p, delta)
      /\ posted' = posted \cup {<<"endorsement", p, n>>}
      /\ policies' = [policies EXCEPT ![p].premium = @ + delta]
      /\ Decide(p, n, checker, "APPROVED")
      /\ UNCHANGED <<due, receipts>>
  BY DEF ApproveEndorsement, DeltaInRange, Decide
<1> TypeOK
  BY DEF IndInv
<1>2. delta \in Int
  <2>1. endorsements[p][n] \in Endorsement
    BY <1>1 DEF TypeOK
  <2>2. QED
    BY <2>1, MoneyAssumption DEF Endorsement
<1> HIDE DEF delta
<1>3. /\ balance' \in [Policies -> [Accounts -> Int]]
      /\ balance'[p][Recv] = balance[p][Recv] + delta
      /\ balance'[p][Inc] = balance[p][Inc] - delta
      /\ balance'[p][Clr] = balance[p][Clr]
      /\ \A x \in Policies \ {p} : balance'[x] = balance[x]
  BY <1>1, <1>2, DeltaMoves DEF TypeOK
<1>4. /\ policies' \in [Policies -> Policy]
      /\ policies'[p].premium = policies[p].premium + delta
      /\ policies'[p].paid = policies[p].paid
      /\ \A x \in Policies \ {p} : policies'[x] = policies[x]
  <2>1. policies[p] \in Policy /\ policies[p].premium \in Nat
    BY DEF TypeOK, Policy
  <2>2. policies[p].premium + delta \in Nat
    BY <1>1, <1>2, <2>1
  <2>3. policies' = [policies EXCEPT ![p] = [policies[p] EXCEPT !.premium = policies[p].premium + delta]]
    BY <1>1
  <2>4. [policies[p] EXCEPT !.premium = policies[p].premium + delta] \in Policy
    BY <2>1, <2>2 DEF Policy
  <2>5. QED
    BY <2>1, <2>3, <2>4 DEF TypeOK, Policy
<1>5. TypeOK'
  <2>1. endorsements' \in [Policies -> Seq(Endorsement)]
    BY <1>1, EndorsementDecided
  <2>2. posted' \subseteq ({"receipt"} \X Policies) \cup ({"endorsement"} \X Policies \X Nat)
    BY <1>1 DEF TypeOK
  <2>3. QED
    BY <1>1, <1>3, <1>4, <2>1, <2>2 DEF TypeOK
<1>6. BooksFollowPolicy'
  <2> SUFFICES ASSUME NEW x \in Policies
               PROVE  /\ balance'[x][Inc] = 0 - policies'[x].premium
                      /\ balance'[x][Recv] + balance'[x][Clr] = policies'[x].premium
    BY DEF BooksFollowPolicy, Recv, Inc, Clr
  <2>1. /\ balance[x][Inc] = 0 - policies[x].premium
        /\ balance[x][Recv] + balance[x][Clr] = policies[x].premium
    BY DEF IndInv, BooksFollowPolicy, Recv, Inc, Clr
  <2>2. /\ balance[x][Recv] \in Int /\ balance[x][Clr] \in Int /\ balance[x][Inc] \in Int
        /\ policies[x].premium \in Nat
    BY DEF TypeOK, Accounts, Recv, Inc, Clr, Policy
  <2>3. CASE x = p
    BY <1>2, <1>3, <1>4, <2>1, <2>2, <2>3
  <2>4. CASE x # p
    BY <1>3, <1>4, <2>1, <2>4
  <2>5. QED
    BY <2>3, <2>4
<1>7. ReceiptsFollowPolicy'
  <2>1. \A x \in Policies : balance'[x][Clr] = balance[x][Clr] /\ policies'[x].paid = policies[x].paid
    BY <1>3, <1>4
  <2>2. QED
    BY <1>1, <2>1 DEF IndInv, ReceiptsFollowPolicy
<1>8. EndorsementJournals' /\ ProposalsMoveMoney'
  BY <1>1, DecisionJournals
<1>9. QED
  BY <1>5, <1>6, <1>7, <1>8 DEF IndInv

\* An applied payment moves the whole premium from receivable to clearing, of a
\* policy on which nothing had been received.
LEMMA ApplyStep ==
  ASSUME IndInv, NEW ref \in References, NEW p \in Policies, NEW amount \in Amounts,
         NEW currency \in Currencies, ApplyPayment(ref, p, amount, currency)
  PROVE  IndInv'
<1> DEFINE row == Row(ref, p, amount, "APPLIED")
<1>1. /\ ~policies[p].paid /\ amount = policies[p].premium
      /\ Fresh(ref)
      /\ receipts' = receipts \cup {row}
      /\ policies' = [policies EXCEPT ![p].paid = TRUE]
      /\ UNCHANGED <<due, endorsements>>
  BY DEF ApplyPayment, Payable, Matches
<1>2. /\ row \in Receipt /\ row.ref = ref /\ row.policy = p
      /\ row.amount = amount /\ row.status = "APPLIED"
  BY DEF Row, Receipt
<1> HIDE DEF row
<1> TypeOK
  BY DEF IndInv
<1> amount \in Nat
  BY MoneyAssumption
<1>3. /\ balance' \in [Policies -> [Accounts -> Int]]
      /\ balance'[p][Recv] = balance[p][Recv] - amount
      /\ balance'[p][Clr] = balance[p][Clr] + amount
      /\ balance'[p][Inc] = balance[p][Inc]
      /\ \A x \in Policies \ {p} : balance'[x] = balance[x]
  <2>1. CASE amount > 0
    <3>1. balance' = Post(p, Clr, Recv, amount)
      BY <2>1 DEF ApplyPayment, Clr, Recv
    <3>2. balance' = [balance EXCEPT ![p][Clr] = @ + amount, ![p][Recv] = @ - amount]
      BY <3>1 DEF Post
    <3>3. QED
      BY <3>2 DEF TypeOK, Accounts, Clr, Recv, Inc
  <2>2. CASE ~(amount > 0)
    <3>1. balance' = balance /\ amount = 0
      BY <2>2 DEF ApplyPayment
    <3>2. balance[p][Recv] \in Int /\ balance[p][Clr] \in Int
      BY DEF TypeOK, Accounts, Clr, Recv
    <3>3. QED
      BY <3>1, <3>2 DEF TypeOK
  <2>3. QED
    BY <2>1, <2>2
<1>4. /\ policies' \in [Policies -> Policy]
      /\ policies'[p].premium = policies[p].premium /\ policies'[p].paid
      /\ \A x \in Policies \ {p} : policies'[x] = policies[x]
  BY <1>1 DEF TypeOK, Policy
<1>5. TypeOK'
  <2>1. posted' \subseteq ({"receipt"} \X Policies) \cup ({"endorsement"} \X Policies \X Nat)
    BY DEF ApplyPayment, TypeOK
  <2>2. QED
    BY <1>1, <1>2, <1>3, <1>4, <2>1 DEF TypeOK
<1>6. BooksFollowPolicy'
  <2> SUFFICES ASSUME NEW x \in Policies
               PROVE  /\ balance'[x][Inc] = 0 - policies'[x].premium
                      /\ balance'[x][Recv] + balance'[x][Clr] = policies'[x].premium
    BY DEF BooksFollowPolicy, Recv, Inc, Clr
  <2>1. /\ balance[x][Inc] = 0 - policies[x].premium
        /\ balance[x][Recv] + balance[x][Clr] = policies[x].premium
    BY DEF IndInv, BooksFollowPolicy, Recv, Inc, Clr
  <2>2. balance[x][Recv] \in Int /\ balance[x][Clr] \in Int
    BY DEF TypeOK, Accounts, Recv, Clr
  <2>3. CASE x = p
    BY <1>3, <1>4, <2>1, <2>2, <2>3
  <2>4. CASE x # p
    BY <1>3, <1>4, <2>1, <2>4
  <2>5. QED
    BY <2>3, <2>4
<1>7. \A r \in receipts : r.status = "APPLIED" => r.policy # p
  BY <1>1 DEF IndInv, ReceiptsFollowPolicy
<1>8. balance[p][Clr] = 0
  BY <1>1 DEF IndInv, ReceiptsFollowPolicy
<1>9. ReceiptsFollowPolicy'
  <2>1. \A r \in receipts' : r.status = "APPLIED" /\ r.policy \in Policies =>
          policies'[r.policy].paid /\ balance'[r.policy][Clr] = r.amount
    BY <1>1, <1>2, <1>3, <1>4, <1>7, <1>8 DEF IndInv, ReceiptsFollowPolicy
  <2>2. \A x \in Policies : policies'[x].paid =>
          \E r \in receipts' : r.policy = x /\ r.status = "APPLIED"
    BY <1>1, <1>2, <1>4 DEF IndInv, ReceiptsFollowPolicy
  <2>3. \A x \in Policies : ~policies'[x].paid => balance'[x][Clr] = 0
    BY <1>3, <1>4 DEF IndInv, ReceiptsFollowPolicy
  <2>4. \A r1, r2 \in receipts' :
          r1.policy \in Policies /\ r1.policy = r2.policy /\ r1.status = "APPLIED" /\ r2.status = "APPLIED"
            => r1 = r2
    BY <1>1, <1>2, <1>7 DEF IndInv, ReceiptsFollowPolicy
  <2>5. QED
    BY <2>1, <2>2, <2>3, <2>4 DEF ReceiptsFollowPolicy
<1>10. EndorsementJournals' /\ ProposalsMoveMoney'
  <2>1. \A x \in Policies, n \in 1 .. MaxEndorsements :
          <<"endorsement", x, n>> \in posted' <=> <<"endorsement", x, n>> \in posted
    BY DEF ApplyPayment
  <2>2. QED
    BY <1>1, <2>1 DEF IndInv, EndorsementJournals, ProposalsMoveMoney
<1>11. QED
  BY <1>5, <1>6, <1>9, <1>10 DEF IndInv

-----------------------------------------------------------------------------

\* The strengthening is kept by every handler.
LEMMA IndInvStep == IndInv /\ [Next]_vars => IndInv'
<1> SUFFICES ASSUME IndInv, [Next]_vars PROVE IndInv'
  OBVIOUS
<1> TypeOK
  BY DEF IndInv
<1>1. ASSUME NEW p \in Policies, Endorse(p) PROVE IndInv'
  BY <1>1, AddStep, ApproveStep, RejectStep DEF Endorse
<1>2. ASSUME NEW ref \in References, NEW amount \in Amounts, QuarantineUnknown(ref, amount)
      PROVE  IndInv'
  <2>1. /\ Row(ref, Unknown, amount, "QUARANTINED") \in Receipt
        /\ Row(ref, Unknown, amount, "QUARANTINED").status = "QUARANTINED"
        /\ Row(ref, Unknown, amount, "QUARANTINED").ref = ref
    BY DEF Row, Receipt
  <2>2. QED
    BY <1>2, <2>1, QuarantineSteps DEF QuarantineUnknown
<1>3. ASSUME NEW ref \in References, NEW amount \in Amounts, NEW p \in Policies,
             NEW currency \in Currencies, QuarantinePayment(ref, p, amount, currency)
      PROVE  IndInv'
  <2>1. /\ Row(ref, p, amount, "QUARANTINED") \in Receipt
        /\ Row(ref, p, amount, "QUARANTINED").status = "QUARANTINED"
        /\ Row(ref, p, amount, "QUARANTINED").ref = ref
    BY DEF Row, Receipt
  <2>2. QED
    BY <1>3, <2>1, QuarantineSteps DEF QuarantinePayment
<1>4. ASSUME NEW ref \in References, NEW amount \in Amounts, NEW p \in Policies,
             NEW currency \in Currencies, ApplyPayment(ref, p, amount, currency)
      PROVE  IndInv'
  BY <1>4, ApplyStep
<1>5. ASSUME NEW p \in Policies, NEW from \in PolicyStatuses, NEW to \in PolicyStatuses,
             Move(p, from, to)
      PROVE  IndInv'
  <2>1. /\ policies' \in [Policies -> Policy]
        /\ \A x \in Policies : policies'[x].premium = policies[x].premium
                              /\ policies'[x].paid = policies[x].paid
    BY <1>5 DEF Move, TypeOK, Policy
  <2>2. QED
    BY <1>5, <2>1, StatusSteps DEF Move, TypeOK
<1>6. ASSUME NEW p \in Policies, CoverEnds(p) PROVE IndInv'
  BY <1>6, StatusSteps DEF CoverEnds, TypeOK
<1>7. ASSUME NEW batch \in SUBSET Policies, LapseSweep(batch) PROVE IndInv'
  <2>1. /\ policies' \in [Policies -> Policy]
        /\ \A x \in Policies : policies'[x].premium = policies[x].premium
                              /\ policies'[x].paid = policies[x].paid
    BY <1>7 DEF LapseSweep, TypeOK, Policy, PolicyStatuses
  <2>2. QED
    BY <1>7, <2>1, StatusSteps DEF LapseSweep, TypeOK
<1>8. ASSUME UNCHANGED vars PROVE IndInv'
  BY <1>8, StatusSteps DEF vars, TypeOK
<1>9. QED
  <2>1. \A p \in Policies : CancelPolicy(p) \/ SuspendPolicy(p) \/ ReinstatePolicy(p) =>
          \E from, to \in PolicyStatuses : Move(p, from, to)
    BY DEF CancelPolicy, SuspendPolicy, ReinstatePolicy, PolicyStatuses
  <2>2. QED
    BY <1>1, <1>2, <1>3, <1>4, <1>5, <1>6, <1>7, <1>8, <2>1 DEF Next, Pay

\* The strengthening holds when policies are issued, and from then on.
LEMMA Inductive == Spec => []IndInv
<1>1. Init => IndInv
  <2> SUFFICES ASSUME Init PROVE IndInv
    OBVIOUS
  <2>1. /\ policies \in [Policies -> Policy] /\ balance \in [Policies -> [Accounts -> Int]]
        /\ \A p \in Policies : /\ policies[p].premium = BoundPremium[p] /\ ~policies[p].paid
                               /\ balance[p][Recv] = BoundPremium[p]
                               /\ balance[p][Inc] = 0 - BoundPremium[p]
                               /\ balance[p][Clr] = 0
    <3>1. policies = [p \in Policies |->
                        [status |-> "ACTIVE", premium |-> BoundPremium[p], paid |-> FALSE]]
      BY DEF Init
    <3>2. \A p \in Policies : BoundPremium[p] \in Nat
      BY PremiumAssumption
    <3>3. policies \in [Policies -> Policy]
      BY <3>1, <3>2 DEF Policy, PolicyStatuses
    <3>4. ASSUME NEW p \in Policies
          PROVE  /\ balance[p] \in [Accounts -> Int]
                 /\ balance[p][Recv] = BoundPremium[p]
                 /\ balance[p][Inc] = 0 - BoundPremium[p]
                 /\ balance[p][Clr] = 0
      <4>1. balance[p] = [a \in Accounts |->
                            CASE a = "premium:receivable" -> BoundPremium[p]
                              [] a = "premium:income"     -> 0 - BoundPremium[p]
                              [] OTHER                    -> 0]
        BY DEF Init
      <4>2. BoundPremium[p] \in Int /\ 0 - BoundPremium[p] \in Int
        BY <3>2
      <4> QED
        BY <4>1, <4>2 DEF Accounts, Recv, Inc, Clr
    <3>5. balance = [p \in Policies |-> balance[p]]
      BY DEF Init
    <3>6. balance \in [Policies -> [Accounts -> Int]]
      BY <3>4, <3>5
    <3> QED
      BY <3>1, <3>3, <3>4, <3>6
  <2>2. endorsements = [p \in Policies |-> <<>>]
    BY DEF Init
  <2>3. \A p \in Policies : endorsements[p] \in Seq(Endorsement) /\ Len(endorsements[p]) = 0
    <3>1. <<>> \in Seq(Endorsement) /\ Len(<<>>) = 0
      OBVIOUS
    <3>2. \A p \in Policies : endorsements[p] = <<>>
      BY <2>2
    <3> QED
      BY <3>1, <3>2
  <2>4. TypeOK
    BY <2>1, <2>2, <2>3 DEF Init, TypeOK
  <2>5. BooksFollowPolicy
    <3> SUFFICES ASSUME NEW p \in Policies
                 PROVE  /\ balance[p][Inc] = 0 - policies[p].premium
                        /\ balance[p][Recv] + balance[p][Clr] = policies[p].premium
      BY DEF BooksFollowPolicy, Recv, Inc, Clr
    <3>1. BoundPremium[p] \in Nat
      BY PremiumAssumption
    <3> QED
      BY <2>1, <3>1
  <2>6. ReceiptsFollowPolicy
    BY <2>1 DEF Init, ReceiptsFollowPolicy
  <2>7. EndorsementJournals /\ ProposalsMoveMoney
    BY <2>3, BoundAssumption DEF Init, EndorsementJournals, ProposalsMoveMoney
  <2>8. QED
    BY <2>4, <2>5, <2>6, <2>7 DEF IndInv
<1>2. QED
  BY <1>1, IndInvStep, PTL DEF Spec

-----------------------------------------------------------------------------

\* Rows, accounts and references always have their types.
THEOREM EconomicsTypes == Spec => []TypeOK
<1>1. IndInv => TypeOK
  BY DEF IndInv
<1>2. QED
  BY <1>1, Inductive, PTL

\* In whatever order endorsements and payments come in, the books agree with the
\* policy rows.
THEOREM SubledgerFollowsPolicies == Spec => []BooksFollowPolicy
<1>1. IndInv => BooksFollowPolicy
  BY DEF IndInv
<1>2. QED
  BY <1>1, Inductive, PTL

\* A policy is paid for at most once, and by an amount that reached clearing.
THEOREM PoliciesArePaidOnce == Spec => []PaidOnce
<1>1. IndInv => PaidOnce
  <2> SUFFICES ASSUME IndInv, NEW p \in Policies
               PROVE  /\ policies[p].paid <=> Applied(p) # {}
                      /\ \A r1, r2 \in Applied(p) : r1 = r2
                      /\ \A r \in Applied(p) : balance[p][Clr] = r.amount
                      /\ ~policies[p].paid => balance[p][Clr] = 0
    BY DEF PaidOnce, Clr
  <2> QED
    BY DEF IndInv, ReceiptsFollowPolicy, Applied
<1>2. QED
  BY <1>1, Inductive, PTL

\* Every approved endorsement that moves money has one journal, no other has any.
THEOREM ApprovalsAreJournaled == Spec => []EndorsementJournals
<1>1. IndInv => EndorsementJournals
  BY DEF IndInv
<1>2. QED
  BY <1>1, Inductive, PTL

\* What can go wrong for a payment of what is owed comes from premium_paid_at alone: on
\* a live policy not yet paid for, whatever was endorsed before, naira to the kobo of
\* the receivable are never quarantined (record_premium_receipt compares them with the
\* premium, which the receivable follows until a receipt is applied).
THEOREM UnpaidCanBePaid ==
  Spec => [][\A ref \in References, p \in Policies, amount \in Amounts :
               amount = balance[p]["premium:receivable"] /\ ~policies[p].paid
                 => ~QuarantinePayment(ref, p, amount, NGN)]_vars
<1> DEFINE Accepted == \A ref \in References, p \in Policies, amount \in Amounts :
             amount = balance[p]["premium:receivable"] /\ ~policies[p].paid
               => ~QuarantinePayment(ref, p, amount, NGN)
<1>1. ASSUME IndInv PROVE Accepted
  <2> SUFFICES ASSUME NEW ref \in References, NEW p \in Policies, NEW amount \in Amounts,
                      amount = balance[p]["premium:receivable"], ~policies[p].paid,
                      QuarantinePayment(ref, p, amount, NGN)
               PROVE  FALSE
    OBVIOUS
  <2>1. balance[p]["insurer:clearing"] = 0
    BY <1>1 DEF IndInv, ReceiptsFollowPolicy, Clr
  <2>2. balance[p]["premium:receivable"] + balance[p]["insurer:clearing"] = policies[p].premium
    BY <1>1 DEF IndInv, BooksFollowPolicy
  <2>3. balance[p]["premium:receivable"] \in Int
    BY <1>1 DEF IndInv, TypeOK, Accounts
  <2>4. amount = policies[p].premium
    BY <2>1, <2>2, <2>3
  <2> QED
    BY <2>4 DEF QuarantinePayment, Matches
<1> QED
  BY <1>1, Inductive, PTL

-----------------------------------------------------------------------------
(* Who moves the premium.                                                  *)

\* A pair is agreed if its endorsement is approved and moves money by that delta.
LEMMA AgreedPairs ==
  ASSUME NEW es, NEW x
  PROVE  x \in AgreedDeltas(es)
           <=> \E n \in 1 .. Len(es) : /\ es[n].status = "APPROVED" /\ es[n].delta # 0
                                       /\ x = <<n, es[n].delta>>
BY DEF AgreedDeltas

\* What the property says of one policy.
MovedByTwo(p) ==
  \/ /\ policies'[p].premium = policies[p].premium
     /\ AgreedDeltas(endorsements'[p]) = AgreedDeltas(endorsements[p])
  \/ \E n \in 1 .. Len(endorsements[p]) :
       LET e == endorsements[p][n]
       IN  /\ e.status = "PROPOSED"
           /\ endorsements'[p][n].checker # e.maker
           /\ policies'[p].premium = policies[p].premium + e.delta
           /\ AgreedDeltas(endorsements'[p]) = AgreedDeltas(endorsements[p]) \cup {<<n, e.delta>>}

\* An endorsement that is appended agrees nothing yet.
LEMMA AddAgreesNothing ==
  ASSUME IndInv, NEW p \in Policies, NEW delta \in Deltas, NEW maker \in Principals,
         AddEndorsement(p, delta, maker)
  PROVE  AgreedDeltas(endorsements'[p]) = AgreedDeltas(endorsements[p])
<1> DEFINE row == [delta |-> delta, status |-> InitialStatus(delta), maker |-> maker,
                   checker |-> NoOne]
           es == endorsements[p]
<1>1. row \in Endorsement /\ (row.status = "APPROVED" => row.delta = 0)
  BY DEF Endorsement, InitialStatus
<1> HIDE DEF row
<1>2. endorsements \in [Policies -> Seq(Endorsement)]
  BY DEF IndInv, TypeOK
<1>3. endorsements'[p] = Append(es, row)
  BY <1>2 DEF AddEndorsement, row
<1>4. /\ Len(es) \in Nat /\ Len(Append(es, row)) = Len(es) + 1
      /\ \A n \in 1 .. Len(es) : Append(es, row)[n] = es[n]
      /\ Append(es, row)[Len(es) + 1] = row
  BY <1>1, <1>2, AppendProperties
<1> DEFINE new == Append(es, row)
<1> HIDE DEF es, new
<1>5. ASSUME NEW n \in 1 .. Len(new), new[n].status = "APPROVED", new[n].delta # 0
      PROVE  n \in 1 .. Len(es) /\ new[n] = es[n]
  <2>1. n # Len(es) + 1
    BY <1>1, <1>4, <1>5 DEF new
  <2> QED
    BY <1>4, <2>1 DEF new
<1>6. ASSUME NEW n \in 1 .. Len(es)
      PROVE  n \in 1 .. Len(new) /\ new[n] = es[n]
  BY <1>4 DEF new
<1>7. \A x : x \in AgreedDeltas(new) <=> x \in AgreedDeltas(es)
  <2> TAKE x
  <2>1. ASSUME x \in AgreedDeltas(new) PROVE x \in AgreedDeltas(es)
    <3>1. PICK n \in 1 .. Len(new) : new[n].status = "APPROVED" /\ new[n].delta # 0
                                     /\ x = <<n, new[n].delta>>
      BY <2>1, AgreedPairs
    <3>2. n \in 1 .. Len(es) /\ new[n] = es[n]
      BY <1>5, <3>1
    <3> QED
      BY <3>1, <3>2, AgreedPairs
  <2>2. ASSUME x \in AgreedDeltas(es) PROVE x \in AgreedDeltas(new)
    <3>1. PICK n \in 1 .. Len(es) : es[n].status = "APPROVED" /\ es[n].delta # 0
                                    /\ x = <<n, es[n].delta>>
      BY <2>2, AgreedPairs
    <3> QED
      BY <1>6, <3>1, AgreedPairs
  <2> QED
    BY <2>1, <2>2
<1> QED
  BY <1>3, <1>7 DEF es, new

\* A decision adds its endorsement's delta, or nothing if it is a rejection.
LEMMA DecisionAgrees ==
  ASSUME IndInv, NEW p \in Policies, NEW n \in 1 .. Len(endorsements[p]),
         NEW checker \in Principals, NEW outcome \in {"APPROVED", "REJECTED"},
         endorsements[p][n].status = "PROPOSED",
         Decide(p, n, checker, outcome)
  PROVE  AgreedDeltas(endorsements'[p])
           = AgreedDeltas(endorsements[p])
               \cup (IF outcome = "APPROVED" THEN {<<n, endorsements[p][n].delta>>} ELSE {})
<1> DEFINE es == endorsements[p]
           new == endorsements'[p]
<1>1. /\ Len(new) = Len(es)
      /\ new[n].status = outcome /\ new[n].delta = es[n].delta
      /\ \A k \in 1 .. Len(es) : k # n => new[k] = es[k]
  BY EndorsementDecided DEF IndInv
<1>2. es[n].status = "PROPOSED" /\ es[n].delta # 0 /\ n \in 1 .. Len(es)
  BY DEF IndInv, ProposalsMoveMoney
<1> HIDE DEF es, new
<1>3. \A x : x \in AgreedDeltas(new)
               <=> x \in AgreedDeltas(es) \/ (outcome = "APPROVED" /\ x = <<n, es[n].delta>>)
  <2> TAKE x
  <2>1. ASSUME x \in AgreedDeltas(new)
        PROVE  x \in AgreedDeltas(es) \/ (outcome = "APPROVED" /\ x = <<n, es[n].delta>>)
    <3>1. PICK k \in 1 .. Len(new) : new[k].status = "APPROVED" /\ new[k].delta # 0
                                     /\ x = <<k, new[k].delta>>
      BY <2>1, AgreedPairs
    <3>2. CASE k = n
      BY <1>1, <3>1, <3>2
    <3>3. CASE k # n
      BY <1>1, <3>1, <3>3, AgreedPairs
    <3> QED
      BY <3>2, <3>3
  <2>2. ASSUME x \in AgreedDeltas(es) PROVE x \in AgreedDeltas(new)
    <3>1. PICK k \in 1 .. Len(es) : es[k].status = "APPROVED" /\ es[k].delta # 0
                                    /\ x = <<k, es[k].delta>>
      BY <2>2, AgreedPairs
    <3>2. k # n
      BY <1>2, <3>1
    <3> QED
      BY <1>1, <3>1, <3>2, AgreedPairs
  <2>3. ASSUME outcome = "APPROVED", x = <<n, es[n].delta>> PROVE x \in AgreedDeltas(new)
    BY <1>1, <1>2, <2>3, AgreedPairs
  <2> QED
    BY <2>1, <2>2, <2>3
<1> QED
  BY <1>3 DEF es, new

\* Every step keeps premium and agreed deltas, or moves both by one second opinion.
LEMMA MovesByTwo ==
  ASSUME IndInv, [Next]_vars, NEW p \in Policies
  PROVE  MovedByTwo(p)
<1> TypeOK
  BY DEF IndInv
<1>0. policies \in [Policies -> Policy]
  BY DEF TypeOK
<1>1. ASSUME NEW q \in Policies, NEW delta \in Deltas, NEW maker \in Principals,
             AddEndorsement(q, delta, maker)
      PROVE  MovedByTwo(p)
  <2>1. policies' = policies /\ \A x \in Policies \ {q} : endorsements'[x] = endorsements[x]
    BY <1>1 DEF AddEndorsement, TypeOK
  <2>2. AgreedDeltas(endorsements'[q]) = AgreedDeltas(endorsements[q])
    BY <1>1, AddAgreesNothing
  <2> QED
    BY <2>1, <2>2 DEF MovedByTwo
<1>2. ASSUME NEW q \in Policies, NEW n \in 1 .. MaxEndorsements, NEW checker \in Principals,
             ApproveEndorsement(q, n, checker)
      PROVE  MovedByTwo(p)
  <2>1. /\ n \in 1 .. Len(endorsements[q]) /\ endorsements[q][n].status = "PROPOSED"
        /\ checker # endorsements[q][n].maker
        /\ Decide(q, n, checker, "APPROVED")
        /\ policies' = [policies EXCEPT ![q].premium = @ + endorsements[q][n].delta]
    BY <1>2 DEF ApproveEndorsement, MayDecide, Decide
  <2>2. /\ endorsements'[q][n].checker = checker
        /\ \A x \in Policies \ {q} : endorsements'[x] = endorsements[x]
    BY <2>1, EndorsementDecided
  <2>3. AgreedDeltas(endorsements'[q])
          = AgreedDeltas(endorsements[q]) \cup {<<n, endorsements[q][n].delta>>}
    BY <2>1, DecisionAgrees
  <2>4. /\ policies'[q].premium = policies[q].premium + endorsements[q][n].delta
        /\ \A x \in Policies \ {q} : policies'[x] = policies[x]
    BY <2>1 DEF TypeOK, Policy
  <2>5. CASE p = q
    BY <2>1, <2>2, <2>3, <2>4, <2>5 DEF MovedByTwo
  <2>6. CASE p # q
    BY <2>2, <2>4, <2>6 DEF MovedByTwo
  <2> QED
    BY <2>5, <2>6
<1>3. ASSUME NEW q \in Policies, NEW n \in 1 .. MaxEndorsements, NEW checker \in Principals,
             RejectEndorsement(q, n, checker)
      PROVE  MovedByTwo(p)
  <2>1. /\ n \in 1 .. Len(endorsements[q]) /\ endorsements[q][n].status = "PROPOSED"
        /\ Decide(q, n, checker, "REJECTED")
        /\ policies' = policies
    BY <1>3 DEF RejectEndorsement, Decide
  <2>2. \A x \in Policies \ {q} : endorsements'[x] = endorsements[x]
    BY <2>1, EndorsementDecided
  <2>3. AgreedDeltas(endorsements'[q]) = AgreedDeltas(endorsements[q])
    BY <2>1, DecisionAgrees
  <2> QED
    BY <2>1, <2>2, <2>3 DEF MovedByTwo
<1>4. ASSUME UNCHANGED endorsements, policies'[p].premium = policies[p].premium
      PROVE  MovedByTwo(p)
  BY <1>4 DEF MovedByTwo
<1>5. ASSUME NEW ref \in References, NEW amount \in Amounts, Pay(ref, amount)
      PROVE  MovedByTwo(p)
  <2>1. UNCHANGED endorsements
    BY <1>5 DEF Pay, QuarantineUnknown, QuarantinePayment, ApplyPayment
  <2>2. UNCHANGED policies \/ \E q \in Policies : policies' = [policies EXCEPT ![q].paid = TRUE]
    BY <1>5 DEF Pay, QuarantineUnknown, QuarantinePayment, ApplyPayment
  <2>3. policies'[p].premium = policies[p].premium
    <3>1. CASE UNCHANGED policies
      BY <3>1
    <3>2. ASSUME NEW q \in Policies, policies' = [policies EXCEPT ![q].paid = TRUE]
          PROVE  policies'[p].premium = policies[p].premium
      BY <1>0, <3>2 DEF Policy
    <3> QED
      BY <2>2, <3>1, <3>2
  <2> QED
    BY <1>4, <2>1, <2>3
<1>6. ASSUME NEW q \in Policies, CancelPolicy(q) \/ SuspendPolicy(q) \/ ReinstatePolicy(q)
      PROVE  MovedByTwo(p)
  <2>1. /\ UNCHANGED endorsements
        /\ \E to \in PolicyStatuses : policies' = [policies EXCEPT ![q].status = to]
    BY <1>6 DEF CancelPolicy, SuspendPolicy, ReinstatePolicy, Move, PolicyStatuses
  <2>2. ASSUME NEW to \in PolicyStatuses, policies' = [policies EXCEPT ![q].status = to]
        PROVE  policies'[p].premium = policies[p].premium
    BY <1>0, <2>2 DEF Policy
  <2> QED
    BY <1>4, <2>1, <2>2
<1>7. ASSUME NEW q \in Policies, CoverEnds(q) PROVE MovedByTwo(p)
  BY <1>4, <1>7 DEF CoverEnds
<1>8. ASSUME NEW batch \in SUBSET Policies, LapseSweep(batch) PROVE MovedByTwo(p)
  <2>1. UNCHANGED endorsements /\ policies'[p].premium = policies[p].premium
    BY <1>0, <1>8 DEF LapseSweep, Policy
  <2> QED
    BY <1>4, <2>1
<1>9. CASE UNCHANGED vars
  BY <1>4, <1>9 DEF vars
<1> QED
  BY <1>1, <1>2, <1>3, <1>5, <1>6, <1>7, <1>8, <1>9 DEF Next, Endorse

\* The premium is the one agreed at bind plus the deltas two principals agreed on.
THEOREM PremiumsNeedTwo == Spec => PremiumNeedsTwo
<1>1. IndInv /\ [Next]_vars => [\A p \in Policies : MovedByTwo(p)]_vars
  BY MovesByTwo
<1>2. Spec => [][\A p \in Policies : MovedByTwo(p)]_vars
  BY <1>1, Inductive, PTL DEF Spec
<1> QED
  BY <1>2 DEF PremiumNeedsTwo, MovedByTwo
=============================================================================
