----------------------- MODULE QuoteLifecycle_proofs -----------------------
(***************************************************************************)
(* Machine-checked proofs about QuoteLifecycle, for any sets of quotes,    *)
(* principals and premiums.                                                *)
(***************************************************************************)
EXTENDS QuoteLifecycle, TLAPS

\* The immutable record determines the row: a BIND decision names the row's
\* checker, and no decided quote is anything but bound, issued or declined.
RowFollowsDecision ==
  \A d \in decisions :
    /\ d.decision = "BIND" => Bound(d.quote) /\ quotes[d.quote].boundBy = d.by
    /\ d.decision = "DECLINE" => quotes[d.quote].status = "DECLINED"
    /\ d.by # quotes[d.quote].requestedBy

\* The row determines the record.
DecisionFollowsRow ==
  \A q \in Quotes :
    /\ Bound(q) => [quote |-> q, decision |-> "BIND", by |-> quotes[q].boundBy] \in decisions
    /\ quotes[q].status = "DECLINED" => \E d \in decisions : d.quote = q /\ d.decision = "DECLINE"

\* The same for the journal.
RowFollowsJournal ==
  \A j \in journal : /\ Bound(j.quote)
                     /\ quotes[j.quote].premium > 0
                     /\ j.amount = quotes[j.quote].premium

JournalFollowsRow ==
  \A q \in Quotes : Bound(q) /\ quotes[q].premium > 0
                      => [quote |-> q, amount |-> quotes[q].premium] \in journal

\* What every transaction preserves.  DecisionMatchesQuote and BooksFollowBind are
\* not inductive: they say of a bound quote which decision it has, but not that an
\* undecided one has none, which is what keeps DecideBind's inserts unique.
IndInv == /\ TypeOK
          /\ RowFollowsDecision
          /\ DecisionFollowsRow
          /\ RowFollowsJournal
          /\ JournalFollowsRow
          /\ PolicyFromBind

-----------------------------------------------------------------------------

\* Every transaction keeps the types of rows, requests and records.
LEMMA TypeStep == TypeOK /\ [Next]_vars => TypeOK'
<1> SUFFICES ASSUME TypeOK, [Next]_vars PROVE TypeOK'
  OBVIOUS
<1> USE PremiumsAssumption, NoOneAssumption DEF TypeOK, Quote, Statuses, BindDecision,
                                                Recognition, Policy, NoQuote
<1>1. ASSUME NEW q \in Quotes, NEW premium \in Premiums, CreateQuote(q, premium) PROVE TypeOK'
  <2>1. quotes[q] \in Quote /\ premium \in Nat
    OBVIOUS
  <2>2. [quotes[q] EXCEPT !.status = "QUOTED", !.premium = premium] \in Quote
    BY <2>1
  <2>3. quotes' = [quotes EXCEPT ![q] = [quotes[q] EXCEPT !.status = "QUOTED", !.premium = premium]]
    BY <1>1 DEF CreateQuote
  <2>4. QED
    BY <1>1, <2>2, <2>3 DEF CreateQuote
<1>2. ASSUME NEW q \in Quotes, ValidityEnds(q) PROVE TypeOK'
  BY <1>2 DEF ValidityEnds
<1>3. ASSUME NEW q \in Quotes, RefuseExpired(q) PROVE TypeOK'
  BY <1>3 DEF RefuseExpired
<1>4. ASSUME NEW q \in Quotes, IssuePolicy(q) PROVE TypeOK'
  BY <1>4 DEF IssuePolicy
<1>5. ASSUME NEW q \in Quotes, NEW p \in Principals, LoadBindRequest(q, p) PROVE TypeOK'
  BY <1>5 DEF LoadBindRequest
<1>6. ASSUME NEW r \in inflight, RequestBind(r) PROVE TypeOK'
  <2>1. /\ r.quote \in Quotes /\ r.by \in Principals
        /\ quotes[r.quote] \in Quote
    OBVIOUS
  <2>2. quotes' = [quotes EXCEPT ![r.quote] = [quotes[r.quote] EXCEPT !.status = "BIND_PENDING",
                                                                    !.requestedBy = r.by]]
    BY <1>6 DEF RequestBind
  <2>3. [quotes[r.quote] EXCEPT !.status = "BIND_PENDING", !.requestedBy = r.by] \in Quote
    BY <2>1
  <2>4. QED
    BY <1>6, <2>2, <2>3 DEF RequestBind
<1>7. ASSUME NEW r \in inflight, AbandonBindRequest(r) PROVE TypeOK'
  BY <1>7 DEF AbandonBindRequest
<1>8. ASSUME NEW q \in Quotes, NEW p \in Principals, NEW decision \in {"BIND", "DECLINE"},
             DecideBind(q, decision, p)
      PROVE  TypeOK'
  <2>1. CASE decision = "BIND"
    <3>1. [quotes[q] EXCEPT !.status = "BOUND", !.boundBy = p] \in Quote
      OBVIOUS
    <3>2. quotes' = [quotes EXCEPT ![q] = [quotes[q] EXCEPT !.status = "BOUND", !.boundBy = p]]
      BY <1>8, <2>1 DEF DecideBind
    <3>3. journal' \subseteq Recognition
      BY <1>8, <2>1 DEF DecideBind
    <3>4. QED
      BY <1>8, <3>1, <3>2, <3>3 DEF DecideBind
  <2>2. CASE decision = "DECLINE"
    <3>1. [quotes[q] EXCEPT !.status = "DECLINED"] \in Quote
      OBVIOUS
    <3>2. quotes' = [quotes EXCEPT ![q] = [quotes[q] EXCEPT !.status = "DECLINED"]]
      BY <1>8, <2>2 DEF DecideBind
    <3>3. QED
      BY <1>8, <2>2, <3>1, <3>2 DEF DecideBind
  <2>3. QED
    BY <2>1, <2>2
<1>9. ASSUME UNCHANGED vars PROVE TypeOK'
  BY <1>9 DEF vars
<1>10. QED
  BY <1>1, <1>2, <1>3, <1>4, <1>5, <1>6, <1>7, <1>8, <1>9 DEF Next

\* The rows, requests and records always have their types.
THEOREM QuoteTypes == Spec => []TypeOK
<1>1. Init => TypeOK
  BY PremiumsAssumption DEF Init, TypeOK, Quote, NoQuote, Statuses
<1>2. TypeOK /\ [Next]_vars => TypeOK'
  BY TypeStep
<1>3. QED
  BY <1>1, <1>2, PTL DEF Spec

-----------------------------------------------------------------------------

\* A quote that is not decided has no decision, no journal and no policy.
LEMMA NoRecordYet ==
  ASSUME IndInv, NEW q \in Quotes, quotes[q].status \in {"NONE", "QUOTED", "BIND_PENDING"}
  PROVE  Undecided(q) /\ Unrecognised(q) /\ Unissued(q)
<1>1. Undecided(q)
  <2> SUFFICES ASSUME NEW d \in decisions, d.quote = q PROVE FALSE
    BY DEF Undecided
  <2>1. d.decision \in {"BIND", "DECLINE"}
    BY DEF IndInv, TypeOK, BindDecision
  <2>2. QED
    BY <2>1 DEF IndInv, RowFollowsDecision, Bound
<1>2. Unrecognised(q)
  BY DEF Unrecognised, IndInv, RowFollowsJournal, Bound
<1>3. Unissued(q)
  BY DEF Unissued, IndInv, PolicyFromBind
<1>4. QED
  BY <1>1, <1>2, <1>3

\* So a row may change freely until it is decided.
LEMMA UndecidedRowMoves ==
  ASSUME IndInv, TypeOK', NEW q \in Quotes, Undecided(q), Unrecognised(q), Unissued(q),
         quotes'[q].status \in {"QUOTED", "BIND_PENDING"},
         \A x \in Quotes \ {q} : quotes'[x] = quotes[x],
         UNCHANGED <<decisions, journal, policies>>
  PROVE  IndInv'
<1> USE DEF IndInv, Undecided, Unrecognised, Unissued, Bound
<1>1. \A d \in decisions : d.quote \in Quotes \ {q}
  BY DEF TypeOK, BindDecision
<1>2. \A j \in journal : j.quote \in Quotes \ {q}
  BY DEF TypeOK, Recognition
<1>3. \A pol \in policies : pol.quote \in Quotes \ {q}
  BY DEF TypeOK, Policy
<1>4. RowFollowsDecision'
  BY <1>1 DEF RowFollowsDecision
<1>5. DecisionFollowsRow'
  BY DEF DecisionFollowsRow
<1>6. RowFollowsJournal'
  BY <1>2 DEF RowFollowsJournal
<1>7. JournalFollowsRow'
  BY DEF JournalFollowsRow
<1>8. PolicyFromBind'
  BY <1>3 DEF PolicyFromBind
<1>9. QED
  BY <1>4, <1>5, <1>6, <1>7, <1>8

\* The strengthening is kept by every handler.
LEMMA IndInvStep == IndInv /\ [Next]_vars => IndInv'
<1> SUFFICES ASSUME IndInv, [Next]_vars PROVE IndInv'
  OBVIOUS
<1> TypeOK /\ TypeOK'
  BY TypeStep DEF IndInv
<1>1. ASSUME NEW q \in Quotes, NEW premium \in Premiums, CreateQuote(q, premium) PROVE IndInv'
  <2>1. quotes[q].status = "NONE" /\ quotes'[q].status = "QUOTED"
    BY <1>1 DEF CreateQuote, TypeOK, Quote
  <2>2. \A x \in Quotes \ {q} : quotes'[x] = quotes[x]
    BY <1>1 DEF CreateQuote, TypeOK
  <2>3. UNCHANGED <<decisions, journal, policies>>
    BY <1>1 DEF CreateQuote
  <2>4. QED
    BY <2>1, <2>2, <2>3, NoRecordYet, UndecidedRowMoves
<1>2. ASSUME NEW r \in inflight, RequestBind(r) PROVE IndInv'
  <2>1. r.quote \in Quotes
    BY DEF TypeOK
  <2>2. quotes[r.quote].status = "QUOTED" /\ quotes'[r.quote].status = "BIND_PENDING"
    BY <1>2, <2>1 DEF RequestBind, TypeOK, Quote
  <2>3. \A x \in Quotes \ {r.quote} : quotes'[x] = quotes[x]
    BY <1>2 DEF RequestBind, TypeOK
  <2>4. UNCHANGED <<decisions, journal, policies>>
    BY <1>2 DEF RequestBind
  <2>5. QED
    BY <2>1, <2>2, <2>3, <2>4, NoRecordYet, UndecidedRowMoves
<1>3. ASSUME NEW q \in Quotes, NEW p \in Principals, DecideBind(q, "BIND", p) PROVE IndInv'
  <2>1. /\ quotes[q].status = "BIND_PENDING" /\ p # quotes[q].requestedBy
        /\ quotes' = [quotes EXCEPT ![q] = [quotes[q] EXCEPT !.status = "BOUND", !.boundBy = p]]
        /\ decisions' = decisions \cup {[quote |-> q, decision |-> "BIND", by |-> p]}
        /\ journal' = IF quotes[q].premium > 0
                      THEN journal \cup {[quote |-> q, amount |-> quotes[q].premium]} ELSE journal
        /\ policies' = policies
    BY <1>3 DEF DecideBind
  <2>2. /\ quotes'[q].status = "BOUND" /\ quotes'[q].boundBy = p
        /\ quotes'[q].premium = quotes[q].premium /\ quotes'[q].requestedBy = quotes[q].requestedBy
    BY <2>1 DEF TypeOK, Quote
  <2>3. \A x \in Quotes \ {q} : quotes'[x] = quotes[x]
    BY <2>1 DEF TypeOK
  <2>4. Undecided(q) /\ Unrecognised(q) /\ Unissued(q)
    BY <2>1, NoRecordYet
  <2>5. RowFollowsDecision'
    BY <2>1, <2>2, <2>3, <2>4 DEF IndInv, RowFollowsDecision, Undecided, Bound, TypeOK, BindDecision
  <2>6. DecisionFollowsRow'
    BY <2>1, <2>2, <2>3 DEF IndInv, DecisionFollowsRow, Bound
  <2>7. RowFollowsJournal'
    BY <2>1, <2>2, <2>3, <2>4 DEF IndInv, RowFollowsJournal, Unrecognised, Bound, TypeOK, Recognition
  <2>8. JournalFollowsRow'
    BY <2>1, <2>2, <2>3 DEF IndInv, JournalFollowsRow, Bound
  <2>9. PolicyFromBind'
    BY <2>1, <2>2, <2>3, <2>4 DEF IndInv, PolicyFromBind, Unissued, TypeOK, Policy
  <2>10. QED
    BY <2>5, <2>6, <2>7, <2>8, <2>9 DEF IndInv
<1>4. ASSUME NEW q \in Quotes, NEW p \in Principals, DecideBind(q, "DECLINE", p) PROVE IndInv'
  <2>1. /\ quotes[q].status = "BIND_PENDING" /\ p # quotes[q].requestedBy
        /\ quotes' = [quotes EXCEPT ![q] = [quotes[q] EXCEPT !.status = "DECLINED"]]
        /\ decisions' = decisions \cup {[quote |-> q, decision |-> "DECLINE", by |-> p]}
        /\ journal' = journal /\ policies' = policies
    BY <1>4 DEF DecideBind
  <2>2. quotes'[q].status = "DECLINED" /\ quotes'[q].requestedBy = quotes[q].requestedBy
    BY <2>1 DEF TypeOK, Quote
  <2>3. \A x \in Quotes \ {q} : quotes'[x] = quotes[x]
    BY <2>1 DEF TypeOK
  <2>4. Undecided(q) /\ Unrecognised(q) /\ Unissued(q)
    BY <2>1, NoRecordYet
  <2>5. RowFollowsDecision'
    BY <2>1, <2>2, <2>3, <2>4 DEF IndInv, RowFollowsDecision, Undecided, Bound, TypeOK, BindDecision
  <2>6. DecisionFollowsRow'
    BY <2>1, <2>2, <2>3 DEF IndInv, DecisionFollowsRow, Bound
  <2>7. RowFollowsJournal'
    BY <2>1, <2>3, <2>4 DEF IndInv, RowFollowsJournal, Unrecognised, Bound, TypeOK, Recognition
  <2>8. JournalFollowsRow'
    BY <2>1, <2>2, <2>3 DEF IndInv, JournalFollowsRow, Bound
  <2>9. PolicyFromBind'
    BY <2>1, <2>3, <2>4 DEF IndInv, PolicyFromBind, Unissued, TypeOK, Policy
  <2>10. QED
    BY <2>5, <2>6, <2>7, <2>8, <2>9 DEF IndInv
<1>5. ASSUME NEW q \in Quotes, IssuePolicy(q) PROVE IndInv'
  <2>1. /\ quotes[q].status = "BOUND"
        /\ quotes' = [quotes EXCEPT ![q].status = "ISSUED"]
        /\ policies' = policies \cup {[quote |-> q, premium |-> quotes[q].premium]}
        /\ decisions' = decisions /\ journal' = journal
    BY <1>5 DEF IssuePolicy
  <2>2. /\ quotes'[q].status = "ISSUED" /\ quotes'[q].boundBy = quotes[q].boundBy
        /\ quotes'[q].premium = quotes[q].premium /\ quotes'[q].requestedBy = quotes[q].requestedBy
    BY <2>1 DEF TypeOK, Quote
  <2>3. \A x \in Quotes \ {q} : quotes'[x] = quotes[x]
    BY <2>1 DEF TypeOK
  <2>4. RowFollowsDecision'
    BY <2>1, <2>2, <2>3 DEF IndInv, RowFollowsDecision, Bound, TypeOK, BindDecision
  <2>5. DecisionFollowsRow'
    BY <2>1, <2>2, <2>3 DEF IndInv, DecisionFollowsRow, Bound
  <2>6. RowFollowsJournal'
    BY <2>1, <2>2, <2>3 DEF IndInv, RowFollowsJournal, Bound, TypeOK, Recognition
  <2>7. JournalFollowsRow'
    BY <2>1, <2>2, <2>3 DEF IndInv, JournalFollowsRow, Bound
  <2>8. PolicyFromBind'
    <3>1. [quote |-> q, decision |-> "BIND", by |-> quotes[q].boundBy] \in decisions
      BY <2>1 DEF IndInv, DecisionFollowsRow, Bound
    <3>2. QED
      BY <2>1, <2>2, <2>3, <3>1 DEF IndInv, PolicyFromBind, TypeOK, Policy
  <2>9. QED
    BY <2>4, <2>5, <2>6, <2>7, <2>8 DEF IndInv
<1>6. ASSUME UNCHANGED <<quotes, decisions, journal, policies>> PROVE IndInv'
  BY <1>6 DEF IndInv, RowFollowsDecision, DecisionFollowsRow, RowFollowsJournal,
              JournalFollowsRow, PolicyFromBind, Bound
<1>7. QED
  BY <1>1, <1>2, <1>3, <1>4, <1>5, <1>6
  DEF Next, vars, ValidityEnds, RefuseExpired, LoadBindRequest, AbandonBindRequest

\* The strengthening holds at the start, and from then on.
LEMMA Inductive == Spec => []IndInv
<1>1. Init => IndInv
  BY PremiumsAssumption
  DEF Init, IndInv, TypeOK, Quote, NoQuote, Statuses, RowFollowsDecision, DecisionFollowsRow,
      RowFollowsJournal, JournalFollowsRow, PolicyFromBind, Bound
<1>2. QED
  BY <1>1, IndInvStep, PTL DEF Spec

\* The bind record and the quote row tell one story, whatever bind requests were in
\* flight when the decision fell.
THEOREM DecisionsMatchQuotes == Spec => []DecisionMatchesQuote
<1>1. IndInv => DecisionMatchesQuote
  <2> SUFFICES ASSUME IndInv, NEW q \in Quotes
               PROVE  /\ Bound(q) <=> [quote |-> q, decision |-> "BIND", by |-> quotes[q].boundBy] \in decisions
                      /\ quotes[q].status = "DECLINED" <=> \E d \in decisions : d.quote = q /\ d.decision = "DECLINE"
                      /\ \A d \in decisions : d.quote = q => d.by # quotes[q].requestedBy
    BY DEF DecisionMatchesQuote
  <2> QED
    BY DEF IndInv, RowFollowsDecision, DecisionFollowsRow
<1>2. QED
  BY <1>1, Inductive, PTL

\* The premium is on the books, once and in full, exactly when the quote is bound.
THEOREM SubledgerFollowsQuotes == Spec => []BooksFollowBind
<1>1. IndInv => BooksFollowBind
  <2> SUFFICES ASSUME IndInv, NEW q \in Quotes
               PROVE  {j.amount : j \in {i \in journal : i.quote = q}}
                        = IF Bound(q) /\ quotes[q].premium > 0 THEN {quotes[q].premium} ELSE {}
    BY DEF BooksFollowBind
  <2>1. CASE Bound(q) /\ quotes[q].premium > 0
    <3>1. [quote |-> q, amount |-> quotes[q].premium] \in journal
      BY <2>1 DEF IndInv, JournalFollowsRow
    <3>2. \A j \in journal : j.quote = q => j.amount = quotes[q].premium
      BY DEF IndInv, RowFollowsJournal
    <3>3. QED
      BY <2>1, <3>1, <3>2
  <2>2. CASE ~(Bound(q) /\ quotes[q].premium > 0)
    BY <2>2 DEF IndInv, RowFollowsJournal
  <2>3. QED
    BY <2>1, <2>2
<1>2. QED
  BY <1>1, Inductive, PTL

\* Cover is issued only on a bind by two people, at the quoted premium.
THEOREM PoliciesFromBinds == Spec => []PolicyFromBind
<1>1. IndInv => PolicyFromBind
  BY DEF IndInv
<1>2. QED
  BY <1>1, Inductive, PTL

-----------------------------------------------------------------------------

\* Nobody has asked for a quote that is at most quoted; somebody has for a pending one.
Unasked == \A q \in Quotes :
             /\ quotes[q].status \in {"NONE", "QUOTED"} => quotes[q].requestedBy = NoOne
             /\ quotes[q].status = "BIND_PENDING" => quotes[q].requestedBy \in Principals

\* One step of NeverBackward.
Forward ==
  \A q \in Quotes :
    /\ Rank[quotes[q].status] <= Rank[quotes'[q].status]
    /\ quotes[q].requestedBy # NoOne => /\ quotes'[q].requestedBy = quotes[q].requestedBy
                                        /\ quotes'[q].premium = quotes[q].premium

\* The places of the statuses in the life of a quote.
LEMMA RankValues ==
  /\ Rank["NONE"] = 0 /\ Rank["QUOTED"] = 1 /\ Rank["BIND_PENDING"] = 2 /\ Rank["BOUND"] = 3
  /\ Rank["ISSUED"] = 4 /\ Rank["DECLINED"] = 5 /\ Rank["EXPIRED"] = 5
  BY DEF Rank, Statuses

\* Each transaction changes at most one row, along the one path, and only a
\* quote nobody has asked for yet gets a premium or a maker.
LEMMA RowMove ==
  ASSUME TypeOK, Unasked, [Next]_vars
  PROVE  Unasked' /\ Forward
<1> USE DEF TypeOK, Unasked, Forward
<1>0. \A q \in Quotes : Rank[quotes[q].status] <= Rank[quotes[q].status]
  BY RankValues DEF Quote, Statuses
<1>1. ASSUME NEW q \in Quotes, NEW premium \in Premiums, CreateQuote(q, premium)
      PROVE  Unasked' /\ Forward
  <2>1. /\ quotes[q].status = "NONE" /\ quotes'[q].status = "QUOTED"
        /\ quotes'[q].requestedBy = quotes[q].requestedBy
        /\ \A x \in Quotes \ {q} : quotes'[x] = quotes[x]
    BY <1>1 DEF CreateQuote, Quote
  <2>2. QED
    BY <2>1, <1>0, RankValues
<1>2. ASSUME NEW r \in inflight, RequestBind(r) PROVE Unasked' /\ Forward
  <2>1. r.quote \in Quotes /\ r.by \in Principals
    OBVIOUS
  <2>2. /\ quotes[r.quote].status = "QUOTED" /\ quotes'[r.quote].status = "BIND_PENDING"
        /\ quotes'[r.quote].requestedBy = r.by
        /\ \A x \in Quotes \ {r.quote} : quotes'[x] = quotes[x]
    BY <1>2, <2>1 DEF RequestBind, Quote
  <2>3. QED
    BY <2>1, <2>2, <1>0, RankValues
<1>3. ASSUME NEW q \in Quotes, NEW p \in Principals, NEW decision \in {"BIND", "DECLINE"},
             DecideBind(q, decision, p)
      PROVE  Unasked' /\ Forward
  <2>1. /\ quotes[q].status = "BIND_PENDING"
        /\ quotes' = [quotes EXCEPT ![q] = IF decision = "BIND"
                       THEN [quotes[q] EXCEPT !.status = "BOUND", !.boundBy = p]
                       ELSE [quotes[q] EXCEPT !.status = "DECLINED"]]
    BY <1>3 DEF DecideBind
  <2>2. /\ quotes'[q].status \in {"BOUND", "DECLINED"}
        /\ quotes'[q].requestedBy = quotes[q].requestedBy
        /\ quotes'[q].premium = quotes[q].premium
        /\ \A x \in Quotes \ {q} : quotes'[x] = quotes[x]
    BY <2>1 DEF Quote
  <2>3. QED
    BY <2>1, <2>2, <1>0, RankValues
<1>4. ASSUME NEW q \in Quotes, IssuePolicy(q) PROVE Unasked' /\ Forward
  <2>1. /\ quotes[q].status = "BOUND" /\ quotes'[q].status = "ISSUED"
        /\ quotes'[q].requestedBy = quotes[q].requestedBy
        /\ quotes'[q].premium = quotes[q].premium
        /\ \A x \in Quotes \ {q} : quotes'[x] = quotes[x]
    BY <1>4 DEF IssuePolicy, Quote
  <2>2. QED
    BY <2>1, <1>0, RankValues
<1>5. ASSUME UNCHANGED quotes PROVE Unasked' /\ Forward
  BY <1>5, <1>0
<1>6. QED
  BY <1>1, <1>2, <1>3, <1>4, <1>5
  DEF Next, vars, ValidityEnds, RefuseExpired, LoadBindRequest, AbandonBindRequest

\* A quote only moves forward, and what the checker approves is what the maker asked for.
THEOREM QuotesMoveForward == Spec => NeverBackward
<1>1. Init => Unasked
  <2> SUFFICES ASSUME Init, NEW q \in Quotes
               PROVE  quotes[q].status = "NONE" /\ quotes[q].requestedBy = NoOne
    BY DEF Unasked
  <2> QED
    BY DEF Init, NoQuote
<1>2. TypeOK /\ Unasked /\ [Next]_vars => Unasked'
  BY RowMove
<1>3. TypeOK /\ Unasked /\ [Next]_vars => [Forward]_vars
  BY RowMove
<1>4. QED
  BY <1>1, <1>2, <1>3, QuoteTypes, PTL DEF Spec, NeverBackward, Forward

-----------------------------------------------------------------------------

\* The refinement mapping, named as QuoteLifecycle gives it.
Price == [q \in Quotes |-> IF quotes[q].status = "NONE" THEN -1 ELSE quotes[q].premium]
Agreements == {[quote |-> d.quote, maker |-> quotes[d.quote].requestedBy,
                checker |-> d.by, outcome |-> d.decision] : d \in decisions}
Issued == {pol.quote : pol \in policies}

\* As long as the row of every decided quote keeps its maker, agreements only grow
\* with decisions.
LEMMA AgreementsKept ==
  ASSUME TypeOK, decisions' = decisions,
         \A d \in decisions : quotes'[d.quote].requestedBy = quotes[d.quote].requestedBy
  PROVE  Agreements' = Agreements
  BY DEF Agreements

\* A step on an undecided quote leaves every agreement alone.
LEMMA UndecidedKeepsAgreements ==
  ASSUME TypeOK, NEW q \in Quotes, Undecided(q), decisions' = decisions,
         \A x \in Quotes \ {q} : quotes'[x] = quotes[x]
  PROVE  Agreements' = Agreements
<1>1. \A d \in decisions : d.quote \in Quotes \ {q}
  BY DEF TypeOK, BindDecision, Undecided
<1>2. QED
  BY <1>1, AgreementsKept

\* Every transaction is one step of the abstract agreement, or none.
LEMMA AgreementStep ==
  ASSUME IndInv, IndInv', Unasked, [Next]_vars
  PROVE  [Agreement!Next]_(Agreement!vars)
<1> TypeOK /\ TypeOK'
  BY DEF IndInv
<1> USE DEF Agreement!Next, Agreement!vars
<1>1. ASSUME NEW q \in Quotes, NEW premium \in Premiums, CreateQuote(q, premium)
      PROVE  Agreement!Offer(q, premium)
  <2>1. /\ quotes[q].status = "NONE" /\ quotes'[q].status = "QUOTED"
        /\ quotes'[q].premium = premium
        /\ \A x \in Quotes \ {q} : quotes'[x] = quotes[x]
        /\ UNCHANGED <<decisions, journal, policies>>
    BY <1>1 DEF CreateQuote, TypeOK, Quote
  <2>2. Agreements' = Agreements
    BY <2>1, NoRecordYet, UndecidedKeepsAgreements
  <2>3. Price[q] = -1 /\ Price' = [Price EXCEPT ![q] = premium]
    BY <2>1 DEF Price
  <2>4. QED
    BY <2>1, <2>2, <2>3 DEF Agreement!Offer, Agreements, Price
<1>2. ASSUME NEW r \in inflight, RequestBind(r) PROVE UNCHANGED (Agreement!vars)
  <2>1. r.quote \in Quotes
    BY DEF TypeOK
  <2>2. /\ quotes[r.quote].status = "QUOTED" /\ quotes'[r.quote].status = "BIND_PENDING"
        /\ quotes'[r.quote].premium = quotes[r.quote].premium
        /\ \A x \in Quotes \ {r.quote} : quotes'[x] = quotes[x]
        /\ UNCHANGED <<decisions, journal, policies>>
    BY <1>2, <2>1 DEF RequestBind, TypeOK, Quote
  <2>3. Agreements' = Agreements
    BY <2>1, <2>2, NoRecordYet, UndecidedKeepsAgreements
  <2>4. Price' = Price
    BY <2>1, <2>2 DEF Price
  <2>5. QED
    BY <2>2, <2>3, <2>4 DEF Agreements, Price
<1>3. ASSUME NEW q \in Quotes, NEW p \in Principals, NEW decision \in {"BIND", "DECLINE"},
             DecideBind(q, decision, p)
      PROVE  Agreement!Agree(q, quotes[q].requestedBy, p, decision)
             /\ quotes[q].requestedBy \in Principals
  <2>1. /\ quotes[q].status = "BIND_PENDING" /\ p # quotes[q].requestedBy
        /\ quotes' = [quotes EXCEPT ![q] = IF decision = "BIND"
                       THEN [quotes[q] EXCEPT !.status = "BOUND", !.boundBy = p]
                       ELSE [quotes[q] EXCEPT !.status = "DECLINED"]]
        /\ decisions' = decisions \cup {[quote |-> q, decision |-> decision, by |-> p]}
        /\ journal' = IF decision = "BIND" /\ quotes[q].premium > 0
                      THEN journal \cup {[quote |-> q, amount |-> quotes[q].premium]} ELSE journal
        /\ policies' = policies
    BY <1>3 DEF DecideBind
  <2>2. /\ quotes'[q].status \in {"BOUND", "DECLINED"}
        /\ quotes'[q].requestedBy = quotes[q].requestedBy
        /\ quotes'[q].premium = quotes[q].premium
        /\ \A x \in Quotes \ {q} : quotes'[x] = quotes[x]
    BY <2>1 DEF TypeOK, Quote
  <2>3. Undecided(q) /\ quotes[q].requestedBy \in Principals
    BY <2>1, NoRecordYet DEF Unasked
  <2>4. \A d \in decisions : quotes'[d.quote].requestedBy = quotes[d.quote].requestedBy
    BY <2>2 DEF TypeOK, BindDecision
  <2>5. Agreements' = Agreements \cup {[quote |-> q, maker |-> quotes[q].requestedBy,
                                        checker |-> p, outcome |-> decision]}
    <3> DEFINE new == [quote |-> q, decision |-> decision, by |-> p]
    <3>1. Agreements' = {[quote |-> d.quote, maker |-> quotes'[d.quote].requestedBy,
                          checker |-> d.by, outcome |-> d.decision] : d \in decisions \cup {new}}
      BY <2>1 DEF Agreements
    <3>2. ASSUME NEW a \in Agreements'
          PROVE  a \in Agreements \cup {[quote |-> q, maker |-> quotes[q].requestedBy,
                                         checker |-> p, outcome |-> decision]}
      BY <3>1, <2>2, <2>4 DEF Agreements
    <3>3. Agreements \subseteq Agreements'
      BY <3>1, <2>4 DEF Agreements
    <3>4. [quote |-> q, maker |-> quotes[q].requestedBy, checker |-> p, outcome |-> decision]
            \in Agreements'
      BY <3>1, <2>2
    <3>5. QED
      BY <3>2, <3>3, <3>4
  <2>6. \A a \in Agreements : a.quote # q
    BY <2>3 DEF Agreements, Undecided
  <2>7. Price' = Price /\ Price[q] = quotes[q].premium /\ Price[q] # -1
    BY <2>1, <2>2 DEF Price, TypeOK, Quote
  <2>8. QED
    BY <2>1, <2>3, <2>5, <2>6, <2>7 DEF Agreement!Agree, Agreements, Price
<1>4. ASSUME NEW q \in Quotes, IssuePolicy(q) PROVE Agreement!Issue(q)
  <2>1. /\ quotes[q].status = "BOUND" /\ quotes'[q].status = "ISSUED"
        /\ quotes'[q].requestedBy = quotes[q].requestedBy
        /\ quotes'[q].premium = quotes[q].premium
        /\ \A x \in Quotes \ {q} : quotes'[x] = quotes[x]
        /\ policies' = policies \cup {[quote |-> q, premium |-> quotes[q].premium]}
        /\ UNCHANGED <<decisions, journal>>
        /\ Unissued(q)
    BY <1>4 DEF IssuePolicy, TypeOK, Quote
  <2>2. Agreements' = Agreements
    <3>1. \A d \in decisions : quotes'[d.quote].requestedBy = quotes[d.quote].requestedBy
      BY <2>1 DEF TypeOK, BindDecision
    <3>2. QED
      BY <2>1, <3>1, AgreementsKept
  <2>3. Price' = Price
    BY <2>1 DEF Price
  <2>4. Issued' = Issued \cup {q} /\ q \notin Issued
    <3> DEFINE new == [quote |-> q, premium |-> quotes[q].premium]
    <3>1. policies' = policies \cup {new} /\ new.quote = q
      BY <2>1
    <3> HIDE DEF new
    <3>2. Issued' = Issued \cup {q}
      BY <3>1 DEF Issued
    <3>3. q \notin Issued
      BY <2>1 DEF Issued, Unissued
    <3>4. QED
      BY <3>2, <3>3
  <2>5. \E a \in Agreements : a.quote = q /\ a.outcome = "BIND"
    <3>1. [quote |-> q, decision |-> "BIND", by |-> quotes[q].boundBy] \in decisions
      BY <2>1 DEF IndInv, DecisionFollowsRow, Bound
    <3>2. [quote |-> q, maker |-> quotes[q].requestedBy, checker |-> quotes[q].boundBy,
           outcome |-> "BIND"] \in Agreements
      <4> DEFINE d == [quote |-> q, decision |-> "BIND", by |-> quotes[q].boundBy]
      <4>1. [quote |-> d.quote, maker |-> quotes[d.quote].requestedBy, checker |-> d.by,
             outcome |-> d.decision] \in Agreements
        BY <3>1 DEF Agreements
      <4>2. QED
        BY <4>1
    <3>3. QED
      BY <3>2
  <2>6. QED
    BY <2>1, <2>2, <2>3, <2>4, <2>5 DEF Agreement!Issue, Agreements, Price, Issued
<1>5. ASSUME UNCHANGED <<quotes, decisions, journal, policies>> PROVE UNCHANGED (Agreement!vars)
  BY <1>5
<1>6. QED
  BY <1>1, <1>2, <1>3, <1>4, <1>5
  DEF Next, vars, ValidityEnds, RefuseExpired, LoadBindRequest, AbandonBindRequest

\* Under every interleaving of bind requests, bind is one agreement between two
\* different principals, booked in the same step, and cover follows it.
THEOREM BindIsAgreement == Spec => ImplementsAgreement
<1>1. Init => Agreement!Init
  BY DEF Init, Agreement!Init, NoQuote
<1>2. Init => Unasked
  <2> SUFFICES ASSUME Init, NEW q \in Quotes
               PROVE  quotes[q].status = "NONE" /\ quotes[q].requestedBy = NoOne
    BY DEF Unasked
  <2> QED
    BY DEF Init, NoQuote
<1>3. TypeOK /\ Unasked /\ [Next]_vars => Unasked'
  BY RowMove
<1>4. IndInv /\ IndInv' /\ Unasked /\ [Next]_vars => [Agreement!Next]_(Agreement!vars)
  BY AgreementStep
<1>5. QED
  BY <1>1, <1>2, <1>3, <1>4, QuoteTypes, Inductive, PTL
  DEF Spec, ImplementsAgreement, Agreement!Spec
=============================================================================
