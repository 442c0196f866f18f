--------------------------- MODULE QuoteLifecycle ---------------------------
(***************************************************************************)
(* Quote -> bind request (maker) -> bind decision (checker) -> issuance,   *)
(* with the premium recognised in the journal at bind                      *)
(* (services/lifecycle.py, api/routes_quotes.py).                          *)
(*                                                                         *)
(* An action is one database transaction, from the row lock and refresh to *)
(* the commit: everything a handler decides after its SELECT ... FOR       *)
(* UPDATE it decides on the committed row, and nobody else can change that *)
(* row before it commits.  The one handler that decides BEFORE its lock is *)
(* request_bind, so it is two actions: LoadBindRequest (the route's plain  *)
(* SELECT and the checks on that snapshot) and RequestBind (lock, refresh, *)
(* re-check, commit), with the request in "inflight" in between.           *)
(***************************************************************************)
EXTENDS Integers

CONSTANTS Quotes,      \* quote_ref of every quote that can be created
          Principals,  \* subjects the verifier accepts
          Premiums,    \* premiums, in kobo, the rating engine can return
          NoOne        \* the empty string in the *_by columns

ASSUME PremiumsAssumption == Premiums \subseteq Nat
ASSUME NoOneAssumption == NoOne \notin Principals

VARIABLES quotes,     \* the quotes table
          expired,    \* quotes whose expires_at lies in the past
          inflight,   \* request_bind handlers between their load and their lock
          refused,    \* quotes some client was told "409 quote-expired" about
          decisions,  \* the bind_decisions table
          journal,    \* journals with a premium-bind:<quote_ref> reference
          policies    \* the policies table, as far as quotes are concerned

vars == <<quotes, expired, inflight, refused, decisions, journal, policies>>

Statuses == {"QUOTED", "BIND_PENDING", "BOUND", "ISSUED", "DECLINED", "EXPIRED"}

Quote == [status : Statuses \cup {"NONE"}, premium : Nat,
          requestedBy : Principals \cup {NoOne}, boundBy : Principals \cup {NoOne}]

BindDecision == [quote : Quotes, decision : {"BIND", "DECLINE"}, by : Principals]

\* Journals of this component: Dr premium:receivable / Cr premium:income.
Recognition == [quote : Quotes, amount : Nat]

Policy == [quote : Quotes, premium : Nat]

NoQuote == [status |-> "NONE", premium |-> 0, requestedBy |-> NoOne, boundBy |-> NoOne]

-----------------------------------------------------------------------------

\* CHECK constraint ck_quote_dual_control on the row a transaction writes.
DualControlCheck(row) == row.boundBy = NoOne \/ row.boundBy # row.requestedBy

\* UNIQUE (quote_id) on bind_decisions, reference on journals, quote_id on policies.
Undecided(q)    == \A d \in decisions : d.quote # q
Unrecognised(q) == \A j \in journal : j.quote # q
Unissued(q)     == \A p \in policies : p.quote # q

Init == /\ quotes = [q \in Quotes |-> NoQuote]
        /\ expired = {}
        /\ inflight = {}
        /\ refused = {}
        /\ decisions = {}
        /\ journal = {}
        /\ policies = {}

\* Mutant: a rebate is taken off the rated premium without a floor at zero.
CreateQuoteRebate(q, premium) ==
  /\ quotes[q].status = "NONE"
  /\ quotes' = [quotes EXCEPT ![q].status = "QUOTED", ![q].premium = premium - 1]
  /\ UNCHANGED <<expired, inflight, refused, decisions, journal, policies>>

\* create_quote: the row and its rated premium (Tariffs prices it).
CreateQuote(q, premium) ==
  /\ quotes[q].status = "NONE"
  /\ quotes' = [quotes EXCEPT ![q].status = "QUOTED", ![q].premium = premium]
  /\ UNCHANGED <<expired, inflight, refused, decisions, journal, policies>>

\* expires_at passes.
ValidityEnds(q) ==
  /\ quotes[q].status # "NONE"
  /\ q \notin expired
  /\ expired' = expired \cup {q}
  /\ UNCHANGED <<quotes, inflight, refused, decisions, journal, policies>>

\* request_bind, before the lock: the loaded quote is valid and QUOTED.
LoadBindRequest(q, p) ==
  /\ quotes[q].status = "QUOTED"
  /\ q \notin expired
  /\ inflight' = inflight \cup {[quote |-> q, by |-> p]}
  /\ UNCHANGED <<quotes, expired, refused, decisions, journal, policies>>

\* request_bind on a quote past its validity: it assigns EXPIRED to the row and
\* flushes, raises, and the route rolls the transaction back; whatever the status
\* was, the answer is quote-expired.
RefuseExpired(q) ==
  /\ q \in expired
  /\ refused' = refused \cup {q}
  /\ UNCHANGED <<quotes, expired, inflight, decisions, journal, policies>>

\* Mutant: request_bind trusts the snapshot it took before its lock.
RequestBindNoRecheck(r) ==
  /\ r \in inflight
  /\ quotes' = [quotes EXCEPT ![r.quote].status = "BIND_PENDING", ![r.quote].requestedBy = r.by]
  /\ inflight' = inflight \ {r}
  /\ UNCHANGED <<expired, refused, decisions, journal, policies>>

\* request_bind, from the lock on: only the status is checked again.
RequestBind(r) ==
  LET row == [quotes[r.quote] EXCEPT !.status = "BIND_PENDING", !.requestedBy = r.by]
  IN  /\ r \in inflight
      /\ quotes[r.quote].status = "QUOTED"
      /\ DualControlCheck(row)
      /\ quotes' = [quotes EXCEPT ![r.quote] = row]
      /\ inflight' = inflight \ {r}
      /\ UNCHANGED <<expired, refused, decisions, journal, policies>>

\* The request ends without a commit: bad-state after the lock, a lost
\* connection, a killed worker.
AbandonBindRequest(r) ==
  /\ r \in inflight
  /\ inflight' = inflight \ {r}
  /\ UNCHANGED <<quotes, expired, refused, decisions, journal, policies>>

\* Mutant: the recognition is posted whatever the decision.
DecideBindBooksAlways(q, decision, p) ==
  /\ quotes[q].status = "BIND_PENDING"
  /\ p # quotes[q].requestedBy
  /\ Undecided(q)
  /\ decisions' = decisions \cup {[quote |-> q, decision |-> decision, by |-> p]}
  /\ quotes' = [quotes EXCEPT ![q].status = IF decision = "BIND" THEN "BOUND" ELSE "DECLINED",
                              ![q].boundBy = IF decision = "BIND" THEN p ELSE @]
  /\ journal' = journal \cup {[quote |-> q, amount |-> quotes[q].premium]}
  /\ UNCHANGED <<expired, inflight, refused, policies>>

\* Mutant: a free bind is decided by whoever asked for it.
DecideBindFreeAlone(q, decision, p) ==
  /\ quotes[q].status = "BIND_PENDING"
  /\ quotes[q].premium = 0
  /\ Undecided(q)
  /\ decisions' = decisions \cup {[quote |-> q, decision |-> decision, by |-> p]}
  /\ quotes' = [quotes EXCEPT ![q].status = IF decision = "BIND" THEN "BOUND" ELSE "DECLINED"]
  /\ UNCHANGED <<expired, inflight, refused, journal, policies>>

\* decide_bind: the checker's decision and, for BIND of a priced quote, the
\* recognition journal, in one transaction.
DecideBind(q, decision, p) ==
  LET row == IF decision = "BIND"
             THEN [quotes[q] EXCEPT !.status = "BOUND", !.boundBy = p]
             ELSE [quotes[q] EXCEPT !.status = "DECLINED"]
  IN  /\ quotes[q].status = "BIND_PENDING"
      /\ p # quotes[q].requestedBy
      /\ DualControlCheck(row)
      /\ Undecided(q)
      /\ decisions' = decisions \cup {[quote |-> q, decision |-> decision, by |-> p]}
      /\ quotes' = [quotes EXCEPT ![q] = row]
      /\ IF decision = "BIND" /\ quotes[q].premium > 0
         THEN /\ Unrecognised(q)
              /\ journal' = journal \cup {[quote |-> q, amount |-> quotes[q].premium]}
         ELSE UNCHANGED journal
      /\ UNCHANGED <<expired, inflight, refused, policies>>

\* Mutant: any decided quote can be issued.
IssuePolicyDecided(q) ==
  /\ quotes[q].status \in {"BOUND", "DECLINED"}
  /\ Unissued(q)
  /\ policies' = policies \cup {[quote |-> q, premium |-> quotes[q].premium]}
  /\ quotes' = [quotes EXCEPT ![q].status = "ISSUED"]
  /\ UNCHANGED <<expired, inflight, refused, decisions, journal>>

\* issue_policy, as one transaction (PolicyIssuance opens it up).
IssuePolicy(q) ==
  /\ quotes[q].status = "BOUND"
  /\ Unissued(q)
  /\ policies' = policies \cup {[quote |-> q, premium |-> quotes[q].premium]}
  /\ quotes' = [quotes EXCEPT ![q].status = "ISSUED"]
  /\ UNCHANGED <<expired, inflight, refused, decisions, journal>>

Next == \/ \E q \in Quotes, premium \in Premiums : CreateQuote(q, premium)
        \/ \E q \in Quotes : ValidityEnds(q) \/ RefuseExpired(q) \/ IssuePolicy(q)
        \/ \E q \in Quotes, p \in Principals : LoadBindRequest(q, p)
        \/ \E r \in inflight : RequestBind(r) \/ AbandonBindRequest(r)
        \/ \E q \in Quotes, p \in Principals, decision \in {"BIND", "DECLINE"} :
              DecideBind(q, decision, p)

Spec == Init /\ [][Next]_vars

-----------------------------------------------------------------------------
(* What the component must keep.                                           *)

\* The rows, requests and documents of the model have their types.
TypeOK ==
  /\ quotes \in [Quotes -> Quote]
  /\ expired \subseteq Quotes
  /\ inflight \subseteq [quote : Quotes, by : Principals]
  /\ refused \subseteq Quotes
  /\ decisions \subseteq BindDecision
  /\ journal \subseteq Recognition
  /\ policies \subseteq Policy

Bound(q) == quotes[q].status \in {"BOUND", "ISSUED"}

\* "The subledger can never diverge from the quote state" (decide_bind): a
\* quote's premium is on the books, in full and once, exactly when the quote
\* is bound and not free.
BooksFollowBind ==
  \A q \in Quotes :
    {j.amount : j \in {i \in journal : i.quote = q}}
       = IF Bound(q) /\ quotes[q].premium > 0 THEN {quotes[q].premium} ELSE {}

\* The immutable bind record and the mutable quote row tell one story: the same
\* outcome, taken by the checker the row names, who is not its maker.  However
\* many bind requests were in flight when the decision fell, no later commit
\* may move the row away from it.
DecisionMatchesQuote ==
  \A q \in Quotes :
    /\ Bound(q) <=> [quote |-> q, decision |-> "BIND", by |-> quotes[q].boundBy] \in decisions
    /\ quotes[q].status = "DECLINED" <=> \E d \in decisions : d.quote = q /\ d.decision = "DECLINE"
    /\ \A d \in decisions : d.quote = q => d.by # quotes[q].requestedBy

\* Every policy in force was bound by two people, and costs what the quote said.
PolicyFromBind ==
  \A pol \in policies :
    /\ quotes[pol.quote].status = "ISSUED"
    /\ pol.premium = quotes[pol.quote].premium
    /\ \E d \in decisions : d.quote = pol.quote /\ d.decision = "BIND"

Rank == [s \in Statuses \cup {"NONE"} |->
           CASE s = "NONE" -> 0 [] s = "QUOTED" -> 1 [] s = "BIND_PENDING" -> 2
             [] s = "BOUND" -> 3 [] s = "ISSUED" -> 4 [] OTHER -> 5]

\* A quote only moves forward, and the maker and the premium of a requested
\* bind are frozen: the checker approves what the maker asked for.
NeverBackward ==
  [][\A q \in Quotes :
       /\ Rank[quotes[q].status] <= Rank[quotes'[q].status]
       /\ quotes[q].requestedBy # NoOne =>
            /\ quotes'[q].requestedBy = quotes[q].requestedBy
            /\ quotes'[q].premium = quotes[q].premium]_vars

\* Under all these interleavings bind is one agreement between two principals:
\* every transaction is a step of BindAgreement or invisible there.
Agreement == INSTANCE BindAgreement WITH
  price     <- [q \in Quotes |-> IF quotes[q].status = "NONE" THEN -1 ELSE quotes[q].premium],
  agreement <- {[quote |-> d.quote, maker |-> quotes[d.quote].requestedBy,
                 checker |-> d.by, outcome |-> d.decision] : d \in decisions},
  booked    <- journal,
  issued    <- {pol.quote : pol \in policies}

ImplementsAgreement == Agreement!Spec

-----------------------------------------------------------------------------
(* What the repository says and the code does not do.                      *)

\* models.py: EXPIRED is "quote validity lapsed before bind": a quote refused as
\* expired while still QUOTED is recorded as such.
RefusalIsRecorded == \A q \in refused : quotes[q].status # "QUOTED"
=============================================================================
