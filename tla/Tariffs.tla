------------------------------ MODULE Tariffs ------------------------------
(***************************************************************************)
(* The product catalogue (one product code), its effective-dated rate      *)
(* tables, the ISR evidence of one corridor, and the quotes priced from    *)
(* them, declarations included (services/lifecycle.py, services/isr.py,    *)
(* api/routes_products.py, api/routes_quotes.py).                          *)
(*                                                                         *)
(* A request is a READ COMMITTED transaction; its statements interleave    *)
(* with those of the others.  A request may end at any point (Abandon),    *)
(* after a refusal, a conflict or a lost connection.                       *)
(***************************************************************************)
EXTENDS Rating, FiniteSets

CONSTANTS Workers,      \* requests in progress
          RateCards,    \* contents of rate tables
          Windows,      \* their windows, [from, to]
          Shipments,    \* declared lines
          Envelopes,    \* evidence that is posted: entry, event, delta (basis points),
                        \* authorised (signed by a known key, its digest pinned)
          Events,       \* source_event_ids of declarations
          NoEvent,      \* a quote asked for directly
          MaxVersions, MaxDays, MaxTables, MaxQuotes  \* bounds

ASSUME EvidenceAssumption ==
  /\ IsFiniteSet(Envelopes)
  /\ \A env \in Envelopes : env.delta \in Int /\ env.authorised \in BOOLEAN
ASSUME EventAssumption == NoEvent \notin Events
ASSUME MoneyAssumption ==
  /\ \A rates \in RateCards : rates.fee \in Int
  /\ \A lines \in Shipments : lines \in Seq([value : Int, class : Classes])
ASSUME BoundAssumption == {MaxVersions, MaxTables, MaxQuotes} \subseteq Nat /\ MaxDays \in Nat \ {0}

VARIABLES today,     \* the date
          products,  \* status of each version
          tables,    \* the rate_tables table
          ingested,  \* the isr_evidence table
          quotes,    \* the quotes table
          reqs       \* the request of each worker

vars == <<today, products, tables, ingested, quotes, reqs>>

Versions == 1 .. MaxVersions
Days     == 1 .. MaxDays
Forever  == MaxDays + 1  \* effective_to IS NULL

Statuses == {"NONE", "DRAFT", "ACTIVE"}

\* CHECK ck_rate_window.
ASSUME WindowAssumption == \A w \in Windows : w.from \in Days /\ w.to \in Days \cup {Forever} /\ w.from < w.to

Table == [version : Versions, window : Windows, rates : RateCards]

\* day: the date it was rated on; route, rates, lines, premium: its rating_trace.
Quote == [no : 1 .. MaxQuotes, version : Versions, day : Days, rates : RateCards,
          lines : Shipments, route : Nat, premium : Nat, event : Events \cup {NoEvent}]

Idle == [op |-> "idle"]

Request ==
  {Idle}
  \cup [op : {"create", "activate", "table"}, version : Versions]
  \cup [op : {"insert table"}, table : Table]
  \cup [op : {"looked up"}, event : Events \cup {NoEvent}]
  \cup [op : {"rating"}, event : Events \cup {NoEvent}, version : Versions, route : Nat]
  \cup [op : {"insert quote"}, quote : Quote]

Init == /\ today = 1
        /\ products = [v \in Versions |-> "NONE"]
        /\ tables = {} /\ ingested = {} /\ quotes = {}
        /\ reqs = [w \in Workers |-> Idle]

-----------------------------------------------------------------------------

Set(w, req) == reqs' = [reqs EXCEPT ![w] = req]

OnlyReqs == UNCHANGED <<today, products, tables, ingested, quotes>>

Newest == Max({0} \cup {v \in Versions : products[v] # "NONE"})

Midnight ==
  /\ today < MaxDays
  /\ today' = today + 1
  /\ UNCHANGED <<products, tables, ingested, quotes, reqs>>

\* ingest_evidence: verified and pinned or refused; UNIQUE (evidence_id) and UNIQUE
\* (source_event_id), so neither the entry nor the event comes in twice.
IngestEvidence(env) ==
  /\ env.authorised
  /\ env.delta > 0
  /\ \A row \in ingested : row.entry # env.entry /\ row.event # env.event
  /\ ingested' = ingested \cup {env}
  /\ UNCHANGED <<today, products, tables, quotes, reqs>>

-----------------------------------------------------------------------------
(* Products.                                                               *)

\* create_product: max(version) + 1, without a lock.
ReadVersion(w) ==
  /\ reqs[w] = Idle
  /\ Newest < MaxVersions
  /\ Set(w, [op |-> "create", version |-> Newest + 1])
  /\ OnlyReqs

\* UNIQUE (code, version): of two that read the same maximum one fails.
CreateProduct(w) ==
  /\ reqs[w].op = "create"
  /\ products[reqs[w].version] = "NONE"
  /\ products' = [products EXCEPT ![reqs[w].version] = "DRAFT"]
  /\ Set(w, Idle)
  /\ UNCHANGED <<today, tables, ingested, quotes>>

\* activate_product: the status as the route loaded it.
LoadDraft(w, v) ==
  /\ reqs[w] = Idle
  /\ products[v] = "DRAFT"
  /\ Set(w, [op |-> "activate", version |-> v])
  /\ OnlyReqs

ActivateProduct(w) ==
  /\ reqs[w].op = "activate"
  /\ \E t \in tables : t.version = reqs[w].version
  /\ products' = [products EXCEPT ![reqs[w].version] = "ACTIVE"]
  /\ Set(w, Idle)
  /\ UNCHANGED <<today, tables, ingested, quotes>>

-----------------------------------------------------------------------------
(* Rate tables.                                                            *)

HoldsProduct(w, v) == \/ reqs[w].op = "table" /\ reqs[w].version = v
                      \/ reqs[w].op = "insert table" /\ reqs[w].table.version = v

\* Mutant: the product row is read, not locked.
LockProductNever(w, v) ==
  /\ reqs[w] = Idle
  /\ products[v] # "NONE"
  /\ Set(w, [op |-> "table", version |-> v])
  /\ OnlyReqs

\* add_rate_table: FOR UPDATE on the product row; any status will do.
LockProduct(w, v) ==
  /\ reqs[w] = Idle
  /\ products[v] # "NONE"
  /\ \A u \in Workers : ~HoldsProduct(u, v)
  /\ Set(w, [op |-> "table", version |-> v])
  /\ OnlyReqs

\* Mutant: only the first day of the new window is compared.
OverlapsAtStart(old, new) == old.from <= new.from /\ new.from <= old.to

\* Both ends count, though a table does not cover its last day.
Overlaps(old, new) == old.from <= new.to /\ new.from <= old.to

\* base_rates_bp: a non-empty object of rates from 0 to 10000, and nothing else is checked.
WellFormed(rates) ==
  DOMAIN rates.base # {} /\ \A c \in DOMAIN rates.base : rates.base[c] \in 0 .. BpDenom

CheckTable(w, window, rates) ==
  /\ reqs[w].op = "table"
  /\ WellFormed(rates)
  /\ \A t \in tables : t.version = reqs[w].version => ~Overlaps(t.window, window)
  /\ Set(w, [op |-> "insert table",
             table |-> [version |-> reqs[w].version, window |-> window, rates |-> rates]])
  /\ OnlyReqs

AddRateTable(w) ==
  /\ reqs[w].op = "insert table"
  /\ Cardinality(tables) < MaxTables
  /\ tables' = tables \cup {reqs[w].table}
  /\ Set(w, Idle)
  /\ UNCHANGED <<today, products, ingested, quotes>>

-----------------------------------------------------------------------------
(* Quotes.                                                                 *)

Covers(t, day) == t.window.from <= day /\ day < t.window.to

Covering(v, day) == {t \in tables : t.version = v /\ Covers(t, day)}

\* effective_rate_table: the latest to begin of those that cover the day.
EffectiveTable(v, day) ==
  CHOOSE t \in Covering(v, day) : \A u \in Covering(v, day) : u.window.from <= t.window.from

\* quote_from_declaration: one lookup by source_event_id; a quote found is the answer
\* (and changes nothing).  create_quote looks nothing up.
LookUp(w, event) ==
  /\ reqs[w] = Idle
  /\ event # NoEvent => \A q \in quotes : q.event # event
  /\ Set(w, [op |-> "looked up", event |-> event])
  /\ OnlyReqs

\* corridor_route_risk: the sum over the evidence there is.
RouteRisk == MapThenSumSet(LAMBDA row : row.delta, ingested)

\* get_active_product, for a version asked for or else the newest, DRAFT or not; then
\* corridor_route_risk.
LoadProduct(w, v) ==
  /\ reqs[w].op = "looked up"
  /\ products[v] = "ACTIVE"
  /\ reqs[w].event # NoEvent => v = Newest
  /\ \E route \in {0, RouteRisk} :
       Set(w, [op |-> "rating", event |-> reqs[w].event, version |-> v, route |-> route])
  /\ OnlyReqs

\* The rate table of today, and rate_quote.
RateQuote(w, lines) ==
  /\ reqs[w].op = "rating"
  /\ Cardinality(quotes) < MaxQuotes
  /\ Covering(reqs[w].version, today) # {}
  /\ LET req   == reqs[w]
         rates == EffectiveTable(req.version, today).rates
     IN  /\ Rateable(rates, lines, req.route)
         /\ Set(w, [op |-> "insert quote",
                    quote |-> [no |-> 1, version |-> req.version, day |-> today, rates |-> rates,
                               lines |-> lines, route |-> req.route, event |-> req.event,
                               premium |-> Premium(rates, lines, req.route)]])
  /\ OnlyReqs

\* No constraint on source_event_id.
CreateQuote(w) ==
  /\ reqs[w].op = "insert quote"
  /\ Cardinality(quotes) < MaxQuotes
  /\ quotes' = quotes \cup {[reqs[w].quote EXCEPT !.no = Cardinality(quotes) + 1]}
  /\ Set(w, Idle)
  /\ UNCHANGED <<today, products, tables, ingested>>

-----------------------------------------------------------------------------

Abandon(w) ==
  /\ reqs[w] # Idle
  /\ Set(w, Idle)
  /\ OnlyReqs

Catalogue(w) ==
  \/ ReadVersion(w) \/ CreateProduct(w) \/ ActivateProduct(w) \/ AddRateTable(w)
  \/ \E v \in Versions : LoadDraft(w, v) \/ LockProduct(w, v)
  \/ \E window \in Windows, rates \in RateCards : CheckTable(w, window, rates)

Quoting(w) ==
  \/ \E event \in Events \cup {NoEvent} : LookUp(w, event)
  \/ \E v \in Versions : LoadProduct(w, v)
  \/ \E lines \in Shipments : RateQuote(w, lines)
  \/ CreateQuote(w)

Next == \/ Midnight
        \/ \E env \in Envelopes : IngestEvidence(env)
        \/ \E w \in Workers : Catalogue(w) \/ Quoting(w) \/ Abandon(w)

Spec == Init /\ [][Next]_vars

-----------------------------------------------------------------------------

\* Rows and requests have their types; no premium is negative, whatever loadings and
\* caps a rate table brings.
TypeOK ==
  /\ today \in Days
  /\ products \in [Versions -> Statuses]
  /\ tables \subseteq Table
  /\ ingested \subseteq Envelopes
  /\ quotes \subseteq Quote
  /\ reqs \in [Workers -> Request]

\* "Exactly one table may cover a given date per product version" (models.py),
\* concurrent additions included.
OneTablePerDay ==
  \A v \in Versions, day \in Days : \A t, u \in Covering(v, day) : t = u

\* "Every premium is re-derivable" (rating.py): looked up again at any later time, the
\* rating day of a quote still leads to the rates it was priced with, and to its premium.
QuotesRederivable ==
  \A q \in quotes :
    /\ Covering(q.version, q.day) # {}
    /\ EffectiveTable(q.version, q.day).rates = q.rates
    /\ q.premium = Premium(q.rates, q.lines, q.route)

\* The sums of evidence that names no entry twice and comes from authorised sources.
HonestRoutes ==
  LET distinct(rows) == \A a, b \in rows : a.entry = b.entry => a = b
  IN  {MapThenSumSet(LAMBDA row : row.delta, rows) :
         rows \in {some \in SUBSET {env \in Envelopes : env.authorised /\ env.delta > 0} :
                     distinct(some)}}

\* Integer rounding costs or gains a client at most half a kobo per line, no line is
\* charged more than its value, for every table that add_rate_table lets in, and the
\* route risk is charged for authorised evidence only, each ledger entry once.
PremiumIsFair ==
  \A q \in quotes : /\ FairPremium(q.premium, q.rates, q.lines, q.route)
                    /\ q.route \in HonestRoutes

-----------------------------------------------------------------------------
(* What the repository says and the code does not do.                      *)

\* "Replays of the same source_event_id return the original quote"
\* (quote_from_declaration): no event has two quotes.
OneQuotePerEvent ==
  \A q, r \in quotes : q.event = r.event /\ q.event # NoEvent => q = r
=============================================================================
