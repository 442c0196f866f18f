--------------------------- MODULE EventDelivery ---------------------------
(***************************************************************************)
(* The audit chain (services/audit.py), the transactional outbox           *)
(* (services/outbox.py), the processes that drain it to Kafka              *)
(* (events/outbox_publisher.py), and the gateway to partner insurers       *)
(* (services/partners.py), whose calls only the chain and a table tell of. *)
(*                                                                         *)
(* A request changes its rows, appends to the audit chain under an         *)
(* advisory lock it keeps to its end, and then, in the routes, may enqueue *)
(* one event: the lock taken for the chain orders the outbox as well.      *)
(* A request to a partner calls it first, before any statement, and then   *)
(* records the call and its outcome; the route commits a success only.     *)
(***************************************************************************)
EXTENDS Integers, FiniteSetsExt

CONSTANTS Writers,     \* requests in progress
          Callers,     \* the requests that may call a partner
          Publishers,  \* publisher processes
          Calls,       \* bound: calls of partners ever made
          Batch,       \* _BATCH
          MaxTicks,    \* bound: rows ever inserted
          MaxFailures  \* bound: transactions of publishers that fail

ASSUME CallersAssumption == Callers \subseteq Writers
ASSUME BatchAssumption == Batch \in Nat \ {0}
ASSUME BoundAssumption == MaxTicks \in Nat /\ MaxFailures \in Nat

VARIABLES clock,     \* the id sequence and the wall clock: only their order matters
          chain,     \* audit_events, committed
          outbox,    \* outbox_messages, committed
          marked,    \* events whose published_at is set, committed
          copies,    \* copies of each event the broker has stored
          sent,      \* calls of partners put on the wire
          received,  \* calls the partner has got
          recorded,  \* gateway_calls, committed
          txs,       \* the transaction of each request
          pubs,      \* the publishers
          failures,  \* failed publisher transactions so far
          skipped,   \* history: events a batch left out because another publisher held them
          redoable   \* history: events sent in a transaction that failed

stores == <<clock, chain, outbox>>
broker == <<marked, copies, pubs, failures, skipped, redoable>>
gateway == <<sent, received, recorded>>
vars == <<stores, broker, txs, gateway>>

Ticks == 1 .. MaxTicks

\* An audit row links to the row before it; its hash stands for its id here.
AuditRow == [id : Ticks, prev : Ticks \cup {0}]

\* A message tells of the transaction that ends the chain at event.
Message == [event : Ticks, at : Ticks]

\* call: the partner call the request makes, if any; ok: it has not failed.
Tx == [at : {"calling", "answered", "linked", "audited", "enqueued"}, prev : Ticks \cup {0},
       rows : SUBSET AuditRow, message : SUBSET Message, call : SUBSET Calls, ok : BOOLEAN]

Idle == [at |-> "idle", prev |-> 0, rows |-> {}, message |-> {}, call |-> {}, ok |-> TRUE]

Publisher == [up : BOOLEAN, batch : SUBSET Message, sent : SUBSET Message]

Resting == [up |-> TRUE, batch |-> {}, sent |-> {}]
Stopped == [up |-> FALSE, batch |-> {}, sent |-> {}]

Init == /\ clock = 0 /\ chain = {} /\ outbox = {} /\ marked = {}
        /\ copies = [e \in Ticks |-> 0]
        /\ txs = [w \in Writers |-> Idle]
        /\ pubs = [b \in Publishers |-> Resting]
        /\ failures = 0 /\ skipped = {} /\ redoable = {}
        /\ sent = {} /\ received = {} /\ recorded = {}

-----------------------------------------------------------------------------
(* Requests.                                                               *)

Ids(rows) == {r.id : r \in rows}

\* The audit lock is held from its first acquisition to the end of the transaction.
HoldsAuditLock(w) == txs[w].at \in {"linked", "audited", "enqueued"}

Set(w, tx) == txs' = [txs EXCEPT ![w] = tx]

\* record: ORDER BY id DESC LIMIT 1 over the committed rows and the request's own.
ReadLast(w) ==
  /\ Set(w, [txs[w] EXCEPT !.at = "linked", !.prev = Max({0} \cup Ids(chain \cup txs[w].rows))])
  /\ UNCHANGED <<stores, broker, gateway>>

\* A request audits what it did, once or several times; a partner call once.
MayAudit(w) == txs[w].at \in {"idle", "answered"} \/ (txs[w].at = "audited" /\ txs[w].call = {})

\* Mutant: pg_advisory_xact_lock is dropped.
LinkAuditUnlocked(w) == MayAudit(w) /\ ReadLast(w)

\* record: pg_advisory_xact_lock, which a request that audits again has already, and
\* the read.  What the request did before, under its own row locks, is not shown.
LinkAudit(w) ==
  /\ MayAudit(w)
  /\ \A v \in Writers \ {w} : ~HoldsAuditLock(v)
  /\ ReadLast(w)

\* record: the insert draws the next id, which a rollback does not give back.
InsertAudit(w) ==
  /\ txs[w].at = "linked"
  /\ clock < MaxTicks
  /\ clock' = clock + 1
  /\ Set(w, [txs[w] EXCEPT !.at = "audited", !.prev = 0,
                           !.rows = @ \cup {[id |-> clock + 1, prev |-> txs[w].prev]}])
  /\ UNCHANGED <<chain, outbox, broker, gateway>>

\* enqueue: created_at is the time of the insert, here the last id drawn before it.
Enqueue(w) ==
  /\ txs[w].at = "audited"
  /\ txs[w].call = {}
  /\ Set(w, [txs[w] EXCEPT !.at = "enqueued",
                           !.message = {[event |-> Max(Ids(txs[w].rows)), at |-> clock]}])
  /\ UNCHANGED <<stores, broker, gateway>>

\* The audit rows, the message and the record of a call become visible together; the
\* lock is released.
Commit(w) ==
  /\ txs[w].at \in {"audited", "enqueued"}
  /\ txs[w].ok
  /\ chain' = chain \cup txs[w].rows
  /\ outbox' = outbox \cup txs[w].message
  /\ recorded' = recorded \cup txs[w].call
  /\ Set(w, Idle)
  /\ UNCHANGED <<clock, broker, sent, received>>

\* A request fails on its way: nothing of it remains.
Rollback(w) ==
  /\ txs[w] # Idle
  /\ Set(w, Idle)
  /\ UNCHANGED <<stores, broker, gateway>>

\* The rollback that the route of a failed call ends with: the record and the audit row
\* of the finally block go with it.
ReportFailure(w) ==
  /\ txs[w].at = "audited"
  /\ ~txs[w].ok
  /\ Rollback(w)

-----------------------------------------------------------------------------
(* Calls of partners.                                                      *)

\* call_partner: the operation is allowed and the adapter configured; no statement
\* has been executed, so no lock and no connection is held meanwhile.
CallPartner(w, c) ==
  /\ txs[w] = Idle
  /\ c \notin sent
  /\ sent' = sent \cup {c}
  /\ Set(w, [Idle EXCEPT !.at = "calling", !.call = {c}])
  /\ UNCHANGED <<stores, broker, received, recorded>>

\* The request reaches the partner, maybe after the client gave up.
PartnerReceives(c) ==
  /\ c \in sent \ received
  /\ received' = received \cup {c}
  /\ UNCHANGED <<stores, broker, txs, sent, recorded>>


\* The partner answers below 400 and in JSON, or the call ends in UPSTREAM_ERROR: a
\* timeout, no connection, another answer.  The finally block goes on with both.
CallReturns(w, ok) ==
  /\ txs[w].at = "calling"
  /\ ok => txs[w].call \subseteq received
  /\ Set(w, [txs[w] EXCEPT !.at = "answered", !.ok = ok])
  /\ UNCHANGED <<stores, broker, gateway>>

-----------------------------------------------------------------------------
(* Publishers.                                                             *)

Unpublished == {m \in outbox : m.event \notin marked}

\* Messages whose row a publisher has locked.
HeldBy(b) == pubs[b].batch

HeldByOthers(b) == UNION {HeldBy(a) : a \in Publishers \ {b}}

\* ORDER BY created_at LIMIT _BATCH.
Oldest(messages) == {m \in messages : Cardinality({n \in messages : n.at < m.at}) < Batch}

Following(b) == CHOOSE m \in pubs[b].batch \ pubs[b].sent :
              \A n \in pubs[b].batch \ pubs[b].sent : m.at <= n.at

Free(b) == pubs[b].up /\ pubs[b].batch = {}

\* Mutant: the rows are not locked.
FetchUnlocked(b) ==
  LET batch == Oldest(Unpublished)
  IN  /\ Free(b)
      /\ batch # {}
      /\ pubs' = [pubs EXCEPT ![b].batch = batch]
      /\ UNCHANGED <<stores, marked, copies, txs, gateway, failures, skipped, redoable>>

\* Mutant: the poll waits for a full batch.
FetchFull(b) ==
  LET batch == Oldest(Unpublished \ HeldByOthers(b))
  IN  /\ Free(b)
      /\ Cardinality(batch) = Batch
      /\ pubs' = [pubs EXCEPT ![b].batch = batch]
      /\ skipped' = skipped \cup {m \in HeldByOthers(b) : \E n \in batch : m.at < n.at}
      /\ UNCHANGED <<stores, marked, copies, txs, gateway, failures, redoable>>

\* Mutant: ORDER BY created_at DESC.
FetchNewest(b) ==
  LET free == Unpublished \ HeldByOthers(b)
      batch == {m \in free : Cardinality({n \in free : n.at > m.at}) < Batch}
  IN  /\ Free(b)
      /\ batch # {}
      /\ pubs' = [pubs EXCEPT ![b].batch = batch]
      /\ skipped' = skipped \cup {m \in HeldByOthers(b) : \E n \in batch : m.at < n.at}
      /\ UNCHANGED <<stores, marked, copies, txs, gateway, failures, redoable>>

\* publish_once: FOR UPDATE SKIP LOCKED.
Fetch(b) ==
  LET batch == Oldest(Unpublished \ HeldByOthers(b))
  IN  /\ Free(b)
      /\ batch # {}
      /\ pubs' = [pubs EXCEPT ![b].batch = batch]
      /\ skipped' = skipped \cup {m \in HeldByOthers(b) : \E n \in batch : m.at < n.at}
      /\ UNCHANGED <<stores, marked, copies, txs, gateway, failures, redoable>>

\* send_and_wait returns: the broker has the message.
Send(b) ==
  /\ pubs[b].sent # pubs[b].batch
  /\ copies' = [copies EXCEPT ![Following(b).event] = @ + 1]
  /\ pubs' = [pubs EXCEPT ![b].sent = @ \cup {Following(b)}]
  /\ UNCHANGED <<stores, marked, txs, gateway, failures, skipped, redoable>>

\* Mutant: a send that fails is logged and the loop goes on.
MarkPublishedAnyway(b) ==
  /\ pubs[b].batch # {}
  /\ marked' = marked \cup {m.event : m \in pubs[b].batch}
  /\ pubs' = [pubs EXCEPT ![b] = Resting]
  /\ UNCHANGED <<stores, copies, txs, gateway, failures, skipped, redoable>>

\* One commit marks the whole batch.
MarkPublished(b) ==
  /\ pubs[b].batch # {}
  /\ pubs[b].sent = pubs[b].batch
  /\ marked' = marked \cup {m.event : m \in pubs[b].batch}
  /\ pubs' = [pubs EXCEPT ![b] = Resting]
  /\ UNCHANGED <<stores, copies, txs, gateway, failures, skipped, redoable>>

\* A send raises, with or without the message reaching the broker, or the process
\* dies: the transaction is rolled back and publish_forever ends.
Fail(b, reached) ==
  /\ pubs[b].up
  /\ failures < MaxFailures
  /\ failures' = failures + 1
  /\ reached \subseteq (IF pubs[b].sent = pubs[b].batch THEN {} ELSE {Following(b)})
  /\ copies' = [e \in Ticks |-> IF \E m \in reached : m.event = e THEN copies[e] + 1 ELSE copies[e]]
  /\ redoable' = redoable \cup {m.event : m \in pubs[b].sent \cup reached}
  /\ pubs' = [pubs EXCEPT ![b] = Stopped]
  /\ UNCHANGED <<stores, marked, txs, gateway, skipped>>

\* An operator starts the process again.
Restart(b) ==
  /\ ~pubs[b].up
  /\ pubs' = [pubs EXCEPT ![b] = Resting]
  /\ UNCHANGED <<stores, marked, copies, txs, gateway, failures, skipped, redoable>>

-----------------------------------------------------------------------------

Request(w) == \/ LinkAudit(w) \/ InsertAudit(w) \/ Enqueue(w) \/ Commit(w) \/ Rollback(w)

Call(w) == (\E c \in Calls : CallPartner(w, c)) \/ (\E ok \in BOOLEAN : CallReturns(w, ok))

Publish(b) == Fetch(b) \/ Send(b) \/ MarkPublished(b)

Next == \/ \E w \in Writers : Request(w)
        \/ \E w \in Callers : Call(w)
        \/ \E c \in Calls : PartnerReceives(c)
        \/ \E b \in Publishers :
             Publish(b) \/ Restart(b) \/ \E reached \in SUBSET pubs[b].batch : Fail(b, reached)

\* What a request that has begun does next, unless it fails: a call returns by itself
\* or by its timeouts, and a statement by itself or when the lock is granted.
GoOn(w) == /\ txs[w] # Idle
           /\ \/ LinkAudit(w) \/ InsertAudit(w) \/ Enqueue(w) \/ Commit(w) \/ ReportFailure(w)
              \/ \E ok \in BOOLEAN : CallReturns(w, ok)

\* PostgreSQL grants the audit lock to those who wait in their order, so nobody can
\* take it again and again past a request that waits (strong fairness).  A publisher
\* that is up keeps polling; nothing restarts one that has stopped.
Spec == /\ Init /\ [][Next]_vars
        /\ \A w \in Writers : SF_vars(GoOn(w))
        /\ \A b \in Publishers : WF_vars(Publish(b))

-----------------------------------------------------------------------------

\* Rows, transactions and publishers have their types; no row is locked twice.
TypeOK ==
  /\ clock \in 0 .. MaxTicks
  /\ chain \subseteq AuditRow
  /\ outbox \subseteq Message
  /\ marked \subseteq Ticks
  /\ copies \in [Ticks -> Nat]
  /\ txs \in [Writers -> Tx \cup {Idle}]
  /\ pubs \in [Publishers -> Publisher]
  /\ failures \in 0 .. MaxFailures
  /\ skipped \subseteq Message
  /\ redoable \subseteq Ticks
  /\ received \subseteq sent /\ sent \subseteq Calls
  /\ recorded \subseteq Calls
  /\ \A a, b \in Publishers : a # b => HeldBy(a) \cap HeldBy(b) = {}

\* verify_chain succeeds at every moment, gaps in the ids included: concurrent
\* requests and rollbacks never fork the chain or leave a dangling link.
ChainIntact ==
  \A r \in chain : r.prev = Max({0} \cup {i \in Ids(chain) : i < r.id})

\* The broker is told of committed state changes only, and published_at is set
\* only on what the broker has.
DeliveryIsHonest ==
  /\ \A e \in Ticks : copies[e] > 0 => \E r \in chain : r.id = e
  /\ \A e \in marked : copies[e] > 0

\* A second copy of an event comes only from a transaction that failed after
\* sending it: however many publishers run, none repeats another's work.
DuplicatesFromFailures ==
  \A e \in Ticks : copies[e] > 1 => e \in redoable /\ copies[e] <= 1 + failures

\* The broker first sees events in the order of the audit chain, except where one
\* publisher went past a batch that another held.
FirstSeenInOrder ==
  \A m, n \in outbox :
    copies[n.event] > 0 /\ m.event < n.event => copies[m.event] > 0 \/ m \in skipped


\* Every committed message is published in the end, as long as a publisher is up.
EventuallyPublished ==
  \A e \in Ticks : (\E m \in outbox : m.event = e) ~> (e \in marked \/ \A b \in Publishers : ~pubs[b].up)
=============================================================================
