------------------------ MODULE EventDelivery_proofs ------------------------
(***************************************************************************)
(* Machine-checked proofs about EventDelivery, for any number of requests, *)
(* publishers and partner calls, any batch size and any bounds.            *)
(***************************************************************************)
EXTENDS EventDelivery, Induction

\* A publisher has sent a part of the batch it locked.
SentIsLocked == \A b \in Publishers : pubs[b].sent \subseteq pubs[b].batch

Typed == TypeOK /\ SentIsLocked

-----------------------------------------------------------------------------
(* The order of the messages.                                              *)

\* The message a publisher sends next is the oldest it has not sent.
LEMMA FollowingIsOldest ==
  ASSUME NEW b \in Publishers, pubs[b] \in Publisher,
         pubs[b].sent \subseteq pubs[b].batch, pubs[b].sent # pubs[b].batch
  PROVE  /\ Following(b) \in pubs[b].batch \ pubs[b].sent
         /\ \A n \in pubs[b].batch \ pubs[b].sent : Following(b).at <= n.at
<1> DEFINE Rest == pubs[b].batch \ pubs[b].sent
           Times == {m.at : m \in Rest}
<1>1. Rest # {} /\ \A m \in Rest : m.at \in Nat
  BY BoundAssumption DEF Publisher, Message, Ticks
<1>2. Times \in SUBSET Nat /\ Times # {}
  BY <1>1
<1>3. PICK t \in Times : \A u \in Times : t <= u
  BY <1>2, LeastExists
<1>4. PICK m \in Rest : m.at = t
  OBVIOUS
<1>5. \E k \in Rest : \A n \in Rest : k.at <= n.at
  BY <1>3, <1>4
<1> QED
  BY <1>5 DEF Following

-----------------------------------------------------------------------------
(* Types.                                                                  *)

LEMMA TypedInit == Init => Typed
<1> SUFFICES ASSUME Init PROVE Typed
  OBVIOUS
<1> USE BoundAssumption DEF Init
<1>1. \A w \in Writers : txs[w] = Idle
  OBVIOUS
<1>2. \A b \in Publishers : pubs[b] = Resting
  OBVIOUS
<1>3. SentIsLocked
  BY <1>2 DEF SentIsLocked, Resting
<1>4. Resting \in Publisher /\ Resting.batch = {}
  BY DEF Resting, Publisher
<1>5. \A a, b \in Publishers : a # b => HeldBy(a) \cap HeldBy(b) = {}
  BY <1>2, <1>4 DEF HeldBy
<1>6. pubs \in [Publishers -> Publisher] /\ txs \in [Writers -> Tx \cup {Idle}]
  BY <1>4
<1> QED
  BY <1>3, <1>5, <1>6 DEF Typed, TypeOK, Ticks

\* What TypeOK says of a step that changes neither the publishers nor what they did.
LEMMA TypedRequest ==
  ASSUME Typed, UNCHANGED broker, clock' \in 0 .. MaxTicks, chain' \subseteq AuditRow,
         outbox' \subseteq Message, txs' \in [Writers -> Tx \cup {Idle}],
         received' \subseteq sent', sent' \subseteq Calls,
         recorded' \subseteq Calls
  PROVE  Typed'
BY DEF Typed, TypeOK, SentIsLocked, broker, HeldBy

\* What TypeOK says of a step that changes one publisher and what it did.
LEMMA TypedPublisher ==
  ASSUME Typed, UNCHANGED <<stores, txs, gateway>>, NEW b \in Publishers, NEW p \in Publisher,
         pubs' = [pubs EXCEPT ![b] = p], p.sent \subseteq p.batch,
         p.batch \cap HeldByOthers(b) = {},
         marked' \subseteq Ticks, copies' \in [Ticks -> Nat],
         failures' \in 0 .. MaxFailures, skipped' \subseteq Message, redoable' \subseteq Ticks
  PROVE  Typed'
<1> USE DEF Typed, TypeOK
<1>1. pubs' \in [Publishers -> Publisher]
  OBVIOUS
<1>2. \A a \in Publishers : pubs'[a] = IF a = b THEN p ELSE pubs[a]
  OBVIOUS
<1>3. SentIsLocked'
  BY <1>2 DEF SentIsLocked
<1>4. \A a, c \in Publishers : a # c => (HeldBy(a) \cap HeldBy(c))' = {}
  <2> SUFFICES ASSUME NEW a \in Publishers, NEW c \in Publishers, a # c
               PROVE  pubs'[a].batch \cap pubs'[c].batch = {}
    BY DEF HeldBy
  <2>1. \A d \in Publishers \ {b} : pubs[d].batch \subseteq HeldByOthers(b)
    BY DEF HeldByOthers, HeldBy
  <2>2. CASE a = b
    BY <1>2, <2>1, <2>2
  <2>3. CASE c = b
    BY <1>2, <2>1, <2>3
  <2>4. CASE a # b /\ c # b
    BY <1>2, <2>4 DEF HeldBy
  <2> QED
    BY <2>2, <2>3, <2>4
<1> QED
  BY <1>1, <1>3, <1>4 DEF stores, gateway

\* Ids are ticks, and the last of some rows is one of their ids or 0.
LEMMA LastIs ==
  ASSUME NEW rows \in SUBSET AuditRow
  PROVE  /\ Ids(rows) \subseteq Ticks
         /\ Max({0} \cup Ids(rows)) \in {0} \cup Ids(rows)
         /\ \A i \in Ids(rows) : i <= Max({0} \cup Ids(rows))
<1>1. Ids(rows) \subseteq Ticks
  BY DEF Ids, AuditRow
<1>2. {0} \cup Ids(rows) \in SUBSET (0 .. MaxTicks)
  BY <1>1, BoundAssumption DEF Ticks
<1> QED
  BY <1>1, <1>2, MaxIs, BoundAssumption

\* A transaction, open or not.
AnyTx == [at : {"idle", "calling", "answered", "linked", "audited", "enqueued"},
          prev : Ticks \cup {0}, rows : SUBSET AuditRow, message : SUBSET Message,
          call : SUBSET Calls, ok : BOOLEAN]

LEMMA TypedTx ==
  ASSUME Typed, NEW w \in Writers
  PROVE  txs[w] \in AnyTx
<1>1. Idle \in AnyTx
  BY DEF Idle, AnyTx
<1>2. Tx \subseteq AnyTx
  BY DEF Tx, AnyTx
<1> QED
  BY <1>1, <1>2 DEF Typed, TypeOK

\* Requests, their calls included, keep the types.
LEMMA TypedByRequest ==
  ASSUME Typed, NEW w \in Writers, Request(w) \/ Call(w),
         Enqueue(w) => Max(Ids(txs[w].rows)) \in Ticks /\ clock \in Ticks
  PROVE  Typed'
<1> USE BoundAssumption
<1>0. /\ txs \in [Writers -> Tx \cup {Idle}] /\ clock \in 0 .. MaxTicks
      /\ chain \subseteq AuditRow /\ outbox \subseteq Message
      /\ received \subseteq sent /\ sent \subseteq Calls /\ recorded \subseteq Calls
  BY DEF Typed, TypeOK
<1>1. txs[w] \in AnyTx
  BY TypedTx
<1>2. ASSUME NEW tx \in Tx \cup {Idle}, Set(w, tx)
      PROVE  txs' \in [Writers -> Tx \cup {Idle}]
  BY <1>0, <1>2 DEF Set
<1>3. CASE LinkAudit(w)
  <2> DEFINE last == Max({0} \cup Ids(chain \cup txs[w].rows))
  <2>1. chain \cup txs[w].rows \in SUBSET AuditRow
    BY <1>0, <1>1 DEF AnyTx
  <2>2. last \in Ticks \cup {0}
    BY <2>1, LastIs
  <2>3. Set(w, [txs[w] EXCEPT !.at = "linked", !.prev = last])
    BY <1>3 DEF LinkAudit, ReadLast
  <2> HIDE DEF last
  <2>4. [txs[w] EXCEPT !.at = "linked", !.prev = last] \in Tx
    BY <1>1, <2>2 DEF AnyTx, Tx
  <2>5. txs' \in [Writers -> Tx \cup {Idle}]
    BY <1>2, <2>3, <2>4
  <2> QED
    BY <1>0, <1>3, <2>5, TypedRequest DEF LinkAudit, ReadLast, stores, broker, gateway
<1>4. CASE InsertAudit(w)
  <2> DEFINE row == [id |-> clock + 1, prev |-> txs[w].prev]
  <2>1. clock + 1 \in 1 .. MaxTicks /\ clock' = clock + 1
    BY <1>0, <1>4 DEF InsertAudit
  <2>2. row \in AuditRow
    BY <1>1, <2>1 DEF AnyTx, AuditRow, Ticks
  <2>3. Set(w, [txs[w] EXCEPT !.at = "audited", !.prev = 0, !.rows = @ \cup {row}])
    BY <1>4 DEF InsertAudit
  <2> HIDE DEF row
  <2>4. [txs[w] EXCEPT !.at = "audited", !.prev = 0, !.rows = @ \cup {row}] \in Tx
    BY <1>1, <2>2 DEF AnyTx, Tx
  <2>5. txs' \in [Writers -> Tx \cup {Idle}]
    BY <1>2, <2>3, <2>4
  <2> QED
    BY <1>0, <1>4, <2>1, <2>5, TypedRequest DEF InsertAudit, stores, broker, gateway
<1>5. CASE Enqueue(w)
  <2> DEFINE message == {[event |-> Max(Ids(txs[w].rows)), at |-> clock]}
  <2>1. message \in SUBSET Message
    BY <1>5 DEF Message
  <2>2. Set(w, [txs[w] EXCEPT !.at = "enqueued", !.message = message])
    BY <1>5 DEF Enqueue
  <2> HIDE DEF message
  <2>3. [txs[w] EXCEPT !.at = "enqueued", !.message = message] \in Tx
    BY <1>1, <2>1 DEF AnyTx, Tx
  <2>4. txs' \in [Writers -> Tx \cup {Idle}]
    BY <1>2, <2>2, <2>3
  <2> QED
    BY <1>0, <1>5, <2>4, TypedRequest DEF Enqueue, stores, broker, gateway
<1>6. CASE Commit(w)
  <2>1. txs' \in [Writers -> Tx \cup {Idle}]
    BY <1>2, <1>6 DEF Commit
  <2>2. /\ txs[w].rows \subseteq AuditRow /\ txs[w].message \subseteq Message
        /\ txs[w].call \subseteq Calls
    BY <1>1 DEF AnyTx
  <2> QED
    BY <1>0, <1>6, <2>1, <2>2, TypedRequest DEF Commit, broker
<1>7. CASE Rollback(w)
  <2>1. txs' \in [Writers -> Tx \cup {Idle}]
    BY <1>2, <1>7 DEF Rollback
  <2> QED
    BY <1>0, <1>7, <2>1, TypedRequest DEF Rollback, stores, broker, gateway
<1>8. ASSUME NEW c \in Calls, CallPartner(w, c) PROVE Typed'
  <2>1. [Idle EXCEPT !.at = "calling", !.call = {c}] \in Tx
    BY DEF Idle, Tx
  <2>2. txs' \in [Writers -> Tx \cup {Idle}]
    BY <1>2, <1>8, <2>1 DEF CallPartner
  <2> QED
    BY <1>0, <1>8, <2>2, TypedRequest DEF CallPartner, stores, broker
<1>9. ASSUME NEW ok \in BOOLEAN, CallReturns(w, ok) PROVE Typed'
  <2>1. [txs[w] EXCEPT !.at = "answered", !.ok = ok] \in Tx
    BY <1>1 DEF AnyTx, Tx
  <2>2. txs' \in [Writers -> Tx \cup {Idle}]
    BY <1>2, <1>9, <2>1 DEF CallReturns
  <2> QED
    BY <1>0, <1>9, <2>2, TypedRequest DEF CallReturns, stores, broker, gateway
<1> QED
  BY <1>3, <1>4, <1>5, <1>6, <1>7, <1>8, <1>9 DEF Request, Call

\* Publishers keep the types.
LEMMA TypedByPublisher ==
  ASSUME Typed, NEW b \in Publishers,
         Publish(b) \/ Restart(b) \/ \E reached \in SUBSET pubs[b].batch : Fail(b, reached)
  PROVE  Typed'
<1> USE BoundAssumption
<1>0. /\ pubs \in [Publishers -> Publisher] /\ outbox \subseteq Message
      /\ marked \subseteq Ticks /\ copies \in [Ticks -> Nat] /\ failures \in 0 .. MaxFailures
      /\ skipped \subseteq Message /\ redoable \subseteq Ticks
      /\ pubs[b].sent \subseteq pubs[b].batch
  BY DEF Typed, TypeOK, SentIsLocked
<1>1. /\ pubs[b].up \in BOOLEAN /\ pubs[b].batch \subseteq Message /\ pubs[b].sent \subseteq Message
      /\ pubs[b] = [up |-> pubs[b].up, batch |-> pubs[b].batch, sent |-> pubs[b].sent]
      /\ \A m \in pubs[b].batch : m.event \in Ticks
  BY <1>0 DEF Publisher, Message
<1>2. /\ Resting \in Publisher /\ Resting.sent \subseteq Resting.batch /\ Resting.batch = {}
      /\ Stopped \in Publisher /\ Stopped.sent \subseteq Stopped.batch /\ Stopped.batch = {}
  BY DEF Resting, Stopped, Publisher
<1>3. HeldBy(b) \cap HeldByOthers(b) = {}
  BY DEF Typed, TypeOK, HeldByOthers
<1>4. HeldByOthers(b) \subseteq Message
  BY <1>0 DEF HeldByOthers, HeldBy, Publisher
<1>5. CASE Fetch(b)
  <2> DEFINE free == Unpublished \ HeldByOthers(b)
             batch == Oldest(free)
             p == [pubs[b] EXCEPT !.batch = batch]
  <2>1. batch \subseteq free /\ free \subseteq Message
    BY <1>0 DEF Oldest, Unpublished
  <2>2. pubs' = [pubs EXCEPT ![b].batch = batch] /\ Free(b)
    BY <1>5 DEF Fetch
  <2>3. batch \cap HeldByOthers(b) = {}
    BY <2>1
  <2>4. skipped' \subseteq Message
    BY <1>0, <1>4, <1>5 DEF Fetch
  <2> HIDE DEF batch
  <2>5. p.batch = batch /\ p.sent = pubs[b].sent /\ p \in Publisher
    BY <1>0, <2>1 DEF Publisher
  <2>6. pubs[b].sent = {}
    BY <1>0, <2>2 DEF Free
  <2>7. pubs' = [pubs EXCEPT ![b] = p]
    BY <2>2
  <2> HIDE DEF p
  <2> QED
    BY <1>0, <1>5, <2>3, <2>4, <2>5, <2>6, <2>7, TypedPublisher DEF Fetch
<1>6. CASE Send(b)
  <2> DEFINE p == [pubs[b] EXCEPT !.sent = @ \cup {Following(b)}]
  <2>1. Following(b) \in pubs[b].batch
    BY <1>0, <1>6, FollowingIsOldest DEF Send
  <2>2. p.batch = pubs[b].batch /\ p.sent = pubs[b].sent \cup {Following(b)} /\ p \in Publisher
    BY <1>0, <2>1 DEF Publisher
  <2>3. pubs' = [pubs EXCEPT ![b] = p]
    BY <1>6 DEF Send
  <2>4. copies' \in [Ticks -> Nat]
    <3>1. Following(b).event \in Ticks
      BY <1>1, <2>1
    <3>2. copies' = [copies EXCEPT ![Following(b).event] = @ + 1]
      BY <1>6 DEF Send
    <3> QED
      BY <1>0, <3>1, <3>2
  <2> HIDE DEF p
  <2>5. p.sent \subseteq p.batch /\ p.batch \cap HeldByOthers(b) = {}
    BY <1>0, <1>3, <2>1, <2>2 DEF HeldBy
  <2> QED
    BY <1>0, <1>6, <2>2, <2>3, <2>4, <2>5, TypedPublisher DEF Send
<1>7. CASE MarkPublished(b)
  <2>1. marked' \subseteq Ticks
    BY <1>0, <1>1, <1>7 DEF MarkPublished
  <2> QED
    BY <1>0, <1>2, <1>7, <2>1, TypedPublisher DEF MarkPublished
<1>8. ASSUME NEW reached \in SUBSET pubs[b].batch, Fail(b, reached) PROVE Typed'
  <2>1. failures' \in 0 .. MaxFailures
    BY <1>0, <1>8 DEF Fail
  <2>2. redoable' \subseteq Ticks
    BY <1>0, <1>1, <1>8 DEF Fail
  <2>3. copies' \in [Ticks -> Nat]
    <3> DEFINE More(e) == IF \E m \in reached : m.event = e THEN copies[e] + 1 ELSE copies[e]
    <3>1. copies' = [e \in Ticks |-> More(e)]
      BY <1>8 DEF Fail
    <3>2. \A e \in Ticks : More(e) \in Nat
      BY <1>0
    <3> HIDE DEF More
    <3> QED
      BY <3>1, <3>2
  <2>4. /\ UNCHANGED <<stores, marked, txs, gateway, skipped>>
        /\ pubs' = [pubs EXCEPT ![b] = Stopped]
    BY <1>8 DEF Fail
  <2> QED
    BY <1>0, <1>2, <2>1, <2>2, <2>3, <2>4, TypedPublisher
<1>9. CASE Restart(b)
  BY <1>0, <1>2, <1>9, TypedPublisher DEF Restart
<1> QED
  BY <1>5, <1>6, <1>7, <1>8, <1>9 DEF Publish

-----------------------------------------------------------------------------
(* The audit chain and the messages about it.                              *)

\* ChainIntact, row by row.
IsLast(i, rows) == i \in {0} \cup Ids(rows) /\ \A j \in Ids(rows) : j <= i

Linked(rows) == \A r \in rows : r.prev < r.id /\ IsLast(r.prev, {s \in rows : s.id < r.id})

\* The lock has one holder, and only its transaction has rows.
OneHolder == \A v, w \in Writers : v # w /\ HoldsAuditLock(v) => ~HoldsAuditLock(w)

\* The rows of a transaction continue the committed chain, with the newest ids drawn.
RowsContinue(w) ==
  /\ ~HoldsAuditLock(w) => txs[w].rows = {} /\ txs[w].message = {}
  /\ Linked(chain \cup txs[w].rows)
  /\ txs[w].at = "linked" => IsLast(txs[w].prev, chain \cup txs[w].rows)
  /\ txs[w].at \in {"audited", "enqueued"} => clock \in Ids(txs[w].rows)
  /\ \A i \in Ids(txs[w].rows) : i <= clock /\ \A j \in Ids(chain) : j < i

\* A message is about the newest row of its transaction.
MessageIsOwn(w) ==
  /\ IsFiniteSet(txs[w].message)
  /\ \A m \in txs[w].message : m.at = m.event /\ m.event \in Ids(txs[w].rows)

\* What is committed.
StoresAgree ==
  /\ Linked(chain)
  /\ \A i \in Ids(chain) : i <= clock
  /\ IsFiniteSet(outbox)
  /\ \A m \in outbox : m.at = m.event /\ m.event \in Ids(chain)

ChainInv == /\ OneHolder
            /\ StoresAgree
            /\ \A w \in Writers : RowsContinue(w) /\ MessageIsOwn(w)

LEMMA ChainInit == Init => ChainInv
<1> SUFFICES ASSUME Init PROVE ChainInv
  OBVIOUS
<1>1. /\ chain = {} /\ outbox = {} /\ clock = 0
      /\ \A w \in Writers : txs[w] = Idle
  BY DEF Init
<1>2. /\ Idle.at = "idle" /\ Idle.rows = {} /\ Idle.message = {} /\ Idle.call = {}
  BY DEF Idle
<1>3. IsFiniteSet({})
  BY FS_EmptySet
<1>4. OneHolder
  BY <1>1, <1>2 DEF OneHolder, HoldsAuditLock
<1>5. StoresAgree
  BY <1>1, <1>3 DEF StoresAgree, Linked, Ids
<1>6. ASSUME NEW w \in Writers PROVE RowsContinue(w) /\ MessageIsOwn(w)
  BY <1>1, <1>2, <1>3, <1>6 DEF RowsContinue, MessageIsOwn, HoldsAuditLock, Linked, Ids
<1> QED
  BY <1>4, <1>5, <1>6 DEF ChainInv

\* The chain satisfies what verify_chain checks.
LEMMA LinkedIsIntact ==
  ASSUME Typed, ChainInv
  PROVE  ChainIntact
<1> SUFFICES ASSUME NEW r \in chain
             PROVE  r.prev = Max({0} \cup {i \in Ids(chain) : i < r.id})
  BY DEF ChainIntact
<1> DEFINE Before == {0} \cup {i \in Ids(chain) : i < r.id}
<1>1. chain \in SUBSET AuditRow
  BY DEF Typed, TypeOK
<1>2. Ids(chain) \subseteq 1 .. MaxTicks /\ r.id \in Int /\ r.prev \in Int
  BY <1>1, BoundAssumption DEF Ids, AuditRow, Ticks
<1>3. Before \in SUBSET (0 .. MaxTicks) /\ Before # {}
  BY <1>2, BoundAssumption
<1>4. Max(Before) \in Before /\ \A y \in Before : y <= Max(Before)
  BY <1>3, MaxIs, BoundAssumption
<1>5. Before = {0} \cup Ids({s \in chain : s.id < r.id})
  BY DEF Ids
<1>6. r.prev \in Before /\ \A j \in Before : j <= r.prev
  <2>1. IsLast(r.prev, {s \in chain : s.id < r.id})
    BY DEF ChainInv, StoresAgree, Linked
  <2>2. 0 <= r.prev
    BY <1>1, BoundAssumption DEF AuditRow, Ticks
  <2> HIDE DEF Before
  <2> QED
    BY <1>5, <2>1, <2>2 DEF IsLast
<1> DEFINE last == Max(Before)
<1>7. last \in Before /\ \A y \in Before : y <= last
  BY <1>4
<1> HIDE DEF Before, last
<1>8. r.prev <= last /\ last <= r.prev
  BY <1>6, <1>7
<1>9. last \in 0 .. MaxTicks
  BY <1>3, <1>7
<1>10. r.prev = last
  BY <1>2, <1>8, <1>9
<1> QED
  BY <1>10 DEF Before, last

\* What a request sees of its own step, and of the others.
LEMMA OneSet ==
  ASSUME Typed, NEW w \in Writers, NEW tx, Set(w, tx)
  PROVE  txs'[w] = tx /\ \A v \in Writers \ {w} : txs'[v] = txs[v]
BY DEF Typed, TypeOK, Set

\* A step that leaves what is committed alone and changes one transaction.
LEMMA ChainOneSet ==
  ASSUME Typed, ChainInv, UNCHANGED <<stores, gateway>>, NEW w \in Writers, NEW tx, Set(w, tx),
         (RowsContinue(w) /\ MessageIsOwn(w))',
         HoldsAuditLock(w)' => \A v \in Writers \ {w} : ~HoldsAuditLock(v)
  PROVE  ChainInv'
<1>1. \A v \in Writers \ {w} : txs'[v] = txs[v]
  BY OneSet
<1>2. OneHolder'
  BY <1>1 DEF ChainInv, OneHolder, HoldsAuditLock
<1>3. StoresAgree'
  BY DEF ChainInv, StoresAgree, stores, gateway
<1>4. ASSUME NEW v \in Writers \ {w}
      PROVE  (RowsContinue(v) /\ MessageIsOwn(v))'
  BY <1>1 DEF ChainInv, RowsContinue, MessageIsOwn, HoldsAuditLock, stores, gateway
<1> QED
  BY <1>2, <1>3, <1>4 DEF ChainInv

LEMMA ChainLink ==
  ASSUME Typed, ChainInv, NEW w \in Writers, LinkAudit(w)
  PROVE  ChainInv'
<1> DEFINE rows == txs[w].rows
           last == Max({0} \cup Ids(chain \cup rows))
           tx == [txs[w] EXCEPT !.at = "linked", !.prev = last]
<1>1. txs[w] \in AnyTx
  BY TypedTx
<1>2. chain \cup rows \in SUBSET AuditRow
  BY <1>1 DEF Typed, TypeOK, AnyTx
<1>3. IsLast(last, chain \cup rows)
  BY <1>2, LastIs DEF IsLast
<1>4. Set(w, tx) /\ UNCHANGED <<stores, broker, gateway>> /\ MayAudit(w)
      /\ \A v \in Writers \ {w} : ~HoldsAuditLock(v)
  BY DEF LinkAudit, ReadLast
<1> HIDE DEF last
<1>5. /\ tx.at = "linked" /\ tx.prev = last /\ tx.rows = rows /\ tx.message = txs[w].message
      /\ tx.call = txs[w].call /\ tx.ok = txs[w].ok
  BY <1>1 DEF AnyTx
<1>6. txs'[w] = tx
  BY <1>4, OneSet
<1> HIDE DEF tx, rows
<1>7. RowsContinue(w) /\ MessageIsOwn(w)
  BY DEF ChainInv
<1>8. RowsContinue(w)'
  BY <1>3, <1>4, <1>5, <1>6, <1>7 DEF RowsContinue, HoldsAuditLock, stores, rows
<1>9. MessageIsOwn(w)'
  BY <1>5, <1>6, <1>7 DEF MessageIsOwn, rows
<1> QED
  BY <1>4, <1>8, <1>9, ChainOneSet

LEMMA ChainInsert ==
  ASSUME Typed, ChainInv, NEW w \in Writers, InsertAudit(w)
  PROVE  ChainInv'
<1> DEFINE rows == txs[w].rows
           row == [id |-> clock + 1, prev |-> txs[w].prev]
           tx == [txs[w] EXCEPT !.at = "audited", !.prev = 0, !.rows = @ \cup {row}]
<1>1. txs[w] \in AnyTx /\ clock \in Nat /\ chain \subseteq AuditRow
  BY TypedTx, BoundAssumption DEF Typed, TypeOK
<1>2. Set(w, tx) /\ UNCHANGED <<chain, outbox, broker, gateway>> /\ txs[w].at = "linked" /\ clock' = clock + 1
  BY DEF InsertAudit
<1>3. row.id = clock + 1 /\ row.prev = txs[w].prev
  OBVIOUS
<1> HIDE DEF row
<1>4. /\ tx.at = "audited" /\ tx.rows = rows \cup {row} /\ tx.message = txs[w].message
      /\ tx.call = txs[w].call /\ tx.ok = txs[w].ok
  BY <1>1 DEF AnyTx
<1>5. txs'[w] = tx /\ \A v \in Writers \ {w} : txs'[v] = txs[v]
  BY <1>2, OneSet
<1> HIDE DEF tx
<1>6. RowsContinue(w) /\ MessageIsOwn(w) /\ StoresAgree
  BY DEF ChainInv
<1>7. \A v \in Writers \ {w} : ~HoldsAuditLock(v)
  BY <1>2 DEF ChainInv, OneHolder, HoldsAuditLock
<1>8. \A r \in chain \cup rows : r.id \in Nat /\ r.id <= clock
  BY <1>1, <1>6, BoundAssumption DEF RowsContinue, StoresAgree, Ids, AnyTx, AuditRow, Ticks
<1>9. Linked(chain \cup rows \cup {row})
  <2> SUFFICES ASSUME NEW r \in chain \cup rows \cup {row}
               PROVE  /\ r.prev < r.id
                      /\ IsLast(r.prev, {s \in chain \cup rows \cup {row} : s.id < r.id})
    BY DEF Linked
  <2>1. CASE r = row
    <3>1. {s \in chain \cup rows \cup {row} : s.id < r.id} = chain \cup rows
      BY <1>1, <1>3, <1>8, <2>1
    <3>2. IsLast(txs[w].prev, chain \cup rows)
      BY <1>2, <1>6 DEF RowsContinue
    <3>3. txs[w].prev < clock + 1
      BY <1>1, <1>8, <3>2 DEF IsLast, Ids
    <3> QED
      BY <1>3, <2>1, <3>1, <3>2, <3>3
  <2>2. CASE r \in chain \cup rows
    <3>1. {s \in chain \cup rows \cup {row} : s.id < r.id} = {s \in chain \cup rows : s.id < r.id}
      BY <1>1, <1>3, <1>8, <2>2
    <3>2. r.prev < r.id /\ IsLast(r.prev, {s \in chain \cup rows : s.id < r.id})
      BY <1>6, <2>2 DEF RowsContinue, Linked
    <3> QED
      BY <3>1, <3>2
  <2> QED
    BY <2>1, <2>2
<1>10. Ids(rows \cup {row}) = Ids(rows) \cup {clock + 1}
  BY <1>3 DEF Ids
<1>11. \A i \in Ids(rows) \cup Ids(chain) : i \in Nat /\ i <= clock
  BY <1>8 DEF Ids
<1>12. RowsContinue(w)'
  <2>1. (chain \cup txs[w].rows)' = chain \cup rows \cup {row}
    BY <1>2, <1>4, <1>5
  <2>2. \A i \in Ids(rows \cup {row}) : i <= clock' /\ \A j \in Ids(chain) : j < i
    <3> SUFFICES ASSUME NEW i \in Ids(rows \cup {row})
                 PROVE  i <= clock + 1 /\ \A j \in Ids(chain) : j < i
      BY <1>2
    <3>1. CASE i = clock + 1
      <4>1. ASSUME NEW j \in Ids(chain) PROVE j < clock + 1
        <5>1. j \in Nat /\ j <= clock
          BY <1>11
        <5> QED
          BY <1>1, <5>1
      <4> QED
        BY <1>1, <3>1, <4>1
    <3>2. CASE i \in Ids(rows)
      <4>1. i \in Nat /\ i <= clock
        BY <1>11, <3>2
      <4>2. \A j \in Ids(chain) : j < i
        BY <1>6, <3>2 DEF RowsContinue
      <4> QED
        BY <1>1, <4>1, <4>2
    <3> QED
      BY <1>10, <3>1, <3>2
  <2>3. HoldsAuditLock(w)' /\ clock' \in Ids(rows \cup {row})
    BY <1>2, <1>4, <1>5, <1>10 DEF HoldsAuditLock
  <2>4. txs'[w].rows = rows \cup {row} /\ txs'[w].at = "audited" /\ chain' = chain
    BY <1>2, <1>4, <1>5
  <2> HIDE DEF rows
  <2> QED
    BY <1>9, <2>1, <2>2, <2>3, <2>4 DEF RowsContinue
<1>13. MessageIsOwn(w)'
  BY <1>4, <1>5, <1>6, <1>10 DEF MessageIsOwn
<1>14. OneHolder'
  BY <1>5, <1>7 DEF OneHolder, HoldsAuditLock
<1>15. StoresAgree'
  <2>1. \A i \in Ids(chain) : i <= clock + 1
    BY <1>1, <1>11
  <2> QED
    BY <1>2, <1>6, <2>1 DEF StoresAgree, gateway
<1>16. ASSUME NEW v \in Writers \ {w}
       PROVE  (RowsContinue(v) /\ MessageIsOwn(v))'
  <2>1. txs'[v] = txs[v] /\ ~HoldsAuditLock(v)
    BY <1>5, <1>7
  <2>2. txs[v].rows = {} /\ RowsContinue(v) /\ MessageIsOwn(v)
    BY <2>1 DEF ChainInv, RowsContinue
  <2> QED
    BY <1>2, <2>1, <2>2 DEF RowsContinue, MessageIsOwn, HoldsAuditLock, Ids, gateway
<1> QED
  BY <1>12, <1>13, <1>14, <1>15, <1>16 DEF ChainInv

LEMMA ChainEnqueue ==
  ASSUME Typed, ChainInv, NEW w \in Writers, Enqueue(w)
  PROVE  /\ ChainInv'
         /\ Max(Ids(txs[w].rows)) = clock /\ clock \in Ticks
<1> DEFINE rows == txs[w].rows
           newest == Max(Ids(rows))
           message == {[event |-> newest, at |-> clock]}
           tx == [txs[w] EXCEPT !.at = "enqueued", !.message = message]
<1>1. txs[w] \in AnyTx /\ clock \in Nat
  BY TypedTx, BoundAssumption DEF Typed, TypeOK
<1>2. Set(w, tx) /\ UNCHANGED <<stores, broker, gateway>> /\ txs[w].at = "audited"
  BY DEF Enqueue
<1>3. RowsContinue(w) /\ MessageIsOwn(w)
  BY DEF ChainInv
<1>4. clock \in Ids(rows) /\ \A i \in Ids(rows) : i <= clock
  BY <1>2, <1>3 DEF RowsContinue
<1>5. Ids(rows) \subseteq Ticks
  BY <1>1, LastIs DEF AnyTx
<1>6. newest = clock
  <2>1. Ids(rows) \in SUBSET (0 .. MaxTicks) /\ Ids(rows) # {}
    BY <1>4, <1>5, BoundAssumption DEF Ticks
  <2>2. newest \in Ids(rows) /\ \A y \in Ids(rows) : y <= newest
    BY <2>1, MaxIs, BoundAssumption
  <2> HIDE DEF newest
  <2>3. newest \in Nat /\ newest <= clock /\ clock <= newest
    BY <1>4, <2>1, <2>2, BoundAssumption
  <2> QED
    BY <1>1, <2>3
<1> HIDE DEF newest
<1>7. IsFiniteSet(message) /\ \A m \in message : m.at = m.event /\ m.event = clock
  <2>1. IsFiniteSet(message)
    BY FS_Singleton
  <2>2. \A m \in message : m = [event |-> newest, at |-> clock]
    OBVIOUS
  <2> QED
    BY <1>6, <2>1, <2>2
<1> HIDE DEF message
<1>8. /\ tx.at = "enqueued" /\ tx.rows = rows /\ tx.message = message
      /\ tx.call = txs[w].call /\ tx.ok = txs[w].ok
  BY <1>1 DEF AnyTx
<1>9. txs'[w] = tx
  BY <1>2, OneSet
<1> HIDE DEF tx
<1>10. RowsContinue(w)'
  BY <1>2, <1>3, <1>8, <1>9 DEF RowsContinue, HoldsAuditLock, stores
<1>11. MessageIsOwn(w)'
  BY <1>4, <1>7, <1>8, <1>9 DEF MessageIsOwn
<1>12. \A v \in Writers \ {w} : ~HoldsAuditLock(v)
  BY <1>2 DEF ChainInv, OneHolder, HoldsAuditLock
<1>13. ChainInv'
  BY <1>2, <1>10, <1>11, <1>12, ChainOneSet
<1> QED
  BY <1>4, <1>5, <1>6, <1>13 DEF newest

\* Idle transactions satisfy the invariant.
LEMMA ChainIdle ==
  ASSUME NEW w \in Writers, txs'[w] = Idle, Linked(chain)'
  PROVE  (RowsContinue(w) /\ MessageIsOwn(w))' /\ ~HoldsAuditLock(w)'
<1>1. Idle.at = "idle" /\ Idle.rows = {} /\ Idle.message = {} /\ Idle.call = {}
  BY DEF Idle
<1>2. RowsContinue(w)' /\ ~HoldsAuditLock(w)'
  BY <1>1 DEF RowsContinue, HoldsAuditLock, Ids
<1>3. MessageIsOwn(w)'
  BY <1>1, FS_EmptySet DEF MessageIsOwn
<1> QED
  BY <1>2, <1>3

LEMMA ChainCommit ==
  ASSUME Typed, ChainInv, NEW w \in Writers, Commit(w)
  PROVE  ChainInv'
<1>1. /\ Set(w, Idle) /\ UNCHANGED <<clock, broker, sent, received>>
      /\ txs[w].at \in {"audited", "enqueued"} /\ txs[w].ok
      /\ chain' = chain \cup txs[w].rows /\ outbox' = outbox \cup txs[w].message
      /\ recorded' = recorded \cup txs[w].call
  BY DEF Commit
<1>2. txs'[w] = Idle /\ \A v \in Writers \ {w} : txs'[v] = txs[v]
  BY <1>1, OneSet
<1>3. RowsContinue(w) /\ MessageIsOwn(w) /\ StoresAgree
  BY DEF ChainInv
<1>4. \A v \in Writers \ {w} : ~HoldsAuditLock(v)
  BY <1>1 DEF ChainInv, OneHolder, HoldsAuditLock
<1>5. Linked(chain)'
  BY <1>1, <1>3 DEF RowsContinue
<1>6. Ids(chain') = Ids(chain) \cup Ids(txs[w].rows)
  BY <1>1 DEF Ids
<1>7. StoresAgree'
  <2>1. \A i \in Ids(chain') : i <= clock'
    BY <1>1, <1>3, <1>6 DEF StoresAgree, RowsContinue
  <2>2. IsFiniteSet(outbox')
    BY <1>1, <1>3, FS_Union DEF StoresAgree, MessageIsOwn
  <2>3. \A m \in outbox' : m.at = m.event /\ m.event \in Ids(chain')
    BY <1>1, <1>3, <1>6 DEF StoresAgree, MessageIsOwn
  <2> QED
    BY <1>5, <2>1, <2>2, <2>3 DEF StoresAgree
<1>8. (RowsContinue(w) /\ MessageIsOwn(w))' /\ ~HoldsAuditLock(w)'
  BY <1>2, <1>5, ChainIdle
<1>9. ASSUME NEW v \in Writers \ {w}
      PROVE  (RowsContinue(v) /\ MessageIsOwn(v))' /\ ~HoldsAuditLock(v)'
  <2>1. txs'[v] = txs[v] /\ ~HoldsAuditLock(v)
    BY <1>2, <1>4
  <2>2. txs[v].rows = {} /\ RowsContinue(v) /\ MessageIsOwn(v)
    BY <2>1 DEF ChainInv, RowsContinue
  <2> QED
    BY <1>1, <1>5, <2>1, <2>2 DEF RowsContinue, MessageIsOwn, HoldsAuditLock, Ids
<1>10. OneHolder'
  BY <1>8, <1>9 DEF OneHolder
<1> QED
  BY <1>7, <1>8, <1>9, <1>10 DEF ChainInv

LEMMA ChainRollback ==
  ASSUME Typed, ChainInv, NEW w \in Writers, Rollback(w)
  PROVE  ChainInv'
<1>1. Set(w, Idle) /\ UNCHANGED <<stores, broker, gateway>>
  BY DEF Rollback
<1>2. txs'[w] = Idle
  BY <1>1, OneSet
<1>3. Linked(chain)'
  BY <1>1 DEF ChainInv, StoresAgree, stores
<1> QED
  BY <1>1, <1>2, <1>3, ChainIdle, ChainOneSet

LEMMA ChainCall ==
  ASSUME Typed, ChainInv, NEW w \in Writers, NEW c \in Calls, CallPartner(w, c)
  PROVE  ChainInv'
<1> DEFINE tx == [Idle EXCEPT !.at = "calling", !.call = {c}]
<1>1. Set(w, tx) /\ UNCHANGED <<stores, broker, received, recorded>>
  BY DEF CallPartner
<1>2. tx.at = "calling" /\ tx.rows = {} /\ tx.message = {}
  BY DEF Idle
<1> HIDE DEF tx
<1>3. txs'[w] = tx /\ \A v \in Writers \ {w} : txs'[v] = txs[v]
  BY <1>1, OneSet
<1>4. (RowsContinue(w) /\ MessageIsOwn(w))'
  BY <1>1, <1>2, <1>3, FS_EmptySet
     DEF ChainInv, StoresAgree, RowsContinue, MessageIsOwn, HoldsAuditLock, Ids, stores
<1>5. ~HoldsAuditLock(w)'
  BY <1>2, <1>3 DEF HoldsAuditLock
<1>6. OneHolder'
  BY <1>3, <1>5 DEF ChainInv, OneHolder, HoldsAuditLock
<1>7. StoresAgree'
  BY <1>1 DEF ChainInv, StoresAgree, stores
<1>8. ASSUME NEW v \in Writers \ {w}
      PROVE  (RowsContinue(v) /\ MessageIsOwn(v))'
  BY <1>1, <1>3 DEF ChainInv, RowsContinue, MessageIsOwn, HoldsAuditLock, stores
<1> QED
  BY <1>4, <1>6, <1>7, <1>8 DEF ChainInv

LEMMA ChainReceives ==
  ASSUME Typed, ChainInv, NEW c \in Calls, PartnerReceives(c)
  PROVE  ChainInv'
<1>1. received \subseteq received' /\ UNCHANGED <<stores, txs, recorded>>
  BY DEF PartnerReceives
<1>2. StoresAgree' /\ OneHolder'
  BY <1>1 DEF ChainInv, StoresAgree, OneHolder, HoldsAuditLock, stores
<1>3. ASSUME NEW w \in Writers PROVE (RowsContinue(w) /\ MessageIsOwn(w))'
  BY <1>1 DEF ChainInv, RowsContinue, MessageIsOwn, HoldsAuditLock, stores
<1> QED
  BY <1>2, <1>3 DEF ChainInv

LEMMA ChainReturns ==
  ASSUME Typed, ChainInv, NEW w \in Writers, NEW ok \in BOOLEAN, CallReturns(w, ok)
  PROVE  ChainInv'
<1> DEFINE tx == [txs[w] EXCEPT !.at = "answered", !.ok = ok]
<1>1. /\ Set(w, tx) /\ UNCHANGED <<stores, broker, gateway>> /\ txs[w].at = "calling"
      /\ ok => txs[w].call \subseteq received
  BY DEF CallReturns
<1>2. /\ tx.at = "answered" /\ tx.rows = txs[w].rows /\ tx.message = txs[w].message
      /\ tx.call = txs[w].call /\ tx.ok = ok
  BY TypedTx DEF AnyTx
<1> HIDE DEF tx
<1>3. txs'[w] = tx
  BY <1>1, OneSet
<1>4. (RowsContinue(w) /\ MessageIsOwn(w))'
  BY <1>1, <1>2, <1>3
     DEF ChainInv, StoresAgree, RowsContinue, MessageIsOwn, HoldsAuditLock, Ids, stores, gateway
<1>5. ~HoldsAuditLock(w)'
  BY <1>2, <1>3 DEF HoldsAuditLock
<1> QED
  BY <1>1, <1>4, <1>5, ChainOneSet

\* A publisher has no part in the chain.
LEMMA ChainByOthers ==
  ASSUME ChainInv, UNCHANGED <<stores, txs, gateway>>
  PROVE  ChainInv'
<1>1. StoresAgree' /\ OneHolder'
  BY DEF ChainInv, StoresAgree, OneHolder, HoldsAuditLock, stores, gateway
<1>2. ASSUME NEW w \in Writers PROVE (RowsContinue(w) /\ MessageIsOwn(w))'
  BY DEF ChainInv, RowsContinue, MessageIsOwn, HoldsAuditLock, stores, gateway
<1> QED
  BY <1>1, <1>2 DEF ChainInv

-----------------------------------------------------------------------------
(* Publication.                                                            *)

\* The event is sent in a transaction that is still open.
InHand(e) == \E b \in Publishers : \E m \in pubs[b].sent : m.event = e

\* A batch holds committed messages that are not published; a stopped publisher has none.
BatchesOpen ==
  \A b \in Publishers : /\ ~pubs[b].up => pubs[b].batch = {}
                        /\ \A m \in pubs[b].batch : m \in outbox /\ m.event \notin marked

\* What is sent or published is stored, and what is stored was committed.
Stored ==
  /\ \A b \in Publishers : \A m \in pubs[b].sent : copies[m.event] > 0
  /\ \A e \in marked : copies[e] > 0
  /\ \A e \in Ticks : copies[e] > 0 => \E m \in outbox : m.event = e

\* Each failure costs at most one copy.
CopiesCounted ==
  \A e \in Ticks :
    /\ copies[e] > 0 /\ e \notin redoable => copies[e] = 1 /\ (e \in marked \/ InHand(e))
    /\ e \notin marked /\ ~InHand(e) => copies[e] <= failures
    /\ copies[e] <= 1 + failures

\* Whatever is older than a message sent or about to be has been sent, is about to be
\* sent with it, or was held by another publisher.
OldFirst ==
  \A m, n \in outbox : m.event < n.event =>
    /\ copies[n.event] > 0 => copies[m.event] > 0 \/ m \in skipped
    /\ \A b \in Publishers : n \in pubs[b].batch =>
         copies[m.event] > 0 \/ m \in skipped \/ m \in pubs[b].batch

PubInv == BatchesOpen /\ Stored /\ CopiesCounted /\ OldFirst

LEMMA PubInit == Init => PubInv
<1> SUFFICES ASSUME Init PROVE PubInv
  OBVIOUS
<1>1. /\ outbox = {} /\ marked = {} /\ failures = 0
      /\ \A b \in Publishers : pubs[b] = Resting
      /\ \A e \in Ticks : copies[e] = 0
  BY DEF Init
<1>2. Resting.up /\ Resting.batch = {} /\ Resting.sent = {}
  BY DEF Resting
<1>3. BatchesOpen /\ Stored /\ OldFirst
  BY <1>1, <1>2 DEF BatchesOpen, Stored, OldFirst
<1>4. CopiesCounted
  BY <1>1, <1>2 DEF CopiesCounted
<1> QED
  BY <1>3, <1>4 DEF PubInv

\* One message per event, and it carries the time of the event.
LEMMA OneMessage ==
  ASSUME Typed, ChainInv
  PROVE  /\ \A m \in outbox : m.event \in Ticks /\ m.at = m.event
         /\ \A m, n \in outbox : m.event = n.event => m = n
<1>1. \A m \in outbox : m.at = m.event /\ m \in Message
  BY DEF Typed, TypeOK, ChainInv, StoresAgree
<1> QED
  BY <1>1 DEF Message

\* A step of a request adds messages at most, about events newer than all others.
LEMMA PubByRequest ==
  ASSUME Typed, ChainInv, PubInv, UNCHANGED broker, outbox \subseteq outbox',
         \A m \in outbox', n \in outbox : m \notin outbox => n.event < m.event,
         \A m \in outbox' : m \notin outbox => m.event \in Ticks /\ copies[m.event] = 0
  PROVE  PubInv'
<1> USE DEF broker
<1>1. BatchesOpen'
  BY DEF PubInv, BatchesOpen
<1>2. Stored'
  BY DEF PubInv, Stored
<1>3. CopiesCounted'
  BY DEF PubInv, CopiesCounted, InHand
<1>4. OldFirst'
  <2> SUFFICES ASSUME NEW m \in outbox', NEW n \in outbox', m.event < n.event
               PROVE  /\ copies[n.event] > 0 => copies[m.event] > 0 \/ m \in skipped
                      /\ \A b \in Publishers : n \in pubs[b].batch =>
                           copies[m.event] > 0 \/ m \in skipped \/ m \in pubs[b].batch
    BY DEF OldFirst
  <2>1. CASE n \notin outbox
    <3>1. copies[n.event] = 0
      BY <2>1
    <3>2. \A b \in Publishers : n \notin pubs[b].batch
      BY <2>1 DEF PubInv, BatchesOpen
    <3> QED
      BY <3>1, <3>2
  <2>2. CASE n \in outbox
    <3>1. m \in outbox
      <4>1. SUFFICES ASSUME m \notin outbox PROVE FALSE
        OBVIOUS
      <4>2. n.event < m.event /\ m.event \in Ticks /\ n.event \in Ticks
        BY <2>2, <4>1, OneMessage
      <4> QED
        BY <4>2 DEF Ticks
    <3> QED
      BY <2>2, <3>1 DEF PubInv, OldFirst
  <2> QED
    BY <2>1, <2>2
<1> QED
  BY <1>1, <1>2, <1>3, <1>4 DEF PubInv

\* The messages a transaction commits are about events newer than all others.
LEMMA PubByCommit ==
  ASSUME Typed, ChainInv, PubInv, NEW w \in Writers, Commit(w)
  PROVE  PubInv'
<1>1. outbox' = outbox \cup txs[w].message /\ UNCHANGED broker
  BY DEF Commit
<1>2. ASSUME NEW m \in txs[w].message
      PROVE  m.event \in Ticks /\ \A j \in Ids(chain) : j < m.event
  BY TypedTx DEF ChainInv, RowsContinue, MessageIsOwn, AnyTx, Message
<1>3. \A n \in outbox : n.event \in Ids(chain)
  BY DEF ChainInv, StoresAgree
<1>4. ASSUME NEW m \in txs[w].message PROVE copies[m.event] = 0
  <2>1. ASSUME NEW n \in outbox PROVE n.event # m.event
    <3>1. n.event < m.event /\ m.event \in Ticks /\ n.event \in Ticks
      BY <1>2, <1>3, OneMessage
    <3> QED
      BY <3>1 DEF Ticks
  <2>2. ~(copies[m.event] > 0)
    BY <1>2, <2>1 DEF PubInv, Stored
  <2>3. copies[m.event] \in Nat
    BY <1>2 DEF Typed, TypeOK
  <2> QED
    BY <2>2, <2>3
<1> QED
  BY <1>1, <1>2, <1>3, <1>4, PubByRequest

\* A batch that Oldest chose holds everything older than what it holds.
LEMMA OldestIsClosed ==
  ASSUME NEW messages, IsFiniteSet(messages), \A k \in messages : k.at \in Int,
         NEW n \in Oldest(messages), NEW m \in messages, m.at < n.at
  PROVE  m \in Oldest(messages)
<1> DEFINE Before(k) == {j \in messages : j.at < k.at}
<1>1. n \in messages /\ Cardinality(Before(n)) < Batch
  BY DEF Oldest
<1>2. Before(m) \subseteq Before(n) /\ Before(n) \subseteq messages
  BY <1>1
<1> HIDE DEF Before
<1>3. IsFiniteSet(Before(n))
  BY <1>2, FS_Subset
<1>4. IsFiniteSet(Before(m)) /\ Cardinality(Before(m)) <= Cardinality(Before(n))
  BY <1>2, <1>3, FS_Subset
<1>5. Cardinality(Before(m)) \in Nat /\ Cardinality(Before(n)) \in Nat
  BY <1>3, <1>4, FS_CardinalityType
<1>6. Cardinality(Before(m)) < Batch
  BY <1>1, <1>4, <1>5, BatchAssumption
<1> QED
  BY <1>6 DEF Oldest, Before

LEMMA PubFetch ==
  ASSUME Typed, ChainInv, PubInv, NEW b \in Publishers, Fetch(b)
  PROVE  PubInv'
<1> DEFINE free == Unpublished \ HeldByOthers(b)
           batch == Oldest(free)
<1>1. /\ pubs' = [pubs EXCEPT ![b].batch = batch]
      /\ UNCHANGED <<stores, marked, copies, txs, gateway, failures, redoable>>
      /\ pubs[b].up /\ pubs[b].batch = {}
      /\ skipped' = skipped \cup {m \in HeldByOthers(b) : \E n \in batch : m.at < n.at}
  BY DEF Fetch, Free
<1>2. batch \subseteq free
  BY DEF Oldest
<1>3. pubs \in [Publishers -> Publisher] /\ \A a \in Publishers : DOMAIN pubs[a] = {"up", "batch", "sent"}
  BY DEF Typed, TypeOK, Publisher
<1>4. ASSUME NEW m \in outbox, NEW n \in batch, m.event < n.event
      PROVE  copies[m.event] > 0 \/ m \in skipped' \/ m \in batch
  <2>1. m.at < n.at /\ n \in free /\ n \in outbox
    BY <1>2, <1>4, OneMessage DEF Unpublished
  <2>2. CASE m.event \in marked
    BY <2>2 DEF PubInv, Stored
  <2>3. CASE m \in HeldByOthers(b)
    BY <1>1, <2>1, <2>3
  <2>4. CASE m.event \notin marked /\ m \notin HeldByOthers(b)
    <3>1. m \in free /\ free \subseteq outbox
      BY <2>4 DEF Unpublished
    <3>2. IsFiniteSet(free)
      BY <3>1, FS_Subset DEF ChainInv, StoresAgree
    <3>3. \A k \in free : k.at \in Int
      BY <3>1, OneMessage DEF Ticks
    <3> HIDE DEF free
    <3>4. m \in batch
      BY <2>1, <3>1, <3>2, <3>3, OldestIsClosed
    <3> QED
      BY <3>4
  <2> QED
    BY <2>2, <2>3, <2>4
<1>5. batch \subseteq Unpublished
  BY <1>2
<1> HIDE DEF batch, free
<1>6. /\ pubs'[b].batch = batch /\ pubs'[b].up = pubs[b].up
      /\ \A a \in Publishers : pubs'[a].sent = pubs[a].sent
      /\ \A a \in Publishers \ {b} : pubs'[a] = pubs[a]
  BY <1>1, <1>3
<1>7. BatchesOpen'
  <2>1. ASSUME NEW a \in Publishers
        PROVE  /\ ~pubs'[a].up => pubs'[a].batch = {}
               /\ \A m \in pubs'[a].batch : m \in outbox /\ m.event \notin marked
    <3>1. CASE a = b
      BY <1>1, <1>5, <1>6, <3>1 DEF Unpublished
    <3>2. CASE a # b
      BY <1>6, <3>2 DEF PubInv, BatchesOpen
    <3> QED
      BY <3>1, <3>2
  <2> QED
    BY <1>1, <2>1 DEF BatchesOpen, stores
<1>8. Stored'
  BY <1>1, <1>6 DEF PubInv, Stored, stores
<1>9. CopiesCounted'
  BY <1>1, <1>6 DEF PubInv, CopiesCounted, InHand
<1>10. OldFirst'
  <2> SUFFICES ASSUME NEW m \in outbox, NEW n \in outbox, m.event < n.event
               PROVE  /\ copies[n.event] > 0 => copies[m.event] > 0 \/ m \in skipped'
                      /\ \A a \in Publishers : n \in pubs'[a].batch =>
                           copies[m.event] > 0 \/ m \in skipped' \/ m \in pubs'[a].batch
    BY <1>1 DEF OldFirst, stores
  <2>1. skipped \subseteq skipped'
    BY <1>1
  <2>2. copies[n.event] > 0 => copies[m.event] > 0 \/ m \in skipped'
    BY <2>1 DEF PubInv, OldFirst
  <2>3. ASSUME NEW a \in Publishers, n \in pubs'[a].batch
        PROVE  copies[m.event] > 0 \/ m \in skipped' \/ m \in pubs'[a].batch
    <3>1. CASE a = b
      BY <1>4, <1>6, <2>3, <3>1
    <3>2. CASE a # b
      BY <1>6, <2>1, <2>3, <3>2 DEF PubInv, OldFirst
    <3> QED
      BY <3>1, <3>2
  <2> QED
    BY <2>2, <2>3
<1> QED
  BY <1>7, <1>8, <1>9, <1>10 DEF PubInv

LEMMA PubSend ==
  ASSUME Typed, ChainInv, PubInv, NEW b \in Publishers, Send(b)
  PROVE  PubInv'
<1> DEFINE f == Following(b)
<1>1. /\ copies' = [copies EXCEPT ![f.event] = @ + 1]
      /\ pubs' = [pubs EXCEPT ![b].sent = @ \cup {f}]
      /\ UNCHANGED <<stores, marked, txs, gateway, failures, skipped, redoable>>
      /\ pubs[b].sent # pubs[b].batch
  BY DEF Send
<1>2. /\ pubs \in [Publishers -> Publisher] /\ copies \in [Ticks -> Nat] /\ failures \in Nat
      /\ \A a \in Publishers : pubs[a].sent \subseteq pubs[a].batch
  BY BoundAssumption DEF Typed, TypeOK, SentIsLocked
<1>3. f \in pubs[b].batch \ pubs[b].sent /\ \A n \in pubs[b].batch \ pubs[b].sent : f.at <= n.at
  BY <1>1, <1>2, FollowingIsOldest
<1> HIDE DEF f
<1>4. f \in outbox /\ f.event \notin marked /\ f.event \in Ticks
  BY <1>3, OneMessage DEF PubInv, BatchesOpen
<1>5. ~InHand(f.event)
  <2> SUFFICES ASSUME NEW a \in Publishers, NEW m \in pubs[a].sent, m.event = f.event
               PROVE  FALSE
    BY DEF InHand
  <2>1. m \in pubs[a].batch /\ m = f
    BY <1>2, <1>4, OneMessage DEF PubInv, BatchesOpen
  <2>2. a = b
    BY <1>3, <2>1 DEF Typed, TypeOK, HeldBy
  <2> QED
    BY <1>3, <2>1, <2>2
<1>6. /\ \A a \in Publishers : pubs'[a].batch = pubs[a].batch /\ pubs'[a].up = pubs[a].up
      /\ pubs'[b].sent = pubs[b].sent \cup {f}
      /\ \A a \in Publishers \ {b} : pubs'[a].sent = pubs[a].sent
  BY <1>1, <1>2 DEF Publisher
<1>7. /\ copies'[f.event] = copies[f.event] + 1
      /\ \A e \in Ticks \ {f.event} : copies'[e] = copies[e]
      /\ \A e \in Ticks : copies[e] \in Nat /\ copies'[e] \in Nat /\ copies[e] <= copies'[e]
  BY <1>1, <1>2, <1>4
<1>8. \A e : InHand(e)' <=> InHand(e) \/ e = f.event
  <2> TAKE e
  <2>1. ASSUME InHand(e)' PROVE InHand(e) \/ e = f.event
    BY <1>6, <2>1 DEF InHand
  <2>2. ASSUME InHand(e) \/ e = f.event PROVE InHand(e)'
    BY <1>6, <2>2 DEF InHand
  <2> QED
    BY <2>1, <2>2
<1>9. \A m \in outbox : m.event \in Ticks
  BY OneMessage
<1>10. BatchesOpen'
  BY <1>1, <1>6 DEF PubInv, BatchesOpen, stores
<1>11. Stored'
  <2>1. ASSUME NEW a \in Publishers, NEW m \in pubs'[a].sent PROVE copies'[m.event] > 0
    <3>1. CASE m = f
      BY <1>4, <1>7, <3>1
    <3>2. CASE m \in pubs[a].sent
      <4>1. copies[m.event] > 0
        BY <3>2 DEF PubInv, Stored
      <4>2. m.event \in Ticks
        BY <1>2, <1>9, <3>2 DEF PubInv, BatchesOpen
      <4> QED
        BY <1>7, <4>1, <4>2
    <3> QED
      BY <1>6, <3>1, <3>2
  <2>2. ASSUME NEW e \in marked PROVE copies'[e] > 0
    <3>1. copies[e] > 0 /\ e \in Ticks
      BY DEF PubInv, Stored, Typed, TypeOK
    <3> QED
      BY <1>7, <3>1
  <2>3. ASSUME NEW e \in Ticks, copies'[e] > 0 PROVE \E m \in outbox : m.event = e
    <3>1. CASE e = f.event
      BY <1>4, <3>1
    <3>2. CASE e # f.event
      BY <1>7, <2>3, <3>2 DEF PubInv, Stored
    <3> QED
      BY <3>1, <3>2
  <2> QED
    BY <1>1, <2>1, <2>2, <2>3 DEF Stored, stores
<1>12. CopiesCounted'
  <2> SUFFICES ASSUME NEW e \in Ticks
               PROVE  /\ copies'[e] > 0 /\ e \notin redoable => copies'[e] = 1 /\ (e \in marked \/ InHand(e)')
                      /\ e \notin marked /\ ~InHand(e)' => copies'[e] <= failures
                      /\ copies'[e] <= 1 + failures
    BY <1>1 DEF CopiesCounted
  <2>1. /\ copies[e] > 0 /\ e \notin redoable => copies[e] = 1 /\ (e \in marked \/ InHand(e))
        /\ e \notin marked /\ ~InHand(e) => copies[e] <= failures
        /\ copies[e] <= 1 + failures
    BY DEF PubInv, CopiesCounted
  <2>2. CASE e = f.event
    BY <1>2, <1>4, <1>5, <1>7, <1>8, <2>1, <2>2
  <2>3. CASE e # f.event
    BY <1>7, <1>8, <2>1, <2>3
  <2> QED
    BY <2>2, <2>3
<1>13. OldFirst'
  <2> SUFFICES ASSUME NEW m \in outbox, NEW n \in outbox, m.event < n.event
               PROVE  /\ copies'[n.event] > 0 => copies'[m.event] > 0 \/ m \in skipped
                      /\ \A a \in Publishers : n \in pubs[a].batch =>
                           copies'[m.event] > 0 \/ m \in skipped \/ m \in pubs[a].batch
    BY <1>1, <1>6 DEF OldFirst, stores
  <2>1. m.event \in Ticks /\ n.event \in Ticks
    BY <1>9
  <2>2. copies[m.event] > 0 => copies'[m.event] > 0
    BY <1>7, <2>1
  <2>3. \A a \in Publishers : n \in pubs[a].batch =>
          copies'[m.event] > 0 \/ m \in skipped \/ m \in pubs[a].batch
    BY <2>2 DEF PubInv, OldFirst
  <2>4. ASSUME copies'[n.event] > 0 PROVE copies'[m.event] > 0 \/ m \in skipped
    <3>1. CASE n.event # f.event
      BY <1>7, <2>1, <2>2, <2>4, <3>1 DEF PubInv, OldFirst
    <3>2. CASE n.event = f.event
      <4>1. n = f /\ m.at < f.at /\ m.at \in Int /\ f.at \in Int
        BY <1>4, <3>2, OneMessage DEF Ticks
      <4>2. m \notin pubs[b].batch \ pubs[b].sent
        BY <1>3, <4>1
      <4>3. m \in pubs[b].batch => copies'[m.event] > 0
        BY <2>2, <4>2 DEF PubInv, Stored
      <4> QED
        BY <1>3, <2>3, <4>1, <4>3
    <3> QED
      BY <3>1, <3>2
  <2> QED
    BY <2>3, <2>4
<1> QED
  BY <1>10, <1>11, <1>12, <1>13 DEF PubInv

LEMMA PubMark ==
  ASSUME Typed, ChainInv, PubInv, NEW b \in Publishers, MarkPublished(b)
  PROVE  PubInv'
<1>1. /\ pubs[b].sent = pubs[b].batch
      /\ marked' = marked \cup {m.event : m \in pubs[b].batch}
      /\ pubs' = [pubs EXCEPT ![b] = Resting]
      /\ UNCHANGED <<stores, copies, txs, gateway, failures, skipped, redoable>>
  BY DEF MarkPublished
<1>2. /\ pubs'[b] = Resting /\ \A a \in Publishers \ {b} : pubs'[a] = pubs[a]
      /\ Resting.up /\ Resting.batch = {} /\ Resting.sent = {}
  BY <1>1 DEF Typed, TypeOK, Resting
<1>3. BatchesOpen'
  <2> SUFFICES ASSUME NEW a \in Publishers \ {b}, NEW m \in pubs[a].batch
               PROVE  m \in outbox /\ m.event \notin marked'
    BY <1>1, <1>2 DEF PubInv, BatchesOpen, stores
  <2>1. m \in outbox /\ m.event \notin marked
    BY DEF PubInv, BatchesOpen
  <2>2. ASSUME NEW n \in pubs[b].batch, n.event = m.event PROVE FALSE
    <3>1. n = m
      BY <2>1, <2>2, OneMessage DEF PubInv, BatchesOpen
    <3> QED
      BY <3>1 DEF Typed, TypeOK, HeldBy
  <2> QED
    BY <1>1, <2>1, <2>2
<1>4. Stored'
  BY <1>1, <1>2 DEF PubInv, Stored, stores
<1>5. CopiesCounted'
  <2>1. \A e : InHand(e) => e \in marked' \/ InHand(e)'
    BY <1>1, <1>2 DEF InHand
  <2> QED
    BY <1>1, <2>1 DEF PubInv, CopiesCounted
<1>6. OldFirst'
  BY <1>1, <1>2 DEF PubInv, OldFirst, stores
<1> QED
  BY <1>3, <1>4, <1>5, <1>6 DEF PubInv

LEMMA PubFail ==
  ASSUME Typed, ChainInv, PubInv, NEW b \in Publishers,
         NEW reached \in SUBSET pubs[b].batch, Fail(b, reached)
  PROVE  PubInv'
<1> DEFINE Hit(e) == \E m \in reached : m.event = e
<1>1. /\ failures' = failures + 1
      /\ reached \subseteq (IF pubs[b].sent = pubs[b].batch THEN {} ELSE {Following(b)})
      /\ copies' = [e \in Ticks |-> IF Hit(e) THEN copies[e] + 1 ELSE copies[e]]
      /\ redoable' = redoable \cup {m.event : m \in pubs[b].sent \cup reached}
      /\ pubs' = [pubs EXCEPT ![b] = Stopped]
      /\ UNCHANGED <<stores, marked, txs, gateway, skipped>>
  BY DEF Fail
<1>2. /\ pubs \in [Publishers -> Publisher] /\ copies \in [Ticks -> Nat] /\ failures \in Nat
      /\ \A a \in Publishers : pubs[a].sent \subseteq pubs[a].batch
  BY BoundAssumption DEF Typed, TypeOK, SentIsLocked
<1>3. /\ pubs'[b] = Stopped /\ \A a \in Publishers \ {b} : pubs'[a] = pubs[a]
      /\ Stopped.batch = {} /\ Stopped.sent = {}
  BY <1>1, <1>2 DEF Stopped
<1>4. ASSUME NEW f \in reached
      PROVE  /\ f \in pubs[b].batch \ pubs[b].sent
             /\ \A n \in pubs[b].batch \ pubs[b].sent : f.at <= n.at
  BY <1>1, <1>2, FollowingIsOldest
<1>5. ASSUME NEW f \in reached
      PROVE  f \in outbox /\ f.event \in Ticks /\ f.event \notin marked /\ ~InHand(f.event)
  <2>1. f \in outbox /\ f.event \in Ticks /\ f.event \notin marked
    BY <1>4, OneMessage DEF PubInv, BatchesOpen
  <2>2. ASSUME NEW a \in Publishers, NEW m \in pubs[a].sent, m.event = f.event
        PROVE  FALSE
    <3>1. m \in pubs[a].batch /\ m = f
      BY <1>2, <2>1, <2>2, OneMessage DEF PubInv, BatchesOpen
    <3>2. a = b
      BY <1>4, <3>1 DEF Typed, TypeOK, HeldBy
    <3> QED
      BY <1>4, <3>1, <3>2
  <2> QED
    BY <2>1, <2>2 DEF InHand
<1>6. \A e \in Ticks : /\ Hit(e) => copies'[e] = copies[e] + 1
                       /\ ~Hit(e) => copies'[e] = copies[e]
                       /\ copies[e] \in Nat
  BY <1>1, <1>2
<1>7. \A e \in Ticks : copies[e] > 0 => copies'[e] > 0
  BY <1>6
<1>8. \A m \in outbox : m.event \in Ticks
  BY OneMessage
<1>9. BatchesOpen'
  BY <1>1, <1>3 DEF PubInv, BatchesOpen, stores
<1>10. Stored'
  <2>1. ASSUME NEW a \in Publishers, NEW m \in pubs'[a].sent PROVE copies'[m.event] > 0
    <3>1. m \in pubs[a].sent
      BY <1>3
    <3>2. copies[m.event] > 0 /\ m.event \in Ticks
      BY <1>2, <1>8, <3>1 DEF PubInv, Stored, BatchesOpen
    <3> QED
      BY <1>7, <3>2
  <2>2. ASSUME NEW e \in marked PROVE copies'[e] > 0
    BY <1>7 DEF PubInv, Stored, Typed, TypeOK
  <2>3. ASSUME NEW e \in Ticks, copies'[e] > 0 PROVE \E m \in outbox : m.event = e
    <3>1. CASE Hit(e)
      BY <1>5, <3>1
    <3>2. CASE ~Hit(e)
      BY <1>6, <2>3, <3>2 DEF PubInv, Stored
    <3> QED
      BY <3>1, <3>2
  <2> QED
    BY <1>1, <2>1, <2>2, <2>3 DEF Stored, stores
<1>11. CopiesCounted'
  <2> SUFFICES ASSUME NEW e \in Ticks
               PROVE  /\ copies'[e] > 0 /\ e \notin redoable' => copies'[e] = 1 /\ (e \in marked \/ InHand(e)')
                      /\ e \notin marked /\ ~InHand(e)' => copies'[e] <= failures'
                      /\ copies'[e] <= 1 + failures'
    BY <1>1 DEF CopiesCounted
  <2>1. /\ copies[e] > 0 /\ e \notin redoable => copies[e] = 1 /\ (e \in marked \/ InHand(e))
        /\ e \notin marked /\ ~InHand(e) => copies[e] <= failures
        /\ copies[e] <= 1 + failures
    BY DEF PubInv, CopiesCounted
  <2>2. CASE Hit(e)
    <3>1. e \notin marked /\ ~InHand(e) /\ e \in redoable'
      BY <1>1, <1>5, <2>2
    <3> QED
      BY <1>1, <1>2, <1>6, <2>1, <2>2, <3>1
  <2>3. CASE ~Hit(e)
    <3>1. e \notin redoable' => e \notin redoable /\ (InHand(e) => InHand(e)')
      BY <1>1, <1>3 DEF InHand
    <3> QED
      BY <1>1, <1>2, <1>6, <2>1, <2>3, <3>1
  <2> QED
    BY <2>2, <2>3
<1>12. OldFirst'
  <2> SUFFICES ASSUME NEW m \in outbox, NEW n \in outbox, m.event < n.event
               PROVE  /\ copies'[n.event] > 0 => copies'[m.event] > 0 \/ m \in skipped
                      /\ \A a \in Publishers : n \in pubs'[a].batch =>
                           copies'[m.event] > 0 \/ m \in skipped \/ m \in pubs'[a].batch
    BY <1>1 DEF OldFirst, stores
  <2>1. m.event \in Ticks /\ n.event \in Ticks
    BY <1>8
  <2>2. copies[m.event] > 0 => copies'[m.event] > 0
    BY <1>7, <2>1
  <2>3. \A a \in Publishers : n \in pubs[a].batch =>
          copies'[m.event] > 0 \/ m \in skipped \/ m \in pubs[a].batch
    BY <2>2 DEF PubInv, OldFirst
  <2>4. \A a \in Publishers : n \in pubs'[a].batch =>
          copies'[m.event] > 0 \/ m \in skipped \/ m \in pubs'[a].batch
    BY <1>3, <2>3
  <2>5. ASSUME copies'[n.event] > 0 PROVE copies'[m.event] > 0 \/ m \in skipped
    <3>1. CASE ~Hit(n.event)
      BY <1>6, <2>1, <2>2, <2>5, <3>1 DEF PubInv, OldFirst
    <3>2. CASE Hit(n.event)
      <4>1. PICK f \in reached : f.event = n.event
        BY <3>2
      <4>2. n = f /\ m.at < f.at /\ m.at \in Int /\ f.at \in Int
        BY <1>5, <4>1, OneMessage DEF Ticks
      <4>3. f \in pubs[b].batch /\ m \notin pubs[b].batch \ pubs[b].sent
        BY <1>4, <4>2
      <4>4. m \in pubs[b].batch => copies'[m.event] > 0
        BY <2>2, <4>3 DEF PubInv, Stored
      <4> QED
        BY <2>3, <4>2, <4>3, <4>4
    <3> QED
      BY <3>1, <3>2
  <2> QED
    BY <2>4, <2>5
<1> QED
  BY <1>9, <1>10, <1>11, <1>12 DEF PubInv

LEMMA PubRestart ==
  ASSUME Typed, PubInv, NEW b \in Publishers, Restart(b)
  PROVE  PubInv'
<1>1. /\ ~pubs[b].up /\ pubs' = [pubs EXCEPT ![b] = Resting]
      /\ UNCHANGED <<stores, marked, copies, txs, gateway, failures, skipped, redoable>>
  BY DEF Restart
<1>2. pubs[b].batch = {} /\ pubs[b].sent = {}
  BY <1>1 DEF PubInv, BatchesOpen, Typed, SentIsLocked
<1>3. /\ pubs'[b].batch = {} /\ pubs'[b].sent = {} /\ pubs'[b].up
      /\ \A a \in Publishers \ {b} : pubs'[a] = pubs[a]
  BY <1>1 DEF Typed, TypeOK, Resting
<1>4. \A a \in Publishers : pubs'[a].batch = pubs[a].batch /\ pubs'[a].sent = pubs[a].sent
  BY <1>2, <1>3
<1>5. BatchesOpen'
  BY <1>1, <1>3 DEF PubInv, BatchesOpen, stores
<1>6. Stored' /\ OldFirst'
  BY <1>1, <1>4 DEF PubInv, Stored, OldFirst, stores
<1>7. CopiesCounted'
  BY <1>1, <1>4 DEF PubInv, CopiesCounted, InHand
<1> QED
  BY <1>5, <1>6, <1>7 DEF PubInv

-----------------------------------------------------------------------------
(* Theorems.                                                               *)

IndInv == Typed /\ ChainInv /\ PubInv

LEMMA IndInvStep == IndInv /\ [Next]_vars => IndInv'
<1> SUFFICES ASSUME IndInv, [Next]_vars PROVE IndInv'
  OBVIOUS
<1> USE DEF IndInv
<1>1. ASSUME NEW w \in Writers, Request(w) PROVE IndInv'
  <2>0. Typed'
    BY <1>1, TypedByRequest, ChainEnqueue
  <2>1. CASE LinkAudit(w)
    BY <2>0, <2>1, ChainLink, PubByRequest DEF LinkAudit, ReadLast, stores
  <2>2. CASE InsertAudit(w)
    BY <2>0, <2>2, ChainInsert, PubByRequest DEF InsertAudit
  <2>3. CASE Enqueue(w)
    BY <2>0, <2>3, ChainEnqueue, PubByRequest DEF Enqueue, stores
  <2>4. CASE Commit(w)
    BY <2>0, <2>4, ChainCommit, PubByCommit
  <2>5. CASE Rollback(w)
    BY <2>0, <2>5, ChainRollback, PubByRequest DEF Rollback, stores
  <2> QED
    BY <1>1, <2>1, <2>2, <2>3, <2>4, <2>5 DEF Request
<1>2. ASSUME NEW w \in Callers, Call(w) PROVE IndInv'
  <2>1. w \in Writers
    BY CallersAssumption
  <2>2. Typed'
    BY <1>2, <2>1, TypedByRequest, ChainEnqueue
  <2>3. ChainInv'
    BY <1>2, <2>1, ChainCall, ChainReturns DEF Call
  <2>4. UNCHANGED <<stores, broker>>
    BY <1>2 DEF Call, CallPartner, CallReturns
  <2> QED
    BY <2>2, <2>3, <2>4, PubByRequest DEF stores
<1>3. ASSUME NEW c \in Calls, PartnerReceives(c) PROVE IndInv'
  <2>1. UNCHANGED <<stores, broker, txs, sent, recorded>> /\ received' = received \cup {c}
        /\ c \in sent
    BY <1>3 DEF PartnerReceives
  <2>2. Typed'
    BY <2>1, TypedRequest DEF Typed, TypeOK, stores
  <2> QED
    BY <1>3, <2>1, <2>2, ChainReceives, PubByRequest DEF stores
<1>4. ASSUME NEW b \in Publishers,
             Publish(b) \/ Restart(b) \/ \E reached \in SUBSET pubs[b].batch : Fail(b, reached)
      PROVE  IndInv'
  <2>1. Typed'
    BY <1>4, TypedByPublisher
  <2>2. UNCHANGED <<stores, txs, gateway>>
    BY <1>4 DEF Publish, Fetch, Send, MarkPublished, Restart, Fail
  <2>3. ChainInv'
    BY <2>2, ChainByOthers
  <2>4. PubInv'
    BY <1>4, PubFetch, PubSend, PubMark, PubFail, PubRestart DEF Publish
  <2> QED
    BY <2>1, <2>3, <2>4
<1>5. CASE UNCHANGED vars
  <2>1. Typed'
    BY <1>5, TypedRequest DEF Typed, TypeOK, vars, stores, gateway
  <2>2. ChainInv'
    BY <1>5, ChainByOthers DEF vars
  <2>3. PubInv'
    BY <1>5, PubByRequest DEF vars, stores
  <2> QED
    BY <2>1, <2>2, <2>3
<1> QED
  BY <1>1, <1>2, <1>3, <1>4, <1>5 DEF Next

LEMMA IndInvHolds == Spec => []IndInv
<1>1. Init => IndInv
  BY TypedInit, ChainInit, PubInit DEF IndInv
<1> QED
  BY <1>1, IndInvStep, PTL DEF Spec

\* Rows, transactions and publishers have their types, and no row is locked twice.
THEOREM TypeCorrect == Spec => []TypeOK
<1>1. IndInv => TypeOK
  BY DEF IndInv, Typed
<1> QED
  BY <1>1, IndInvHolds, PTL

\* However many requests append, commit and roll back, the audit chain never forks and
\* never has a dangling link: the advisory lock is enough.
THEOREM ChainStaysIntact == Spec => []ChainIntact
<1>1. IndInv => ChainIntact
  BY LinkedIsIntact DEF IndInv
<1> QED
  BY <1>1, IndInvHolds, PTL

\* Only committed changes are told of, and only what is stored is marked published.
THEOREM DeliveryStaysHonest == Spec => []DeliveryIsHonest
<1>1. IndInv => DeliveryIsHonest
  BY DEF IndInv, ChainInv, StoresAgree, PubInv, Stored, DeliveryIsHonest, Ids
<1> QED
  BY <1>1, IndInvHolds, PTL

\* However many publishers run, a failure costs at most one copy of a message.
THEOREM OnlyFailuresDuplicate == Spec => []DuplicatesFromFailures
<1>1. ASSUME IndInv PROVE DuplicatesFromFailures
  <2> SUFFICES ASSUME NEW e \in Ticks, copies[e] > 1
               PROVE  e \in redoable /\ copies[e] <= 1 + failures
    BY DEF DuplicatesFromFailures
  <2>1. copies[e] \in Nat
    BY <1>1 DEF IndInv, Typed, TypeOK
  <2> QED
    BY <1>1, <2>1 DEF IndInv, PubInv, CopiesCounted
<1> QED
  BY <1>1, IndInvHolds, PTL

\* Events are first seen in the order of the chain, up to what publishers skipped.
THEOREM SeenInOrder == Spec => []FirstSeenInOrder
<1>1. IndInv => FirstSeenInOrder
  BY DEF IndInv, PubInv, OldFirst, FirstSeenInOrder
<1> QED
  BY <1>1, IndInvHolds, PTL
=============================================================================
