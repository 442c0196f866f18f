-------------------------- MODULE StatusLists_proofs --------------------------
(***************************************************************************)
(* Machine-checked proofs about StatusLists, for any policies and any      *)
(* number of requests at a time.                                           *)
(***************************************************************************)
EXTENDS StatusLists, TLAPS

Revoked == {"CANCELLED", "LAPSED"}

Held(tx) == tx.todo \cup tx.done

\* The bits as the policies in some leave them, once a request is done with these.
Marked(bits, some, op) == IF op = "reinstate" THEN bits \ some ELSE bits \cup some

\* The rows a request holds still have the status it checked; only the sweep has several.
RowsHeld(tx, st) ==
  /\ Held(tx) # {}
  /\ \A p \in Held(tx) : st[p] = From(tx.op)
  /\ tx.op # "sweep" => \A p, q \in Held(tx) : p = q

\* What a request has read and written so far: nothing of it is in the future, and it
\* revokes only what is revoked already or what it is about to.
WorkOK(tx, st, now) ==
  /\ tx.own.at <= now
  /\ IF tx.done = {} THEN tx.own = NoSnapshot ELSE tx.own.at > 0
  /\ Purpose(tx.op) = "revocation" =>
       \A p \in tx.list \cup tx.own.bits : p \in tx.done \/ st[p] \in Revoked

\* Until another commit replaces its list, a request works on the published one.
FreshOK(tx, list) ==
  tx.stale \/ /\ tx.done # {} => list.at < tx.own.at
                                 /\ tx.own.bits = Marked(list.bits, tx.done, tx.op)
              /\ tx.at = "publish" => tx.list = Marked(list.bits, tx.done, tx.op)

TxOK(tx, st, pub, now) ==
  tx # Idle => RowsHeld(tx, st) /\ WorkOK(tx, st, now) /\ FreshOK(tx, pub[Purpose(tx.op)])

ListsOK ==
  \A purpose \in Purposes : /\ published[purpose].at <= clock
                            /\ published[purpose].at = 0 => published[purpose].bits = {}

\* The published lists show exactly what the policies table says.
Mirrored ==
  /\ published["revocation"].bits = {p \in Policies : status[p] \in Revoked}
  /\ published["suspension"].bits = {p \in Policies : status[p] = "SUSPENDED"}

IndInv == /\ TypeOK
          /\ \A w \in Workers : TxOK(txs[w], status, published, clock)
          /\ ListsOK
          /\ NoFalseRevocation
          /\ raced \in BOOLEAN
          /\ raced \/ Mirrored

\* A step may let time pass, within the bound.
Ticks == clock <= clock' /\ clock' \in 0 .. MaxSnapshots

\* Transaction tx of worker w shares no row, and not the audit lock, with the others.
Apart(w, tx) == \A v \in Workers \ {w} : /\ Held(tx) \cap Held(txs[v]) = {}
                                         /\ ~(tx.audited /\ txs[v].audited)

-----------------------------------------------------------------------------

\* The placeholder of a worker without a request is no transaction.
LEMMA IdleIsNoTx == Idle \notin Tx
BY DEF Idle, Tx, Operations

LEMMA PurposeType == \A op : Purpose(op) \in Purposes
BY DEF Purpose, Purposes

LEMMA InitOK == Init => IndInv
<1> SUFFICES ASSUME Init PROVE IndInv
  OBVIOUS
<1>1. NoSnapshot \in Snapshot /\ NoSnapshot.at = 0 /\ NoSnapshot.bits = {}
  BY BoundAssumption DEF NoSnapshot, Snapshot
<1>2. Idle.todo = {} /\ Idle.done = {} /\ Idle.audited = FALSE
  BY DEF Idle
<1>3. TypeOK
  BY <1>1, <1>2, BoundAssumption DEF Init, TypeOK, Statuses
<1>4. ListsOK /\ NoFalseRevocation /\ Mirrored
  BY <1>1 DEF Init, ListsOK, NoFalseRevocation, Mirrored, Purposes, Revoked
<1> QED
  BY <1>3, <1>4 DEF Init, IndInv, TxOK

\* Steps of one request that publish nothing: what it holds is its own or was free,
\* and it takes the audit lock only when nobody else has it.
LEMMA OneTxStep ==
  ASSUME IndInv, NEW w \in Workers, NEW tx \in Tx \cup {Idle},
         txs' = [txs EXCEPT ![w] = tx],
         UNCHANGED <<status, ended, published, raced>>,
         Ticks, TxOK(tx, status, published, clock'), Apart(w, tx)
  PROVE  IndInv'
<1> TypeOK
  BY DEF IndInv
<1>1. clock \in Nat /\ clock' \in Nat /\ clock <= clock' /\ clock' \in 0 .. MaxSnapshots
  BY BoundAssumption DEF TypeOK, Ticks
<1>2. \A v \in Workers : txs'[v] = IF v = w THEN tx ELSE txs[v]
  BY DEF TypeOK
<1>3. TypeOK'
  <2>1. txs' \in [Workers -> Tx \cup {Idle}]
    BY DEF TypeOK
  <2>2. ASSUME NEW u \in Workers, NEW v \in Workers, u # v
        PROVE  Held(txs'[u]) \cap Held(txs'[v]) = {} /\ ~(txs'[u].audited /\ txs'[v].audited)
    BY <1>2, <2>2 DEF TypeOK, Held, Apart
  <2> QED
    BY <1>1, <2>1, <2>2 DEF TypeOK, Held
<1>4. ASSUME NEW v \in Workers PROVE TxOK(txs'[v], status, published, clock')
  <2>1. CASE v = w
    BY <1>2, <2>1
  <2>2. CASE v # w
    <3>1. txs'[v] = txs[v] /\ TxOK(txs[v], status, published, clock)
      BY <1>2, <2>2 DEF IndInv
    <3>2. txs[v] # Idle => txs[v].own.at \in Nat
      BY BoundAssumption DEF TypeOK, Tx, Snapshot
    <3> QED
      BY <1>1, <3>1, <3>2 DEF TxOK, WorkOK
  <2> QED
    BY <2>1, <2>2
<1>5. ListsOK'
  <2>1. \A purpose \in Purposes : published[purpose].at \in Nat
    BY BoundAssumption DEF TypeOK, Snapshot
  <2> QED
    BY <1>1, <2>1 DEF IndInv, ListsOK
<1> QED
  BY <1>3, <1>4, <1>5 DEF IndInv, NoFalseRevocation, Mirrored

-----------------------------------------------------------------------------

LEMMA BeginStep ==
  ASSUME IndInv, NEW w \in Workers, NEW op \in Operations, NEW some \in SUBSET Policies,
         txs[w] = Idle, Begin(w, op, some), some # {},
         \A p \in some : status[p] = From(op) /\ ~Locked(p),
         op # "sweep" => \A p, q \in some : p = q
  PROVE  IndInv'
<1> DEFINE tx == [Idle EXCEPT !.op = op, !.at = "read", !.todo = some]
<1>1. /\ txs' = [txs EXCEPT ![w] = tx]
      /\ UNCHANGED <<status, ended, published, clock, raced>>
  BY DEF Begin
<1>2. NoSnapshot \in Snapshot /\ NoSnapshot.at = 0 /\ NoSnapshot.bits = {}
  BY BoundAssumption DEF NoSnapshot, Snapshot
<1>3. /\ tx.op = op /\ tx.at = "read" /\ tx.todo = some /\ tx.done = {} /\ tx.list = {}
      /\ tx.own = NoSnapshot /\ tx.audited = FALSE
  BY DEF Idle
<1>4. tx \in Tx
  BY <1>2 DEF Tx, Idle
<1> HIDE DEF tx
<1>5. clock \in 0 .. MaxSnapshots /\ Ticks
  BY <1>1, BoundAssumption DEF IndInv, TypeOK, Ticks
<1>6. TxOK(tx, status, published, clock')
  BY <1>1, <1>2, <1>3, <1>5 DEF TxOK, RowsHeld, WorkOK, FreshOK, Held
<1>7. Apart(w, tx)
  BY <1>3 DEF Held, Locked, Apart
<1> QED
  BY <1>1, <1>4, <1>5, <1>6, <1>7, OneTxStep

LEMMA LockSteps ==
  ASSUME IndInv, NEW w \in Workers,
         \/ LockExpired(w)
         \/ \E p \in Policies, op \in {"cancel", "suspend", "reinstate"} : LockPolicy(w, op, p)
  PROVE  IndInv'
<1>1. ASSUME NEW p \in Policies, NEW op \in {"cancel", "suspend", "reinstate"},
             LockPolicy(w, op, p)
      PROVE  IndInv'
  <2>1. op \in Operations /\ op # "sweep" /\ {p} \in SUBSET Policies
    BY DEF Operations
  <2> QED
    BY <1>1, <2>1, BeginStep DEF LockPolicy, Running
<1>2. CASE LockExpired(w)
  <2> DEFINE due == {p \in ended : status[p] = "ACTIVE" /\ ~Locked(p)}
  <2>1. due \in SUBSET Policies
    BY DEF IndInv, TypeOK
  <2>2. "sweep" \in Operations /\ From("sweep") = "ACTIVE"
    BY DEF Operations, From
  <2>3. txs[w] = Idle /\ due # {} /\ Begin(w, "sweep", due)
    BY <1>2 DEF LockExpired, Running
  <2> QED
    BY <2>1, <2>2, <2>3, BeginStep
<1> QED
  BY <1>1, <1>2

\* A request in progress has the types of one and keeps off the others.
LEMMA RunningTx ==
  ASSUME IndInv, NEW w \in Workers, txs[w].at # "idle"
  PROVE  /\ txs[w] \in Tx /\ txs[w] # Idle
         /\ RowsHeld(txs[w], status) /\ WorkOK(txs[w], status, clock)
         /\ FreshOK(txs[w], published[Purpose(txs[w].op)])
         /\ published[Purpose(txs[w].op)] \in Snapshot
         /\ txs[w].own \in Snapshot
         /\ Apart(w, txs[w])
<1>1. txs[w] # Idle
  BY DEF Idle
<1>2. txs[w] \in Tx
  BY <1>1 DEF IndInv, TypeOK
<1>3. txs[w].own \in Snapshot
  BY <1>2 DEF Tx
<1> QED
  BY <1>1, <1>2, <1>3, PurposeType DEF IndInv, TypeOK, TxOK, Held, Apart

\* The newest of the request's own snapshot and the published one.
LEMMA ListRead ==
  ASSUME IndInv, NEW w \in Workers, txs[w].at = "read"
  PROVE  LET tx   == txs[w]
             list == published[Purpose(tx.op)]
             read == Newest(tx.own, list).bits
         IN  /\ read \in SUBSET Policies
             /\ Purpose(tx.op) = "revocation" =>
                  \A p \in read : p \in tx.done \/ status[p] \in Revoked
             /\ ~tx.stale => read = Marked(list.bits, tx.done, tx.op)
<1> DEFINE tx == txs[w]
           list == published[Purpose(tx.op)]
           read == Newest(tx.own, list).bits
<1>1. /\ WorkOK(tx, status, clock) /\ FreshOK(tx, list) /\ list \in Snapshot /\ tx.own \in Snapshot
  BY RunningTx
<1>2. list.at \in Nat /\ tx.own.at \in Nat
  BY <1>1, BoundAssumption DEF Snapshot
<1>3. read = tx.own.bits \/ read = list.bits
  BY DEF Newest
<1>4. Purpose(tx.op) = "revocation" => \A p \in list.bits : status[p] \in Revoked
  BY DEF IndInv, NoFalseRevocation, Revoked
<1>5. ASSUME ~tx.stale PROVE read = Marked(list.bits, tx.done, tx.op)
  <2>1. CASE tx.done # {}
    BY <1>1, <1>2, <1>5, <2>1 DEF FreshOK, Newest
  <2>2. CASE tx.done = {}
    <3>1. tx.own.at = 0 /\ tx.own.bits = {}
      BY <1>1, <2>2 DEF WorkOK, NoSnapshot
    <3>2. list.at = 0 => list.bits = {}
      BY PurposeType DEF IndInv, ListsOK
    <3>3. read = list.bits
      <4>1. CASE list.at = 0
        BY <1>3, <3>1, <3>2, <4>1
      <4>2. CASE list.at # 0
        BY <1>2, <3>1, <4>2 DEF Newest
      <4> QED
        BY <4>1, <4>2
    <3> QED
      BY <2>2, <3>3 DEF Marked
  <2> QED
    BY <2>1, <2>2
<1>6. read \in SUBSET Policies
  BY <1>1, <1>3 DEF Snapshot
<1>7. Purpose(tx.op) = "revocation" => \A p \in read : p \in tx.done \/ status[p] \in Revoked
  BY <1>1, <1>3, <1>4 DEF WorkOK
<1> QED
  BY <1>5, <1>6, <1>7

LEMMA ReadStep ==
  ASSUME IndInv, NEW w \in Workers, ReadList(w)
  PROVE  IndInv'
<1> DEFINE tx == [txs[w] EXCEPT !.at = "publish",
                                !.list = Newest(txs[w].own, published[Purpose(txs[w].op)]).bits]
<1>1. /\ txs' = [txs EXCEPT ![w] = tx] /\ txs[w].at = "read"
      /\ UNCHANGED <<status, ended, published, clock, raced>>
  BY DEF ReadList
<1>2. /\ txs[w] \in Tx /\ txs[w] # Idle
      /\ RowsHeld(txs[w], status) /\ WorkOK(txs[w], status, clock)
      /\ FreshOK(txs[w], published[Purpose(txs[w].op)])
      /\ Apart(w, txs[w])
  BY <1>1, RunningTx
<1>3. /\ tx.op = txs[w].op /\ tx.at = "publish" /\ tx.todo = txs[w].todo /\ tx.done = txs[w].done
      /\ tx.own = txs[w].own /\ tx.audited = txs[w].audited /\ tx.stale = txs[w].stale
      /\ tx.list = Newest(txs[w].own, published[Purpose(txs[w].op)]).bits
  BY <1>2 DEF Tx
<1>4. tx \in Tx
  BY <1>1, <1>2, ListRead DEF Tx
<1> HIDE DEF tx
<1>5. Ticks
  BY <1>1, BoundAssumption DEF IndInv, TypeOK, Ticks
<1>6. RowsHeld(tx, status)
  BY <1>2, <1>3 DEF RowsHeld, Held
<1>7. WorkOK(tx, status, clock')
  BY <1>1, <1>2, <1>3, ListRead DEF WorkOK
<1>8. FreshOK(tx, published[Purpose(tx.op)])
  BY <1>1, <1>2, <1>3, ListRead DEF FreshOK
<1>9. TxOK(tx, status, published, clock') /\ Apart(w, tx)
  BY <1>2, <1>3, <1>6, <1>7, <1>8 DEF TxOK, Apart, Held
<1> QED
  BY <1>1, <1>4, <1>5, <1>9, OneTxStep

LEMMA PublishStep ==
  ASSUME IndInv, NEW w \in Workers, NEW p \in Policies, PublishSnapshot(w, p)
  PROVE  IndInv'
<1> DEFINE bits == WithBit(txs[w].list, p, txs[w].op # "reinstate")
           snapshot == [at |-> clock + 1, bits |-> bits]
           tx == [txs[w] EXCEPT !.at = "audit", !.todo = @ \ {p}, !.list = {},
                                !.done = @ \cup {p}, !.own = snapshot]
<1>1. /\ txs' = [txs EXCEPT ![w] = tx] /\ txs[w].at = "publish" /\ p \in txs[w].todo
      /\ clock < MaxSnapshots /\ clock' = clock + 1
      /\ UNCHANGED <<status, ended, published, raced>>
  BY DEF PublishSnapshot
<1>2. /\ txs[w] \in Tx /\ txs[w] # Idle
      /\ RowsHeld(txs[w], status) /\ WorkOK(txs[w], status, clock)
      /\ FreshOK(txs[w], published[Purpose(txs[w].op)])
      /\ published[Purpose(txs[w].op)] \in Snapshot
      /\ Apart(w, txs[w])
  BY <1>1, RunningTx
<1>3. clock \in Nat /\ Ticks /\ clock + 1 \in 0 .. MaxSnapshots
  BY <1>1, BoundAssumption DEF IndInv, TypeOK, Ticks
<1>4. snapshot \in Snapshot /\ snapshot.at = clock + 1 /\ snapshot.bits = bits
  BY <1>2, <1>3 DEF Snapshot, WithBit, Tx
<1>5. /\ tx.op = txs[w].op /\ tx.at = "audit" /\ tx.todo = txs[w].todo \ {p}
      /\ tx.done = txs[w].done \cup {p} /\ tx.own = snapshot /\ tx.list = {}
      /\ tx.audited = txs[w].audited /\ tx.stale = txs[w].stale
  BY <1>2 DEF Tx
<1> HIDE DEF snapshot
<1>6. tx \in Tx
  BY <1>2, <1>4 DEF Tx
<1> HIDE DEF tx
<1>7. Held(tx) = Held(txs[w])
  BY <1>1, <1>5 DEF Held
<1>8. RowsHeld(tx, status)
  BY <1>2, <1>5, <1>7 DEF RowsHeld
<1>9. WorkOK(tx, status, clock')
  <2>1. tx.own.at <= clock' /\ tx.done # {} /\ tx.own.at > 0 /\ tx.list = {}
    BY <1>1, <1>3, <1>4, <1>5 DEF Ticks
  <2>2. bits \subseteq txs[w].list \cup {p}
    BY DEF WithBit
  <2> QED
    BY <1>2, <1>4, <1>5, <2>1, <2>2 DEF WorkOK
<1>10. FreshOK(tx, published[Purpose(tx.op)])
  <2> DEFINE list == published[Purpose(tx.op)]
  <2>1. list.at < snapshot.at
    BY <1>2, <1>3, <1>4, <1>5, PurposeType, BoundAssumption DEF IndInv, ListsOK, Snapshot
  <2>2. ~tx.stale => bits = Marked(list.bits, tx.done, tx.op)
    BY <1>1, <1>2, <1>5 DEF FreshOK, WithBit, Marked
  <2> QED
    BY <1>4, <1>5, <2>1, <2>2 DEF FreshOK
<1>11. TxOK(tx, status, published, clock') /\ Apart(w, tx)
  BY <1>2, <1>5, <1>7, <1>8, <1>9, <1>10 DEF TxOK, Apart
<1> QED
  BY <1>1, <1>3, <1>6, <1>11, OneTxStep

LEMMA AuditStep ==
  ASSUME IndInv, NEW w \in Workers, Audit(w)
  PROVE  IndInv'
<1> DEFINE tx == [txs[w] EXCEPT !.at = "read", !.audited = TRUE]
<1>1. /\ txs' = [txs EXCEPT ![w] = tx] /\ txs[w].at = "audit" /\ AuditFree(w)
      /\ UNCHANGED <<status, ended, published, clock, raced>>
  BY DEF Audit
<1>2. /\ txs[w] \in Tx /\ txs[w] # Idle
      /\ RowsHeld(txs[w], status) /\ WorkOK(txs[w], status, clock)
      /\ FreshOK(txs[w], published[Purpose(txs[w].op)])
      /\ Apart(w, txs[w])
  BY <1>1, RunningTx
<1>3. /\ tx.op = txs[w].op /\ tx.at = "read" /\ tx.todo = txs[w].todo /\ tx.done = txs[w].done
      /\ tx.own = txs[w].own /\ tx.list = txs[w].list /\ tx.stale = txs[w].stale
  BY <1>2 DEF Tx
<1>4. tx \in Tx
  BY <1>2 DEF Tx
<1> HIDE DEF tx
<1>5. Ticks
  BY <1>1, BoundAssumption DEF IndInv, TypeOK, Ticks
<1>6. RowsHeld(tx, status) /\ WorkOK(tx, status, clock') /\ FreshOK(tx, published[Purpose(tx.op)])
  BY <1>1, <1>2, <1>3 DEF RowsHeld, Held, WorkOK, FreshOK
<1>7. TxOK(tx, status, published, clock') /\ Apart(w, tx)
  BY <1>1, <1>2, <1>3, <1>6 DEF TxOK, Apart, Held, AuditFree
<1> QED
  BY <1>1, <1>4, <1>5, <1>7, OneTxStep

LEMMA RollbackStep ==
  ASSUME IndInv, NEW w \in Workers, Rollback(w)
  PROVE  IndInv'
<1>1. Idle.todo = {} /\ Idle.done = {} /\ Idle.audited = FALSE
  BY DEF Idle
<1>2. Ticks
  BY BoundAssumption DEF IndInv, TypeOK, Rollback, Ticks
<1>3. TxOK(Idle, status, published, clock') /\ Apart(w, Idle)
  BY <1>1 DEF TxOK, Apart, Held
<1>4. /\ txs' = [txs EXCEPT ![w] = Idle]
      /\ UNCHANGED <<status, ended, published, clock, raced>>
  BY DEF Rollback
<1> QED
  BY <1>2, <1>3, <1>4, OneTxStep

\* What a commit does to the statuses, for the policies of the request and the others.
LEMMA CommitFacts ==
  ASSUME IndInv, NEW w \in Workers, Commit(w)
  PROVE  LET tx   == txs[w]
             list == published[Purpose(tx.op)]
         IN  /\ txs[w].at = "read" /\ tx.op \in Operations /\ Held(tx) = tx.done
             /\ tx.done # {} /\ tx.done \subseteq Policies
             /\ tx.own \in Snapshot /\ list \in Snapshot
             /\ status' = [p \in Policies |-> IF p \in tx.done THEN To(tx.op) ELSE status[p]]
             /\ \A p \in tx.done : status[p] = From(tx.op) /\ status'[p] = To(tx.op)
             /\ published' = [published EXCEPT ![Purpose(tx.op)] = Newest(tx.own, list)]
             /\ UNCHANGED <<ended, clock>>
             /\ raced' = (raced \/ tx.stale)
<1> DEFINE tx == txs[w]
<1>1. /\ tx.at = "read" /\ tx.todo = {}
      /\ status' = [p \in Policies |-> IF p \in tx.done THEN To(tx.op) ELSE status[p]]
      /\ published' = [published EXCEPT ![Purpose(tx.op)]
                         = Newest(tx.own, published[Purpose(tx.op)])]
      /\ UNCHANGED <<ended, clock>>
      /\ raced' = (raced \/ tx.stale)
  BY DEF Commit
<1>2. tx \in Tx /\ RowsHeld(tx, status) /\ tx.own \in Snapshot
      /\ published[Purpose(tx.op)] \in Snapshot
  BY <1>1, RunningTx
<1>3. Held(tx) = tx.done /\ tx.done # {} /\ tx.done \subseteq Policies /\ tx.op \in Operations
  BY <1>1, <1>2 DEF RowsHeld, Held, Tx
<1>4. \A p \in tx.done : status[p] = From(tx.op) /\ status'[p] = To(tx.op)
  BY <1>1, <1>2, <1>3 DEF RowsHeld
<1> QED
  BY <1>1, <1>2, <1>3, <1>4

\* A commit of a request that nobody overtook leaves the lists showing what the
\* statuses say.
LEMMA CommitMirrors ==
  ASSUME IndInv, NEW w \in Workers, Commit(w), ~raced, ~txs[w].stale
  PROVE  Mirrored'
<1> DEFINE tx   == txs[w]
           list == published[Purpose(tx.op)]
<1>1. /\ tx.at = "read" /\ tx.op \in Operations /\ tx.done \subseteq Policies
      /\ status' = [p \in Policies |-> IF p \in tx.done THEN To(tx.op) ELSE status[p]]
      /\ \A p \in tx.done : status[p] = From(tx.op)
      /\ published' = [published EXCEPT ![Purpose(tx.op)] = Newest(tx.own, list)]
  BY CommitFacts
<1>2. Newest(tx.own, list).bits = Marked(list.bits, tx.done, tx.op)
  BY <1>1, ListRead
<1>3. /\ published["revocation"].bits = {p \in Policies : status[p] \in Revoked}
      /\ published["suspension"].bits = {p \in Policies : status[p] = "SUSPENDED"}
      /\ published \in [Purposes -> Snapshot]
  BY DEF IndInv, Mirrored, TypeOK
<1>4. \A p \in Policies : status'[p] = IF p \in tx.done THEN To(tx.op) ELSE status[p]
  BY <1>1
<1> DEFINE done == tx.done
<1>5. CASE tx.op \in {"cancel", "sweep"}
  <2>1. /\ To(tx.op) \in Revoked /\ From(tx.op) = "ACTIVE" /\ Purpose(tx.op) = "revocation"
        /\ tx.op # "reinstate"
    BY <1>5 DEF To, From, Purpose, Revoked
  <2>2. published'["revocation"].bits = list.bits \cup tx.done
        /\ published'["suspension"] = published["suspension"]
    BY <1>1, <1>2, <1>3, <2>1 DEF Marked, Purposes
  <2>3. To(tx.op) # "SUSPENDED"
    BY <2>1 DEF Revoked
  <2> QED
    BY <1>1, <1>3, <1>4, <2>1, <2>2, <2>3 DEF Mirrored
<1>6. CASE tx.op = "suspend"
  <2>1. To(tx.op) = "SUSPENDED" /\ From(tx.op) = "ACTIVE" /\ Purpose(tx.op) = "suspension"
    BY <1>6 DEF To, From, Purpose
  <2>2. published'["suspension"].bits = list.bits \cup tx.done
        /\ published'["revocation"] = published["revocation"]
    BY <1>1, <1>2, <1>3, <1>6, <2>1 DEF Marked, Purposes
  <2> QED
    BY <1>1, <1>3, <1>4, <2>1, <2>2 DEF Mirrored, Revoked
<1>7. CASE tx.op = "reinstate"
  <2>1. To(tx.op) = "ACTIVE" /\ From(tx.op) = "SUSPENDED" /\ Purpose(tx.op) = "suspension"
    BY <1>7 DEF To, From, Purpose
  <2>2. published'["suspension"].bits = list.bits \ tx.done
        /\ published'["revocation"] = published["revocation"]
    BY <1>1, <1>2, <1>3, <1>7, <2>1 DEF Marked, Purposes
  <2> QED
    BY <1>1, <1>3, <1>4, <2>1, <2>2 DEF Mirrored, Revoked
<1> QED
  BY <1>1, <1>5, <1>6, <1>7 DEF Operations

LEMMA CommitStep ==
  ASSUME IndInv, NEW w \in Workers, Commit(w)
  PROVE  IndInv'
<1> DEFINE tx   == txs[w]
           list == published[Purpose(tx.op)]
<1>1. /\ tx.at = "read" /\ tx.op \in Operations /\ Held(tx) = tx.done
      /\ tx.done # {} /\ tx.done \subseteq Policies
      /\ tx.own \in Snapshot /\ list \in Snapshot
      /\ status' = [p \in Policies |-> IF p \in tx.done THEN To(tx.op) ELSE status[p]]
      /\ \A p \in tx.done : status[p] = From(tx.op) /\ status'[p] = To(tx.op)
      /\ published' = [published EXCEPT ![Purpose(tx.op)] = Newest(tx.own, list)]
      /\ UNCHANGED <<ended, clock>>
      /\ raced' = (raced \/ tx.stale)
  BY CommitFacts
<1>2. WorkOK(tx, status, clock) /\ Apart(w, tx)
  BY <1>1, RunningTx
<1>3. To(tx.op) \in Statuses /\ From(tx.op) \notin Revoked
      /\ (Purpose(tx.op) = "revocation" => To(tx.op) \in Revoked)
  BY <1>1 DEF To, From, Purpose, Statuses, Operations, Revoked
<1>4. TypeOK
  BY DEF IndInv
<1>5. status' \in [Policies -> Statuses]
  BY <1>1, <1>3, <1>4 DEF TypeOK
<1>6. Newest(tx.own, list) = tx.own \/ Newest(tx.own, list) = list
  BY DEF Newest
<1>7. published' \in [Purposes -> Snapshot]
  BY <1>1, <1>4, <1>6 DEF TypeOK
<1>8. Purpose(tx.op) \in Purposes
  BY PurposeType
\* The other requests: one whose list was replaced is stale from now on.
<1>9. ASSUME NEW v \in Workers
      PROVE  \/ v = w /\ txs'[v] = Idle
             \/ v # w /\ txs'[v] = txs[v] /\ ~(HasRead(v) /\ Purpose(txs[v].op) = Purpose(tx.op))
             \/ v # w /\ Running(v) /\ txs'[v] = [txs[v] EXCEPT !.stale = TRUE]
  BY DEF Commit, HasRead
<1>10. \A v \in Workers : Running(v) => txs[v] \in Tx
  BY <1>4 DEF TypeOK, Running
<1>11. ASSUME NEW v \in Workers, v # w
       PROVE  /\ Held(txs'[v]) = Held(txs[v]) /\ txs'[v].audited = txs[v].audited
              /\ txs'[v] \in Tx \cup {Idle}
  <2>1. CASE txs'[v] = txs[v]
    BY <1>4, <2>1 DEF TypeOK
  <2>2. CASE Running(v) /\ txs'[v] = [txs[v] EXCEPT !.stale = TRUE]
    BY <1>10, <2>2 DEF Tx, Held
  <2> QED
    BY <1>9, <1>11, <2>1, <2>2
<1>12. TypeOK'
  <2>1. Idle.todo = {} /\ Idle.done = {} /\ Idle.audited = FALSE
    BY DEF Idle
  <2>2. txs' \in [Workers -> Tx \cup {Idle}]
    <3>1. txs' = [v \in Workers |-> txs'[v]]
      BY DEF Commit
    <3>2. \A v \in Workers : txs'[v] \in Tx \cup {Idle}
      BY <1>9, <1>11
    <3> QED
      BY <3>1, <3>2
  <2>3. ASSUME NEW u \in Workers, NEW v \in Workers, u # v
        PROVE  Held(txs'[u]) \cap Held(txs'[v]) = {} /\ ~(txs'[u].audited /\ txs'[v].audited)
    <3>1. Held(txs[u]) \cap Held(txs[v]) = {} /\ ~(txs[u].audited /\ txs[v].audited)
      BY <1>4, <2>3 DEF TypeOK, Held
    <3>2. CASE u = w \/ v = w
      BY <1>9, <2>1, <2>3, <3>2 DEF Held
    <3>3. CASE u # w /\ v # w
      BY <1>11, <3>1, <3>3
    <3> QED
      BY <3>2, <3>3
  <2> QED
    BY <1>1, <1>4, <1>5, <1>7, <2>2, <2>3 DEF TypeOK, Held
<1>13. \A p \in Policies : status[p] \in Revoked => status'[p] \in Revoked
  BY <1>1, <1>3
<1>14. NoFalseRevocation'
  <2> SUFFICES ASSUME NEW p \in published'["revocation"].bits PROVE status'[p] \in Revoked
    BY DEF NoFalseRevocation, Revoked
  <2>1. p \in Policies
    BY <1>7 DEF Purposes, Snapshot
  <2>2. CASE p \in published["revocation"].bits
    BY <1>13, <2>1, <2>2 DEF IndInv, NoFalseRevocation, Revoked
  <2>3. CASE p \notin published["revocation"].bits
    <3>1. Purpose(tx.op) = "revocation" /\ p \in tx.own.bits
      BY <1>1, <1>4, <1>6, <1>8, <2>3 DEF TypeOK, Purposes
    <3> QED
      BY <1>1, <1>2, <1>3, <1>13, <2>1, <3>1 DEF WorkOK
  <2> QED
    BY <2>2, <2>3
<1>15. ListsOK'
  <2> SUFFICES ASSUME NEW purpose \in Purposes
               PROVE  /\ published'[purpose].at <= clock
                      /\ published'[purpose].at = 0 => published'[purpose].bits = {}
    BY <1>1 DEF ListsOK
  <2>1. CASE published'[purpose] = published[purpose]
    BY <2>1 DEF IndInv, ListsOK
  <2>2. CASE published'[purpose] # published[purpose]
    <3>1. published'[purpose] = tx.own /\ Newest(tx.own, list) = tx.own /\ tx.own # list
      BY <1>1, <1>4, <1>6, <2>2 DEF TypeOK
    <3>2. list.at \in Nat /\ tx.own.at \in Nat /\ list.at <= clock
          /\ (list.at = 0 => list.bits = {}) /\ tx.own.at <= clock
      BY <1>1, <1>2, <1>8, BoundAssumption DEF Snapshot, IndInv, ListsOK, WorkOK
    <3>3. tx.own.at # 0
      BY <1>1, <1>2, <3>2 DEF WorkOK
    <3> QED
      BY <3>1, <3>2, <3>3
  <2> QED
    BY <2>1, <2>2
<1>16. ASSUME NEW v \in Workers PROVE TxOK(txs'[v], status', published', clock')
  <2>1. CASE txs'[v] = Idle
    BY <2>1 DEF TxOK
  <2>2. CASE v # w /\ Running(v)
    <3>1. /\ txs[v] \in Tx /\ txs'[v].op = txs[v].op /\ txs'[v].at = txs[v].at
          /\ txs'[v].todo = txs[v].todo /\ txs'[v].done = txs[v].done
          /\ txs'[v].list = txs[v].list /\ txs'[v].own = txs[v].own
      BY <1>9, <1>10, <2>2 DEF Tx
    <3>2. /\ RowsHeld(txs[v], status) /\ WorkOK(txs[v], status, clock)
          /\ FreshOK(txs[v], published[Purpose(txs[v].op)])
      BY <2>2 DEF IndInv, TxOK, Running
    <3>3. RowsHeld(txs'[v], status')
      <4>1. Held(txs[v]) \subseteq Policies \ tx.done
        BY <1>1, <1>2, <2>2, <3>1 DEF Apart, Held, Tx
      <4>2. \A p \in Held(txs[v]) : status'[p] = status[p]
        BY <1>1, <4>1
      <4> QED
        BY <3>1, <3>2, <4>2 DEF RowsHeld, Held
    <3>4. WorkOK(txs'[v], status', clock')
      <4>1. txs[v].list \cup txs[v].own.bits \subseteq Policies
        BY <3>1 DEF Tx, Snapshot
      <4> QED
        BY <1>1, <1>13, <3>1, <3>2, <4>1 DEF WorkOK
    <3>5. FreshOK(txs'[v], published'[Purpose(txs'[v].op)])
      <4>1. CASE txs'[v] = [txs[v] EXCEPT !.stale = TRUE]
        BY <3>1, <4>1 DEF FreshOK, Tx
      <4>2. CASE Purpose(txs[v].op) # Purpose(tx.op) /\ txs'[v] = txs[v]
        BY <1>1, <1>4, <3>2, <4>2, PurposeType DEF TypeOK
      <4>3. CASE ~HasRead(v) /\ txs'[v] = txs[v]
        BY <2>2, <4>3 DEF HasRead, FreshOK
      <4> QED
        BY <1>9, <2>2, <4>1, <4>2, <4>3
    <3> QED
      BY <3>1, <3>3, <3>4, <3>5 DEF TxOK
  <2>3. CASE v # w /\ ~Running(v)
    BY <1>9, <2>1, <2>3 DEF Running
  <2> QED
    BY <1>9, <2>1, <2>2, <2>3
<1>17. raced' \in BOOLEAN /\ (raced' \/ Mirrored')
  <2>1. CASE raced \/ tx.stale
    BY <1>1, <2>1
  <2>2. CASE ~raced /\ ~tx.stale
    BY <1>1, <2>2, CommitMirrors DEF IndInv
  <2> QED
    BY <2>1, <2>2
<1> QED
  BY <1>12, <1>14, <1>15, <1>16, <1>17 DEF IndInv

LEMMA IndInvStep == IndInv /\ [Next]_vars => IndInv'
<1> SUFFICES ASSUME IndInv, [Next]_vars PROVE IndInv'
  OBVIOUS
<1>1. CASE \E p \in Policies : CoverEnds(p)
  <2>1. /\ UNCHANGED <<status, published, clock, txs, raced>>
        /\ ended' \subseteq Policies
    BY <1>1 DEF CoverEnds, IndInv, TypeOK
  <2> QED
    BY <2>1 DEF IndInv, TypeOK, ListsOK, NoFalseRevocation, Mirrored
<1>2. CASE UNCHANGED vars
  BY <1>2 DEF vars, IndInv, TypeOK, ListsOK, NoFalseRevocation, Mirrored
<1> QED
  BY <1>1, <1>2, LockSteps, ReadStep, PublishStep, AuditStep, CommitStep, RollbackStep DEF Next, Step

LEMMA Inductive == Spec => []IndInv
BY InitOK, IndInvStep, PTL DEF Spec

\* Statuses, snapshots and transactions have their types; no row, and not the audit
\* lock, is ever held by two requests.
THEOREM TypeCorrect == Spec => []TypeOK
<1>1. IndInv => TypeOK
  BY DEF IndInv
<1> QED
  BY <1>1, Inductive, PTL

\* However the requests overlap and wherever they fail, no revocation bit is published
\* for a policy that cancel_or_lapse has not cancelled or lapsed.
THEOREM NobodyRevokedWrongly == Spec => []NoFalseRevocation
<1>1. IndInv => NoFalseRevocation
  BY DEF IndInv
<1> QED
  BY <1>1, Inductive, PTL

-----------------------------------------------------------------------------
(* The refinement.                                                         *)

Bits(pub) == [purpose \in Purposes |-> pub[purpose].bits]

LEMMA BitsMirror ==
  ASSUME NEW st, NEW pub,
         pub["revocation"].bits = {p \in Policies : st[p] \in Revoked},
         pub["suspension"].bits = {p \in Policies : st[p] = "SUSPENDED"}
  PROVE  Bits(pub) = View!Mirror(st)
<1> DEFINE revoked   == pub["revocation"].bits
           suspended == pub["suspension"].bits
<1>1. Bits(pub) = [purpose \in Purposes |-> IF purpose = "revocation" THEN revoked ELSE suspended]
  BY DEF Bits, Purposes
<1> HIDE DEF revoked, suspended
<1>2. [revocation |-> revoked, suspension |-> suspended]
        = [purpose \in Purposes |-> IF purpose = "revocation" THEN revoked ELSE suspended]
  BY DEF Purposes
<1> USE DEF revoked, suspended
<1> QED
  BY <1>1, <1>2 DEF View!Mirror, View!Revoked, Revoked

\* Only a commit shows a verifier anything.
LEMMA OthersShowNothing ==
  ASSUME [Next]_vars, \A w \in Workers : ~Commit(w)
  PROVE  UNCHANGED <<status, published>>
BY DEF Next, vars, Step, CoverEnds, LockPolicy, LockExpired, Begin, ReadList, PublishSnapshot,
       Audit, Rollback

\* The commit of a request nobody overtook is a step of the view.
LEMMA CommitIsMove ==
  ASSUME IndInv, IndInv', NEW w \in Workers, Commit(w), ~raced'
  PROVE  View!Next
<1> DEFINE tx == txs[w]
<1>1. /\ tx.op \in Operations /\ tx.done # {} /\ tx.done \subseteq Policies /\ Held(tx) = tx.done
      /\ status' = [p \in Policies |-> IF p \in tx.done THEN To(tx.op) ELSE status[p]]
      /\ \A p \in tx.done : status[p] = From(tx.op)
      /\ tx.at = "read"
  BY CommitFacts
<1>2. tx.op # "sweep" => \A p, q \in tx.done : p = q
  BY <1>1, RunningTx DEF RowsHeld
<1>3. Bits(published') = View!Mirror(status')
  BY BitsMirror DEF IndInv, Mirrored
<1>4. CASE tx.op = "sweep"
  <2>1. From(tx.op) = "ACTIVE" /\ To(tx.op) = "LAPSED"
    BY <1>4 DEF From, To
  <2> QED
    BY <1>1, <1>3, <2>1 DEF View!Next, View!Move, Bits
<1>5. CASE tx.op # "sweep"
  <2>1. PICK p \in Policies : tx.done = {p}
    BY <1>1, <1>2, <1>5
  <2>2. \/ From(tx.op) = "ACTIVE" /\ To(tx.op) = "CANCELLED"
        \/ From(tx.op) = "ACTIVE" /\ To(tx.op) = "SUSPENDED"
        \/ From(tx.op) = "SUSPENDED" /\ To(tx.op) = "ACTIVE"
    BY <1>1, <1>5 DEF From, To, Operations
  <2> QED
    BY <1>1, <1>3, <2>1, <2>2 DEF View!Next, View!Move, Bits
<1> QED
  BY <1>4, <1>5

\* set_flag and clear_flag implement the verifier's view of the policies as long as no
\* commit overtakes a list another request has read.
THEOREM ListsImplementView == Spec => ImplementsView
<1>1. Init => View!Init
  <2> SUFFICES ASSUME Init PROVE View!Init
    OBVIOUS
  <2>1. IndInv /\ ~raced
    BY InitOK DEF Init
  <2>2. Bits(published) = View!Mirror(status)
    BY <2>1, BitsMirror DEF IndInv, Mirrored
  <2> QED
    BY <2>2 DEF Init, View!Init, Bits
<1>2. IndInv /\ IndInv' /\ [Next]_vars => [raced' \/ View!Next]_(View!vars)
  <2> SUFFICES ASSUME IndInv, IndInv', [Next]_vars, ~raced'
               PROVE  View!Next \/ UNCHANGED View!vars
    OBVIOUS
  <2>1. CASE \E w \in Workers : Commit(w)
    BY <2>1, CommitIsMove
  <2>2. CASE \A w \in Workers : ~Commit(w)
    BY <2>2, OthersShowNothing DEF View!vars
  <2> QED
    BY <2>1, <2>2
<1> QED
  BY <1>1, <1>2, Inductive, PTL DEF Spec, ImplementsView
=============================================================================
