---------------------------- MODULE StatusLists ----------------------------
(***************************************************************************)
(* The signed status lists (services/statuslists.py) and the operations    *)
(* that set and clear their bits: cancel_or_lapse, suspend_policy,         *)
(* reinstate_policy, lapse_sweep (services/lifecycle.py).                  *)
(*                                                                         *)
(* Each request is a READ COMMITTED transaction that locks its policies'   *)
(* rows, then for each policy reads the newest snapshot it can see, adds a *)
(* snapshot with one bit changed, and appends to the audit chain under the *)
(* audit lock, which it keeps until it commits.  Nothing locks the list    *)
(* between the read and the commit.                                        *)
(***************************************************************************)
EXTENDS Integers, FiniteSets

CONSTANTS Policies,     \* issued policies, each with its own index (PolicyIssuance)
          Workers,      \* requests in progress
          MaxSnapshots  \* bound: snapshots ever created

ASSUME BoundAssumption == MaxSnapshots \in Nat

VARIABLES status,     \* policies.status, committed
          ended,      \* policies whose cover window has ended
          published,  \* the newest committed snapshot of each purpose: no query reads another
          clock,      \* created_at of the last snapshot, committed or not
          txs,        \* the transaction of each worker
          raced       \* history: a transaction has committed over a list it had not read

vars == <<status, ended, published, clock, txs, raced>>

Statuses == {"ACTIVE", "SUSPENDED", "CANCELLED", "LAPSED"}

Operations == {"cancel", "suspend", "reinstate", "sweep"}

Purposes == {"revocation", "suspension"}

\* A snapshot: created_at, and the policies whose bit is set.  At 0: the empty
\* list of a purpose that was never published.
Snapshot == [at : 0 .. MaxSnapshots, bits : SUBSET Policies]

NoSnapshot == [at |-> 0, bits |-> {}]

\* op: the operation; todo, done: its policies, all of them locked; list: the bits
\* read for the next snapshot; own: its newest snapshot; audited: audit lock held;
\* stale (history): the list was replaced by another commit since it was first read.
Tx == [op : Operations, at : {"read", "publish", "audit"}, todo : SUBSET Policies,
       done : SUBSET Policies, list : SUBSET Policies, own : Snapshot, audited : BOOLEAN,
       stale : BOOLEAN]

Idle == [op |-> "none", at |-> "idle", todo |-> {}, done |-> {}, list |-> {},
         own |-> NoSnapshot, audited |-> FALSE, stale |-> FALSE]

Purpose(op) == IF op \in {"cancel", "sweep"} THEN "revocation" ELSE "suspension"

From(op) == IF op = "reinstate" THEN "SUSPENDED" ELSE "ACTIVE"

\* Mutant: the sweep passes a status of its own to cancel_or_lapse.
ToUnlisted(op) == CASE op = "cancel" -> "CANCELLED" [] op = "sweep" -> "EXPIRED"
                    [] op = "suspend" -> "SUSPENDED" [] op = "reinstate" -> "ACTIVE"

To(op) == CASE op = "cancel" -> "CANCELLED" [] op = "sweep" -> "LAPSED"
            [] op = "suspend" -> "SUSPENDED" [] op = "reinstate" -> "ACTIVE"

Init == /\ status = [p \in Policies |-> "ACTIVE"]
        /\ ended = {}
        /\ published = [purpose \in Purposes |-> NoSnapshot]
        /\ clock = 0
        /\ txs = [w \in Workers |-> Idle]
        /\ raced = FALSE

-----------------------------------------------------------------------------

Running(w) == txs[w] # Idle

Locked(p) == \E w \in Workers : p \in txs[w].todo \cup txs[w].done

HasRead(w) == Running(w) /\ (txs[w].at # "read" \/ txs[w].done # {})

AuditFree(w) == \A v \in Workers \ {w} : ~txs[v].audited

\* Mutant: ORDER BY created_at, ascending.
NewestFirst(s1, s2) == IF s1.at = 0 \/ (s2.at # 0 /\ s2.at <= s1.at) THEN s2 ELSE s1

\* ORDER BY created_at DESC LIMIT 1.
Newest(s1, s2) == IF s1.at >= s2.at THEN s1 ELSE s2

-----------------------------------------------------------------------------

\* An hour strikes: the cover window of a policy ends.
CoverEnds(p) ==
  /\ p \notin ended
  /\ ended' = ended \cup {p}
  /\ UNCHANGED <<status, published, clock, txs, raced>>

Begin(w, op, some) ==
  /\ txs' = [txs EXCEPT ![w] = [Idle EXCEPT !.op = op, !.at = "read", !.todo = some]]
  /\ UNCHANGED <<status, ended, published, clock, raced>>

\* Cancel, suspend and reinstate wait for the row, refresh it and check its status.
LockPolicy(w, op, p) ==
  /\ ~Running(w)
  /\ ~Locked(p)
  /\ status[p] = From(op)
  /\ Begin(w, op, {p})

\* The sweep takes every ACTIVE policy past its window, skipping locked rows.
LockExpired(w) ==
  LET due == {p \in ended : status[p] = "ACTIVE" /\ ~Locked(p)}
  IN  /\ ~Running(w)
      /\ due # {}
      /\ Begin(w, "sweep", due)

\* _current_list: the newest of the committed snapshots and the transaction's own.
ReadList(w) ==
  /\ txs[w].at = "read"
  /\ txs[w].todo # {}
  /\ txs' = [txs EXCEPT ![w].at = "publish",
                        ![w].list = Newest(txs[w].own, published[Purpose(txs[w].op)]).bits]
  /\ UNCHANGED <<status, ended, published, clock, raced>>

\* StatusList.set(index, value): the bit of one policy, nothing else.
WithBit(bits, p, value) == IF value THEN bits \cup {p} ELSE bits \ {p}

\* Mutant: the snapshot is committed on a session of its own.
PublishAtOnce(w, p) ==
  LET tx == txs[w]
      snapshot == [at |-> clock + 1, bits |-> WithBit(tx.list, p, tx.op # "reinstate")]
  IN  /\ tx.at = "publish"
      /\ p \in tx.todo
      /\ clock < MaxSnapshots
      /\ clock' = clock + 1
      /\ txs' = [txs EXCEPT ![w] = [tx EXCEPT !.at = "audit", !.todo = @ \ {p}, !.list = {},
                                              !.done = @ \cup {p}, !.own = snapshot]]
      /\ published' = [published EXCEPT ![Purpose(tx.op)] = snapshot]
      /\ UNCHANGED <<status, ended, raced>>

\* set_flag and clear_flag: one bit changed, the snapshot inserted with the time of
\* the insert, invisible to others until the commit.
PublishSnapshot(w, p) ==
  LET tx == txs[w]
      snapshot == [at |-> clock + 1, bits |-> WithBit(tx.list, p, tx.op # "reinstate")]
  IN  /\ tx.at = "publish"
      /\ p \in tx.todo
      /\ clock < MaxSnapshots
      /\ clock' = clock + 1
      /\ txs' = [txs EXCEPT ![w] = [tx EXCEPT !.at = "audit", !.todo = @ \ {p}, !.list = {},
                                              !.done = @ \cup {p}, !.own = snapshot]]
      /\ UNCHANGED <<status, ended, published, raced>>

\* audit.record: waits for the audit lock, keeps it; the sweep goes on to its next policy.
Audit(w) ==
  /\ txs[w].at = "audit"
  /\ AuditFree(w)
  /\ txs' = [txs EXCEPT ![w].at = "read", ![w].audited = TRUE]
  /\ UNCHANGED <<status, ended, published, clock, raced>>

\* All policies done: the event is enqueued (same audit-ordered transaction) and the
\* statuses and snapshots become visible together; every lock is released.
Commit(w) ==
  LET tx == txs[w]
  IN  /\ tx.at = "read"
      /\ tx.todo = {}
      /\ status' = [p \in Policies |-> IF p \in tx.done THEN To(tx.op) ELSE status[p]]
      /\ published' = [published EXCEPT ![Purpose(tx.op)] = Newest(tx.own, @)]
      /\ txs' = [v \in Workers |->
                   IF v = w THEN Idle
                   ELSE IF HasRead(v) /\ Purpose(txs[v].op) = Purpose(tx.op)
                   THEN [txs[v] EXCEPT !.stale = TRUE] ELSE txs[v]]
      /\ raced' = (raced \/ tx.stale)
      /\ UNCHANGED <<ended, clock>>

\* The request fails on its way: nothing of it remains.
Rollback(w) ==
  /\ Running(w)
  /\ txs' = [txs EXCEPT ![w] = Idle]
  /\ UNCHANGED <<status, ended, published, clock, raced>>

Step(w) ==
  \/ \E p \in Policies, op \in {"cancel", "suspend", "reinstate"} : LockPolicy(w, op, p)
  \/ LockExpired(w)
  \/ ReadList(w)
  \/ \E p \in Policies : PublishSnapshot(w, p)
  \/ Audit(w)
  \/ Commit(w)
  \/ Rollback(w)

Next == (\E p \in Policies : CoverEnds(p)) \/ (\E w \in Workers : Step(w))

Spec == Init /\ [][Next]_vars

-----------------------------------------------------------------------------

\* Statuses, snapshots and transactions have their types; no two transactions hold
\* the same policy or both hold the audit lock.
TypeOK ==
  /\ status \in [Policies -> Statuses]
  /\ ended \subseteq Policies
  /\ published \in [Purposes -> Snapshot]
  /\ clock \in 0 .. MaxSnapshots
  /\ txs \in [Workers -> Tx \cup {Idle}]
  /\ \A v, w \in Workers : v # w =>
       /\ (txs[v].todo \cup txs[v].done) \cap (txs[w].todo \cup txs[w].done) = {}
       /\ ~(txs[v].audited /\ txs[w].audited)

\* Whatever the interleaving and whatever fails, no verifier is ever told that a
\* policy is revoked which is not: a revocation bit is published with, and never
\* before, the commit that cancels or lapses the policy.
NoFalseRevocation == \A p \in published["revocation"].bits : status[p] \in {"CANCELLED", "LAPSED"}

View == INSTANCE VerifierView WITH shown <- [purpose \in Purposes |-> published[purpose].bits]

\* Until two requests overlap on one list, between the read of the one and the
\* commit of the other, the lists implement the verifier's view: each commit
\* changes statuses and bits together, and nothing else changes either.
ImplementsView == View!Init /\ [][raced' \/ View!Next]_(View!vars)

\* "Sets the revocation bit in the signed status list so verifiers fail closed"
\* (cancel_or_lapse): a policy that is cancelled or lapsed is shown as such.
VerifiersFailClosed ==
  \A p \in Policies : status[p] \in {"CANCELLED", "LAPSED"} => p \in published["revocation"].bits
=============================================================================
