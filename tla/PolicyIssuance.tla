--------------------------- MODULE PolicyIssuance ---------------------------
(***************************************************************************)
(* issue_policy opened up (services/lifecycle.py, services/statuslists.py):*)
(* the row lock on the quote, the upsert of the serial counter, the        *)
(* advisory lock around the status-list index, the insert and the commit.  *)
(* A worker is one server task handling one :issue request at a time.  Its *)
(* writes are its own ("tx") until Commit publishes them and releases every*)
(* lock at once; Rollback publishes nothing, whatever the reason.          *)
(* PostgreSQL runs READ COMMITTED: each statement sees what is committed   *)
(* when the statement starts, or, after waiting for a lock, when it is     *)
(* granted.                                                                *)
(***************************************************************************)
EXTENDS Integers

CONSTANTS Workers,     \* concurrent :issue requests
          Quotes,      \* BOUND quotes
          Slots,       \* (family code, inception year) pairs: counter keys
          SlotOf,      \* the families a quote's product belongs to, with a year
          MaxSeq,      \* largest sequence a policy number can hold (10 digits)
          IndexLimit,  \* DEFAULT_LIST_SIZE_BITS
          None         \* no worker, no value yet

ASSUME SlotAssumption == SlotOf \in [Quotes -> SUBSET Slots]
ASSUME BoundsAssumption == MaxSeq \in Nat /\ IndexLimit \in Nat
ASSUME NoneAssumption == None \notin Workers \cup Quotes \cup Slots \cup Nat

VARIABLES issued,     \* quotes whose committed status is ISSUED
          counter,    \* policy_serial_counters.next_sequence, 0 without a row
          policies,   \* the policies table
          quoteLock,  \* FOR UPDATE on the quote row
          slotLock,   \* the row (or unique-index) lock of the counter upsert
          indexLock,  \* pg_advisory_xact_lock('STATUS')
          tx          \* each worker's open transaction

vars == <<issued, counter, policies, quoteLock, slotLock, indexLock, tx>>
locks == <<quoteLock, slotLock, indexLock>>

Policy == [quote : Quotes, slot : Slots, seq : Nat, index : Nat]

Phases == {"idle", "loaded", "locked", "numbered", "indexed"}

Tx == [phase : Phases, quote : Quotes \cup {None}, slot : Slots \cup {None},
       seq : Nat \cup {None}, index : Nat \cup {None}]

NoTx == [phase |-> "idle", quote |-> None, slot |-> None, seq |-> None, index |-> None]

-----------------------------------------------------------------------------

Indexes(ps) == {p.index : p \in ps}

\* allocate_index: max(status_list_index) + 1 over the committed policies, or 0.
NextIndex(ps) ==
  IF ps = {} THEN 0
  ELSE (CHOOSE m \in Indexes(ps) : \A i \in Indexes(ps) : i <= m) + 1

\* Mutant: the index is guarded by pg_advisory_lock, which outlives a rollback.
ReleaseAllButSession(w) ==
  /\ quoteLock' = [q \in Quotes |-> IF quoteLock[q] = w THEN None ELSE quoteLock[q]]
  /\ slotLock' = [s \in Slots |-> IF slotLock[s] = w THEN None ELSE slotLock[s]]
  /\ indexLock' = indexLock
  /\ tx' = [tx EXCEPT ![w] = NoTx]

\* Everything a transaction holds goes at its end.
ReleaseAll(w) ==
  /\ quoteLock' = [q \in Quotes |-> IF quoteLock[q] = w THEN None ELSE quoteLock[q]]
  /\ slotLock' = [s \in Slots |-> IF slotLock[s] = w THEN None ELSE slotLock[s]]
  /\ indexLock' = IF indexLock = w THEN None ELSE indexLock
  /\ tx' = [tx EXCEPT ![w] = NoTx]

Init == /\ issued = {}
        /\ counter = [s \in Slots |-> 0]
        /\ policies = {}
        /\ quoteLock = [q \in Quotes |-> None]
        /\ slotLock = [s \in Slots |-> None]
        /\ indexLock = None
        /\ tx = [w \in Workers |-> NoTx]

\* The route loads the quote; the body names the window, hence the year.
Load(w, q, s) ==
  /\ tx[w].phase = "idle"
  /\ s \in SlotOf[q]
  /\ tx' = [tx EXCEPT ![w] = [NoTx EXCEPT !.phase = "loaded", !.quote = q, !.slot = s]]
  /\ UNCHANGED <<issued, counter, policies, locks>>

\* Mutant: the status is checked on the row as loaded, not as locked.
LockQuoteNoRefresh(w) ==
  /\ tx[w].phase = "loaded"
  /\ quoteLock[tx[w].quote] = None
  /\ quoteLock' = [quoteLock EXCEPT ![tx[w].quote] = w]
  /\ tx' = [tx EXCEPT ![w].phase = "locked"]
  /\ UNCHANGED <<issued, counter, policies, slotLock, indexLock>>

\* SELECT ... FOR UPDATE, refresh, status BOUND.
LockQuote(w) ==
  LET q == tx[w].quote
  IN  /\ tx[w].phase = "loaded"
      /\ quoteLock[q] = None
      /\ q \notin issued
      /\ quoteLock' = [quoteLock EXCEPT ![q] = w]
      /\ tx' = [tx EXCEPT ![w].phase = "locked"]
      /\ UNCHANGED <<issued, counter, policies, slotLock, indexLock>>

\* The same SELECT when the row turns out not to be BOUND: bad-state, rollback.
RefuseIssued(w) ==
  /\ tx[w].phase = "loaded"
  /\ quoteLock[tx[w].quote] = None
  /\ tx[w].quote \in issued
  /\ tx' = [tx EXCEPT ![w] = NoTx]
  /\ UNCHANGED <<issued, counter, policies, locks>>

\* Mutant: SELECT next_sequence, without the row lock of the upsert.
ClaimSequenceUnlocked(w) ==
  /\ tx[w].phase = "locked"
  /\ counter[tx[w].slot] <= MaxSeq
  /\ tx' = [tx EXCEPT ![w].phase = "numbered", ![w].seq = counter[tx[w].slot]]
  /\ UNCHANGED <<issued, counter, policies, locks>>

\* Mutant: nextval() of a PostgreSQL sequence, which a rollback does not give back.
ClaimSequenceNextval(w) ==
  /\ tx[w].phase = "locked"
  /\ counter[tx[w].slot] <= MaxSeq
  /\ counter' = [counter EXCEPT ![tx[w].slot] = @ + 1]
  /\ tx' = [tx EXCEPT ![w].phase = "numbered", ![w].seq = counter[tx[w].slot]]
  /\ UNCHANGED <<issued, policies, locks>>

\* Mutant: the first insert keeps the column default 0, so the first claim is -1.
ClaimSequenceDefault(w) ==
  /\ tx[w].phase = "locked"
  /\ counter[tx[w].slot] <= MaxSeq
  /\ tx' = [tx EXCEPT ![w].phase = "numbered", ![w].seq = counter[tx[w].slot] - 1]
  /\ UNCHANGED <<issued, counter, policies, locks>>

\* _claim_sequence: INSERT ... ON CONFLICT DO UPDATE ... RETURNING next_sequence - 1.
\* The row stays locked, and the increment private, until the commit.
ClaimSequence(w) ==
  LET s == tx[w].slot
  IN  /\ tx[w].phase = "locked"
      /\ slotLock[s] = None
      /\ counter[s] <= MaxSeq
      /\ slotLock' = [slotLock EXCEPT ![s] = w]
      /\ tx' = [tx EXCEPT ![w].phase = "numbered", ![w].seq = counter[s]]
      /\ UNCHANGED <<issued, counter, policies, quoteLock, indexLock>>

\* Mutant: max + 1 without the advisory lock.
AllocateIndexUnlocked(w) ==
  /\ tx[w].phase = "numbered"
  /\ NextIndex(policies) < IndexLimit
  /\ tx' = [tx EXCEPT ![w].phase = "indexed", ![w].index = NextIndex(policies)]
  /\ UNCHANGED <<issued, counter, policies, locks>>

\* allocate_index.
AllocateIndex(w) ==
  /\ tx[w].phase = "numbered"
  /\ indexLock = None
  /\ NextIndex(policies) < IndexLimit
  /\ indexLock' = w
  /\ tx' = [tx EXCEPT ![w].phase = "indexed", ![w].index = NextIndex(policies)]
  /\ UNCHANGED <<issued, counter, policies, quoteLock, slotLock>>

\* The insert and the quote's status are published, the locks released.
Commit(w) ==
  /\ tx[w].phase = "indexed"
  /\ policies' = policies \cup {[quote |-> tx[w].quote, slot |-> tx[w].slot,
                                 seq |-> tx[w].seq, index |-> tx[w].index]}
  /\ issued' = issued \cup {tx[w].quote}
  /\ counter' = [counter EXCEPT ![tx[w].slot] = @ + 1]
  /\ ReleaseAll(w)

\* build_policy_number or allocate_index raises: the number or the list is used up.
Exhausted(w) ==
  /\ \/ /\ tx[w].phase = "locked"
        /\ slotLock[tx[w].slot] = None
        /\ counter[tx[w].slot] > MaxSeq
     \/ /\ tx[w].phase = "numbered"
        /\ indexLock = None
        /\ NextIndex(policies) >= IndexLimit
  /\ ReleaseAll(w)
  /\ UNCHANGED <<issued, counter, policies>>

\* A bad window, a signing failure, a lost connection, a killed worker.
Rollback(w) ==
  /\ tx[w].phase # "idle"
  /\ ReleaseAll(w)
  /\ UNCHANGED <<issued, counter, policies>>

Progress(w) == \/ LockQuote(w) \/ RefuseIssued(w) \/ ClaimSequence(w)
               \/ AllocateIndex(w) \/ Exhausted(w) \/ Commit(w)

Next == \E w \in Workers :
          \/ \E q \in Quotes, s \in Slots : Load(w, q, s)
          \/ Progress(w)
          \/ Rollback(w)

Spec == Init /\ [][Next]_vars

\* A task that can run does run, and PostgreSQL grants a contended lock to its
\* waiters in arrival order, so a waiter that sees the lock free again and again
\* gets it.  Clients and failures are under no obligation.
FairSpec == Spec /\ \A w \in Workers : SF_vars(Progress(w))

-----------------------------------------------------------------------------
(* What the component must keep.                                           *)

\* Rows, counters, locks and transactions have their types.
TypeOK ==
  /\ issued \subseteq Quotes
  /\ counter \in [Slots -> Nat]
  /\ policies \subseteq Policy
  /\ quoteLock \in [Quotes -> Workers \cup {None}]
  /\ slotLock \in [Slots -> Workers \cup {None}]
  /\ indexLock \in Workers \cup {None}
  /\ tx \in [Workers -> Tx]

\* "Concurrent issuance attempts on one quote converge on exactly one policy"
\* (issue_policy): an ISSUED quote has one policy, any other has none.
OnePolicyPerQuote ==
  /\ issued = {p.quote : p \in policies}
  /\ \A p1, p2 \in policies : p1.quote = p2.quote => p1 = p2

\* "Concurrent issuance can never collide or fork sequences" (lifecycle.py):
\* the sequences of a family and year are 0 .. next_sequence - 1, each used once,
\* so rolled-back requests leave no gap either.
GaplessSequences ==
  \A s \in Slots :
    /\ {p.seq : p \in {r \in policies : r.slot = s}} = 0 .. (counter[s] - 1)
    /\ \A p1, p2 \in policies : p1.slot = s /\ p2.slot = s /\ p1.seq = p2.seq => p1 = p2

\* No two credentials share a bit of the status list, the used bits are a
\* prefix of the list, and the list is never overrun: revoking one policy can
\* touch no other.
DenseIndexes ==
  /\ \A p1, p2 \in policies : p1.index = p2.index => p1 = p2
  /\ \E n \in 0 .. IndexLimit : Indexes(policies) = 0 .. (n - 1)

\* The UNIQUE constraints behind these guarantees never have to fire: what a
\* worker is about to insert collides with no committed row and no other
\* worker's row, so a lost race is always a clean bad-state.
NoCollision ==
  \A w \in Workers : tx[w].phase = "indexed" =>
    /\ \A p \in policies : /\ p.quote # tx[w].quote
                           /\ p.index # tx[w].index
                           /\ ~(p.slot = tx[w].slot /\ p.seq = tx[w].seq)
    /\ \A v \in Workers \ {w} : tx[v].phase # "indexed"

\* To its readers issuance is one clerk's register.
Register == INSTANCE PolicyRegister WITH
  register <- policies, nextSeq <- counter, nextIndex <- NextIndex(policies)

ImplementsRegister == Register!Spec

\* Every request is answered: the three locks are always taken in the same
\* order, so no two workers wait for each other.
RequestsEnd == \A w \in Workers : tx[w].phase # "idle" ~> tx[w].phase = "idle"
=============================================================================
