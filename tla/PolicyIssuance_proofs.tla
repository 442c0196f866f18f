----------------------- MODULE PolicyIssuance_proofs -----------------------
(***************************************************************************)
(* Machine-checked proofs about PolicyIssuance, for any number of workers, *)
(* quotes, families and years, and any limits; and that the check character*)
(* shows a typo in any number that is given out (PolicyNumbers, Serials).  *)
(***************************************************************************)
EXTENDS PolicyNumbers, Induction, SequenceTheorems

Committing == {"numbered", "indexed"}

\* What the locks give their holders: whoever is past a lock owns it, and what it
\* read under the lock is still what is committed.
HoldsQuote(w) ==
  tx[w].phase \in {"locked"} \cup Committing =>
    quoteLock[tx[w].quote] = w /\ tx[w].quote \notin issued

HoldsSlot(w) ==
  tx[w].phase \in Committing =>
    slotLock[tx[w].slot] = w /\ tx[w].seq = counter[tx[w].slot]

HoldsIndex(w) ==
  tx[w].phase = "indexed" =>
    /\ indexLock = w
    /\ tx[w].index = NextIndex(policies)
    /\ tx[w].index < IndexLimit

LocksHold == \A w \in Workers : HoldsQuote(w) /\ HoldsSlot(w) /\ HoldsIndex(w)

\* An open transaction is about a quote and a slot.
Named == \A w \in Workers : tx[w].phase # "idle" => tx[w].quote \in Quotes /\ tx[w].slot \in Slots

\* GaplessSequences, element by element.
SeqsBelow  == \A p \in policies : p.seq < counter[p.slot]
SeqsFilled == \A s \in Slots : \A n \in Nat : n < counter[s] => \E p \in policies : p.slot = s /\ p.seq = n
SeqsUnique == \A p1, p2 \in policies : p1.slot = p2.slot /\ p1.seq = p2.seq => p1 = p2

IndInv == /\ TypeOK
          /\ Named
          /\ LocksHold
          /\ OnePolicyPerQuote
          /\ SeqsBelow
          /\ SeqsFilled
          /\ SeqsUnique
          /\ DenseIndexes

-----------------------------------------------------------------------------

\* The largest index in use, plus one, is the number of indexes in use.
LEMMA NextIndexIs ==
  ASSUME NEW ps, NEW n \in Nat, Indexes(ps) = 0 .. (n - 1)
  PROVE  NextIndex(ps) = n
<1>1. CASE n = 0
  BY <1>1 DEF NextIndex, Indexes
<1>2. CASE n # 0
  <2>1. n - 1 \in Indexes(ps) /\ \A i \in Indexes(ps) : i <= n - 1
    <3>1. n - 1 \in 0 .. (n - 1) /\ \A i \in 0 .. (n - 1) : i <= n - 1
      BY <1>2
    <3>2. QED
      BY <3>1
  <2>2. \A m \in Indexes(ps) : (\A i \in Indexes(ps) : i <= m) => m = n - 1
    <3>1. TAKE m \in Indexes(ps)
    <3>2. HAVE \A i \in Indexes(ps) : i <= m
    <3>3. n - 1 <= m /\ m <= n - 1 /\ m \in Int
      BY <2>1, <3>2
    <3>4. QED
      BY <3>3
  <2> DEFINE last == CHOOSE m \in Indexes(ps) : \A i \in Indexes(ps) : i <= m
  <2>3. last \in Indexes(ps) /\ \A i \in Indexes(ps) : i <= last
    BY <2>1
  <2>4. ps # {}
    BY <2>1 DEF Indexes
  <2>5. NextIndex(ps) = last + 1
    BY <2>4 DEF NextIndex
  <2> HIDE DEF last
  <2>6. last = n - 1
    BY <2>2, <2>3
  <2>7. QED
    BY <2>5, <2>6
<1>3. QED
  BY <1>1, <1>2

\* Which status indexes the rows, committed or not, have taken.
LEMMA IndexesInUse ==
  ASSUME DenseIndexes, IndexLimit \in Nat
  PROVE  /\ NextIndex(policies) \in Nat
         /\ NextIndex(policies) <= IndexLimit
         /\ Indexes(policies) = 0 .. (NextIndex(policies) - 1)
<1>1. PICK n \in 0 .. IndexLimit : Indexes(policies) = 0 .. (n - 1)
  BY DEF DenseIndexes
<1>2. NextIndex(policies) = n
  BY <1>1, NextIndexIs
<1>3. QED
  BY <1>1, <1>2

-----------------------------------------------------------------------------

\* The end of a transaction, as far as types go.
LEMMA ReleaseTypes ==
  ASSUME TypeOK, Named, NEW w \in Workers, ReleaseAll(w)
  PROVE  /\ quoteLock' \in [Quotes -> Workers \cup {None}]
         /\ slotLock' \in [Slots -> Workers \cup {None}]
         /\ indexLock' \in Workers \cup {None}
         /\ tx' \in [Workers -> Tx]
         /\ Named'
<1>1. quoteLock' \in [Quotes -> Workers \cup {None}]
  BY DEF ReleaseAll, TypeOK
<1>2. slotLock' \in [Slots -> Workers \cup {None}]
  BY DEF ReleaseAll, TypeOK
<1>3. indexLock' \in Workers \cup {None}
  BY DEF ReleaseAll, TypeOK
<1>4. NoTx \in Tx /\ NoTx.phase = "idle"
  BY DEF NoTx, Tx, Phases
<1>5. tx' = [tx EXCEPT ![w] = NoTx]
  BY DEF ReleaseAll
<1>6. tx' \in [Workers -> Tx]
  BY <1>4, <1>5 DEF TypeOK
<1>7. Named'
  BY <1>4, <1>5 DEF TypeOK, Named
<1>8. QED
  BY <1>1, <1>2, <1>3, <1>6, <1>7

\* Every step keeps the types and names a quote and a slot.
LEMMA TypeStep == IndInv /\ [Next]_vars => TypeOK' /\ Named'
<1> SUFFICES ASSUME IndInv, [Next]_vars PROVE TypeOK' /\ Named'
  OBVIOUS
<1> TypeOK /\ Named /\ LocksHold
  BY DEF IndInv
<1>1. ASSUME NEW w \in Workers, NEW q \in Quotes, NEW s \in Slots, Load(w, q, s)
      PROVE  TypeOK' /\ Named'
  BY <1>1 DEF Load, TypeOK, Named, Tx, NoTx, Phases, locks
<1>2. ASSUME NEW w \in Workers, LockQuote(w) PROVE TypeOK' /\ Named'
  BY <1>2 DEF LockQuote, TypeOK, Named, Tx, Phases
<1>3. ASSUME NEW w \in Workers, RefuseIssued(w) PROVE TypeOK' /\ Named'
  BY <1>3 DEF RefuseIssued, TypeOK, Named, Tx, NoTx, Phases, locks
<1>4. ASSUME NEW w \in Workers, ClaimSequence(w) PROVE TypeOK' /\ Named'
  <2>1. tx[w].slot \in Slots /\ counter[tx[w].slot] \in Nat
    BY <1>4 DEF ClaimSequence, TypeOK, Named
  <2>2. [tx[w] EXCEPT !.phase = "numbered", !.seq = counter[tx[w].slot]] \in Tx
    BY <2>1 DEF TypeOK, Tx, Phases
  <2>3. tx' = [tx EXCEPT ![w] = [tx[w] EXCEPT !.phase = "numbered", !.seq = counter[tx[w].slot]]]
    BY <1>4 DEF ClaimSequence
  <2>4. QED
    BY <1>4, <2>1, <2>2, <2>3 DEF ClaimSequence, TypeOK, Named, Tx
<1>5. ASSUME NEW w \in Workers, AllocateIndex(w) PROVE TypeOK' /\ Named'
  <2>1. NextIndex(policies) \in Nat
    BY IndexesInUse, BoundsAssumption DEF IndInv
  <2>2. [tx[w] EXCEPT !.phase = "indexed", !.index = NextIndex(policies)] \in Tx
    BY <2>1 DEF TypeOK, Tx, Phases
  <2>3. tx' = [tx EXCEPT ![w] = [tx[w] EXCEPT !.phase = "indexed", !.index = NextIndex(policies)]]
    BY <1>5 DEF AllocateIndex
  <2>4. tx[w].phase # "idle"
    BY <1>5 DEF AllocateIndex
  <2>5. QED
    BY <1>5, <2>2, <2>3, <2>4 DEF AllocateIndex, TypeOK, Named, Tx
<1>6. ASSUME NEW w \in Workers, Commit(w) PROVE TypeOK' /\ Named'
  <2>1. ReleaseAll(w)
    BY <1>6 DEF Commit
  <2>2. tx[w].quote \in Quotes /\ tx[w].slot \in Slots
    BY <1>6 DEF Commit, Named
  <2>3. tx[w].seq \in Nat /\ tx[w].index \in Nat
    <3>1. tx[w].seq = counter[tx[w].slot] /\ tx[w].index = NextIndex(policies)
      BY <1>6 DEF Commit, LocksHold, HoldsSlot, HoldsIndex, Committing
    <3>2. QED
      BY <2>2, <3>1, IndexesInUse, BoundsAssumption DEF IndInv, TypeOK
  <2>4. issued' \subseteq Quotes /\ counter' \in [Slots -> Nat] /\ policies' \subseteq Policy
    BY <1>6, <2>2, <2>3 DEF Commit, TypeOK, Policy
  <2>5. QED
    BY <2>1, <2>4, ReleaseTypes DEF TypeOK
<1>7. ASSUME NEW w \in Workers, ReleaseAll(w), UNCHANGED <<issued, counter, policies>>
      PROVE  TypeOK' /\ Named'
  BY <1>7, ReleaseTypes DEF TypeOK
<1>8. ASSUME UNCHANGED vars PROVE TypeOK' /\ Named'
  BY <1>8 DEF vars, TypeOK, Named
<1>9. QED
  BY <1>1, <1>2, <1>3, <1>4, <1>5, <1>6, <1>7, <1>8 DEF Next, Progress, Exhausted, Rollback

-----------------------------------------------------------------------------

\* Nobody else's transaction moves.
Others(w) == \A v \in Workers \ {w} : tx'[v] = tx[v]

\* The end of a transaction takes no lock away from another.
LEMMA ReleaseKeeps ==
  ASSUME IndInv, NEW w \in Workers, ReleaseAll(w)
  PROVE  /\ Others(w) /\ tx'[w].phase = "idle"
         /\ \A v \in Workers \ {w} :
              /\ \A q \in Quotes : quoteLock[q] = v => quoteLock'[q] = v
              /\ \A s \in Slots : slotLock[s] = v => slotLock'[s] = v
              /\ indexLock = v => indexLock' = v
<1>1. tx' = [tx EXCEPT ![w] = NoTx] /\ tx \in [Workers -> Tx]
  BY DEF ReleaseAll, IndInv, TypeOK
<1>2. Others(w) /\ tx'[w].phase = "idle"
  BY <1>1 DEF Others, NoTx
<1>3. QED
  BY <1>2 DEF ReleaseAll

\* No step pulls a lock, or what was read under it, from under its holder.
LEMMA LocksStep == IndInv /\ [Next]_vars => LocksHold'
<1> SUFFICES ASSUME IndInv, [Next]_vars PROVE LocksHold'
  OBVIOUS
<1> TypeOK /\ Named /\ LocksHold
  BY DEF IndInv
<1> None \notin Workers
  BY NoneAssumption
<1> USE DEF Committing
<1>1. ASSUME NEW w \in Workers, NEW q \in Quotes, NEW s \in Slots, Load(w, q, s) PROVE LocksHold'
  BY <1>1 DEF Load, LocksHold, HoldsQuote, HoldsSlot, HoldsIndex, TypeOK, Tx, NoTx, locks
<1>2. ASSUME NEW w \in Workers, LockQuote(w) PROVE LocksHold'
  <2>1. tx[w].quote \in Quotes /\ tx[w].phase = "loaded"
    BY <1>2 DEF LockQuote, Named
  <2>2. /\ Others(w) /\ tx'[w] = [tx[w] EXCEPT !.phase = "locked"]
        /\ quoteLock' = [quoteLock EXCEPT ![tx[w].quote] = w]
        /\ quoteLock[tx[w].quote] = None
        /\ tx[w].quote \notin issued
        /\ UNCHANGED <<issued, counter, policies, slotLock, indexLock>>
    BY <1>2 DEF LockQuote, TypeOK, Others
  <2>3. tx'[w].phase = "locked" /\ tx'[w].quote = tx[w].quote
    BY <2>2 DEF TypeOK, Tx
  <2>4. \A v \in Workers : HoldsQuote(v)'
    <3>1. HoldsQuote(w)'
      BY <2>1, <2>2, <2>3 DEF HoldsQuote, TypeOK
    <3>2. ASSUME NEW v \in Workers \ {w} PROVE HoldsQuote(v)'
      BY <2>1, <2>2 DEF LocksHold, HoldsQuote, Named, Others, TypeOK
    <3>3. QED
      BY <3>1, <3>2
  <2>5. \A v \in Workers : HoldsSlot(v)' /\ HoldsIndex(v)'
    <3>1. HoldsSlot(w)' /\ HoldsIndex(w)'
      BY <2>3 DEF HoldsSlot, HoldsIndex
    <3>2. ASSUME NEW v \in Workers \ {w} PROVE HoldsSlot(v)'
      BY <2>2 DEF LocksHold, HoldsSlot, Others
    <3>3. ASSUME NEW v \in Workers \ {w} PROVE HoldsIndex(v)'
      BY <2>2 DEF LocksHold, HoldsIndex, Others
    <3>4. QED
      BY <3>1, <3>2, <3>3
  <2>6. QED
    BY <2>4, <2>5 DEF LocksHold
<1>3. ASSUME NEW w \in Workers, RefuseIssued(w) PROVE LocksHold'
  BY <1>3 DEF RefuseIssued, LocksHold, HoldsQuote, HoldsSlot, HoldsIndex, TypeOK, NoTx, locks
<1>4. ASSUME NEW w \in Workers, ClaimSequence(w) PROVE LocksHold'
  <2>1. tx[w].slot \in Slots /\ tx[w].phase = "locked"
    BY <1>4 DEF ClaimSequence, Named
  <2>2. /\ Others(w)
        /\ tx'[w] = [tx[w] EXCEPT !.phase = "numbered", !.seq = counter[tx[w].slot]]
        /\ slotLock' = [slotLock EXCEPT ![tx[w].slot] = w]
        /\ slotLock[tx[w].slot] = None
        /\ UNCHANGED <<issued, counter, policies, quoteLock, indexLock>>
    BY <1>4 DEF ClaimSequence, TypeOK, Others
  <2>3. /\ tx'[w].phase = "numbered" /\ tx'[w].quote = tx[w].quote
        /\ tx'[w].slot = tx[w].slot /\ tx'[w].seq = counter[tx[w].slot]
    BY <2>2 DEF TypeOK, Tx
  <2>4. \A v \in Workers : HoldsQuote(v)' /\ HoldsIndex(v)'
    <3>1. HoldsQuote(w)'
      BY <2>1, <2>2, <2>3 DEF LocksHold, HoldsQuote
    <3>2. HoldsIndex(w)'
      BY <2>3 DEF HoldsIndex
    <3>3. ASSUME NEW v \in Workers \ {w} PROVE HoldsQuote(v)'
      BY <2>2 DEF LocksHold, HoldsQuote, Others
    <3>4. ASSUME NEW v \in Workers \ {w} PROVE HoldsIndex(v)'
      BY <2>2 DEF LocksHold, HoldsIndex, Others
    <3>5. QED
      BY <3>1, <3>2, <3>3, <3>4
  <2>5. \A v \in Workers : HoldsSlot(v)'
    <3>1. HoldsSlot(w)'
      BY <2>1, <2>2, <2>3 DEF HoldsSlot, TypeOK
    <3>2. ASSUME NEW v \in Workers \ {w} PROVE HoldsSlot(v)'
      BY <2>1, <2>2 DEF LocksHold, HoldsSlot, Named, Others, TypeOK
    <3>3. QED
      BY <3>1, <3>2
  <2>6. QED
    BY <2>4, <2>5 DEF LocksHold
<1>5. ASSUME NEW w \in Workers, AllocateIndex(w) PROVE LocksHold'
  <2>1. /\ Others(w) /\ tx[w].phase = "numbered"
        /\ tx'[w] = [tx[w] EXCEPT !.phase = "indexed", !.index = NextIndex(policies)]
        /\ indexLock = None /\ indexLock' = w
        /\ NextIndex(policies) < IndexLimit
        /\ UNCHANGED <<issued, counter, policies, quoteLock, slotLock>>
    BY <1>5 DEF AllocateIndex, TypeOK, Others
  <2>2. /\ tx'[w].phase = "indexed" /\ tx'[w].quote = tx[w].quote /\ tx'[w].slot = tx[w].slot
        /\ tx'[w].seq = tx[w].seq /\ tx'[w].index = NextIndex(policies)
    BY <2>1 DEF TypeOK, Tx
  <2>3. \A v \in Workers : HoldsQuote(v)' /\ HoldsSlot(v)'
    <3>1. HoldsQuote(w)'
      BY <2>1, <2>2 DEF LocksHold, HoldsQuote
    <3>2. HoldsSlot(w)'
      BY <2>1, <2>2 DEF LocksHold, HoldsSlot
    <3>3. ASSUME NEW v \in Workers \ {w} PROVE HoldsQuote(v)'
      BY <2>1 DEF LocksHold, HoldsQuote, Others
    <3>4. ASSUME NEW v \in Workers \ {w} PROVE HoldsSlot(v)'
      BY <2>1 DEF LocksHold, HoldsSlot, Others
    <3>5. QED
      BY <3>1, <3>2, <3>3, <3>4
  <2>4. \A v \in Workers : HoldsIndex(v)'
    BY <2>1, <2>2 DEF LocksHold, HoldsIndex, Others
  <2>5. QED
    BY <2>3, <2>4 DEF LocksHold
<1>6. ASSUME NEW w \in Workers, Commit(w) PROVE LocksHold'
  <2>1. /\ ReleaseAll(w) /\ tx[w].phase = "indexed"
        /\ issued' = issued \cup {tx[w].quote}
        /\ counter' = [counter EXCEPT ![tx[w].slot] = @ + 1]
    BY <1>6 DEF Commit
  <2>2. /\ tx[w].quote \in Quotes /\ tx[w].slot \in Slots
        /\ quoteLock[tx[w].quote] = w /\ slotLock[tx[w].slot] = w /\ indexLock = w
    BY <2>1 DEF Named, LocksHold, HoldsQuote, HoldsSlot, HoldsIndex
  <2>3. \A v \in Workers : HoldsQuote(v)'
    BY <2>1, <2>2, ReleaseKeeps DEF LocksHold, HoldsQuote, Named, Others
  <2>4. \A v \in Workers : HoldsSlot(v)'
    BY <2>1, <2>2, ReleaseKeeps DEF LocksHold, HoldsSlot, Named, Others, TypeOK
  <2>5. \A v \in Workers : HoldsIndex(v)'
    BY <2>1, <2>2, ReleaseKeeps DEF LocksHold, HoldsIndex, Others
  <2>6. QED
    BY <2>3, <2>4, <2>5 DEF LocksHold
<1>7. ASSUME NEW w \in Workers, ReleaseAll(w), UNCHANGED <<issued, counter, policies>>
      PROVE  LocksHold'
  BY <1>7, ReleaseKeeps DEF LocksHold, HoldsQuote, HoldsSlot, HoldsIndex, Named, Others
<1>8. ASSUME UNCHANGED vars PROVE LocksHold'
  BY <1>8 DEF vars, LocksHold, HoldsQuote, HoldsSlot, HoldsIndex
<1>9. QED
  BY <1>1, <1>2, <1>3, <1>4, <1>5, <1>6, <1>7, <1>8 DEF Next, Progress, Exhausted, Rollback

-----------------------------------------------------------------------------

\* The row a worker past all three locks is about to insert.
Entry(w) == [quote |-> tx[w].quote, slot |-> tx[w].slot, seq |-> tx[w].seq, index |-> tx[w].index]

\* What a committing worker inserts is new in every way the register cares about.
LEMMA EntryIsNext ==
  ASSUME IndInv, NEW w \in Workers, tx[w].phase = "indexed"
  PROVE  /\ Entry(w) \in Policy
         /\ Entry(w).quote \notin issued
         /\ Entry(w).seq = counter[Entry(w).slot]
         /\ Entry(w).index = NextIndex(policies)
         /\ Entry(w).index < IndexLimit
         /\ \A p \in policies : p.quote # Entry(w).quote /\ p.index # Entry(w).index
         /\ \A p \in policies : p.slot = Entry(w).slot => p.seq # Entry(w).seq
<1>1. tx[w].quote \in Quotes /\ tx[w].slot \in Slots /\ tx[w].quote \notin issued
  BY DEF IndInv, Named, LocksHold, HoldsQuote, Committing
<1>2. tx[w].seq = counter[tx[w].slot] /\ tx[w].seq \in Nat
  BY <1>1 DEF IndInv, LocksHold, HoldsSlot, Committing, TypeOK
<1>3. tx[w].index = NextIndex(policies) /\ tx[w].index < IndexLimit
  BY DEF IndInv, LocksHold, HoldsIndex
<1>4. NextIndex(policies) \in Nat /\ \A p \in policies : p.index < NextIndex(policies)
  <2>1. \A p \in policies : p.index \in Indexes(policies)
    BY DEF Indexes
  <2>2. QED
    BY <2>1, IndexesInUse, BoundsAssumption DEF IndInv
<1>5. \A p \in policies : p.quote # tx[w].quote
  BY <1>1 DEF IndInv, OnePolicyPerQuote
<1>6. \A p \in policies : p.slot = tx[w].slot => p.seq < tx[w].seq
  BY <1>2 DEF IndInv, SeqsBelow
<1>7. QED
  BY <1>1, <1>2, <1>3, <1>4, <1>5, <1>6 DEF Entry, Policy, IndInv, TypeOK

\* A commit extends the register by that entry.
LEMMA CommitEnters ==
  ASSUME IndInv, NEW w \in Workers, Commit(w)
  PROVE  /\ tx[w].phase = "indexed"
         /\ policies' = policies \cup {Entry(w)}
         /\ issued' = issued \cup {Entry(w).quote}
         /\ counter' = [counter EXCEPT ![Entry(w).slot] = counter[Entry(w).slot] + 1]
  BY DEF Commit, Entry

\* Only an insert that commits shows in the register; everything else is a stutter.
LEMMA RegisterStep ==
  ASSUME IndInv, NEW w \in Workers, Commit(w)
  PROVE  OnePolicyPerQuote' /\ SeqsBelow' /\ SeqsFilled' /\ SeqsUnique' /\ DenseIndexes'
<1> DEFINE e == Entry(w)
<1>1. /\ policies' = policies \cup {e}
      /\ issued' = issued \cup {e.quote}
      /\ counter' = [counter EXCEPT ![e.slot] = counter[e.slot] + 1]
  BY CommitEnters
<1>2. /\ e \in Policy /\ e.quote \notin issued
      /\ e.seq = counter[e.slot]
      /\ e.index = NextIndex(policies) /\ e.index < IndexLimit
      /\ \A p \in policies : p.quote # e.quote /\ p.index # e.index
      /\ \A p \in policies : p.slot = e.slot => p.seq # e.seq
  BY CommitEnters, EntryIsNext
<1> HIDE DEF e
<1>3. counter \in [Slots -> Nat] /\ policies \subseteq Policy
  BY DEF IndInv, TypeOK
<1>4. OnePolicyPerQuote'
  BY <1>1, <1>2 DEF IndInv, OnePolicyPerQuote
<1>5. SeqsBelow'
  BY <1>1, <1>2, <1>3 DEF IndInv, SeqsBelow, Policy
<1>6. SeqsFilled'
  <2> SUFFICES ASSUME NEW s \in Slots, NEW n \in Nat, n < counter'[s]
               PROVE  \E p \in policies' : p.slot = s /\ p.seq = n
    BY DEF SeqsFilled
  <2>1. CASE n < counter[s]
    BY <1>1, <2>1 DEF IndInv, SeqsFilled
  <2>2. CASE ~(n < counter[s])
    <3>1. s = e.slot /\ n = counter[s]
      BY <1>1, <1>2, <1>3, <2>2 DEF Policy
    <3>2. QED
      BY <1>1, <1>2, <3>1
  <2>3. QED
    BY <2>1, <2>2
<1>7. SeqsUnique'
  BY <1>1, <1>2 DEF IndInv, SeqsUnique
<1>8. DenseIndexes'
  <2> DEFINE n == NextIndex(policies)
  <2>1. n \in Nat /\ Indexes(policies) = 0 .. (n - 1)
    BY IndexesInUse, BoundsAssumption DEF IndInv
  <2>2. e.index = n /\ n < IndexLimit
    BY <1>2
  <2> HIDE DEF n
  <2>3. Indexes(policies') = Indexes(policies) \cup {e.index}
    BY <1>1 DEF Indexes
  <2>4. Indexes(policies') = 0 .. ((n + 1) - 1)
    BY <2>1, <2>2, <2>3
  <2>5. \A p1, p2 \in policies' : p1.index = p2.index => p1 = p2
    BY <1>1, <1>2 DEF IndInv, DenseIndexes
  <2>6. n + 1 \in 0 .. IndexLimit
    BY <2>1, <2>2, BoundsAssumption
  <2>7. QED
    BY <2>4, <2>5, <2>6 DEF DenseIndexes
<1>9. QED
  BY <1>4, <1>5, <1>6, <1>7, <1>8

\* The strengthening is kept by every statement of every worker.
LEMMA IndInvStep == IndInv /\ [Next]_vars => IndInv'
<1> SUFFICES ASSUME IndInv, [Next]_vars PROVE IndInv'
  OBVIOUS
<1>1. TypeOK' /\ Named' /\ LocksHold'
  BY TypeStep, LocksStep
<1>2. ASSUME NEW w \in Workers, Commit(w) PROVE IndInv'
  BY <1>1, <1>2, RegisterStep DEF IndInv
<1>3. ASSUME UNCHANGED <<issued, counter, policies>> PROVE IndInv'
  BY <1>1, <1>3 DEF IndInv, OnePolicyPerQuote, SeqsBelow, SeqsFilled, SeqsUnique, DenseIndexes
<1>4. QED
  BY <1>2, <1>3
  DEF Next, vars, Progress, Load, LockQuote, RefuseIssued, ClaimSequence, AllocateIndex,
      Exhausted, Rollback

\* The strengthening holds at the start, and from then on.
LEMMA Inductive == Spec => []IndInv
<1>1. Init => TypeOK /\ Named
  BY DEF Init, TypeOK, Named, Tx, NoTx, Phases
<1>2. Init => LocksHold
  <2>1. ASSUME Init, NEW w \in Workers PROVE tx[w].phase = "idle"
    <3>1. tx[w] = NoTx
      BY <2>1 DEF Init
    <3>2. QED
      BY <3>1 DEF NoTx
  <2>2. QED
    BY <2>1 DEF LocksHold, HoldsQuote, HoldsSlot, HoldsIndex, Committing
<1>3. Init => OnePolicyPerQuote /\ SeqsBelow /\ SeqsFilled /\ SeqsUnique
  BY DEF Init, OnePolicyPerQuote, SeqsBelow, SeqsFilled, SeqsUnique
<1>4. Init => DenseIndexes
  <2> SUFFICES ASSUME Init PROVE DenseIndexes
    OBVIOUS
  <2>1. policies = {}
    BY DEF Init
  <2>2. Indexes(policies) = {} /\ 0 .. (0 - 1) = {}
    BY <2>1 DEF Indexes
  <2>3. 0 \in 0 .. IndexLimit
    BY BoundsAssumption
  <2>4. QED
    BY <2>1, <2>2, <2>3 DEF DenseIndexes
<1>5. QED
  BY <1>1, <1>2, <1>3, <1>4, IndInvStep, PTL DEF Spec, IndInv

-----------------------------------------------------------------------------

\* Rows, counters, locks and transactions always have their types.
THEOREM IssuanceTypes == Spec => []TypeOK
<1>1. IndInv => TypeOK
  BY DEF IndInv
<1>2. QED
  BY <1>1, Inductive, PTL

\* However many requests race for a quote, it ends up with one policy.
THEOREM OneQuoteOnePolicy == Spec => []OnePolicyPerQuote
<1>1. IndInv => OnePolicyPerQuote
  BY DEF IndInv
<1>2. QED
  BY <1>1, Inductive, PTL

\* The sequences of a family and year never collide, fork or leave a gap.
THEOREM NumbersAreGapless == Spec => []GaplessSequences
<1>1. IndInv => GaplessSequences
  <2> SUFFICES ASSUME IndInv, NEW s \in Slots
               PROVE  /\ {p.seq : p \in {r \in policies : r.slot = s}} = 0 .. (counter[s] - 1)
                      /\ \A p1, p2 \in policies :
                           p1.slot = s /\ p2.slot = s /\ p1.seq = p2.seq => p1 = p2
    BY DEF GaplessSequences
  <2> DEFINE Used == {p.seq : p \in {r \in policies : r.slot = s}}
  <2>1. counter[s] \in Nat /\ \A p \in policies : p.seq \in Nat
    BY DEF IndInv, TypeOK, Policy
  <2>2. ASSUME NEW n \in Used PROVE n \in 0 .. (counter[s] - 1)
    BY <2>1 DEF IndInv, SeqsBelow
  <2>3. ASSUME NEW n \in 0 .. (counter[s] - 1) PROVE n \in Used
    <3>1. PICK p \in policies : p.slot = s /\ p.seq = n
      BY <2>1 DEF IndInv, SeqsFilled
    <3>2. QED
      BY <3>1
  <2>4. Used = 0 .. (counter[s] - 1)
    BY <2>2, <2>3
  <2>5. QED
    BY <2>4 DEF IndInv, SeqsUnique
<1>2. QED
  BY <1>1, Inductive, PTL

\* No two credentials share a status bit, and the list is filled from its start.
THEOREM IndexesAreDense == Spec => []DenseIndexes
<1>1. IndInv => DenseIndexes
  BY DEF IndInv
<1>2. QED
  BY <1>1, Inductive, PTL

\* The unique constraints are never hit: a lost race is noticed before the insert.
THEOREM InsertsNeverCollide == Spec => []NoCollision
<1>1. IndInv => NoCollision
  <2> SUFFICES ASSUME IndInv, NEW w \in Workers, tx[w].phase = "indexed"
               PROVE  /\ \A p \in policies : /\ p.quote # tx[w].quote
                                             /\ p.index # tx[w].index
                                             /\ ~(p.slot = tx[w].slot /\ p.seq = tx[w].seq)
                      /\ \A v \in Workers \ {w} : tx[v].phase # "indexed"
    BY DEF NoCollision
  <2>1. \A v \in Workers \ {w} : tx[v].phase # "indexed"
    BY DEF IndInv, LocksHold, HoldsIndex
  <2>2. QED
    BY <2>1, EntryIsNext DEF Entry
<1>2. QED
  BY <1>1, Inductive, PTL

\* To its readers issuance is one clerk's register: a commit is one entry, and
\* nothing else shows.
THEOREM IssuanceIsARegister == Spec => ImplementsRegister
<1>1. Init => Register!Init
  BY DEF Init, Register!Init, NextIndex
<1>2. IndInv /\ IndInv' /\ [Next]_vars => [Register!Next]_(Register!vars)
  <2> SUFFICES ASSUME IndInv, IndInv', [Next]_vars PROVE [Register!Next]_(Register!vars)
    OBVIOUS
  <2>1. ASSUME NEW w \in Workers, Commit(w)
        PROVE  Register!Enter(Entry(w).quote, Entry(w).slot)
               /\ Entry(w).quote \in Quotes /\ Entry(w).slot \in Slots
    <3> DEFINE e == Entry(w)
    <3>1. /\ policies' = policies \cup {e}
          /\ counter' = [counter EXCEPT ![e.slot] = counter[e.slot] + 1]
          /\ tx[w].phase = "indexed"
      BY <2>1, CommitEnters
    <3>2. /\ e \in Policy /\ e.seq = counter[e.slot] /\ e.index = NextIndex(policies)
          /\ \A p \in policies : p.quote # e.quote
      BY <3>1, EntryIsNext
    <3>3. e = [quote |-> e.quote, slot |-> e.slot, seq |-> counter[e.slot],
               index |-> NextIndex(policies)]
      BY <3>2 DEF Entry
    <3>4. NextIndex(policies') = NextIndex(policies) + 1
      <4> DEFINE n == NextIndex(policies)
      <4>1. n \in Nat /\ Indexes(policies) = 0 .. (n - 1)
        BY IndexesInUse, BoundsAssumption DEF IndInv
      <4> HIDE DEF n
      <4>2. Indexes(policies') = 0 .. ((n + 1) - 1)
        <5>1. Indexes(policies') = Indexes(policies) \cup {e.index}
          BY <3>1 DEF Indexes
        <5>2. e.index = n
          BY <3>2 DEF n
        <5>3. QED
          BY <4>1, <5>1, <5>2
      <4>3. NextIndex(policies') = n + 1
        BY <4>1, <4>2, NextIndexIs
      <4>4. QED
        BY <4>3 DEF n
    <3>5. e.quote \in Quotes /\ e.slot \in Slots
      BY <3>2 DEF Policy
    <3> HIDE DEF e
    <3>6. Register!Enter(e.quote, e.slot)
      BY <3>1, <3>2, <3>3, <3>4 DEF Register!Enter
    <3>7. QED
      BY <3>5, <3>6 DEF e
  <2>2. ASSUME UNCHANGED <<issued, counter, policies>> PROVE UNCHANGED (Register!vars)
    BY <2>2 DEF Register!vars
  <2>3. QED
    BY <2>1, <2>2
    DEF Next, vars, Progress, Load, LockQuote, RefuseIssued, ClaimSequence, AllocateIndex,
        Exhausted, Rollback, Register!Next
<1>3. QED
  BY <1>1, <1>2, Inductive, PTL DEF Spec, ImplementsRegister, Register!Spec

-----------------------------------------------------------------------------
(* Who waits for whom.                                                     *)

\* The lock the next statement of w needs is in the hands of v.
WaitsFor(w, v) ==
  \/ tx[w].phase = "loaded" /\ quoteLock[tx[w].quote] = v
  \/ tx[w].phase = "locked" /\ slotLock[tx[w].slot] = v
  \/ tx[w].phase = "numbered" /\ indexLock = v

\* How far a transaction has come.
Progressed(w) == CASE tx[w].phase = "idle" -> 0
                   [] tx[w].phase = "loaded" -> 1
                   [] tx[w].phase = "locked" -> 2
                   [] tx[w].phase = "numbered" -> 3
                   [] OTHER -> 4

\* Whoever is waited for has come further than who waits, so no wait closes a circle,
\* and while there are open transactions one of them can take its next step.
NoDeadlock ==
  /\ \A w, v \in Workers : WaitsFor(w, v) => Progressed(w) < Progressed(v)
  /\ (\E w \in Workers : tx[w].phase # "idle") =>
       \E w \in Workers : tx[w].phase # "idle" /\ \A v \in Workers : ~WaitsFor(w, v)

\* No lock is held by anybody who has not come past it, or for another row.
LocksOwned ==
  \A w \in Workers :
    /\ \A q \in Quotes : quoteLock[q] = w =>
         tx[w].phase \in {"locked"} \cup Committing /\ tx[w].quote = q
    /\ \A s \in Slots : slotLock[s] = w => tx[w].phase \in Committing /\ tx[w].slot = s
    /\ indexLock = w => tx[w].phase = "indexed"

\* At the end of a transaction its locks are free.
LEMMA ReleaseFrees ==
  ASSUME IndInv, LocksOwned, NEW w \in Workers, ReleaseAll(w)
  PROVE  LocksOwned'
<1>0. None \notin Workers
  BY NoneAssumption
<1>1. /\ \A v \in Workers \ {w} : tx'[v] = tx[v]
      /\ \A q \in Quotes : quoteLock'[q] = IF quoteLock[q] = w THEN None ELSE quoteLock[q]
      /\ \A s \in Slots : slotLock'[s] = IF slotLock[s] = w THEN None ELSE slotLock[s]
      /\ indexLock' = IF indexLock = w THEN None ELSE indexLock
  BY ReleaseKeeps DEF Others, ReleaseAll
<1> QED
  BY <1>0, <1>1 DEF LocksOwned

\* A step takes a lock on its way past it, and lets go of none but at its end.
LEMMA OwnedStep == IndInv /\ LocksOwned /\ [Next]_vars => LocksOwned'
<1> SUFFICES ASSUME IndInv, LocksOwned, [Next]_vars PROVE LocksOwned'
  OBVIOUS
<1> TypeOK /\ Named
  BY DEF IndInv
<1>1. ASSUME NEW w \in Workers, ReleaseAll(w) PROVE LocksOwned'
  BY <1>1, ReleaseFrees
<1>2. ASSUME NEW w \in Workers, UNCHANGED locks, Others(w), tx[w].phase \in {"idle", "loaded"}
      PROVE  LocksOwned'
  BY <1>2 DEF LocksOwned, Others, locks, Committing
<1>3. ASSUME NEW w \in Workers, NEW q \in Quotes, NEW s \in Slots, Load(w, q, s) PROVE LocksOwned'
  <2>1. UNCHANGED locks /\ Others(w) /\ tx[w].phase = "idle"
    BY <1>3 DEF Load, TypeOK, Others
  <2> QED
    BY <1>2, <2>1
<1>4. ASSUME NEW w \in Workers, RefuseIssued(w) PROVE LocksOwned'
  <2>1. UNCHANGED locks /\ Others(w) /\ tx[w].phase = "loaded"
    BY <1>4 DEF RefuseIssued, TypeOK, Others
  <2> QED
    BY <1>2, <2>1
<1>5. ASSUME NEW w \in Workers, LockQuote(w) PROVE LocksOwned'
  <2>1. /\ tx[w].phase = "loaded" /\ tx[w].quote \in Quotes
        /\ UNCHANGED <<slotLock, indexLock>> /\ Others(w)
        /\ \A q \in Quotes : quoteLock'[q] = IF q = tx[w].quote THEN w ELSE quoteLock[q]
    BY <1>5 DEF LockQuote, TypeOK, Named, Others
  <2>2. tx'[w].phase = "locked" /\ tx'[w].quote = tx[w].quote
    BY <1>5 DEF LockQuote, TypeOK, Tx
  <2> QED
    BY <2>1, <2>2 DEF LocksOwned, Others, Committing
<1>6. ASSUME NEW w \in Workers, ClaimSequence(w) PROVE LocksOwned'
  <2>1. /\ tx[w].phase = "locked" /\ tx[w].slot \in Slots
        /\ UNCHANGED <<quoteLock, indexLock>> /\ Others(w)
        /\ \A s \in Slots : slotLock'[s] = IF s = tx[w].slot THEN w ELSE slotLock[s]
    BY <1>6 DEF ClaimSequence, TypeOK, Named, Others
  <2>2. tx'[w].phase = "numbered" /\ tx'[w].quote = tx[w].quote /\ tx'[w].slot = tx[w].slot
    BY <1>6 DEF ClaimSequence, TypeOK, Tx
  <2> QED
    BY <2>1, <2>2 DEF LocksOwned, Others, Committing
<1>7. ASSUME NEW w \in Workers, AllocateIndex(w) PROVE LocksOwned'
  <2>1. /\ tx[w].phase = "numbered" /\ indexLock' = w
        /\ UNCHANGED <<quoteLock, slotLock>> /\ Others(w) /\ indexLock = None
    BY <1>7 DEF AllocateIndex, TypeOK, Others
  <2>2. tx'[w].phase = "indexed" /\ tx'[w].quote = tx[w].quote /\ tx'[w].slot = tx[w].slot
    BY <1>7 DEF AllocateIndex, TypeOK, Tx
  <2> QED
    BY <2>1, <2>2 DEF LocksOwned, Others, Committing
<1>8. CASE UNCHANGED vars
  BY <1>8 DEF vars, LocksOwned
<1> QED
  BY <1>1, <1>3, <1>4, <1>5, <1>6, <1>7, <1>8 DEF Next, Progress, Exhausted, Rollback, Commit

\* issue_policy takes its three locks in one order, whatever the quotes and the counters:
\* requests never wait for each other in a circle, and some request can always go on.
THEOREM LocksNeverDeadlock == Spec => []NoDeadlock
<1>1. Init => LocksOwned
  <2>1. Init => \A w \in Workers : /\ \A q \in Quotes : quoteLock[q] # w
                                   /\ \A s \in Slots : slotLock[s] # w
                                   /\ indexLock # w
    BY NoneAssumption DEF Init
  <2> QED
    BY <2>1 DEF LocksOwned
<1>2. IndInv /\ LocksOwned => NoDeadlock
  <2> SUFFICES ASSUME IndInv, LocksOwned PROVE NoDeadlock
    OBVIOUS
  <2>1. \A w \in Workers : Progressed(w) \in 0 .. 4 /\ (Progressed(w) = 0 <=> tx[w].phase = "idle")
    BY DEF IndInv, TypeOK, Tx, Phases, Progressed
  <2>2. ASSUME NEW w \in Workers, NEW v \in Workers, WaitsFor(w, v)
        PROVE  Progressed(w) < Progressed(v)
    <3>1. CASE tx[w].phase = "loaded"
      <4>1. tx[v].phase \in {"locked"} \cup Committing
        BY <2>2, <3>1 DEF WaitsFor, LocksOwned, IndInv, Named
      <4> QED
        BY <3>1, <4>1 DEF Progressed, Committing
    <3>2. CASE tx[w].phase = "locked"
      <4>1. tx[v].phase \in Committing
        BY <2>2, <3>2 DEF WaitsFor, LocksOwned, IndInv, Named
      <4> QED
        BY <3>2, <4>1 DEF Progressed, Committing
    <3>3. CASE tx[w].phase = "numbered"
      <4>1. tx[v].phase = "indexed"
        BY <2>2, <3>3 DEF WaitsFor, LocksOwned
      <4> QED
        BY <3>3, <4>1 DEF Progressed
    <3> QED
      BY <2>2, <3>1, <3>2, <3>3 DEF WaitsFor
  <2>3. ASSUME NEW u \in Workers, tx[u].phase # "idle"
        PROVE  \E w \in Workers : tx[w].phase # "idle" /\ \A v \in Workers : ~WaitsFor(w, v)
    <3> DEFINE reached == {Progressed(w) : w \in Workers}
    <3>1. reached \in SUBSET (0 .. 4) /\ reached # {} /\ 4 \in Nat
      BY <2>1
    <3>2. PICK far \in reached : \A k \in reached : k <= far
      BY <3>1, GreatestExists
    <3>3. PICK w \in Workers : Progressed(w) = far
      BY <3>2
    <3>4. \A v \in Workers : Progressed(v) <= Progressed(w)
      BY <3>2, <3>3
    <3>5. tx[w].phase # "idle"
      BY <2>1, <2>3, <3>4
    <3>6. ASSUME NEW v \in Workers, WaitsFor(w, v) PROVE FALSE
      <4>1. Progressed(w) < Progressed(v) /\ Progressed(v) <= Progressed(w)
        BY <2>2, <3>4, <3>6
      <4>2. Progressed(w) \in Int /\ Progressed(v) \in Int
        BY <2>1
      <4> QED
        BY <4>1, <4>2
    <3> QED
      BY <3>5, <3>6
  <2> QED
    BY <2>2, <2>3 DEF NoDeadlock
<1> QED
  BY <1>1, <1>2, Inductive, OwnedStep, PTL DEF Spec

-----------------------------------------------------------------------------
(* The check character.                                                    *)

\* Indexes in ALPHABET.
Symbol == 0 .. Size - 1

\* Doubling an ALPHABET index and adding the base-34 digits of the result.
LEMMA AddendDoubled ==
  ASSUME NEW a \in Symbol
  PROVE  /\ Addend(1, a) = a
         /\ Addend(2, a) = IF a <= 16 THEN 2 * a ELSE 2 * a - 33
<1>1. CASE a <= 16
  BY <1>1 DEF Addend, Symbol, Size
<1>2. CASE a >= 17
  BY <1>2 DEF Addend, Symbol, Size
<1> QED
  BY <1>1, <1>2 DEF Symbol, Size

\* luhn_mod_n_check: a character replaced by another always changes the sum modulo 34,
\* so the check character no longer fits.
THEOREM ReplacedCharacterShows ==
  ASSUME NEW factor \in {1, 2}, NEW a \in Symbol, NEW b \in Symbol, a # b
  PROVE  (Addend(factor, a) - Addend(factor, b)) % Size # 0
<1>1. CASE factor = 1
  BY <1>1, AddendDoubled DEF Symbol, Size
<1>2. CASE factor = 2
  BY <1>2, AddendDoubled DEF Symbol, Size
<1> QED
  BY <1>1, <1>2

\* So do two neighbours swapped, one of which is doubled, but for the first and the last
\* symbol of ALPHABET: 0 and Z, which stand next to each other only around the last
\* separator, where _NUMBER_RE wants a digit on the left.
THEOREM SwappedNeighboursShow ==
  ASSUME NEW a \in Symbol, NEW b \in Symbol, a # b, {a, b} # {0, Size - 1}
  PROVE  (Addend(2, a) + Addend(1, b) - Addend(2, b) - Addend(1, a)) % Size # 0
BY AddendDoubled DEF Symbol, Size

\* A number, as printed or typed: a character of ALPHABET at each place.
Typed == [1 .. CheckAt -> Symbol]

\* What each character adds to the sum, the check character included: it is not doubled,
\* its neighbour is.
Weights(typed) ==
  [i \in 1 .. CheckAt |-> Addend(IF (19 - i) % 2 = 0 THEN 2 ELSE 1, typed[i])]

Weight(typed) == Sum(Weights(typed), 1 .. CheckAt)

\* Places are finitely many.
LEMMA PlacesFinite ==
  ASSUME NEW n \in Int
  PROVE  IsFiniteSet(1 .. n)
<1>1. 1 \in Int
  OBVIOUS
<1> QED
  BY <1>1, FS_Interval, Zenon

LEMMA AddendIsNat ==
  ASSUME NEW factor \in {1, 2}, NEW a \in Symbol
  PROVE  Addend(factor, a) \in Nat
<1>1. CASE factor = 1
  BY <1>1, AddendDoubled DEF Symbol, Size
<1>2. CASE factor = 2
  BY <1>2, AddendDoubled DEF Symbol, Size
<1> QED
  BY <1>1, <1>2

LEMMA WeightsAreNat ==
  ASSUME NEW typed \in Typed
  PROVE  /\ \A i \in 1 .. CheckAt : Weights(typed)[i] \in Nat
         /\ Whole(Weights(typed), 1 .. CheckAt)
         /\ IsFiniteSet(1 .. CheckAt)
<1>1. ASSUME NEW i \in 1 .. CheckAt PROVE Weights(typed)[i] \in Nat
  <2> DEFINE factor == IF (19 - i) % 2 = 0 THEN 2 ELSE 1
  <2>1. factor \in {1, 2} /\ typed[i] \in Symbol
    BY DEF Typed
  <2>2. Weights(typed)[i] = Addend(factor, typed[i])
    BY DEF Weights
  <2> HIDE DEF factor
  <2> QED
    BY <2>1, <2>2, AddendIsNat
<1>2. IsFiniteSet(1 .. CheckAt)
  <2>1. CheckAt \in Int
    BY DEF CheckAt
  <2> QED
    BY <2>1, PlacesFinite
<1> QED
  BY <1>1, <1>2 DEF Whole

\* A function on the first n places is a sequence of n.
LEMMA SequenceOf ==
  ASSUME NEW n \in Nat, NEW S, NEW f \in [1 .. n -> S]
  PROVE  f \in Seq(S) /\ Len(f) = n
<1>1. f \in Seq(S)
  BY SeqDef, Zenon
<1>2. DOMAIN f = 1 .. Len(f) /\ Len(f) \in Nat
  BY <1>1, LenProperties
<1>3. DOMAIN f = 1 .. n
  OBVIOUS
<1>4. \A m \in Nat : 1 .. m = 1 .. n => m = n
  <2> SUFFICES ASSUME NEW m \in Nat, 1 .. m = 1 .. n, m # n PROVE FALSE
    OBVIOUS
  <2>1. m \in 1 .. m \/ m = 0
    OBVIOUS
  <2>2. n \in 1 .. n \/ n = 0
    OBVIOUS
  <2>3. m <= n /\ n <= m
    BY <2>1, <2>2
  <2> QED
    BY <2>3
<1> QED
  BY <1>1, <1>2, <1>3, <1>4

\* The characters before the last, and the last.
LEMMA FrontAndLast ==
  ASSUME NEW typed \in Typed
  PROVE  /\ Len(typed) = 20
         /\ Front(typed) \in [1 .. 19 -> Symbol] /\ Len(Front(typed)) = 19
         /\ \A i \in 1 .. 19 : Front(typed)[i] = typed[i]
         /\ Last(typed) = typed[20]
<1>1. typed \in Seq(Symbol) /\ Len(typed) = 20
  <2>1. typed \in [1 .. 20 -> Symbol]
    BY DEF Typed, CheckAt
  <2> QED
    BY <2>1, SequenceOf
<1>2. Front(typed) = SubSeq(typed, 1, 19) /\ Last(typed) = typed[20]
  BY <1>1 DEF Front, Last
<1>3. \A i \in 1 .. 19 : typed[i] \in Symbol
  BY DEF Typed, CheckAt
<1>4. /\ SubSeq(typed, 1, 19) \in Seq(Symbol) /\ Len(SubSeq(typed, 1, 19)) = 19
      /\ \A i \in 1 .. 19 : SubSeq(typed, 1, 19)[i] = typed[i]
  BY <1>3, SubSeqProperties
<1> QED
  BY <1>1, <1>2, <1>4, LenProperties

\* The recursion of luhn_mod_n_check, which adds character by character.
Totals(t, f, n) == t = [i \in 0 .. n |-> IF i = 0 THEN 0 ELSE t[i - 1] + f[i]]

\* It ends in the sum.
LEMMA TotalIsSum ==
  ASSUME NEW n \in Nat, NEW f, Whole(f, 1 .. n), NEW t, (\E u : Totals(u, f, n)) => Totals(t, f, n)
  PROVE  t[n] = Sum(f, 1 .. n)
<1> DEFINE sums == [i \in 0 .. n |-> Sum(f, 1 .. i)]
           T == {k \in Nat : k <= n => t[k] = Sum(f, 1 .. k)}
<1>1. Sum(f, 1 .. 0) = 0
  <2>1. 1 .. 0 = {} /\ IsFiniteSet({}) /\ Whole(f, {})
    BY FS_EmptySet DEF Whole
  <2> QED
    BY <2>1, SumStep
<1>2. ASSUME NEW i \in 1 .. n PROVE Sum(f, 1 .. i) = Sum(f, 1 .. (i - 1)) + f[i]
  <2>1. IsFiniteSet(1 .. i) /\ IsFiniteSet(1 .. (i - 1))
    <3>1. i \in Int /\ i - 1 \in Int
      OBVIOUS
    <3> QED
      BY <3>1, PlacesFinite
  <2>0. i \in 1 .. i /\ (1 .. i) \ {i} = 1 .. (i - 1)
    OBVIOUS
  <2>2. Whole(f, 1 .. i) /\ Whole(f, 1 .. (i - 1))
    BY DEF Whole
  <2>3. Sum(f, 1 .. i) = f[i] + Sum(f, 1 .. (i - 1))
    BY <2>0, <2>1, <2>2, SumStep
  <2>4. f[i] \in Int /\ Sum(f, 1 .. (i - 1)) \in Int
    BY <2>1, <2>2, SumStep DEF Whole
  <2> QED
    BY <2>3, <2>4
<1>3. Totals(sums, f, n)
  <2>1. sums[0] = 0
    BY <1>1
  <2>2. ASSUME NEW i \in 0 .. n
        PROVE  sums[i] = IF i = 0 THEN 0 ELSE sums[i - 1] + f[i]
    <3>1. CASE i = 0
      BY <2>1, <3>1
    <3>2. CASE i # 0
      <4>1. i \in 1 .. n /\ i - 1 \in 0 .. n
        BY <3>2
      <4>2. sums[i] = Sum(f, 1 .. i) /\ sums[i - 1] = Sum(f, 1 .. (i - 1))
        BY <4>1
      <4> QED
        BY <1>2, <3>2, <4>1, <4>2
    <3> QED
      BY <3>1, <3>2
  <2>3. sums = [i \in 0 .. n |-> sums[i]]
    OBVIOUS
  <2> HIDE DEF sums
  <2> QED
    BY <2>2, <2>3 DEF Totals
<1>4. Totals(t, f, n)
  BY <1>3
<1>5. t[0] = 0 /\ \A i \in 1 .. n : t[i] = t[i - 1] + f[i]
  BY <1>4 DEF Totals
<1>6. 0 \in T
  BY <1>1, <1>5
<1>7. \A k \in Nat : k \in T => k + 1 \in T
  <2> SUFFICES ASSUME NEW k \in Nat, k \in T, k + 1 <= n PROVE t[k + 1] = Sum(f, 1 .. (k + 1))
    OBVIOUS
  <2>1. k + 1 \in 1 .. n /\ (k + 1) - 1 = k
    OBVIOUS
  <2> QED
    BY <1>2, <1>5, <2>1
<1> HIDE DEF T
<1>8. n \in T
  BY <1>6, <1>7, NaturalsUpward
<1> QED
  BY <1>8 DEF T

\* luhn_mod_n_check of the characters before the last, and their sum.
LEMMA LuhnIsSum ==
  ASSUME NEW typed \in Typed
  PROVE  /\ LuhnCheck(Front(typed)) = (Size - (Sum(Weights(typed), 1 .. 19) % Size)) % Size
         /\ Sum(Weights(typed), 1 .. 19) \in Nat
<1> DEFINE f == Weights(typed)
           body == Front(typed)
           t == CHOOSE t : t = [i \in 0 .. Len(body) |->
                  IF i = 0 THEN 0 ELSE t[i - 1] + Addend(Factor(i, body), body[i])]
<1>1. LuhnCheck(body) = (Size - (t[Len(body)] % Size)) % Size
  BY DEF LuhnCheck
<1>2. Len(body) = 19 /\ \A i \in 1 .. 19 : body[i] = typed[i]
  BY FrontAndLast
<1>3. \A i \in 1 .. 19 : Addend(Factor(i, body), body[i]) = f[i]
  BY <1>2 DEF Weights, Factor, CheckAt
<1>4. \A u : u = [i \in 0 .. Len(body) |->
                    IF i = 0 THEN 0 ELSE u[i - 1] + Addend(Factor(i, body), body[i])]
             <=> Totals(u, f, 19)
  <2> TAKE u
  <2> HIDE DEF f, body
  <2>1. \A i \in 0 .. 19 : i # 0 => i \in 1 .. 19
    OBVIOUS
  <2>2. [i \in 0 .. Len(body) |->
           IF i = 0 THEN 0 ELSE u[i - 1] + Addend(Factor(i, body), body[i])]
        = [i \in 0 .. 19 |-> IF i = 0 THEN 0 ELSE u[i - 1] + f[i]]
    BY <1>2, <1>3, <2>1
  <2> QED
    BY <2>2 DEF Totals
<1>5. (\E u : Totals(u, f, 19)) => Totals(t, f, 19)
  <2> HIDE DEF f, body
  <2> QED
    BY <1>4
<1> HIDE DEF t, body
<1>6. Whole(f, 1 .. 19) /\ \A i \in 1 .. 19 : f[i] \in Nat
  BY WeightsAreNat DEF Whole, CheckAt
<1> HIDE DEF f
<1>7. t[19] = Sum(f, 1 .. 19)
  BY <1>5, <1>6, TotalIsSum
<1>8. Sum(f, 1 .. 19) \in Nat
  <2> DEFINE places == 1 .. 19
  <2>0. 19 \in Int
    OBVIOUS
  <2>1. IsFiniteSet(places)
    BY <2>0, PlacesFinite, Zenon
  <2>2. \A i \in places : f[i] \in Nat
    BY <1>6
  <2> HIDE DEF places
  <2>4. places \in SUBSET places
    OBVIOUS
  <2>3. Sum(f, places) \in Nat
    BY <2>1, <2>2, <2>4, SumOfPart
  <2> QED
    BY <2>3 DEF places
<1> QED
  BY <1>1, <1>2, <1>7, <1>8 DEF f, body

\* A check character fits when it makes the whole number weigh a multiple of 34.
LEMMA CheckIsWeight ==
  ASSUME NEW typed \in Typed
  PROVE  /\ Weight(typed) \in Int
         /\ LuhnCheck(Front(typed)) = Last(typed) <=> Weight(typed) % Size = 0
<1> DEFINE total == Sum(Weights(typed), 1 .. 19)
           check == typed[20]
<1>1. total \in Nat /\ LuhnCheck(Front(typed)) = (Size - (total % Size)) % Size
  BY LuhnIsSum
<1>2. check \in Symbol /\ Last(typed) = check
  BY FrontAndLast DEF Typed, CheckAt
<1>3. Weight(typed) = check + total
  <2>1. Weights(typed)[20] = Addend(1, check)
    BY DEF Weights, CheckAt
  <2>2. Addend(1, check) = check
    BY <1>2, AddendDoubled
  <2> DEFINE places == 1 .. CheckAt
  <2>3. 20 \in places /\ places \ {20} = 1 .. 19
    BY DEF CheckAt
  <2>4. IsFiniteSet(places) /\ Whole(Weights(typed), places)
    BY WeightsAreNat
  <2>5. Weight(typed) = Sum(Weights(typed), places)
    BY DEF Weight
  <2> HIDE DEF places
  <2>6. Weight(typed) = Weights(typed)[20] + Sum(Weights(typed), 1 .. 19)
    BY <2>3, <2>4, <2>5, SumStep
  <2> QED
    BY <2>1, <2>2, <2>6
<1> HIDE DEF total, check
<1> QED
  BY <1>1, <1>2, <1>3 DEF Symbol, Size

-----------------------------------------------------------------------------

\* Two numbers that agree but for two places differ in weight by what those add.
LEMMA WeightApart ==
  ASSUME NEW typed \in Typed, NEW other \in Typed,
         NEW i \in 1 .. CheckAt, NEW j \in 1 .. CheckAt, i # j,
         \A k \in 1 .. CheckAt : k # i /\ k # j => typed[k] = other[k]
  PROVE  Weight(typed) - Weight(other)
           = Weights(typed)[i] + Weights(typed)[j] - Weights(other)[i] - Weights(other)[j]
<1> DEFINE places == 1 .. CheckAt
           rest == (places \ {i}) \ {j}
           f == Weights(typed)
           g == Weights(other)
<1>1. IsFiniteSet(places) /\ Whole(f, places) /\ Whole(g, places)
  BY WeightsAreNat
<1>2. \A k \in rest : f[k] = g[k]
  BY DEF Weights
<1>3. Weight(typed) = Sum(f, places) /\ Weight(other) = Sum(g, places)
  BY DEF Weight
<1>4. i \in places /\ j \in places \ {i}
  OBVIOUS
<1> HIDE DEF places, f, g
<1>5. /\ IsFiniteSet(places \ {i}) /\ Whole(f, places \ {i}) /\ Whole(g, places \ {i})
      /\ IsFiniteSet(rest) /\ Whole(f, rest) /\ Whole(g, rest)
  <2>1. places \ {i} \in SUBSET places /\ rest \in SUBSET places
    OBVIOUS
  <2>2. IsFiniteSet(places \ {i}) /\ IsFiniteSet(rest)
    BY <1>1, <2>1, FS_Subset
  <2> QED
    BY <1>1, <2>2 DEF Whole
<1>6. /\ Sum(f, places) = f[i] + Sum(f, places \ {i})
      /\ Sum(g, places) = g[i] + Sum(g, places \ {i})
  BY <1>1, <1>4, SumStep
<1>7. /\ Sum(f, places \ {i}) = f[j] + Sum(f, rest)
      /\ Sum(g, places \ {i}) = g[j] + Sum(g, rest)
  BY <1>4, <1>5, SumStep
<1> HIDE DEF rest
<1>8. Sum(f, rest) = Sum(g, rest) /\ Sum(f, rest) \in Int
  BY <1>2, <1>5, SumSame, SumStep
<1>9. f[i] \in Int /\ f[j] \in Int /\ g[i] \in Int /\ g[j] \in Int
  BY <1>1, <1>4 DEF Whole
<1> QED
  BY <1>3, <1>6, <1>7, <1>8, <1>9 DEF f, g

\* One character replaced by another of ALPHABET: another weight modulo 34.
LEMMA ReplacedWeighs ==
  ASSUME NEW number \in Typed, NEW i \in 1 .. CheckAt, NEW cp \in Symbol, cp # number[i]
  PROVE  /\ [number EXCEPT ![i] = cp] \in Typed
         /\ (Weight([number EXCEPT ![i] = cp]) - Weight(number)) % Size # 0
<1> DEFINE typed == [number EXCEPT ![i] = cp]
           j == IF i = 1 THEN 2 ELSE 1
           factor == IF (19 - i) % 2 = 0 THEN 2 ELSE 1
<1>1. typed \in Typed /\ typed[i] = cp /\ \A k \in 1 .. CheckAt : k # i => typed[k] = number[k]
  BY DEF Typed
<1>2. j \in 1 .. CheckAt /\ i # j
  BY DEF CheckAt
<1>3. /\ Weights(typed)[i] = Addend(factor, cp)
      /\ Weights(number)[i] = Addend(factor, number[i])
      /\ Weights(typed)[j] = Weights(number)[j]
  BY <1>1, <1>2 DEF Weights
<1>4. factor \in {1, 2} /\ number[i] \in Symbol
  BY DEF Typed
<1> HIDE DEF typed, j, factor
<1>5. Weight(typed) - Weight(number)
        = Weights(typed)[i] + Weights(typed)[j] - Weights(number)[i] - Weights(number)[j]
  BY <1>1, <1>2, WeightApart
<1>6. Weights(typed)[i] \in Nat /\ Weights(number)[i] \in Nat /\ Weights(number)[j] \in Nat
  BY <1>1, <1>2, WeightsAreNat
<1>7. Weight(typed) - Weight(number) = Addend(factor, cp) - Addend(factor, number[i])
  BY <1>3, <1>5, <1>6
<1>8. (Addend(factor, cp) - Addend(factor, number[i])) % Size # 0
  BY <1>4, ReplacedCharacterShows
<1> QED
  BY <1>1, <1>7, <1>8 DEF typed

\* Two neighbours exchanged that are not the two ends of ALPHABET: another weight.
LEMMA SwappedWeighs ==
  ASSUME NEW number \in Typed, NEW i \in 1 .. CheckAt - 1,
         number[i] # number[i + 1], {number[i], number[i + 1]} # {0, Size - 1}
  PROVE  /\ Swapped(number, i) \in Typed
         /\ (Weight(Swapped(number, i)) - Weight(number)) % Size # 0
<1> DEFINE typed == Swapped(number, i)
           j == i + 1
           a == number[i]
           b == number[j]
<1>0. i \in 1 .. 19 /\ j \in 1 .. 20 /\ i # j
  BY DEF CheckAt
<1>1. /\ typed \in Typed /\ typed[i] = b /\ typed[j] = a
      /\ \A k \in 1 .. CheckAt : k # i /\ k # j => typed[k] = number[k]
  BY <1>0 DEF Typed, Swapped, CheckAt
<1>2. i \in 1 .. CheckAt /\ j \in 1 .. CheckAt /\ a \in Symbol /\ b \in Symbol
  BY <1>0 DEF Typed, CheckAt
<1>3. PICK m \in {1, 2}, n \in {1, 2} :
        /\ m # n
        /\ m = IF (19 - i) % 2 = 0 THEN 2 ELSE 1
        /\ n = IF (19 - j) % 2 = 0 THEN 2 ELSE 1
  BY <1>0
<1>4. /\ Weights(typed)[i] = Addend(m, b) /\ Weights(typed)[j] = Addend(n, a)
      /\ Weights(number)[i] = Addend(m, a) /\ Weights(number)[j] = Addend(n, b)
  BY <1>1, <1>2, <1>3 DEF Weights
<1>5. a # b /\ {a, b} # {0, Size - 1}
  OBVIOUS
<1> HIDE DEF typed, j, a, b
<1>6. Weight(typed) - Weight(number)
        = Weights(typed)[i] + Weights(typed)[j] - Weights(number)[i] - Weights(number)[j]
  BY <1>0, <1>1, <1>2, WeightApart
<1>7. Weight(typed) - Weight(number) = Addend(m, b) + Addend(n, a) - Addend(m, a) - Addend(n, b)
  BY <1>4, <1>6
<1>8. /\ Addend(1, a) \in Nat /\ Addend(2, a) \in Nat /\ Addend(1, b) \in Nat /\ Addend(2, b) \in Nat
  BY <1>2, AddendIsNat
<1>9. /\ (Addend(2, b) + Addend(1, a) - Addend(2, a) - Addend(1, b)) % Size # 0
      /\ (Addend(2, a) + Addend(1, b) - Addend(2, b) - Addend(1, a)) % Size # 0
  BY <1>2, <1>5, SwappedNeighboursShow
<1>10. (Weight(typed) - Weight(number)) % Size # 0
  <2>1. CASE m = 2 /\ n = 1
    BY <1>7, <1>9, <2>1
  <2>2. CASE m = 1 /\ n = 2
    <3>1. Weight(typed) - Weight(number)
            = Addend(2, a) + Addend(1, b) - Addend(2, b) - Addend(1, a)
      BY <1>7, <1>8, <2>2
    <3> QED
      BY <1>9, <3>1
  <2> QED
    BY <1>3, <2>1, <2>2
<1> QED
  BY <1>1, <1>10 DEF typed

-----------------------------------------------------------------------------

\* Zero-padded to its width a natural is so many digits.
LEMMA PaddedIsDigits ==
  ASSUME NEW n \in Nat, NEW width \in Nat
  PROVE  Padded(n, width) \in [1 .. width -> Digit]
<1>1. ASSUME NEW i \in 1 .. width PROVE (n \div 10 ^ (width - i)) % 10 \in Digit
  BY DEF Digit
<1> QED
  BY <1>1 DEF Padded

\* What build_policy_number puts before the check character.
Body(s, seq) == Country \o FamilyOf[s] \o Padded(YearOf[s], 4) \o Padded(Earlier + seq, 10)

\* Two pieces of a number, m and n characters long, joined to one.
Joins(all, left, right, m, n) ==
  /\ all \in Seq(Symbol) /\ Len(all) = m + n
  /\ \A i \in 1 .. m + n : all[i] = IF i <= m THEN left[i] ELSE right[i - m]

LEMMA Joined ==
  ASSUME NEW m \in Nat, NEW n \in Nat, NEW left \in Seq(Symbol), NEW right \in Seq(Symbol),
         Len(left) = m, Len(right) = n
  PROVE  Joins(left \o right, left, right, m, n)
<1>1. /\ left \o right \in Seq(Symbol) /\ Len(left \o right) = Len(left) + Len(right)
      /\ \A i \in 1 .. Len(left) + Len(right) :
           (left \o right)[i] = IF i <= Len(left) THEN left[i] ELSE right[i - Len(left)]
  BY ConcatProperties
<1> QED
  BY <1>1 DEF Joins

LEMMA BodyShape ==
  ASSUME NEW s \in Slots, NEW seq \in Nat
  PROVE  /\ Body(s, seq) \in Seq(Symbol) /\ Len(Body(s, seq)) = 19
         /\ Body(s, seq)[1] = 22 /\ Body(s, seq)[2] = 16
         /\ \A i \in 3 .. 5 : Body(s, seq)[i] \in Letter
         /\ \A i \in 6 .. 19 : Body(s, seq)[i] \in Digit
<1> DEFINE family == FamilyOf[s]
           year == Padded(YearOf[s], 4)
           ten == Padded(Earlier + seq, 10)
<1>1. /\ Letter \subseteq Symbol /\ Digit \subseteq Symbol
      /\ 22 \in Symbol /\ 16 \in Symbol
  BY DEF Letter, Digit, Symbol, Size
<1>2. Country \in Seq(Symbol) /\ Len(Country) = 2 /\ Country[1] = 22 /\ Country[2] = 16
  BY <1>1 DEF Country
<1>3. family \in [1 .. 3 -> Letter]
  BY NumberAssumption
<1>4. year \in [1 .. 4 -> Digit]
  <2>1. YearOf[s] \in Nat
    BY NumberAssumption
  <2> QED
    BY <2>1, PaddedIsDigits, 4 \in Nat, Zenon
<1>5. ten \in [1 .. 10 -> Digit]
  <2>1. Earlier + seq \in Nat
    BY NumberAssumption
  <2> QED
    BY <2>1, PaddedIsDigits
<1> HIDE DEF family, year, ten
<1>6. /\ family \in Seq(Symbol) /\ Len(family) = 3
      /\ year \in Seq(Symbol) /\ Len(year) = 4
      /\ ten \in Seq(Symbol) /\ Len(ten) = 10
  <2>1. /\ family \in [1 .. 3 -> Symbol] /\ year \in [1 .. 4 -> Symbol]
        /\ ten \in [1 .. 10 -> Symbol]
    BY <1>1, <1>3, <1>4, <1>5
  <2> QED
    BY <2>1, SequenceOf
<1> DEFINE five == Country \o family
           nine == five \o year
           all == nine \o ten
<1>7. /\ five \in Seq(Symbol) /\ Len(five) = 5
      /\ \A i \in 1 .. 5 : five[i] = IF i <= 2 THEN Country[i] ELSE family[i - 2]
  <2>1. Joins(five, Country, family, 2, 3)
    BY <1>2, <1>6, Joined, 2 \in Nat, 3 \in Nat, Zenon
  <2> HIDE DEF five
  <2> QED
    BY <2>1 DEF Joins
<1> HIDE DEF five
<1>8. /\ nine \in Seq(Symbol) /\ Len(nine) = 9
      /\ \A i \in 1 .. 9 : nine[i] = IF i <= 5 THEN five[i] ELSE year[i - 5]
  <2>1. Joins(nine, five, year, 5, 4)
    BY <1>6, <1>7, Joined, 5 \in Nat, 4 \in Nat, Zenon
  <2> HIDE DEF nine
  <2> QED
    BY <2>1 DEF Joins
<1> HIDE DEF nine
<1>9. /\ all \in Seq(Symbol) /\ Len(all) = 19
      /\ \A i \in 1 .. 19 : all[i] = IF i <= 9 THEN nine[i] ELSE ten[i - 9]
  <2>1. Joins(all, nine, ten, 9, 10)
    BY <1>6, <1>8, Joined, 9 \in Nat, 10 \in Nat, Zenon
  <2> HIDE DEF all
  <2> QED
    BY <2>1 DEF Joins
<1>10. Body(s, seq) = all
  BY DEF Body, five, nine, family, year, ten
<1> HIDE DEF all
<1>11. all[1] = 22 /\ all[2] = 16
  BY <1>2, <1>7, <1>8, <1>9
<1>12. ASSUME NEW i \in 3 .. 5 PROVE all[i] \in Letter
  <2>1. i \in 1 .. 5 /\ i \in 1 .. 9 /\ i \in 1 .. 19 /\ ~(i <= 2) /\ i <= 5 /\ i <= 9
    OBVIOUS
  <2>2. all[i] = nine[i] /\ nine[i] = five[i] /\ five[i] = family[i - 2]
    BY <1>7, <1>8, <1>9, <2>1
  <2>3. i - 2 \in 1 .. 3
    OBVIOUS
  <2> QED
    BY <1>3, <2>2, <2>3
<1>13. ASSUME NEW i \in 6 .. 19 PROVE all[i] \in Digit
  <2>1. CASE i <= 9
    <3>1. all[i] = year[i - 5] /\ i - 5 \in 1 .. 4
      BY <1>8, <1>9, <2>1
    <3> QED
      BY <1>4, <3>1
  <2>2. CASE i >= 10
    <3>1. all[i] = ten[i - 9] /\ i - 9 \in 1 .. 10
      BY <1>9, <2>2
    <3> QED
      BY <1>5, <3>1
  <2> QED
    BY <2>1, <2>2
<1> QED
  BY <1>9, <1>10, <1>11, <1>12, <1>13

\* One more character.
Extends(all, body, c) ==
  /\ all \in Seq(Symbol) /\ Len(all) = Len(body) + 1
  /\ \A i \in 1 .. Len(body) : all[i] = body[i]
  /\ all[Len(body) + 1] = c

LEMMA Extended ==
  ASSUME NEW body \in Seq(Symbol), NEW c \in Symbol
  PROVE  Extends(Append(body, c), body, c)
BY AppendProperties DEF Extends

\* A body and a check character make a number, and come apart again.
LEMMA AppendedCheck ==
  ASSUME NEW body \in Seq(Symbol), Len(body) = 19, NEW c \in Symbol
  PROVE  /\ Append(body, c) \in Typed /\ Front(Append(body, c)) = body
         /\ \A i \in 1 .. 19 : Append(body, c)[i] = body[i]
         /\ Last(Append(body, c)) = c
<1> DEFINE number == Append(body, c)
<1>1. /\ number \in Seq(Symbol) /\ Len(number) = 20
      /\ number[20] = c /\ \A i \in 1 .. 19 : number[i] = body[i]
  <2>1. Extends(number, body, c)
    BY Extended
  <2> HIDE DEF number
  <2> QED
    BY <2>1 DEF Extends
<1> HIDE DEF number
<1>2. number \in Typed
  BY <1>1, LenProperties DEF Typed, CheckAt
<1>3. /\ Front(number) \in [1 .. 19 -> Symbol] /\ Len(Front(number)) = 19
      /\ \A i \in 1 .. 19 : Front(number)[i] = number[i]
      /\ Last(number) = number[20]
  BY <1>2, FrontAndLast
<1>4. body \in [1 .. 19 -> Symbol]
  BY LenProperties
<1>5. Front(number) = body
  <2>1. PICK front : front = Front(number)
    OBVIOUS
  <2>2. front \in [1 .. 19 -> Symbol] /\ \A i \in 1 .. 19 : front[i] = body[i]
    BY <1>1, <1>3, <2>1
  <2>3. front = body
    <3>1. front = [i \in 1 .. 19 |-> front[i]] /\ body = [i \in 1 .. 19 |-> body[i]]
      BY <1>4, <2>2
    <3> QED
      BY <2>2, <3>1
  <2> QED
    BY <2>1, <2>3
<1> QED
  BY <1>1, <1>2, <1>3, <1>5 DEF number

\* What is printed: the shape of a number, and the check character that belongs to it.
LEMMA NumberShape ==
  ASSUME NEW s \in Slots, NEW seq \in Nat
  PROVE  /\ NumberOf(s, seq) \in Typed
         /\ NumberOf(s, seq)[1] = 22 /\ NumberOf(s, seq)[2] = 16
         /\ \A i \in 3 .. 5 : NumberOf(s, seq)[i] \in Letter
         /\ \A i \in 6 .. 19 : NumberOf(s, seq)[i] \in Digit
         /\ LuhnCheck(Front(NumberOf(s, seq))) = Last(NumberOf(s, seq))
<1> DEFINE body == Body(s, seq)
           check == LuhnCheck(body)
           number == Append(body, check)
<1>1. NumberOf(s, seq) = number
  BY DEF NumberOf, PolicyNumber, Body
<1>2. body \in Seq(Symbol) /\ Len(body) = 19
  BY BodyShape
<1>3. check \in Symbol
  <2>1. 0 \in Symbol
    BY DEF Symbol, Size
  <2>2. Append(body, 0) \in Typed /\ Front(Append(body, 0)) = body
    BY <1>2, <2>1, AppendedCheck
  <2>3. PICK total \in Nat : check = (Size - (total % Size)) % Size
    BY <2>2, LuhnIsSum
  <2> QED
    BY <2>3 DEF Size, Symbol
<1>4. /\ number \in Typed /\ Front(number) = body /\ Last(number) = check
      /\ \A i \in 1 .. 19 : number[i] = body[i]
  BY <1>2, <1>3, AppendedCheck
<1> HIDE DEF number
<1>5. LuhnCheck(Front(number)) = Last(number)
  BY <1>4
<1> HIDE DEF body, check
<1>6. /\ body[1] = 22 /\ body[2] = 16
      /\ \A i \in 3 .. 5 : body[i] \in Letter
      /\ \A i \in 6 .. 19 : body[i] \in Digit
  BY BodyShape DEF body
<1>7. /\ number[1] = 22 /\ number[2] = 16
      /\ \A i \in 3 .. 5 : number[i] \in Letter
      /\ \A i \in 6 .. 19 : number[i] \in Digit
  BY <1>4, <1>6
<1> QED
  BY <1>1, <1>4, <1>5, <1>7

\* What parse_policy_number wants of the characters: the weight, and some of the shape.
LEMMA ParsedWeighs ==
  ASSUME NEW typed \in Typed, Parses(typed)
  PROVE  /\ Weight(typed) \in Int /\ Weight(typed) % Size = 0
         /\ typed[5] \notin Digit /\ typed[19] \in Digit
<1>1. LuhnCheck(Front(typed)) = Last(typed) /\ WellShaped(typed)
  BY DEF Parses
<1>2. typed[5] \notin Digit /\ typed[19] \in Digit
  BY <1>1 DEF WellShaped, YearAt, SeqAt
<1> QED
  BY <1>1, <1>2, CheckIsWeight

\* Every number is accepted as it is printed.
LEMMA PrintedParses ==
  ASSUME NEW s \in Slots, NEW seq \in Nat
  PROVE  Parses(NumberOf(s, seq))
<1> DEFINE number == NumberOf(s, seq)
<1>1. /\ number \in Typed /\ number[1] = 22 /\ number[2] = 16
      /\ \A i \in 3 .. 5 : number[i] \in Letter
      /\ \A i \in 6 .. 19 : number[i] \in Digit
      /\ LuhnCheck(Front(number)) = Last(number)
  BY NumberShape
<1> HIDE DEF number
<1>2. Len(number) = CheckAt
  BY <1>1, FrontAndLast DEF CheckAt
<1>3. SubSeq(number, 1, 2) = Country
  <2> DEFINE start == SubSeq(number, 1, 2)
  <2>1. \A i \in 1 .. 2 : number[i] \in Symbol
    BY <1>1 DEF Typed, CheckAt
  <2>2. /\ start \in Seq(Symbol) /\ Len(start) = 2
        /\ \A i \in 1 .. 2 : start[i] = number[i]
    BY <2>1, SubSeqProperties
  <2> HIDE DEF start
  <2>3. Country \in Seq(Symbol) /\ Len(Country) = 2 /\ Country[1] = 22 /\ Country[2] = 16
    BY DEF Country, Symbol, Size
  <2>4. \A i \in 1 .. Len(start) : start[i] = Country[i]
    BY <1>1, <2>2, <2>3
  <2>5. start = Country
    BY <2>2, <2>3, <2>4, SeqEqual
  <2> QED
    BY <2>5 DEF start
<1>4. \A i \in 3 .. 5 : number[i] \notin Digit
  BY <1>1 DEF Letter, Digit, Size
<1>5. \A i \in YearAt \cup SeqAt : number[i] \in Digit
  BY <1>1 DEF YearAt, SeqAt
<1>6. \A i \in 1 .. CheckAt : number[i] # Foreign
  <2>1. \A i \in 1 .. CheckAt : number[i] \in Symbol
    BY <1>1 DEF Typed
  <2>2. Foreign \notin Symbol
    BY DEF Symbol, Size, Foreign
  <2> QED
    BY <2>1, <2>2
<1>7. WellShaped(number)
  BY <1>2, <1>3, <1>4, <1>5 DEF WellShaped
<1>8. Parses(number)
  BY <1>1, <1>6, <1>7 DEF Parses
<1> QED
  BY <1>8 DEF number

\* And in no mistyped form: one character replaced weighs differently, and so do two
\* neighbours exchanged, but for the ends of ALPHABET, which stand next to each other
\* nowhere that the shape would not show it.
LEMMA MistypedIsRefused ==
  ASSUME NEW s \in Slots, NEW seq \in Nat, NEW typed \in Typos(NumberOf(s, seq))
  PROVE  ~Parses(typed)
<1> DEFINE number == NumberOf(s, seq)
<1>1. /\ number \in Typed /\ number[1] = 22 /\ number[2] = 16
      /\ \A i \in 3 .. 5 : number[i] \in Letter
      /\ \A i \in 6 .. 19 : number[i] \in Digit
  BY NumberShape
<1>2. Weight(number) \in Int /\ Weight(number) % Size = 0
  BY <1>1, PrintedParses, ParsedWeighs
<1>3. typed \in Typos(number)
  OBVIOUS
<1> HIDE DEF number
<1>4. ASSUME NEW i \in 1 .. CheckAt, NEW cp \in Digit \cup Letter \cup {Foreign},
             typed = [number EXCEPT ![i] = cp], typed # number
      PROVE  ~Parses(typed)
  <2>1. CASE cp = Foreign
    <3>1. typed[i] = Foreign
      BY <1>1, <1>4, <2>1 DEF Typed
    <3> QED
      BY <3>1 DEF Parses
  <2>2. CASE cp # Foreign
    <3>1. cp \in Symbol
      BY <2>2 DEF Digit, Letter, Symbol, Size
    <3>2. cp # number[i]
      BY <1>1, <1>4 DEF Typed
    <3>3. typed \in Typed /\ (Weight(typed) - Weight(number)) % Size # 0
      BY <1>1, <1>4, <3>1, <3>2, ReplacedWeighs
    <3>4. Parses(typed) => Weight(typed) \in Int /\ Weight(typed) % Size = 0
      BY <3>3, ParsedWeighs
    <3> QED
      BY <1>2, <3>3, <3>4 DEF Size
  <2> QED
    BY <2>1, <2>2
<1>5. ASSUME NEW i \in 1 .. CheckAt - 1, typed = Swapped(number, i), typed # number, Parses(typed)
      PROVE  FALSE
  <2>1. i \in 1 .. 19 /\ i + 1 \in 1 .. 20
    BY DEF CheckAt
  <2>2. number[i] # number[i + 1]
    <3>1. CASE number[i] = number[i + 1]
      <4>1. [number EXCEPT ![i] = number[i + 1], ![i + 1] = number[i]] = number
        BY <1>1, <2>1, <3>1 DEF Typed, CheckAt
      <4> QED
        BY <1>5, <4>1 DEF Swapped
    <3> QED
      BY <3>1
  <2>3. /\ typed \in Typed
        /\ typed[i] = number[i + 1] /\ typed[i + 1] = number[i]
    BY <1>1, <1>5, <2>1 DEF Typed, Swapped, CheckAt
  <2>4. /\ Weight(typed) \in Int /\ Weight(typed) % Size = 0
        /\ typed[5] \notin Digit /\ typed[19] \in Digit
    BY <1>5, <2>3, ParsedWeighs
  <2>5. {number[i], number[i + 1]} # {0, Size - 1}
    <3> SUFFICES ~ /\ number[i] \in {0, 33} /\ number[i + 1] \in {0, 33}
                   /\ number[i] # number[i + 1]
      BY <2>2 DEF Size
    <3>1. CASE i \in 1 .. 2
      BY <1>1, <3>1
    <3>2. CASE i \in 3 .. 4
      <4>1. number[i] \in Letter /\ number[i + 1] \in Letter
        BY <1>1, <3>2
      <4> QED
        BY <4>1 DEF Letter, Size
    <3>3. CASE i = 5
      <4>1. number[6] \in Digit
        BY <1>1
      <4> QED
        BY <2>3, <2>4, <3>3, <4>1
    <3>4. CASE i \in 6 .. 18
      <4>1. number[i] \in Digit /\ number[i + 1] \in Digit
        BY <1>1, <3>4
      <4> QED
        BY <4>1 DEF Digit
    <3>5. CASE i = 19
      <4>1. number[19] \in Digit /\ number[20] \in Digit
        BY <1>1, <2>3, <2>4, <3>5
      <4> QED
        BY <3>5, <4>1 DEF Digit
    <3> QED
      BY <2>1, <3>1, <3>2, <3>3, <3>4, <3>5
  <2>6. (Weight(typed) - Weight(number)) % Size # 0
    BY <1>1, <1>5, <2>2, <2>5, SwappedWeighs
  <2> QED
    BY <1>2, <2>4, <2>6 DEF Size
<1> QED
  BY <1>3, <1>4, <1>5 DEF Typos

\* No sequence beyond the tenth digit is printed.
InTenDigits == /\ \A p \in policies : p.seq <= MaxSeq
               /\ \A w \in Workers : tx[w].phase \in Committing => tx[w].seq <= MaxSeq

LEMMA TenDigitsStep == IndInv /\ InTenDigits /\ [Next]_vars => InTenDigits'
<1> SUFFICES ASSUME IndInv, InTenDigits, [Next]_vars PROVE InTenDigits'
  OBVIOUS
<1> USE DEF Committing
<1> TypeOK /\ Named
  BY DEF IndInv
<1>1. ASSUME NEW w \in Workers, ReleaseAll(w), UNCHANGED policies PROVE InTenDigits'
  BY <1>1, ReleaseKeeps DEF InTenDigits, Others
<1>2. ASSUME NEW w \in Workers, Commit(w) PROVE InTenDigits'
  <2>1. policies' = policies \cup {Entry(w)} /\ tx[w].phase = "indexed" /\ ReleaseAll(w)
    BY <1>2, CommitEnters DEF Commit
  <2>2. Entry(w).seq <= MaxSeq
    BY <2>1 DEF Entry, InTenDigits
  <2> QED
    BY <2>1, <2>2, ReleaseKeeps DEF InTenDigits, Others
<1>3. ASSUME NEW w \in Workers, ClaimSequence(w) PROVE InTenDigits'
  <2>1. /\ UNCHANGED policies /\ counter[tx[w].slot] <= MaxSeq
        /\ tx' = [tx EXCEPT ![w].phase = "numbered", ![w].seq = counter[tx[w].slot]]
    BY <1>3 DEF ClaimSequence
  <2>2. Others(w) /\ tx'[w].seq = counter[tx[w].slot]
    BY <2>1 DEF TypeOK, Tx, Others
  <2> QED
    BY <2>1, <2>2 DEF InTenDigits, Others
<1>4. ASSUME NEW w \in Workers, LockQuote(w) \/ RefuseIssued(w) \/ AllocateIndex(w)
                                \/ (\E q \in Quotes, s \in Slots : Load(w, q, s))
      PROVE  InTenDigits'
  <2>1. UNCHANGED policies
    BY <1>4 DEF LockQuote, RefuseIssued, AllocateIndex, Load
  <2>2. Others(w)
    BY <1>4 DEF LockQuote, RefuseIssued, AllocateIndex, Load, TypeOK, Others
  <2>3. tx'[w].phase \in Committing => tx[w].phase \in Committing /\ tx'[w].seq = tx[w].seq
    <3>1. CASE LockQuote(w)
      BY <3>1 DEF LockQuote, TypeOK, Tx
    <3>2. CASE RefuseIssued(w)
      BY <3>2 DEF RefuseIssued, TypeOK, NoTx
    <3>3. ASSUME NEW q \in Quotes, NEW s \in Slots, Load(w, q, s)
          PROVE  tx'[w].phase \notin Committing
      BY <3>3 DEF Load, TypeOK, NoTx
    <3>4. CASE AllocateIndex(w)
      BY <3>4 DEF AllocateIndex, TypeOK, Tx
    <3> QED
      BY <1>4, <3>1, <3>2, <3>3, <3>4
  <2> QED
    BY <2>1, <2>2, <2>3 DEF InTenDigits, Others
<1>5. CASE UNCHANGED vars
  BY <1>5 DEF vars, InTenDigits
<1> QED
  BY <1>1, <1>2, <1>3, <1>4, <1>5 DEF Next, Progress, Exhausted, Rollback

\* Whatever the families, the years and the sequences: every number given out is accepted
\* as printed, and refused with one character wrong or two neighbours swapped
\* (build_policy_number, parse_policy_number).
THEOREM TyposNeverPass == Spec => []TyposAreRefused
<1>1. Init => InTenDigits
  <2> SUFFICES ASSUME Init PROVE InTenDigits
    OBVIOUS
  <2>1. NoTx.phase = "idle"
    BY DEF NoTx
  <2> QED
    BY <2>1 DEF Init, InTenDigits, Committing
<1>2. IndInv /\ InTenDigits => TyposAreRefused
  <2> SUFFICES ASSUME IndInv, InTenDigits, NEW p \in policies PROVE p.seq \in Guarded[p.slot]
    BY DEF TyposAreRefused
  <2>1. p.slot \in Slots /\ p.seq \in Nat /\ p.seq <= MaxSeq
    BY DEF IndInv, TypeOK, Policy, InTenDigits
  <2>2. p.seq \in 0 .. MaxSeq
    BY <2>1, BoundsAssumption
  <2>3. /\ Parses(NumberOf(p.slot, p.seq))
        /\ \A typed \in Typos(NumberOf(p.slot, p.seq)) : ~Parses(typed)
    BY <2>1, PrintedParses, MistypedIsRefused
  <2> QED
    BY <2>1, <2>2, <2>3 DEF Guarded
<1> QED
  BY <1>1, <1>2, Inductive, TenDigitsStep, PTL DEF Spec
=============================================================================
