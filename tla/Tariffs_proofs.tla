---------------------------- MODULE Tariffs_proofs ----------------------------
(***************************************************************************)
(* For any number of requests, versions, days, tables and quotes: a day    *)
(* has one rate table at most, a quote stays derivable from it, and its    *)
(* premium is fair.  The overlap check alone would not do: between a check *)
(* and its insert no other request may insert, which is what the row lock  *)
(* is for.  A fair premium rests on the route risk of a request being the  *)
(* sum of an honest set of evidence from the moment it is read.            *)
(***************************************************************************)
EXTENDS Tariffs, Induction

-----------------------------------------------------------------------------
(* What bp_mul computes, for every amount and every rate.                  *)

\* Rounding half up by adding half the divisor (bp_mul, ad_valorem_kobo): the result
\* times the divisor is within half a divisor of the exact value, and it is the only
\* such integer.
LEMMA HalfUp ==
  ASSUME NEW x \in Nat
  PROVE  LET q == (x + 5000) \div 10000
         IN  /\ q \in Nat
             /\ 10000 * q - x <= 5000
             /\ -5000 < 10000 * q - x
  BY SMT

\* Rounding keeps the order of what is rounded.
LEMMA HalfUpMonotone ==
  ASSUME NEW x \in Nat, NEW y \in Nat, x <= y
  PROVE  (x + 5000) \div 10000 <= (y + 5000) \div 10000
  BY SMT

\* A product of naturals is a natural, and grows with its second factor.
LEMMA Products ==
  ASSUME NEW a \in Nat, NEW b \in Nat, NEW c \in Nat, b <= c
  PROVE  /\ a * b \in Nat /\ a * c \in Nat
         /\ a * b <= a * c
<1>1. a * b \in Nat /\ a * c \in Nat
  BY SMT
<1>2. PICK d \in Nat : c = b + d
  BY c - b \in Nat, c = b + (c - b), SMT
<1>3. a * c = a * b + a * d /\ a * d \in Nat
  BY <1>2, SMT
<1> QED
  BY <1>1, <1>3, SMT

\* bp_mul returns a non-negative number of kobo within half a kobo of the exact value.
THEOREM BpMulIsHalfUp ==
  ASSUME NEW amount \in Nat, NEW bp \in Nat
  PROVE  /\ BpMul(amount, bp) \in Nat
         /\ BpDenom * BpMul(amount, bp) - amount * bp <= BpDenom \div 2
         /\ -(BpDenom \div 2) < BpDenom * BpMul(amount, bp) - amount * bp
<1> DEFINE x == amount * bp
<1>1. x \in Nat
  BY Products
<1>2. BpMul(amount, bp) = (x + 5000) \div 10000
  BY SMT DEF BpMul, BpDenom
<1>3. BpDenom = 10000 /\ BpDenom \div 2 = 5000
  BY SMT DEF BpDenom
<1> HIDE DEF x
<1>4. /\ BpMul(amount, bp) \in Nat
      /\ 10000 * BpMul(amount, bp) - x <= 5000
      /\ -5000 < 10000 * BpMul(amount, bp) - x
  BY <1>1, <1>2, HalfUp
<1> QED
  BY <1>3, <1>4 DEF x

\* A rate of at most 100 % never charges more than the value, and a higher rate never
\* charges less (rate_quote: the guard on the total rate).
THEOREM BpMulBounded ==
  ASSUME NEW amount \in Nat, NEW bp \in Nat, NEW higher \in Nat, bp <= higher
  PROVE  /\ BpMul(amount, bp) <= BpMul(amount, higher)
         /\ higher <= BpDenom => BpMul(amount, higher) <= amount
<1> DEFINE x == amount * bp
           y == amount * higher
<1>1. x \in Nat /\ y \in Nat /\ x <= y
  BY Products
<1>2. /\ BpMul(amount, bp) = (x + 5000) \div 10000
      /\ BpMul(amount, higher) = (y + 5000) \div 10000
  BY SMT DEF BpMul, BpDenom
<1>3. ASSUME higher <= BpDenom PROVE y <= amount * 10000
  <2>1. higher <= 10000
    BY <1>3 DEF BpDenom
  <2> QED
    BY <2>1, Products
<1> HIDE DEF x, y
<1>4. BpMul(amount, bp) <= BpMul(amount, higher)
  BY <1>1, <1>2, HalfUpMonotone
<1>5. ASSUME higher <= BpDenom PROVE BpMul(amount, higher) <= amount
  <2>1. y <= amount * 10000
    BY <1>3, <1>5
  <2>2. (y + 5000) \div 10000 <= amount
    BY <1>1, <2>1, SMT
  <2> QED
    BY <1>2, <2>2
<1> QED
  BY <1>4, <1>5

-----------------------------------------------------------------------------
(* The rate tables.                                                        *)

\* reqs has one request per worker.
Shape == reqs = [w \in Workers |-> reqs[w]]

\* Stored and pending tables have windows that ck_rate_window accepts.
WindowsKnown ==
  /\ \A t \in tables : t.window \in Windows
  /\ \A w \in Workers : reqs[w].op = "insert table" => reqs[w].table.window \in Windows

Disjoint ==
  \A t, u \in tables : t.version = u.version /\ t # u => ~Overlaps(t.window, u.window)

\* What a request is about to insert overlaps nothing stored.
PendingDisjoint ==
  \A w \in Workers : reqs[w].op = "insert table" =>
    \A t \in tables : t.version = reqs[w].table.version => ~Overlaps(t.window, reqs[w].table.window)

OneHolder ==
  \A u, w \in Workers : \A v \in Versions : HoldsProduct(u, v) /\ HoldsProduct(w, v) => u = w

HoldsKnown ==
  \A w \in Workers :
    /\ reqs[w].op = "table" => reqs[w].version \in Versions
    /\ reqs[w].op = "insert table" => reqs[w].table.version \in Versions

TableInv ==
  Shape /\ WindowsKnown /\ Disjoint /\ PendingDisjoint /\ OneHolder /\ HoldsKnown

\* A quote was priced from a table that is still there.
Derived(q) ==
  /\ q.day \in Days
  /\ \E t \in Covering(q.version, q.day) : t.rates = q.rates
  /\ q.premium = Premium(q.rates, q.lines, q.route)

\* What rate_quote hands to the insert.
Rated(q) ==
  /\ q = [no |-> 1, version |-> q.version, day |-> q.day, rates |-> q.rates, lines |-> q.lines,
          route |-> q.route, event |-> q.event, premium |-> q.premium]
  /\ Derived(q)

QuoteInv == /\ \A q \in quotes : Derived(q)
            /\ \A w \in Workers : reqs[w].op = "insert quote" => Rated(reqs[w].quote)
            /\ today \in Days

\* No step of a request other than add_rate_table's own can disturb the invariant of the
\* tables: the requests that touch neither the tables nor the product lock.
LEMMA TablesUntouched ==
  ASSUME TableInv, NEW w \in Workers, NEW req, Set(w, req), UNCHANGED tables,
         req.op # "table", req.op # "insert table"
  PROVE  TableInv'
<1>1. \A v \in Workers : reqs'[v] = IF v = w THEN req ELSE reqs[v]
  BY DEF TableInv, Shape, Set
<1>2. Shape'
  BY DEF TableInv, Shape, Set
<1>3. WindowsKnown' /\ Disjoint' /\ PendingDisjoint' /\ HoldsKnown'
  BY <1>1 DEF TableInv, WindowsKnown, Disjoint, PendingDisjoint, HoldsKnown, Overlaps
<1>4. OneHolder'
  <2>1. \A u \in Workers, x \in Versions : HoldsProduct(u, x)' => HoldsProduct(u, x)
    BY <1>1 DEF HoldsProduct
  <2> QED
    BY <2>1 DEF TableInv, OneHolder
<1> QED
  BY <1>2, <1>3, <1>4 DEF TableInv

\* Initially there are no tables and no requests.
LEMMA TableInit == Init => TableInv
<1> SUFFICES ASSUME Init PROVE TableInv
  OBVIOUS
<1>1. \A w \in Workers : reqs[w].op = "idle"
  BY DEF Init, Idle
<1> QED
  BY <1>1 DEF Init, TableInv, Shape, WindowsKnown, Disjoint, PendingDisjoint, OneHolder,
              HoldsKnown, HoldsProduct

\* Every step keeps the invariant of the tables.
LEMMA TableStep == TableInv /\ [Next]_vars => TableInv'
<1> SUFFICES ASSUME TableInv, [Next]_vars PROVE TableInv'
  OBVIOUS
<1>1. CASE UNCHANGED <<reqs, tables>>
  <2>1. /\ Shape' /\ WindowsKnown' /\ Disjoint'
    BY <1>1 DEF TableInv, Shape, WindowsKnown, Disjoint
  <2>2. PendingDisjoint' /\ HoldsKnown'
    BY <1>1 DEF TableInv, PendingDisjoint, HoldsKnown
  <2>3. OneHolder'
    BY <1>1 DEF TableInv, OneHolder, HoldsProduct
  <2> QED
    BY <2>1, <2>2, <2>3 DEF TableInv
<1>2. ASSUME NEW w \in Workers, NEW v \in Versions, LockProduct(w, v) PROVE TableInv'
  <2> DEFINE req == [op |-> "table", version |-> v]
  <2>1. /\ UNCHANGED tables
        /\ \A u \in Workers : reqs'[u] = IF u = w THEN req ELSE reqs[u]
        /\ \A u \in Workers : ~HoldsProduct(u, v)
    BY <1>2 DEF LockProduct, OnlyReqs, Set, TableInv, Shape
  <2>2. Shape'
    BY <1>2 DEF LockProduct, Set, TableInv, Shape
  <2>3. req.op = "table" /\ req.version = v
    OBVIOUS
  <2> HIDE DEF req
  <2>4. WindowsKnown' /\ Disjoint' /\ PendingDisjoint' /\ HoldsKnown'
    BY <2>1, <2>3 DEF TableInv, WindowsKnown, Disjoint, PendingDisjoint, HoldsKnown, Overlaps
  <2>5. OneHolder'
    <3>1. \A u \in Workers, x \in Versions :
            HoldsProduct(u, x)' => (u = w /\ x = v) \/ (u # w /\ HoldsProduct(u, x))
      BY <2>1, <2>3 DEF HoldsProduct
    <3> QED
      BY <2>1, <3>1 DEF TableInv, OneHolder
  <2> QED
    BY <2>2, <2>4, <2>5 DEF TableInv
<1>3. ASSUME NEW w \in Workers, NEW window \in Windows, NEW rates \in RateCards,
             CheckTable(w, window, rates)
      PROVE  TableInv'
  <2> DEFINE table == [version |-> reqs[w].version, window |-> window, rates |-> rates]
             req == [op |-> "insert table", table |-> table]
  <2>1. /\ UNCHANGED tables
        /\ reqs[w].op = "table"
        /\ \A t \in tables : t.version = reqs[w].version => ~Overlaps(t.window, window)
        /\ \A u \in Workers : reqs'[u] = IF u = w THEN req ELSE reqs[u]
    BY <1>3 DEF CheckTable, OnlyReqs, Set, TableInv, Shape
  <2>2. Shape'
    BY <1>3 DEF CheckTable, Set, TableInv, Shape
  <2>3. /\ req.op = "insert table" /\ req.table = table
        /\ table.version = reqs[w].version /\ table.window = window
    OBVIOUS
  <2> HIDE DEF req, table
  <2>4. WindowsKnown' /\ Disjoint' /\ PendingDisjoint' /\ HoldsKnown'
    BY <2>1, <2>3 DEF TableInv, WindowsKnown, Disjoint, PendingDisjoint, HoldsKnown, Overlaps
  <2>5. OneHolder'
    <3>1. \A u \in Workers, x \in Versions : HoldsProduct(u, x)' => HoldsProduct(u, x)
      BY <2>1, <2>3 DEF HoldsProduct
    <3> QED
      BY <3>1 DEF TableInv, OneHolder
  <2> QED
    BY <2>2, <2>4, <2>5 DEF TableInv
<1>4. ASSUME NEW w \in Workers, AddRateTable(w) PROVE TableInv'
  <2> DEFINE table == reqs[w].table
  <2>1. /\ tables' = tables \cup {table}
        /\ reqs[w].op = "insert table"
        /\ \A u \in Workers : reqs'[u] = IF u = w THEN Idle ELSE reqs[u]
    BY <1>4 DEF AddRateTable, Set, TableInv, Shape
  <2>2. Shape'
    BY <1>4 DEF AddRateTable, Set, TableInv, Shape
  <2>3. Idle.op = "idle"
    BY DEF Idle
  <2>4. WindowsKnown' /\ HoldsKnown'
    BY <2>1, <2>3 DEF TableInv, WindowsKnown, HoldsKnown
  <2>5. \A t \in tables : t.version = table.version => ~Overlaps(t.window, table.window)
    BY <2>1 DEF TableInv, PendingDisjoint
  <2>6. Disjoint'
    <3>1. \A t \in tables : t.version = table.version => ~Overlaps(table.window, t.window)
      BY <2>5 DEF Overlaps
    <3>2. \A t, u \in tables : t.version = u.version /\ t # u => ~Overlaps(t.window, u.window)
      BY DEF TableInv, Disjoint
    <3> HIDE DEF table
    <3> QED
      BY <2>1, <2>5, <3>1, <3>2 DEF Disjoint
  <2>7. ASSUME NEW u \in Workers, u # w, reqs[u].op = "insert table"
        PROVE  reqs[u].table.version # table.version
    <3>1. table.version \in Versions
      BY <2>1 DEF TableInv, HoldsKnown
    <3>2. HoldsProduct(w, table.version)
      BY <2>1 DEF HoldsProduct
    <3>3. reqs[u].table.version = table.version => HoldsProduct(u, table.version)
      BY <2>7 DEF HoldsProduct
    <3> QED
      BY <2>7, <3>1, <3>2, <3>3 DEF TableInv, OneHolder
  <2>8. PendingDisjoint'
    BY <2>1, <2>3, <2>7 DEF TableInv, PendingDisjoint, Overlaps
  <2>9. OneHolder'
    <3>1. \A u \in Workers, x \in Versions : HoldsProduct(u, x)' => HoldsProduct(u, x)
      BY <2>1, <2>3 DEF HoldsProduct
    <3> QED
      BY <3>1 DEF TableInv, OneHolder
  <2> QED
    BY <2>2, <2>4, <2>6, <2>8, <2>9 DEF TableInv
<1>5. ASSUME NEW w \in Workers,
             \/ ReadVersion(w) \/ CreateProduct(w) \/ ActivateProduct(w)
             \/ \E v \in Versions : LoadDraft(w, v)
             \/ Quoting(w) \/ Abandon(w)
      PROVE  TableInv'
  <2>1. UNCHANGED tables
    BY <1>5 DEF ReadVersion, CreateProduct, ActivateProduct, LoadDraft, Quoting, LookUp,
                LoadProduct, RateQuote, CreateQuote, Abandon, OnlyReqs
  <2>2. PICK req : Set(w, req) /\ req.op # "table" /\ req.op # "insert table"
    <3>1. CASE ReadVersion(w)
      <4> DEFINE req == [op |-> "create", version |-> Newest + 1]
      <4>1. Set(w, req)
        BY <3>1 DEF ReadVersion
      <4>2. req.op = "create"
        OBVIOUS
      <4> HIDE DEF req
      <4> QED
        BY <4>1, <4>2
    <3>2. CASE CreateProduct(w) \/ ActivateProduct(w) \/ CreateQuote(w) \/ Abandon(w)
      <4>1. Set(w, Idle)
        BY <3>2 DEF CreateProduct, ActivateProduct, CreateQuote, Abandon
      <4>2. Idle.op = "idle"
        BY DEF Idle
      <4> QED
        BY <4>1, <4>2
    <3>3. CASE \E v \in Versions : LoadDraft(w, v)
      <4>1. PICK v \in Versions : LoadDraft(w, v)
        BY <3>3
      <4> DEFINE req == [op |-> "activate", version |-> v]
      <4>2. Set(w, req)
        BY <4>1 DEF LoadDraft
      <4>3. req.op = "activate"
        OBVIOUS
      <4> HIDE DEF req
      <4> QED
        BY <4>2, <4>3
    <3>4. CASE \E event \in Events \cup {NoEvent} : LookUp(w, event)
      <4>1. PICK event \in Events \cup {NoEvent} : LookUp(w, event)
        BY <3>4
      <4> DEFINE req == [op |-> "looked up", event |-> event]
      <4>2. Set(w, req)
        BY <4>1 DEF LookUp
      <4>3. req.op = "looked up"
        OBVIOUS
      <4> HIDE DEF req
      <4> QED
        BY <4>2, <4>3
    <3>5. CASE \E v \in Versions : LoadProduct(w, v)
      <4>1. PICK v \in Versions, route \in {0, RouteRisk} :
              Set(w, [op |-> "rating", event |-> reqs[w].event, version |-> v, route |-> route])
        BY <3>5 DEF LoadProduct
      <4> DEFINE req == [op |-> "rating", event |-> reqs[w].event, version |-> v, route |-> route]
      <4>2. Set(w, req)
        BY <4>1
      <4>3. req.op = "rating"
        OBVIOUS
      <4> HIDE DEF req
      <4> QED
        BY <4>2, <4>3
    <3>6. CASE \E lines \in Shipments : RateQuote(w, lines)
      <4>1. PICK quote : Set(w, [op |-> "insert quote", quote |-> quote])
        BY <3>6 DEF RateQuote
      <4> DEFINE req == [op |-> "insert quote", quote |-> quote]
      <4>2. Set(w, req)
        BY <4>1
      <4>3. req.op = "insert quote"
        OBVIOUS
      <4> HIDE DEF req
      <4> QED
        BY <4>2, <4>3
    <3> QED
      BY <1>5, <3>1, <3>2, <3>3, <3>4, <3>5, <3>6 DEF Quoting
  <2> QED
    BY <2>1, <2>2, TablesUntouched
<1>6. CASE Midnight \/ \E env \in Envelopes : IngestEvidence(env)
  BY <1>1, <1>6 DEF Midnight, IngestEvidence
<1>7. CASE UNCHANGED vars
  BY <1>1, <1>7 DEF vars
<1> QED
  BY <1>2, <1>3, <1>4, <1>5, <1>6, <1>7 DEF Next, Catalogue

\* Windows that share a day overlap, as add_rate_table compares them.
LEMMA SharedDayOverlaps ==
  ASSUME NEW v \in Windows, NEW w \in Windows, NEW day \in Days,
         v.from <= day, day < v.to, w.from <= day, day < w.to
  PROVE  Overlaps(v, w)
<1>1. /\ v.from \in Int /\ v.to \in Int
      /\ w.from \in Int /\ w.to \in Int
      /\ day \in Int
  BY WindowAssumption, BoundAssumption DEF Days, Forever
<1> QED
  BY <1>1 DEF Overlaps

\* The invariant of the tables gives a day one table.
LEMMA OneCovering ==
  ASSUME TableInv, NEW v, NEW day \in Days, NEW t \in Covering(v, day), NEW u \in Covering(v, day)
  PROVE  t = u
<1>1. /\ t \in tables /\ t.version = v /\ t.window.from <= day /\ day < t.window.to
      /\ u \in tables /\ u.version = v /\ u.window.from <= day /\ day < u.window.to
  BY DEF Covering, Covers
<1>2. t.window \in Windows /\ u.window \in Windows
  BY <1>1 DEF TableInv, WindowsKnown
<1>3. Overlaps(t.window, u.window)
  BY <1>1, <1>2, SharedDayOverlaps
<1> QED
  BY <1>1, <1>3 DEF TableInv, Disjoint

\* So the lookup by latest beginning finds the table there is.
LEMMA TheCovering ==
  ASSUME TableInv, NEW v, NEW day \in Days, NEW t \in Covering(v, day)
  PROVE  EffectiveTable(v, day) = t
<1>1. \A u \in Covering(v, day) : u = t
  BY OneCovering
<1>2. t.window.from \in Int
  <2>1. t.window \in Windows
    BY DEF Covering, TableInv, WindowsKnown
  <2> QED
    BY <2>1, WindowAssumption DEF Days
<1>3. t.window.from <= t.window.from
  BY <1>2
<1>4. \A u \in Covering(v, day) : u.window.from <= t.window.from
  BY <1>1, <1>3
<1>5. EffectiveTable(v, day) \in Covering(v, day)
  BY <1>4 DEF EffectiveTable
<1> QED
  BY <1>1, <1>5

\* A day of a product version is covered by one rate table at most, whatever requests
\* add tables at the same time (add_rate_table, models.RateTable).
THEOREM DaysHaveOneTable == Spec => []OneTablePerDay
<1>1. Init => TableInv
  BY TableInit
<1>2. TableInv /\ [Next]_vars => TableInv'
  BY TableStep
<1>3. TableInv => OneTablePerDay
  BY OneCovering DEF OneTablePerDay
<1> QED
  BY <1>1, <1>2, <1>3, PTL DEF Spec

-----------------------------------------------------------------------------

\* Tables are never removed or changed, so what was covered stays covered.
LEMMA TablesGrow == [Next]_vars => tables \subseteq tables'
<1> SUFFICES ASSUME [Next]_vars PROVE tables \subseteq tables'
  OBVIOUS
<1>1. ASSUME NEW w \in Workers, Catalogue(w) \/ Quoting(w) \/ Abandon(w)
      PROVE  tables \subseteq tables'
  BY <1>1 DEF Catalogue, ReadVersion, CreateProduct, ActivateProduct, LoadDraft, LockProduct,
              CheckTable, AddRateTable, Quoting, LookUp, LoadProduct, RateQuote, CreateQuote,
              Abandon, OnlyReqs
<1>2. CASE Midnight \/ \E env \in Envelopes : IngestEvidence(env)
  BY <1>2 DEF Midnight, IngestEvidence
<1>3. CASE UNCHANGED vars
  BY <1>3 DEF vars
<1> QED
  BY <1>1, <1>2, <1>3 DEF Next

\* A quote that could be derived still can after any step.
LEMMA DerivedStays ==
  ASSUME NEW q, Derived(q), tables \subseteq tables'
  PROVE  Derived(q)'
<1>1. Covering(q.version, q.day) \subseteq Covering(q.version, q.day)'
  BY DEF Covering, Covers
<1> QED
  BY <1>1 DEF Derived

LEMMA RatedStays ==
  ASSUME NEW q, Rated(q), tables \subseteq tables'
  PROVE  Rated(q)'
BY DerivedStays DEF Rated

\* A request that hands no quote to the insert, and stores none, keeps the invariant.
LEMMA QuotesUntouched ==
  ASSUME TableInv, QuoteInv, NEW w \in Workers, NEW req, Set(w, req), UNCHANGED <<quotes, today>>,
         req.op = "insert quote" => Rated(req.quote)', tables \subseteq tables'
  PROVE  QuoteInv'
<1>1. \A v \in Workers : reqs'[v] = IF v = w THEN req ELSE reqs[v]
  BY DEF TableInv, Shape, Set
<1>2. \A q \in quotes : Derived(q)'
  BY DerivedStays DEF QuoteInv
<1>3. \A v \in Workers : reqs[v].op = "insert quote" => Rated(reqs[v].quote)
  BY DEF QuoteInv
<1>4. ASSUME NEW v \in Workers, reqs'[v].op = "insert quote" PROVE Rated(reqs[v].quote)'
  <2>1. CASE v = w
    BY <1>1, <1>4, <2>1
  <2>2. CASE v # w
    <3> DEFINE q == reqs[v].quote
    <3>1. Rated(q)
      BY <1>1, <1>3, <1>4, <2>2
    <3>2. reqs'[v].quote = q
      BY <1>1, <2>2
    <3>3. Rated(q) => /\ q = [no |-> 1, version |-> q.version, day |-> q.day, rates |-> q.rates,
                              lines |-> q.lines, route |-> q.route, event |-> q.event,
                              premium |-> q.premium]
                      /\ q.day \in Days
                      /\ q.premium = Premium(q.rates, q.lines, q.route)
                      /\ \E t \in tables : /\ t.version = q.version /\ Covers(t, q.day)
                                           /\ t.rates = q.rates
      BY DEF Rated, Derived, Covering
    <3> HIDE DEF q
    <3> QED
      BY <3>1, <3>2, <3>3 DEF Rated, Derived, Covering, Covers
  <2> QED
    BY <2>1, <2>2
<1> QED
  BY <1>2, <1>4 DEF QuoteInv

LEMMA QuoteInit == Init => QuoteInv
<1> SUFFICES ASSUME Init PROVE QuoteInv
  OBVIOUS
<1>1. \A w \in Workers : reqs[w].op = "idle"
  BY DEF Init, Idle
<1>2. today \in Days
  BY BoundAssumption DEF Init, Days
<1> QED
  BY <1>1, <1>2 DEF Init, QuoteInv

\* A catalogue step, or giving up, leaves no quote in a request's hands.
LEMMA CatalogueSets ==
  ASSUME NEW w \in Workers, Catalogue(w) \/ Abandon(w)
  PROVE  /\ UNCHANGED <<quotes, today>>
         /\ \E req : Set(w, req) /\ req.op # "rating" /\ req.op # "insert quote"
<1>0. UNCHANGED <<quotes, today>>
  BY DEF Catalogue, ReadVersion, CreateProduct, ActivateProduct, LoadDraft, LockProduct,
         CheckTable, AddRateTable, Abandon, OnlyReqs
<1> SUFFICES \E req : Set(w, req) /\ req.op # "rating" /\ req.op # "insert quote"
  BY <1>0
<1>1. CASE ReadVersion(w)
  <2> DEFINE req == [op |-> "create", version |-> Newest + 1]
  <2>1. Set(w, req)
    BY <1>1 DEF ReadVersion
  <2>2. req.op # "rating" /\ req.op # "insert quote"
    OBVIOUS
  <2> HIDE DEF req
  <2> QED
    BY <2>1, <2>2
<1>2. CASE CreateProduct(w) \/ ActivateProduct(w) \/ AddRateTable(w) \/ Abandon(w)
  <2>1. Set(w, Idle)
    BY <1>2 DEF CreateProduct, ActivateProduct, AddRateTable, Abandon
  <2>2. Idle.op # "rating" /\ Idle.op # "insert quote"
    BY DEF Idle
  <2> QED
    BY <2>1, <2>2
<1>3. ASSUME NEW v \in Versions, LoadDraft(w, v) \/ LockProduct(w, v)
      PROVE  \E req : Set(w, req) /\ req.op # "rating" /\ req.op # "insert quote"
  <2>1. PICK op \in {"activate", "table"} : Set(w, [op |-> op, version |-> v])
    BY <1>3 DEF LoadDraft, LockProduct
  <2> DEFINE req == [op |-> op, version |-> v]
  <2>2. Set(w, req)
    BY <2>1
  <2>3. req.op # "rating" /\ req.op # "insert quote"
    OBVIOUS
  <2> HIDE DEF req
  <2> QED
    BY <2>2, <2>3
<1>4. ASSUME NEW window \in Windows, NEW rates \in RateCards, CheckTable(w, window, rates)
      PROVE  \E req : Set(w, req) /\ req.op # "rating" /\ req.op # "insert quote"
  <2> DEFINE req == [op |-> "insert table",
                     table |-> [version |-> reqs[w].version, window |-> window, rates |-> rates]]
  <2>1. Set(w, req)
    BY <1>4 DEF CheckTable
  <2>2. req.op # "rating" /\ req.op # "insert quote"
    OBVIOUS
  <2> HIDE DEF req
  <2> QED
    BY <2>1, <2>2
<1> QED
  BY <1>1, <1>2, <1>3, <1>4 DEF Catalogue

\* Every step keeps quotes derivable.
LEMMA QuoteStep == TableInv /\ QuoteInv /\ [Next]_vars => QuoteInv'
<1> SUFFICES ASSUME TableInv, QuoteInv, [Next]_vars PROVE QuoteInv'
  OBVIOUS
<1>1. tables \subseteq tables'
  BY TablesGrow
<1>2. ASSUME NEW w \in Workers, NEW lines \in Shipments, RateQuote(w, lines) PROVE QuoteInv'
  <2> DEFINE v == reqs[w].version
             rates == EffectiveTable(v, today).rates
             quote == [no |-> 1, version |-> v, day |-> today, rates |-> rates, lines |-> lines,
                       route |-> reqs[w].route, event |-> reqs[w].event,
                       premium |-> Premium(rates, lines, reqs[w].route)]
  <2>1. Set(w, [op |-> "insert quote", quote |-> quote]) /\ UNCHANGED <<quotes, today>>
    BY <1>2 DEF RateQuote, OnlyReqs
  <2>2. PICK t : t \in Covering(v, today)
    BY <1>2 DEF RateQuote
  <2>3. today \in Days
    BY DEF QuoteInv
  <2>4. rates = t.rates
    BY <2>2, <2>3, TheCovering
  <2>5. Derived(quote)
    BY <2>2, <2>3, <2>4 DEF Derived
  <2>6. Rated(quote)
    BY <2>5 DEF Rated
  <2> HIDE DEF quote
  <2>7. PICK q : q = quote
    OBVIOUS
  <2>8. Rated(q)'
    BY <1>1, <2>6, <2>7, RatedStays
  <2> DEFINE req == [op |-> "insert quote", quote |-> q]
  <2>9. Set(w, req) /\ UNCHANGED <<quotes, today>>
    BY <2>1, <2>7
  <2>10. req.quote = q
    OBVIOUS
  <2> HIDE DEF req
  <2>11. PICK r : r = req
    OBVIOUS
  <2>12. Set(w, r) /\ r.quote = q
    BY <2>9, <2>10, <2>11
  <2> QED
    BY <1>1, <2>8, <2>9, <2>12, QuotesUntouched
<1>3. ASSUME NEW w \in Workers, CreateQuote(w) PROVE QuoteInv'
  <2> DEFINE quote == reqs[w].quote
             n == Cardinality(quotes) + 1
             stored == [quote EXCEPT !.no = n]
  <2>1. Rated(quote)
    BY <1>3 DEF QuoteInv, CreateQuote
  <2>2. /\ stored.version = quote.version /\ stored.day = quote.day
        /\ stored.rates = quote.rates /\ stored.lines = quote.lines
        /\ stored.route = quote.route /\ stored.premium = quote.premium
    <3>1. quote = [no |-> 1, version |-> quote.version, day |-> quote.day, rates |-> quote.rates,
                   lines |-> quote.lines, route |-> quote.route, event |-> quote.event,
                   premium |-> quote.premium]
      BY <2>1 DEF Rated
    <3> HIDE DEF quote, n
    <3> QED
      BY <3>1
  <2>3. Derived(stored)
    <3> HIDE DEF quote, stored
    <3> QED
      BY <2>1, <2>2 DEF Rated, Derived
  <2>4. quotes' = quotes \cup {stored} /\ Set(w, Idle) /\ UNCHANGED <<today, tables>>
    BY <1>3 DEF CreateQuote
  <2> HIDE DEF stored
  <2>5. \A q \in quotes' : Derived(q)'
    BY <1>1, <2>3, <2>4, DerivedStays DEF QuoteInv
  <2>6. \A u \in Workers : reqs'[u] = IF u = w THEN Idle ELSE reqs[u]
    BY <2>4 DEF TableInv, Shape, Set
  <2>7. ASSUME NEW u \in Workers, reqs'[u].op = "insert quote" PROVE Rated(reqs[u].quote)'
    <3> DEFINE idle == Idle
    <3>0. idle.op = "idle"
      BY DEF Idle
    <3> HIDE DEF idle
    <3>1. u # w /\ reqs'[u] = reqs[u]
      BY <2>6, <2>7, <3>0 DEF idle
    <3>2. Rated(reqs[u].quote)
      BY <2>7, <3>1 DEF QuoteInv
    <3> QED
      BY <2>4, <3>1, <3>2 DEF Rated, Derived, Covering, Covers
  <2> QED
    BY <2>4, <2>5, <2>7 DEF QuoteInv
<1>4. ASSUME NEW w \in Workers,
             Catalogue(w) \/ Abandon(w)
             \/ (\E event \in Events \cup {NoEvent} : LookUp(w, event))
             \/ (\E v \in Versions : LoadProduct(w, v))
      PROVE  QuoteInv'
  <2>1. UNCHANGED <<quotes, today>>
    BY <1>4, CatalogueSets DEF LookUp, LoadProduct, OnlyReqs
  <2>2. PICK req : Set(w, req) /\ req.op # "insert quote"
    <3>1. CASE Catalogue(w) \/ Abandon(w)
      BY <3>1, CatalogueSets
    <3>2. CASE \E event \in Events \cup {NoEvent} : LookUp(w, event)
      <4>1. PICK event : Set(w, [op |-> "looked up", event |-> event])
        BY <3>2 DEF LookUp
      <4> DEFINE req == [op |-> "looked up", event |-> event]
      <4>2. Set(w, req)
        BY <4>1
      <4>3. req.op = "looked up"
        OBVIOUS
      <4> HIDE DEF req
      <4> QED
        BY <4>2, <4>3
    <3>3. CASE \E v \in Versions : LoadProduct(w, v)
      <4>1. PICK v \in Versions, route \in {0, RouteRisk} :
              Set(w, [op |-> "rating", event |-> reqs[w].event, version |-> v, route |-> route])
        BY <3>3 DEF LoadProduct
      <4> DEFINE req == [op |-> "rating", event |-> reqs[w].event, version |-> v, route |-> route]
      <4>2. Set(w, req)
        BY <4>1
      <4>3. req.op = "rating"
        OBVIOUS
      <4> HIDE DEF req
      <4> QED
        BY <4>2, <4>3
    <3> QED
      BY <1>4, <3>1, <3>2, <3>3
  <2> QED
    BY <1>1, <2>1, <2>2, QuotesUntouched
<1>5. CASE Midnight
  <2>1. UNCHANGED <<tables, quotes, reqs>>
    BY <1>5 DEF Midnight
  <2>2. today \in Days /\ today < MaxDays /\ today' = today + 1
    BY <1>5 DEF Midnight, QuoteInv
  <2>3. today' \in Days
    BY <2>2, BoundAssumption DEF Days
  <2> QED
    BY <2>1, <2>3 DEF QuoteInv, Rated, Derived, Covering, Covers
<1>6. CASE UNCHANGED vars \/ \E env \in Envelopes : IngestEvidence(env)
  <2>1. UNCHANGED <<today, tables, quotes, reqs>>
    BY <1>6 DEF vars, IngestEvidence
  <2> QED
    BY <2>1 DEF QuoteInv, Rated, Derived, Covering, Covers
<1> QED
  BY <1>2, <1>3, <1>4, <1>5, <1>6 DEF Next, Quoting

\* Looked up at any later time, the day a quote was rated on leads to the table it was
\* rated with, and that table to its premium (create_quote, effective_rate_table).
THEOREM QuotesStayDerivable == Spec => []QuotesRederivable
<1>1. Init => TableInv /\ QuoteInv
  BY TableInit, QuoteInit
<1>2. TableInv /\ QuoteInv /\ [Next]_vars => TableInv' /\ QuoteInv'
  BY TableStep, QuoteStep
<1>3. TableInv /\ QuoteInv => QuotesRederivable
  <2> SUFFICES ASSUME TableInv, NEW q \in quotes, Derived(q)
               PROVE  /\ Covering(q.version, q.day) # {}
                      /\ EffectiveTable(q.version, q.day).rates = q.rates
                      /\ q.premium = Premium(q.rates, q.lines, q.route)
    BY DEF QuoteInv, QuotesRederivable
  <2>1. PICK t \in Covering(q.version, q.day) : t.rates = q.rates
    BY DEF Derived
  <2>2. EffectiveTable(q.version, q.day) = t
    BY TheCovering DEF Derived
  <2> QED
    BY <2>1, <2>2 DEF Derived
<1> QED
  BY <1>1, <1>2, <1>3, PTL DEF Spec

-----------------------------------------------------------------------------
(* Premiums as sums.  A fold over a sequence takes the last element first.  *)

Largest(S) == [s \in SUBSET S |-> Max(s)]

LEMMA LargestPicked ==
  ASSUME NEW n \in Nat, NEW s \in SUBSET (1 .. n), s # {}
  PROVE  Largest(1 .. n)[s] = Max(s) /\ Max(s) \in s
<1>1. s \in SUBSET (0 .. n)
  OBVIOUS
<1> QED
  BY <1>1, MaxIs DEF Largest

LEMMA FoldOfSequence ==
  ASSUME NEW n \in Nat, NEW S, S = 1 .. n, NEW f, Whole(f, S), NEW sums,
         (\E it : SumLast(it, f, Largest(S), S)) => SumLast(sums, f, Largest(S), S)
  PROVE  sums[S] = Sum(f, S)
<1> DEFINE pick == Largest(S)
<1>1. IsFiniteSet(S)
  BY FS_Interval
<1>2. \A s \in SUBSET S : s # {} => pick[s] \in s
  BY LargestPicked
<1> HIDE DEF pick
<1>3. (\E it : SumLast(it, f, pick, S)) => SumLast(sums, f, pick, S)
  BY DEF pick
<1> QED
  BY <1>1, <1>2, <1>3, FoldIsSum

Charges(rates, lines, route) ==
  [i \in DOMAIN lines |-> BpMul(lines[i].value, LineRate(rates, lines[i].class, route))]

ExactCharges(rates, lines, route) ==
  [i \in DOMAIN lines |-> lines[i].value * LineRate(rates, lines[i].class, route)]

Values(lines) == [i \in DOMAIN lines |-> lines[i].value]

\* What rate_quote charges is the fee and the sum of what the lines are charged.
LEMMA PremiumIsSum ==
  ASSUME NEW rates, NEW route, NEW lines, NEW n \in Nat, DOMAIN lines = 1 .. n,
         Whole(Charges(rates, lines, route), DOMAIN lines)
  PROVE  Premium(rates, lines, route) = rates.fee + Sum(Charges(rates, lines, route), DOMAIN lines)
<1> DEFINE S == DOMAIN lines
           f == Charges(rates, lines, route)
           pick == Largest(S)
           One(it, s) == IF s = {} THEN 0 ELSE it[s \ {Max(s)}] + BpMul(lines[Max(s)].value, LineRate(rates, lines[Max(s)].class, route))
           Two(it, s) == IF s = {} THEN 0 ELSE it[s \ {pick[s]}] + f[pick[s]]
           Solves(it) == it = [s \in SUBSET S |-> One(it, s)]
           sums == CHOOSE it : Solves(it)
<1>1. Premium(rates, lines, route) = rates.fee + sums[S]
  BY DEF Premium, FoldLeft, MapThenFoldSet
<1>2. \A i \in S : f[i] = BpMul(lines[i].value, LineRate(rates, lines[i].class, route))
  BY DEF Charges
<1>3. \A s \in SUBSET S : s # {} => pick[s] = Max(s) /\ Max(s) \in S
  BY LargestPicked
<1>4. ASSUME NEW it, NEW s \in SUBSET S PROVE One(it, s) = Two(it, s)
  <2> HIDE DEF S, f, pick
  <2> QED
    BY <1>2, <1>3
<1>5. \A it : [s \in SUBSET S |-> One(it, s)] = [s \in SUBSET S |-> Two(it, s)]
  <2> HIDE DEF One, Two, S
  <2> QED
    BY <1>4
<1>6. \A it : Solves(it) <=> SumLast(it, f, pick, S)
  BY <1>5 DEF SumLast
<1> HIDE DEF Solves
<1>7. (\E it : SumLast(it, f, pick, S)) => SumLast(sums, f, pick, S)
  BY <1>6
<1> HIDE DEF S, f, pick, sums
<1>8. sums[S] = Sum(f, S)
  BY <1>7, FoldOfSequence DEF S, f, pick
<1> QED
  BY <1>1, <1>8 DEF S, f

\* So are the exact price and the value insured.
LEMMA ExactPriceIsSum ==
  ASSUME NEW rates, NEW route, NEW lines, NEW n \in Nat, DOMAIN lines = 1 .. n,
         Whole(ExactCharges(rates, lines, route), DOMAIN lines)
  PROVE  ExactPrice(rates, lines, route) = BpDenom * rates.fee + Sum(ExactCharges(rates, lines, route), DOMAIN lines)
<1> DEFINE S == DOMAIN lines
           f == ExactCharges(rates, lines, route)
           pick == Largest(S)
           One(it, s) == IF s = {} THEN 0 ELSE it[s \ {Max(s)}] + lines[Max(s)].value * LineRate(rates, lines[Max(s)].class, route)
           Two(it, s) == IF s = {} THEN 0 ELSE it[s \ {pick[s]}] + f[pick[s]]
           Solves(it) == it = [s \in SUBSET S |-> One(it, s)]
           sums == CHOOSE it : Solves(it)
<1>1. ExactPrice(rates, lines, route) = BpDenom * rates.fee + sums[S]
  BY DEF ExactPrice, FoldLeft, MapThenFoldSet
<1>2. \A i \in S : f[i] = lines[i].value * LineRate(rates, lines[i].class, route)
  BY DEF ExactCharges
<1>3. \A s \in SUBSET S : s # {} => pick[s] = Max(s) /\ Max(s) \in S
  BY LargestPicked
<1>4. ASSUME NEW it, NEW s \in SUBSET S PROVE One(it, s) = Two(it, s)
  <2> HIDE DEF S, f, pick
  <2> QED
    BY <1>2, <1>3
<1>5. \A it : [s \in SUBSET S |-> One(it, s)] = [s \in SUBSET S |-> Two(it, s)]
  <2> HIDE DEF One, Two, S
  <2> QED
    BY <1>4
<1>6. \A it : Solves(it) <=> SumLast(it, f, pick, S)
  BY <1>5 DEF SumLast
<1> HIDE DEF Solves
<1>7. (\E it : SumLast(it, f, pick, S)) => SumLast(sums, f, pick, S)
  BY <1>6
<1> HIDE DEF S, f, pick, sums
<1>8. sums[S] = Sum(f, S)
  BY <1>7, FoldOfSequence DEF S, f, pick
<1> QED
  BY <1>1, <1>8 DEF S, f

LEMMA WorthIsSum ==
  ASSUME NEW lines, NEW n \in Nat, DOMAIN lines = 1 .. n,
         Whole(Values(lines), DOMAIN lines)
  PROVE  Worth(lines) = Sum(Values(lines), DOMAIN lines)
<1> DEFINE S == DOMAIN lines
           f == Values(lines)
           pick == Largest(S)
           One(it, s) == IF s = {} THEN 0 ELSE it[s \ {Max(s)}] + lines[Max(s)].value
           Two(it, s) == IF s = {} THEN 0 ELSE it[s \ {pick[s]}] + f[pick[s]]
           Solves(it) == it = [s \in SUBSET S |-> One(it, s)]
           sums == CHOOSE it : Solves(it)
<1>1. Worth(lines) = sums[S]
  BY DEF Worth, FoldLeft, MapThenFoldSet
<1>2. \A i \in S : f[i] = lines[i].value
  BY DEF Values
<1>3. \A s \in SUBSET S : s # {} => pick[s] = Max(s) /\ Max(s) \in S
  BY LargestPicked
<1>4. ASSUME NEW it, NEW s \in SUBSET S PROVE One(it, s) = Two(it, s)
  <2> HIDE DEF S, f, pick
  <2> QED
    BY <1>2, <1>3
<1>5. \A it : [s \in SUBSET S |-> One(it, s)] = [s \in SUBSET S |-> Two(it, s)]
  <2> HIDE DEF One, Two, S
  <2> QED
    BY <1>4
<1>6. \A it : Solves(it) <=> SumLast(it, f, pick, S)
  BY <1>5 DEF SumLast
<1> HIDE DEF Solves
<1>7. (\E it : SumLast(it, f, pick, S)) => SumLast(sums, f, pick, S)
  BY <1>6
<1> HIDE DEF S, f, pick, sums
<1>8. sums[S] = Sum(f, S)
  BY <1>7, FoldOfSequence DEF S, f, pick
<1> QED
  BY <1>1, <1>8 DEF S, f

\* f is g over 10000 rounded half up, element by element.
RoundsHalfUp(f, g, S) ==
  \A i \in S : 10000 * f[i] - g[i] <= 5000 /\ -5000 < 10000 * f[i] - g[i]

\* Half a kobo per line, summed over the lines.
LEMMA RoundingSums ==
  ASSUME NEW S, IsFiniteSet(S), NEW f, NEW g, Whole(f, S), Whole(g, S), RoundsHalfUp(f, g, S)
  PROVE  /\ Sum(f, S) \in Int /\ Sum(g, S) \in Int
         /\ 10000 * Sum(f, S) - Sum(g, S) <= 5000 * Cardinality(S)
         /\ -4999 * Cardinality(S) <= 10000 * Sum(f, S) - Sum(g, S)
<1> DEFINE Error(s) == 10000 * Sum(f, s) - Sum(g, s)
           T == {s \in SUBSET S : -4999 * Cardinality(s) <= Error(s) /\ Error(s) <= 5000 * Cardinality(s)}
<1>2. \A s \in SUBSET S : /\ IsFiniteSet(s) /\ Cardinality(s) \in Nat /\ Whole(f, s) /\ Whole(g, s)
                          /\ Sum(f, s) \in Int /\ Sum(g, s) \in Int
  <2> SUFFICES ASSUME NEW s \in SUBSET S
               PROVE  /\ IsFiniteSet(s) /\ Cardinality(s) \in Nat /\ Whole(f, s) /\ Whole(g, s)
                      /\ Sum(f, s) \in Int /\ Sum(g, s) \in Int
    OBVIOUS
  <2>1. IsFiniteSet(s) /\ Cardinality(s) \in Nat
    BY FS_Subset, FS_CardinalityType
  <2>2. Whole(f, s) /\ Whole(g, s)
    BY DEF Whole
  <2> QED
    BY <2>1, <2>2, SumStep
<1>3. ASSUME NEW s \in SUBSET S, \A t \in SUBSET s : t # s => t \in T PROVE s \in T
  <2>1. CASE s = {}
    <3>1. Sum(f, s) = 0 /\ Sum(g, s) = 0 /\ Cardinality(s) = 0
      BY <1>2, <2>1, SumStep, FS_EmptySet
    <3> QED
      BY <3>1
  <2>2. CASE s # {}
    <3>1. PICK i \in s : TRUE
      BY <2>2
    <3>2. PICK r \in SUBSET S : r = s \ {i}
      OBVIOUS
    <3>3. r \in T
      BY <1>3, <3>2
    <3>4. Sum(f, s) = f[i] + Sum(f, r) /\ Sum(g, s) = g[i] + Sum(g, r)
      BY <1>2, <3>2, SumStep
    <3>5. Cardinality(r) = Cardinality(s) - 1
      BY <1>2, <3>2, FS_RemoveElement
    <3>6. /\ f[i] \in Int /\ g[i] \in Int
          /\ 10000 * f[i] - g[i] <= 5000 /\ -4999 <= 10000 * f[i] - g[i]
      BY DEF RoundsHalfUp, Whole
    <3>7. /\ Sum(f, r) \in Int /\ Sum(g, r) \in Int /\ Cardinality(s) \in Nat
      BY <1>2
    <3>8. Error(r) <= 5000 * Cardinality(r) /\ -4999 * Cardinality(r) <= Error(r)
      BY <3>3
    <3>9. Error(s) <= 5000 * Cardinality(s) /\ -4999 * Cardinality(s) <= Error(s)
      BY <3>4, <3>5, <3>6, <3>7, <3>8
    <3> QED
      BY <3>9
  <2> QED
    BY <2>1, <2>2
<1>4. S \in T
  <2>1. \A s \in SUBSET S : s \in T
    <3> HIDE DEF T
    <3> QED
      BY <1>3, SubsetInduction
  <2> QED
    BY <2>1
<1> QED
  BY <1>2, <1>4

\* What rate_quote returns for a request that it does not refuse is a number of kobo, and
\* fair.
LEMMA RatedFairly ==
  ASSUME NEW rates \in RateCards, NEW lines \in Shipments, NEW route, Rateable(rates, lines, route)
  PROVE  /\ Premium(rates, lines, route) \in Nat
         /\ FairPremium(Premium(rates, lines, route), rates, lines, route)
<1> DEFINE n == Len(lines)
           S == DOMAIN lines
           f == Charges(rates, lines, route)
           g == ExactCharges(rates, lines, route)
           v == Values(lines)
<1>1. n \in Nat /\ S = 1 .. n /\ IsFiniteSet(S) /\ Cardinality(S) = n
  <2>1. lines \in Seq([value : Int, class : Classes])
    BY MoneyAssumption
  <2>2. n \in Nat /\ S = 1 .. n
    BY <2>1
  <2> HIDE DEF n, S
  <2>3. IsFiniteSet(1 .. n) /\ Cardinality(1 .. n) = n
    BY <2>2, FS_Interval
  <2> QED
    BY <2>2, <2>3
<1>2. n > 0
  <2>1. lines \in Seq([value : Int, class : Classes]) /\ lines # <<>>
    BY MoneyAssumption DEF Rateable
  <2> QED
    BY <2>1
<1>3. rates.fee \in Nat
  BY MoneyAssumption DEF Rateable
<1>4. ASSUME NEW i \in S
      PROVE  /\ f[i] \in Nat /\ g[i] \in Nat /\ v[i] \in Nat
             /\ 10000 * f[i] - g[i] <= 5000 /\ -5000 < 10000 * f[i] - g[i]
             /\ f[i] <= v[i]
  <2> DEFINE value == lines[i].value
             rate == LineRate(rates, lines[i].class, route)
  <2>1. value \in Nat
    <3>1. lines \in Seq([value : Int, class : Classes])
      BY MoneyAssumption
    <3>2. lines[i].value \in Int
      <4> DEFINE Lines == [value : Int, class : Classes]
      <4>1. lines[i] \in Lines
        <5> HIDE DEF Lines
        <5>1. lines \in Seq(Lines) /\ i \in 1 .. Len(lines)
          BY <1>1, <3>1 DEF Lines
        <5> QED
          BY <5>1
      <4> QED
        BY <4>1
    <3>3. lines[i].value > 0
      BY DEF Rateable
    <3> QED
      BY <3>2, <3>3
  <2>2. rate \in Nat /\ rate <= BpDenom
    <3>1. rate \in 0 .. BpDenom
      BY DEF Rateable
    <3>2. BpDenom \in Int
      BY DEF BpDenom
    <3> HIDE DEF rate
    <3> QED
      BY <3>1, <3>2
  <2>3. f[i] = BpMul(value, rate) /\ g[i] = value * rate /\ v[i] = value
    BY DEF Charges, ExactCharges, Values
  <2> HIDE DEF value, rate, f, g, v
  <2>4. rate <= rate
    BY <2>2
  <2>5. value * rate \in Nat
    BY <2>1, <2>2, <2>4, Products
  <2>6. BpMul(value, rate) <= value
    BY <2>1, <2>2, <2>4, BpMulBounded
  <2>7. /\ BpMul(value, rate) \in Nat
        /\ BpDenom * BpMul(value, rate) - value * rate <= BpDenom \div 2
        /\ -(BpDenom \div 2) < BpDenom * BpMul(value, rate) - value * rate
    BY <2>1, <2>2, BpMulIsHalfUp
  <2>8. BpDenom = 10000 /\ BpDenom \div 2 = 5000
    BY SMT DEF BpDenom
  <2> QED
    BY <2>1, <2>3, <2>5, <2>6, <2>7, <2>8
<1>5. /\ Premium(rates, lines, route) = rates.fee + Sum(f, S)
      /\ ExactPrice(rates, lines, route) = BpDenom * rates.fee + Sum(g, S)
      /\ Worth(lines) = Sum(v, S)
  <2>1. Whole(f, S) /\ Whole(g, S) /\ Whole(v, S)
    BY <1>4 DEF Whole
  <2> QED
    BY <1>1, <2>1, PremiumIsSum, ExactPriceIsSum, WorthIsSum
<1> HIDE DEF n, S, f, g, v
<1>6. Whole(f, S) /\ Whole(g, S) /\ Whole(v, S) /\ RoundsHalfUp(f, g, S)
  BY <1>4 DEF Whole, RoundsHalfUp
<1>7. PICK charged \in Int, exact \in Int, worth \in Int :
        /\ charged = Sum(f, S) /\ exact = Sum(g, S) /\ worth = Sum(v, S)
        /\ 10000 * charged - exact <= 5000 * Cardinality(S)
        /\ -4999 * Cardinality(S) <= 10000 * charged - exact
  BY <1>1, <1>6, RoundingSums, SumStep
<1>8. charged <= worth
  <2>1. IsFiniteSet(S) /\ \A i \in S : f[i] <= v[i]
    BY <1>1, <1>4
  <2>2. Sum(f, S) <= Sum(v, S)
    BY <1>6, <2>1, SumOrdered
  <2> QED
    BY <1>7, <2>2
<1>9. charged \in Nat
  <2>1. IsFiniteSet(S) /\ S \in SUBSET S /\ \A i \in S : f[i] \in Nat
    BY <1>1, <1>4
  <2>2. Sum(f, S) \in Nat
    BY <2>1, SumOfPart
  <2> QED
    BY <1>7, <2>2
<1>10. PICK fee \in Nat, k \in Nat : fee = rates.fee /\ k = n /\ k = Cardinality(S) /\ k > 0
  BY <1>1, <1>2, <1>3
<1>11. BpDenom = 10000 /\ BpDenom \div 2 = 5000
  BY SMT DEF BpDenom
<1>12. /\ -(5000 * k) < 10000 * (fee + charged) - (10000 * fee + exact)
       /\ 10000 * (fee + charged) - (10000 * fee + exact) <= 5000 * k
       /\ fee + charged <= fee + worth /\ fee + charged \in Nat
  BY <1>7, <1>8, <1>9, <1>10
<1>13. /\ Premium(rates, lines, route) = fee + charged
       /\ ExactPrice(rates, lines, route) = 10000 * fee + exact
       /\ Worth(lines) = worth
       /\ rates.fee = fee /\ Len(lines) = k
  <2>1. rates.fee = fee /\ Len(lines) = k
    BY <1>10 DEF n
  <2>2. Premium(rates, lines, route) = fee + charged
    BY <1>5, <1>7, <1>10
  <2>3. ExactPrice(rates, lines, route) = 10000 * fee + exact
    BY <1>5, <1>7, <1>10, <1>11
  <2>4. Worth(lines) = worth
    BY <1>5, <1>7
  <2> QED
    BY <2>1, <2>2, <2>3, <2>4
<1>14. FairPremium(Premium(rates, lines, route), rates, lines, route)
  BY <1>11, <1>12, <1>13 DEF FairPremium
<1> QED
  BY <1>12, <1>13, <1>14

-----------------------------------------------------------------------------
(* Types: a route risk and a premium are numbers of basis points and kobo.  *)

Risk(rows) == MapThenSumSet(LAMBDA row : row.delta, rows)

Deltas(rows) == [row \in rows |-> row.delta]

\* The evidence there is was let in one envelope per ledger entry, signed and positive.
EvidenceInv ==
  /\ \A row \in ingested : row.authorised /\ row.delta > 0
  /\ \A a, b \in ingested : a.entry = b.entry => a = b

TypeInv == TypeOK /\ IsFiniteSet(quotes) /\ EvidenceInv

\* The sum over a finite set of evidence, and of none.
LEMMA RiskIsSum ==
  ASSUME NEW rows, IsFiniteSet(rows), \A row \in rows : row.delta \in Int
  PROVE  Risk(rows) = Sum(Deltas(rows), rows)
<1> DEFINE f == Deltas(rows)
           pick == [s \in SUBSET rows |-> CHOOSE x \in s : TRUE]
           One(it, s) == IF s = {} THEN 0
                         ELSE LET x == CHOOSE x \in s : TRUE IN x.delta + it[s \ {x}]
           Two(it, s) == IF s = {} THEN 0 ELSE f[pick[s]] + it[s \ {pick[s]}]
           Solves(it) == it = [s \in SUBSET rows |-> One(it, s)]
           sums == CHOOSE it : Solves(it)
<1>1. Risk(rows) = sums[rows]
  BY DEF Risk, MapThenSumSet, MapThenFoldSet
<1>2. \A s \in SUBSET rows : s # {} => pick[s] \in s /\ pick[s] = CHOOSE x \in s : TRUE
  OBVIOUS
<1>3. \A row \in rows : f[row] = row.delta
  BY DEF Deltas
<1>4. ASSUME NEW it, NEW s \in SUBSET rows PROVE One(it, s) = Two(it, s)
  <2> DEFINE first == CHOOSE x \in s : TRUE
  <2> SUFFICES ASSUME s # {} PROVE One(it, s) = Two(it, s)
    OBVIOUS
  <2>1. pick[s] = first /\ first \in rows
    BY <1>2
  <2>2. f[first] = first.delta
    BY <1>3, <2>1
  <2>3. One(it, s) = first.delta + it[s \ {first}]
    OBVIOUS
  <2>4. Two(it, s) = f[pick[s]] + it[s \ {pick[s]}]
    BY ZenonT(20)
  <2> HIDE DEF f, pick, One, Two, first
  <2> QED
    BY <2>1, <2>2, <2>3, <2>4
<1>5. \A it : [s \in SUBSET rows |-> One(it, s)] = [s \in SUBSET rows |-> Two(it, s)]
  <2> HIDE DEF One, Two
  <2> QED
    BY <1>4
<1>6. \A it : Solves(it) <=> SumFirst(it, f, pick, rows)
  <2> HIDE DEF f, pick
  <2>1. \A it : SumFirst(it, f, pick, rows) <=> it = [s \in SUBSET rows |-> Two(it, s)]
    BY DEF SumFirst
  <2> HIDE DEF One, Two
  <2> QED
    BY <1>5, <2>1
<1>7. Whole(f, rows)
  BY <1>3 DEF Whole
<1> HIDE DEF Solves, f, pick
<1>8. (\E it : SumFirst(it, f, pick, rows)) => SumFirst(sums, f, pick, rows)
  BY <1>6
<1> HIDE DEF sums
<1>9. sums[rows] = Sum(f, rows)
  BY <1>2, <1>7, <1>8, FoldIsSum
<1> QED
  BY <1>1, <1>9 DEF f

\* The route risk is a natural number of basis points.
LEMMA RouteIsNat ==
  ASSUME TypeOK, EvidenceInv
  PROVE  RouteRisk \in Nat
<1>1. IsFiniteSet(ingested) /\ \A row \in ingested : row.delta \in Nat
  <2>1. ingested \in SUBSET Envelopes
    BY DEF TypeOK
  <2>2. IsFiniteSet(ingested)
    BY <2>1, EvidenceAssumption, FS_Subset
  <2>3. ASSUME NEW row \in ingested PROVE row.delta \in Nat
    <3>1. row.delta \in Int /\ row.delta > 0
      BY <2>1, EvidenceAssumption DEF EvidenceInv
    <3> QED
      BY <3>1
  <2> QED
    BY <2>2, <2>3
<1>2. RouteRisk = Risk(ingested)
  BY DEF RouteRisk, Risk
<1>3. Risk(ingested) = Sum(Deltas(ingested), ingested)
  BY <1>1, RiskIsSum
<1>4. \A row \in ingested : Deltas(ingested)[row] \in Nat
  BY <1>1 DEF Deltas
<1>5. Sum(Deltas(ingested), ingested) \in Nat
  <2>1. ingested \in SUBSET ingested
    OBVIOUS
  <2> QED
    BY <1>1, <1>4, <2>1, SumOfPart
<1> QED
  BY <1>2, <1>3, <1>5

\* The newest version is one of the versions, or none.
LEMMA NewestIs == BoundAssumption => Newest \in 0 .. MaxVersions
<1> SUFFICES MaxVersions \in Nat => Newest \in 0 .. MaxVersions
  BY DEF BoundAssumption
<1> SUFFICES ASSUME MaxVersions \in Nat PROVE Newest \in 0 .. MaxVersions
  OBVIOUS
<1> DEFINE known == {0} \cup {v \in Versions : products[v] # "NONE"}
<1>1. known \in SUBSET (0 .. MaxVersions) /\ known # {}
  BY DEF Versions
<1> HIDE DEF known
<1>2. Max(known) \in known
  BY <1>1, MaxIs
<1> QED
  BY <1>1, <1>2 DEF Newest, known

LEMMA RequestTyped ==
  ASSUME TypeOK, NEW w \in Workers, NEW req \in Request, Set(w, req)
  PROVE  reqs' \in [Workers -> Request]
BY DEF TypeOK, Set

\* What the fields of a request are, at each of its stages.
LEMMA RequestFields ==
  ASSUME NEW r \in Request
  PROVE  /\ r.op = "insert table" => r.table \in Table
         /\ r.op = "looked up" => r.event \in Events \cup {NoEvent}
         /\ r.op = "rating" => /\ r.event \in Events \cup {NoEvent} /\ r.version \in Versions
                               /\ r.route \in Nat
         /\ r.op = "insert quote" => r.quote \in Quote
<1>1. CASE r = Idle
  BY <1>1 DEF Idle
<1>2. CASE r \in [op : {"create", "activate", "table"}, version : Versions]
  BY <1>2
<1>3. CASE r \in [op : {"insert table"}, table : Table]
  BY <1>3
<1>4. CASE r \in [op : {"looked up"}, event : Events \cup {NoEvent}]
  BY <1>4
<1>5. CASE r \in [op : {"rating"}, event : Events \cup {NoEvent}, version : Versions, route : Nat]
  BY <1>5
<1>6. CASE r \in [op : {"insert quote"}, quote : Quote]
  BY <1>6
<1> QED
  BY <1>1, <1>2, <1>3, <1>4, <1>5, <1>6 DEF Request

\* What a step of a request hands over is typed, and so is what it stores.
LEMMA CatalogueTypes ==
  ASSUME TypeInv, TableInv, NEW w \in Workers, Catalogue(w)
  PROVE  TypeInv'
<1> TypeOK /\ EvidenceInv
  BY DEF TypeInv
<1>1. UNCHANGED <<today, ingested, quotes>>
  BY DEF Catalogue, ReadVersion, CreateProduct, ActivateProduct, LoadDraft, LockProduct,
         CheckTable, AddRateTable, OnlyReqs
<1>2. ASSUME products' \in [Versions -> Statuses], tables' \subseteq Table,
             NEW req \in Request, Set(w, req)
      PROVE  TypeInv'
  <2>1. reqs' \in [Workers -> Request]
    BY <1>2, RequestTyped
  <2> QED
    BY <1>1, <1>2, <2>1 DEF TypeInv, TypeOK, EvidenceInv
<1>3. products \in [Versions -> Statuses] /\ tables \subseteq Table /\ reqs[w] \in Request
  BY DEF TypeOK
<1>4. ASSUME NEW op \in {"create", "activate", "table"}, NEW v \in Versions
      PROVE  [op |-> op, version |-> v] \in Request
  BY DEF Request
<1>5. Idle \in Request
  BY DEF Request
<1>6. CASE ReadVersion(w)
  <2>1. Newest \in 0 .. MaxVersions /\ Newest < MaxVersions /\ MaxVersions \in Nat
    BY <1>6, NewestIs, BoundAssumption DEF ReadVersion
  <2>2. Newest + 1 \in Versions
    BY <2>1 DEF Versions
  <2>3. [op |-> "create", version |-> Newest + 1] \in Request
    BY <1>4, <2>2
  <2>4. Set(w, [op |-> "create", version |-> Newest + 1]) /\ UNCHANGED <<products, tables>>
    BY <1>6 DEF ReadVersion, OnlyReqs
  <2> QED
    BY <1>2, <1>3, <2>3, <2>4
<1>7. CASE CreateProduct(w) \/ ActivateProduct(w)
  <2>1. Set(w, Idle) /\ tables' = tables
    BY <1>7 DEF CreateProduct, ActivateProduct
  <2>2. \/ products' = [products EXCEPT ![reqs[w].version] = "DRAFT"]
        \/ products' = [products EXCEPT ![reqs[w].version] = "ACTIVE"]
    BY <1>7 DEF CreateProduct, ActivateProduct
  <2>3. products' \in [Versions -> Statuses]
    BY <1>3, <2>2 DEF Statuses
  <2> QED
    BY <1>2, <1>3, <1>5, <2>1, <2>3
<1>8. ASSUME NEW v \in Versions, LoadDraft(w, v) \/ LockProduct(w, v) PROVE TypeInv'
  <2>1. PICK op \in {"activate", "table"} : Set(w, [op |-> op, version |-> v])
    BY <1>8 DEF LoadDraft, LockProduct
  <2>2. UNCHANGED <<products, tables>>
    BY <1>8 DEF LoadDraft, LockProduct, OnlyReqs
  <2>3. [op |-> op, version |-> v] \in Request
    BY <1>4
  <2> QED
    BY <1>2, <1>3, <2>1, <2>2, <2>3
<1>9. ASSUME NEW window \in Windows, NEW rates \in RateCards, CheckTable(w, window, rates)
      PROVE  TypeInv'
  <2> DEFINE table == [version |-> reqs[w].version, window |-> window, rates |-> rates]
  <2>1. reqs[w].op = "table"
    BY <1>9 DEF CheckTable
  <2>2. reqs[w].version \in Versions
    BY <2>1 DEF TableInv, HoldsKnown
  <2>3. table \in Table
    BY <2>2 DEF Table
  <2>4. Set(w, [op |-> "insert table", table |-> table]) /\ UNCHANGED <<products, tables>>
    BY <1>9 DEF CheckTable, OnlyReqs
  <2> HIDE DEF table
  <2>5. [op |-> "insert table", table |-> table] \in Request
    BY <2>3 DEF Request
  <2> QED
    BY <1>2, <1>3, <2>4, <2>5
<1>10. CASE AddRateTable(w)
  <2>1. reqs[w].op = "insert table"
    BY <1>10 DEF AddRateTable
  <2>2. reqs[w].table \in Table
    BY <1>3, <2>1, RequestFields
  <2>3. Set(w, Idle) /\ tables' = tables \cup {reqs[w].table} /\ products' = products
    BY <1>10 DEF AddRateTable
  <2> QED
    BY <1>2, <1>3, <1>5, <2>2, <2>3
<1> QED
  BY <1>6, <1>7, <1>8, <1>9, <1>10 DEF Catalogue

\* A request that only moves on to something typed.
LEMMA QuotingTypes ==
  ASSUME TypeInv, TableInv, NEW w \in Workers, Quoting(w) \/ Abandon(w)
  PROVE  TypeInv'
<1> TypeOK /\ EvidenceInv /\ IsFiniteSet(quotes)
  BY DEF TypeInv
<1>1. ASSUME NEW req \in Request, Set(w, req), OnlyReqs PROVE TypeInv'
  <2>1. reqs' \in [Workers -> Request]
    BY <1>1, RequestTyped
  <2> QED
    BY <1>1, <2>1 DEF TypeInv, TypeOK, EvidenceInv, OnlyReqs
<1>2. reqs[w] \in Request /\ Idle \in Request
  BY DEF TypeOK, Request
<1>3. CASE Abandon(w)
  BY <1>1, <1>2, <1>3 DEF Abandon
<1>4. ASSUME NEW event \in Events \cup {NoEvent}, LookUp(w, event) PROVE TypeInv'
  <2>1. [op |-> "looked up", event |-> event] \in Request
    BY DEF Request
  <2> QED
    BY <1>1, <1>4, <2>1 DEF LookUp
<1>5. ASSUME NEW v \in Versions, LoadProduct(w, v) PROVE TypeInv'
  <2>1. PICK route \in {0, RouteRisk} :
          Set(w, [op |-> "rating", event |-> reqs[w].event, version |-> v, route |-> route])
    BY <1>5 DEF LoadProduct
  <2>2. route \in Nat
    BY RouteIsNat
  <2>3. reqs[w].op = "looked up" /\ OnlyReqs
    BY <1>5 DEF LoadProduct
  <2>4. reqs[w].event \in Events \cup {NoEvent}
    BY <1>2, <2>3, RequestFields
  <2>5. [op |-> "rating", event |-> reqs[w].event, version |-> v, route |-> route] \in Request
    BY <2>2, <2>4 DEF Request
  <2> QED
    BY <1>1, <2>1, <2>3, <2>5
<1>6. ASSUME NEW lines \in Shipments, RateQuote(w, lines) PROVE TypeInv'
  <2> DEFINE v == reqs[w].version
             rates == EffectiveTable(v, today).rates
             route == reqs[w].route
             event == reqs[w].event
             quote == [no |-> 1, version |-> v, day |-> today, rates |-> rates, lines |-> lines,
                       route |-> route, event |-> event, premium |-> Premium(rates, lines, route)]
  <2>1. /\ Set(w, [op |-> "insert quote", quote |-> quote]) /\ OnlyReqs
        /\ reqs[w].op = "rating" /\ Rateable(rates, lines, route)
        /\ Covering(v, today) # {} /\ Cardinality(quotes) < MaxQuotes
    BY <1>6 DEF RateQuote
  <2>2. v \in Versions /\ route \in Nat /\ event \in Events \cup {NoEvent}
    BY <1>2, <2>1, RequestFields
  <2>3. today \in Days
    BY DEF TypeOK
  <2>4. PICK t : t \in Covering(v, today)
    BY <2>1
  <2>5. t \in Table /\ EffectiveTable(v, today) = t
    BY <2>3, <2>4, TheCovering DEF TypeOK, Covering
  <2>6. rates \in RateCards
    BY <2>5 DEF Table
  <2>7. Premium(rates, lines, route) \in Nat
    <3> HIDE DEF rates, route
    <3> QED
      BY <2>1, <2>6, RatedFairly
  <2>8. 1 \in 1 .. MaxQuotes
    <3>1. Cardinality(quotes) \in Nat /\ Cardinality(quotes) < MaxQuotes /\ MaxQuotes \in Nat
      BY <2>1, FS_CardinalityType, BoundAssumption
    <3> QED
      BY <3>1
  <2>9. quote \in Quote
    <3> HIDE DEF v, rates, route, event
    <3> QED
      BY <2>2, <2>3, <2>6, <2>7, <2>8 DEF Quote
  <2> HIDE DEF quote
  <2>10. [op |-> "insert quote", quote |-> quote] \in Request
    BY <2>9 DEF Request
  <2> QED
    BY <1>1, <2>1, <2>10
<1>7. CASE CreateQuote(w)
  <2> DEFINE n == Cardinality(quotes) + 1
             stored == [reqs[w].quote EXCEPT !.no = n]
  <2>1. /\ reqs[w].op = "insert quote" /\ Cardinality(quotes) < MaxQuotes
        /\ quotes' = quotes \cup {stored} /\ Set(w, Idle)
        /\ UNCHANGED <<today, products, tables, ingested>>
    BY <1>7 DEF CreateQuote
  <2>2. reqs[w].quote \in Quote
    BY <1>2, <2>1, RequestFields
  <2>3. n \in 1 .. MaxQuotes
    <3>1. Cardinality(quotes) \in Nat /\ MaxQuotes \in Nat /\ Cardinality(quotes) < MaxQuotes
      BY <2>1, FS_CardinalityType, BoundAssumption
    <3> QED
      BY <3>1
  <2>4. stored \in Quote
    <3> HIDE DEF n
    <3> QED
      BY <2>2, <2>3 DEF Quote
  <2> HIDE DEF stored
  <2>5. quotes' \subseteq Quote /\ IsFiniteSet(quotes')
    BY <2>1, <2>4, FS_AddElement DEF TypeOK
  <2>6. reqs' \in [Workers -> Request]
    BY <1>2, <2>1, RequestTyped
  <2> QED
    BY <2>1, <2>5, <2>6 DEF TypeInv, TypeOK, EvidenceInv
<1> QED
  BY <1>3, <1>4, <1>5, <1>6, <1>7 DEF Quoting

LEMMA TypeInit == Init => TypeInv
<1> SUFFICES ASSUME Init PROVE TypeInv
  OBVIOUS
<1>1. today \in Days
  BY BoundAssumption DEF Init, Days
<1>2. products \in [Versions -> Statuses] /\ reqs \in [Workers -> Request]
  BY DEF Init, Statuses, Request
<1>3. IsFiniteSet(quotes)
  BY FS_EmptySet DEF Init
<1> QED
  BY <1>1, <1>2, <1>3 DEF Init, TypeInv, TypeOK, EvidenceInv

\* Every step keeps the types, and lets in signed evidence of an increase in risk, once
\* per ledger entry (ingest_evidence).
LEMMA TypeStep == TypeInv /\ TableInv /\ [Next]_vars => TypeInv'
<1> SUFFICES ASSUME TypeInv, TableInv, [Next]_vars PROVE TypeInv'
  OBVIOUS
<1>1. CASE Midnight
  <2>1. today \in Days /\ today < MaxDays /\ today' = today + 1
        /\ UNCHANGED <<products, tables, ingested, quotes, reqs>>
    BY <1>1 DEF Midnight, TypeInv, TypeOK
  <2>2. today' \in Days
    BY <2>1, BoundAssumption DEF Days
  <2> QED
    BY <2>1, <2>2 DEF TypeInv, TypeOK, EvidenceInv
<1>2. ASSUME NEW env \in Envelopes, IngestEvidence(env) PROVE TypeInv'
  <2>1. /\ env.authorised /\ env.delta > 0 /\ ingested' = ingested \cup {env}
        /\ \A row \in ingested : row.entry # env.entry
        /\ UNCHANGED <<today, products, tables, quotes, reqs>>
    BY <1>2 DEF IngestEvidence
  <2>2. EvidenceInv'
    BY <2>1 DEF TypeInv, EvidenceInv
  <2> QED
    BY <2>1, <2>2 DEF TypeInv, TypeOK
<1>3. CASE UNCHANGED vars
  BY <1>3 DEF vars, TypeInv, TypeOK, EvidenceInv
<1> QED
  BY <1>1, <1>2, <1>3, CatalogueTypes, QuotingTypes DEF Next

\* Rows and requests have their types: no version, window or rate card comes from
\* nowhere, no route risk and no premium is negative (rate_quote, corridor_route_risk).
THEOREM TariffsTyped == Spec => []TypeOK
<1>1. Init => TypeInv /\ TableInv
  BY TypeInit, TableInit
<1>2. TypeInv /\ TableInv /\ [Next]_vars => TypeInv' /\ TableInv'
  BY TypeStep, TableStep
<1>3. TypeInv => TypeOK
  BY DEF TypeInv
<1> QED
  BY <1>1, <1>2, <1>3, PTL DEF Spec

-----------------------------------------------------------------------------
(* Fair premiums.                                                          *)

Fair(q) == FairPremium(q.premium, q.rates, q.lines, q.route) /\ q.route \in HonestRoutes

\* What a request carries to the insert, and the route risk it rates with, are fair.
FairInv ==
  /\ \A q \in quotes : Fair(q)
  /\ \A w \in Workers : /\ reqs[w].op = "rating" => reqs[w].route \in HonestRoutes
                        /\ reqs[w].op = "insert quote" => Fair(reqs[w].quote)

\* The route risk of a corridor is the sum of an honest set of evidence, and so is none.
LEMMA RoutesAreHonest ==
  ASSUME TypeInv, NEW route \in {0, RouteRisk}
  PROVE  route \in HonestRoutes
<1> DEFINE Distinct(rows) == \A a, b \in rows : a.entry = b.entry => a = b
           Valid == {env \in Envelopes : env.authorised /\ env.delta > 0}
           Honest == {some \in SUBSET Valid : Distinct(some)}
<1>1. HonestRoutes = {Risk(rows) : rows \in Honest}
  BY DEF HonestRoutes, Risk
<1>2. ingested \in Honest /\ {} \in Honest
  BY DEF TypeInv, TypeOK, EvidenceInv
<1>3. RouteRisk = Risk(ingested)
  BY DEF RouteRisk, Risk
<1>4. Risk({}) = 0
  <2>1. Risk({}) = Sum(Deltas({}), {})
    BY RiskIsSum, FS_EmptySet
  <2>2. Sum(Deltas({}), {}) = 0
    BY SumStep, FS_EmptySet DEF Whole
  <2> QED
    BY <2>1, <2>2
<1> HIDE DEF Honest
<1> QED
  BY <1>1, <1>2, <1>3, <1>4

\* A request hands on what is fair, and stores nothing.
LEMMA FairMove ==
  ASSUME TypeInv, FairInv, NEW w \in Workers, NEW req, Set(w, req), UNCHANGED quotes,
         req.op = "rating" => req.route \in HonestRoutes,
         req.op = "insert quote" => Fair(req.quote)
  PROVE  FairInv'
<1>1. \A u \in Workers : reqs'[u] = IF u = w THEN req ELSE reqs[u]
  BY DEF TypeInv, TypeOK, Set
<1>2. \A u \in Workers : /\ reqs'[u].op = "rating" => reqs'[u].route \in HonestRoutes
                         /\ reqs'[u].op = "insert quote" => Fair(reqs'[u].quote)
  BY <1>1 DEF FairInv
<1> QED
  BY <1>2 DEF FairInv, Fair

LEMMA FairStep == TypeInv /\ TableInv /\ FairInv /\ [Next]_vars => FairInv'
<1> SUFFICES ASSUME TypeInv, TableInv, FairInv, [Next]_vars PROVE FairInv'
  OBVIOUS
<1> TypeOK
  BY DEF TypeInv
<1>1. CASE UNCHANGED <<quotes, reqs>>
  BY <1>1 DEF FairInv, Fair
<1>2. ASSUME NEW w \in Workers, Catalogue(w) \/ Abandon(w) PROVE FairInv'
  <2>1. UNCHANGED quotes
    BY <1>2, CatalogueSets
  <2>2. PICK req : Set(w, req) /\ req.op # "rating" /\ req.op # "insert quote"
    BY <1>2, CatalogueSets
  <2> QED
    BY <2>1, <2>2, FairMove
<1>3. ASSUME NEW w \in Workers, NEW event \in Events \cup {NoEvent}, LookUp(w, event) PROVE FairInv'
  <2> DEFINE req == [op |-> "looked up", event |-> event]
  <2>1. Set(w, req) /\ UNCHANGED quotes
    BY <1>3 DEF LookUp, OnlyReqs
  <2>2. req.op = "looked up"
    OBVIOUS
  <2> HIDE DEF req
  <2> QED
    BY <2>1, <2>2, FairMove
<1>4. ASSUME NEW w \in Workers, NEW v \in Versions, LoadProduct(w, v) PROVE FairInv'
  <2>1. PICK route \in {0, RouteRisk} :
          Set(w, [op |-> "rating", event |-> reqs[w].event, version |-> v, route |-> route])
    BY <1>4 DEF LoadProduct
  <2> DEFINE req == [op |-> "rating", event |-> reqs[w].event, version |-> v, route |-> route]
  <2>2. Set(w, req) /\ UNCHANGED quotes
    BY <1>4, <2>1 DEF LoadProduct, OnlyReqs
  <2>3. req.op = "rating" /\ req.route = route /\ route \in HonestRoutes
    BY RoutesAreHonest
  <2> HIDE DEF req
  <2> QED
    BY <2>2, <2>3, FairMove
<1>5. ASSUME NEW w \in Workers, NEW lines \in Shipments, RateQuote(w, lines) PROVE FairInv'
  <2> DEFINE v == reqs[w].version
             rates == EffectiveTable(v, today).rates
             route == reqs[w].route
             quote == [no |-> 1, version |-> v, day |-> today, rates |-> rates, lines |-> lines,
                       route |-> route, event |-> reqs[w].event,
                       premium |-> Premium(rates, lines, route)]
             req == [op |-> "insert quote", quote |-> quote]
  <2>1. /\ Set(w, req) /\ UNCHANGED quotes
        /\ reqs[w].op = "rating" /\ Rateable(rates, lines, route) /\ Covering(v, today) # {}
    BY <1>5 DEF RateQuote, OnlyReqs
  <2>2. route \in HonestRoutes
    BY <2>1 DEF FairInv
  <2>3. PICK t : t \in Covering(v, today)
    BY <2>1
  <2>4. t \in Table /\ EffectiveTable(v, today) = t
    BY <2>3, TheCovering DEF TypeOK, Covering
  <2>5. rates \in RateCards
    BY <2>4 DEF Table
  <2>6. FairPremium(Premium(rates, lines, route), rates, lines, route)
    <3> HIDE DEF rates, route
    <3> QED
      BY <2>1, <2>5, RatedFairly
  <2>7. /\ quote.premium = Premium(rates, lines, route) /\ quote.rates = rates
        /\ quote.lines = lines /\ quote.route = route
    <3> HIDE DEF v, rates, route
    <3> QED
      OBVIOUS
  <2> HIDE DEF rates, route, quote
  <2>8. Fair(quote)
    BY <2>2, <2>6, <2>7 DEF Fair
  <2>9. req.op = "insert quote" /\ req.quote = quote
    OBVIOUS
  <2> HIDE DEF req
  <2> QED
    BY <2>1, <2>8, <2>9, FairMove
<1>6. ASSUME NEW w \in Workers, CreateQuote(w) PROVE FairInv'
  <2> DEFINE old == reqs[w].quote
             n == Cardinality(quotes) + 1
             stored == [old EXCEPT !.no = n]
  <2>1. reqs[w].op = "insert quote" /\ quotes' = quotes \cup {stored} /\ Set(w, Idle)
    BY <1>6 DEF CreateQuote
  <2>2. old \in Quote /\ Fair(old)
    BY <2>1, RequestFields DEF FairInv, TypeOK
  <2>3. /\ stored.premium = old.premium /\ stored.rates = old.rates
        /\ stored.lines = old.lines /\ stored.route = old.route
    <3> HIDE DEF old, n
    <3> QED
      BY <2>2 DEF Quote
  <2> HIDE DEF old, stored
  <2>4. Fair(stored)
    BY <2>2, <2>3 DEF Fair
  <2>5. \A u \in Workers : reqs'[u] = IF u = w THEN Idle ELSE reqs[u]
    BY <2>1 DEF TypeOK, Set
  <2>6. Idle.op = "idle"
    BY DEF Idle
  <2>7. \A u \in Workers : /\ reqs'[u].op = "rating" => reqs'[u].route \in HonestRoutes
                           /\ reqs'[u].op = "insert quote" => Fair(reqs'[u].quote)
    BY <2>5, <2>6 DEF FairInv
  <2>8. \A q \in quotes' : Fair(q)
    BY <2>1, <2>4 DEF FairInv
  <2> QED
    BY <2>7, <2>8 DEF FairInv, Fair
<1>7. Midnight \/ (\E env \in Envelopes : IngestEvidence(env)) \/ UNCHANGED vars
        => UNCHANGED <<quotes, reqs>>
  BY DEF Midnight, IngestEvidence, vars
<1> QED
  BY <1>1, <1>2, <1>3, <1>4, <1>5, <1>6, <1>7 DEF Next, Quoting

\* Whatever the amounts, rates, lines and evidence: the premium of every stored quote is
\* within half a kobo per line of the exact price and charges no line more than its value
\* (rate_quote), on a route risk that authorised evidence adds up to, each ledger entry
\* once (corridor_route_risk, ingest_evidence).
THEOREM PremiumsAreFair == Spec => []PremiumIsFair
<1>1. Init => TypeInv /\ TableInv /\ FairInv
  <2>1. Idle.op = "idle"
    BY DEF Idle
  <2>2. Init => FairInv
    BY <2>1 DEF Init, FairInv
  <2> QED
    BY <2>2, TypeInit, TableInit
<1>2. TypeInv /\ TableInv /\ FairInv /\ [Next]_vars => TypeInv' /\ TableInv' /\ FairInv'
  BY TypeStep, TableStep, FairStep
<1>3. FairInv => PremiumIsFair
  BY DEF FairInv, Fair, PremiumIsFair
<1> QED
  BY <1>1, <1>2, <1>3, PTL DEF Spec
=============================================================================
