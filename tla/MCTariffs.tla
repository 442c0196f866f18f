------------------------------ MODULE MCTariffs ------------------------------
EXTENDS Tariffs, TLC

CONSTANTS w1, w2, none, e1, e2, decl

\* One table rates dry cargo only and discounts it; the other has a default, a
\* loading that can take a line past 100 %, and a small cap on route risk.
MCRateCards ==
  {[base |-> ("dry" :> 33), default |-> none, fee |-> 1, cap |-> 10000,
    loading |-> ("dry" :> -60 @@ "wet" :> 0)],
   [base |-> ("dry" :> 125), default |-> 9900, fee |-> 0, cap |-> 90,
    loading |-> ("dry" :> 0 @@ "wet" :> 50)]}

\* Values whose prices end on either side of half a kobo.
MCShipments == {<<[value |-> 1000, class |-> "dry"]>>,
                <<[value |-> 77, class |-> "dry"], [value |-> 30, class |-> "wet"]>>}

\* A ledger entry, the same entry in a second envelope, one that no operator has
\* authorised, and one that would take the risk down.
Evidence(entry, event, delta, authorised) ==
  [entry |-> entry, event |-> event, delta |-> delta, authorised |-> authorised]

MCEnvelopes == {Evidence(e1, 1, 100, TRUE), Evidence(e1, 2, 100, TRUE),
                Evidence(e2, 3, 50, FALSE), Evidence(e2, 4, -100, TRUE)}

\* Two that follow each other with no day in common, and one over both.
MCWindows == {[from |-> 1, to |-> 2], [from |-> 3, to |-> 4], [from |-> 1, to |-> 4]}

Symmetry == Permutations(Workers)
=============================================================================
