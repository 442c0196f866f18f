-------------------------- MODULE MCPolicyEconomics --------------------------
EXTENDS PolicyEconomics, TLC

CONSTANTS p1, p2, mia, noa, r1, r2, none

MCBoundPremium == [p \in Policies |-> 2]

MCDeltas == {-2, 0, 1}

\* Policies, principals and external references are interchangeable.
Symmetry == Permutations(Principals) \cup Permutations(References) \cup Permutations(Policies)

\* Bound: one policy is endorsed at most.  Payments and sweeps meet both.
OneEndorsed == \A p, q \in Policies : p # q => endorsements[p] = <<>> \/ endorsements[q] = <<>>
=============================================================================
