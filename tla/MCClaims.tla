------------------------------- MODULE MCClaims -------------------------------
EXTENDS Claims, TLC

CONSTANTS p1, c1, c2, ann, ben, r1, r2, none

\* The largest amount: claims for it exhaust the policy, smaller ones leave room.
MCInsuredValue == [p \in Policies |-> Max(Amounts)]

\* Claims, principals and external references are interchangeable.
Symmetry == Permutations(Principals) \cup Permutations(References) \cup Permutations(ClaimIds)

\* Bound: one claim goes on to documents and a settlement, the other one only counts
\* towards the cap or is rejected, and claims are filed until the first settlement is
\* posted.  Handlers of a claim read nothing of another one but what the cap sums up,
\* and the cap sums up a posted claim as it does any other.
OneSettled ==
  /\ Cardinality(documented \cup {a.claim : a \in attaching} \cup {r.claim : r \in paying}) <= 1
  /\ journal # {} => filing = {}
=============================================================================
