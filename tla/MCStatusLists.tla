---------------------------- MODULE MCStatusLists ----------------------------
EXTENDS StatusLists, TLC

CONSTANTS p1, p2, p3, w1, w2

\* Policies and workers are interchangeable.
Symmetry == Permutations(Policies) \cup Permutations(Workers)
=============================================================================
