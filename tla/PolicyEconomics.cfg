SPECIFICATION Spec
CONSTANTS
  p1 = p1
  p2 = p2
  mia = mia
  noa = noa
  r1 = r1
  r2 = r2
  none = none
  NoOne = none
  Unknown = none
  NGN = "NGN"
  Policies = {p1, p2}
  Principals = {mia, noa}
  References = {r1, r2}
  Currencies = {"NGN", "USD"}
  Amounts = {0, 2, 3}
  MaxEndorsements = 2
  BoundPremium <- MCBoundPremium
  Deltas <- MCDeltas
INVARIANTS TypeOK BooksFollowPolicy PaidOnce EndorsementJournals
PROPERTIES PremiumNeedsTwo
SYMMETRY Symmetry
CONSTRAINT OneEndorsed
CHECK_DEADLOCK FALSE
