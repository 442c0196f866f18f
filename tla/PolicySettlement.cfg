SPECIFICATION Spec
CONSTANTS
  p1 = p1
  p2 = p2
  mia = mia
  noa = noa
  r1 = r1
  r2 = r2
  none = none
  NoOne = none
  Unknown = none
  NGN = "NGN"
  Policies = {p1}
  Principals = {mia, noa}
  References = {r1, r2}
  Currencies = {"NGN", "USD"}
  Amounts = {1, 2, 3}
  MaxEndorsements = 2
  BoundPremium <- MCBoundPremium
  Deltas <- MCDeltas
PROPERTY OwedCanBePaid
