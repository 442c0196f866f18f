SPECIFICATION Spec
CONSTANTS
  p1 = p1
  c1 = c1
  c2 = c2
  ann = ann
  ben = ben
  r1 = r1
  r2 = r2
  none = none
  NoOne = none
  Unknown = none
  Policies = {p1}
  InsuredValue <- MCInsuredValue
  ClaimIds = {c1}
  Principals = {ann, ben}
  References = {r1, r2}
  Amounts = {1}
  MaxFilings = 1
  MaxStale = 2
INVARIANTS OnePayout
SYMMETRY Symmetry
CHECK_DEADLOCK FALSE
