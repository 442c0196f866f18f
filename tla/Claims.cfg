SPECIFICATION Spec
CONSTANTS
  p1 = p1
  c1 = c1
  c2 = c2
  ann = ann
  ben = ben
  r1 = r1
  r2 = r2
  none = none
  NoOne = none
  Unknown = none
  Policies = {p1}
  InsuredValue <- MCInsuredValue
  ClaimIds = {c1, c2}
  Principals = {ann, ben}
  References = {r1, r2}
  Amounts = {1, 2}
  MaxFilings = 2
  MaxStale = 2
INVARIANTS TypeOK PayoutMatchesJournal SettlementsCovered AggregateCap OneStory
PROPERTIES PostedByTwoPairs StageByStage
SYMMETRY Symmetry
CONSTRAINT OneSettled
CHECK_DEADLOCK FALSE
