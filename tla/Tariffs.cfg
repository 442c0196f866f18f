SPECIFICATION Spec
CONSTANTS
  w1 = w1
  w2 = w2
  none = none
  e1 = e1
  e2 = e2
  decl = decl
  Classes = {"dry", "wet"}
  NoRate = none
  Workers = {w1, w2}
  Windows <- MCWindows
  RateCards <- MCRateCards
  Shipments <- MCShipments
  Envelopes <- MCEnvelopes
  Events = {decl}
  NoEvent = none
  MaxVersions = 2
  MaxDays = 3
  MaxTables = 2
  MaxQuotes = 1
INVARIANTS TypeOK OneTablePerDay QuotesRederivable PremiumIsFair
SYMMETRY Symmetry
CHECK_DEADLOCK FALSE
