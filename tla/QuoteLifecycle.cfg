SPECIFICATION Spec
CONSTANTS
  q1 = q1
  q2 = q2
  ann = ann
  ben = ben
  cem = cem
  NoOne = NoOne
  Quotes <- MCQuotes
  Principals <- MCPrincipals
  Premiums <- MCPremiums
INVARIANTS TypeOK BooksFollowBind DecisionMatchesQuote PolicyFromBind
PROPERTIES NeverBackward ImplementsAgreement
