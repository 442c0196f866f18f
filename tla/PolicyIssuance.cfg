SPECIFICATION FairSpec
CONSTANTS
  w1 = w1
  w2 = w2
  w3 = w3
  q1 = q1
  q2 = q2
  q3 = q3
  q4 = q4
  crg26 = crg26
  crg27 = crg27
  None = None
  Workers <- MCWorkers
  Quotes <- MCQuotes
  Slots <- MCSlots
  SlotOf <- MCSlotOf
  MaxSeq = 1
  FamilyOf <- MCFamilyOf
  YearOf <- MCYearOf
  Earlier = 1234567889
  IndexLimit = 3
INVARIANTS TypeOK OnePolicyPerQuote GaplessSequences DenseIndexes NoCollision TyposAreRefused
PROPERTIES ImplementsRegister RequestsEnd
