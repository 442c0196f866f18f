SPECIFICATION Spec
CONSTANTS
  w1 = w1
  w2 = w2
  b1 = b1
  b2 = b2
  Writers = {w1, w2}
  Publishers = {b1, b2}
  k1 = k1
  Callers = {w1}
  Calls = {k1}
  Batch = 2
  MaxTicks = 3
  MaxFailures = 1
INVARIANTS TypeOK ChainIntact DeliveryIsHonest DuplicatesFromFailures FirstSeenInOrder
PROPERTIES EventuallyPublished 
CHECK_DEADLOCK FALSE
