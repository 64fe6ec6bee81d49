\* One reminder, two workers, two dispatchers, a queue that may lose jobs.
SPECIFICATION OutboxSpec
CONSTANTS
  Events = {1}
  Kind <- MCKind
  Dispatchers = {d1, d2}
  Workers = {w1, w2}
  BatchSize = 1
  ReviewSize = 2
  MaxStalls = 1
  MaxCrashes = 2
  JobsMayVanish = TRUE
  Nobody = Nobody
SYMMETRY MCSymmetry
INVARIANT OutboxInv
INVARIANT AtMostOnce
PROPERTY ImplementsDelivery
CHECK_DEADLOCK FALSE
