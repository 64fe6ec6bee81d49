\* One reminder, one worker: an accepted reminder whose row says FAILED.
SPECIFICATION OutboxSpec
CONSTANTS
  Events = {1}
  Kind <- MCKind
  Dispatchers = {d1}
  Workers = {w1}
  BatchSize = 1
  ReviewSize = 2
  MaxStalls = 1
  MaxCrashes = 1
  JobsMayVanish = FALSE
  Nobody = Nobody
INVARIANT FailedWasNotDelivered
CHECK_DEADLOCK FALSE
