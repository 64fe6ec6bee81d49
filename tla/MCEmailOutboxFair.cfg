\* Liveness: two notices of changed passwords, one dispatcher and one worker, and
\* batches of one, so that a row whose job is over stands before the next.
SPECIFICATION FairOutboxSpec
CONSTANTS
  Events = {2, 3}
  Kind <- MCKind
  Dispatchers = {d1}
  Workers = {w1}
  BatchSize = 1
  ReviewSize = 2
  MaxStalls = 1
  MaxCrashes = 1
  JobsMayVanish = FALSE
  Nobody = Nobody
PROPERTY EventuallyQueued
PROPERTY SettledOrReported
CHECK_DEADLOCK FALSE
