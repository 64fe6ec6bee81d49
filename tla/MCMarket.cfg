SPECIFICATION FairMarketSpec
CONSTANTS
  Times = {1, 2}
  Prices = {p}
  Callers = {i1, i2}
  QueueBound = 2
  MaxVersion = 3
  Nothing = Nothing
  Clients = {c1}
  Refreshes = {r1, r2}
CHECK_DEADLOCK FALSE
INVARIANTS
  MarketInv
  LivePriceIsCurrent
PROPERTIES
  SnapshotsMoveForward
  QuoteComesFirst
  EveryChangeIsShown
