SPECIFICATION Spec
CONSTANTS
  t1 = t1
  t2 = t2
  s1 = s1
  s2 = s2
  w1 = w1
  w2 = w2
  NoPrice = NoPrice
  NoTicker = NoTicker
  NoWorker = NoWorker
  NoSnapshot = NoSnapshot
  Prices = {100}
  Sockets <- TwoSockets
  Tickers <- TwoTickers
  Workers <- TwoWorkers
  MaxActive = 1
  MaxSubs = 2
  MaxSnaps = 1
  TTL = 0
  MaxSeq = 2
  MaxTime = 1
SYMMETRY Symmetry
CHECK_DEADLOCK FALSE
INVARIANTS
  WatchedIsPolled
  NoLeakedSubscriber
PROPERTIES
  WatchedPriceKept
  ImplementsFeed
