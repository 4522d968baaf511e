SPECIFICATION MCFairSpec
CONSTANTS
  \* the hub
  t1 = t1
  t2 = t2
  s1 = s1
  s2 = s2
  w1 = w1
  w2 = w2
  NoPrice = NoPrice
  NoTicker = NoTicker
  NoWorker = NoWorker
  NoSnapshot = NoSnapshot
  Prices = {100}
  Sockets <- TwoSockets
  Tickers <- OneTicker
  Workers <- TwoWorkers
  MaxActive = 1
  MaxSubs = 2
  MaxSnaps = 1
  TTL = 0
  MaxSeq = 2
  MaxTime = 0
  \* the browser
  Symbols = {a, b}
  NoSymbol = NoSymbol
  WebSockets = {old, new}
  NoSocket = NoSocket
  NoQuote = NoQuote
  FeedRoutes = {home}
  Elsewhere = portfolio
  MaxMoves = 6
CHECK_DEADLOCK FALSE
INVARIANTS OldPriceTended OneFeed FeedWatched
PROPERTIES Served CleanedUp
PROPERTIES FeedComesUp OldPriceGoes
