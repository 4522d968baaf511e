SPECIFICATION FairSpec
CONSTANTS
  Tickers = {t1, t2}
  Fetches = {f1}
  Jobs = {j1, j2}
  Prices = {100}
  NoQuote = NoQuote
  Raised = Raised
  NoJob = NoJob
  NoTicker = NoTicker
  Polygon = TRUE
  Permits = 1
  StaleAfter = 0
  CacheTTL = 1
  BundleTTL = 1
  MaxTickers = 1
  Routes = 1
  MaxTime = 1
INVARIANTS ResourcesBounded FreshMeansRecent
PROPERTIES FetchReturns
