SPECIFICATION Spec
CONSTANTS
  Tickers = {t1}
  Fetches = {f1}
  Jobs = {j1}
  Prices = {100}
  NoQuote = NoQuote
  Raised = Raised
  NoJob = NoJob
  NoTicker = NoTicker
  Polygon = FALSE
  Permits = 1
  StaleAfter = 1
  CacheTTL = 2
  BundleTTL = 1
  MaxTickers = 1
  Routes = 1
  MaxTime = 4
INVARIANTS NeverUnboundedlyOld
