SPECIFICATION MCSpec
CONSTANTS
  r1 = r1
  r2 = r2
  t1 = t1
  t2 = t2
  ema = ema
  currency = currency
  Requests <- TwoRequests
  MainPortfolio = p0
  Portfolios = {p0, p1}
  MainWatchlist = w0
  Watchlists = {w0, w1}
  Names = {"main", "Tech", "tech"}
  Lower <- MCLower
  NoName = NoName
  MainName = "main"
  Tickers <- TwoTickers
  Quantities = {1, 2}
  Prices = {1, 2}
  Keys <- TwoKeys
  Options = {c1}
  Unset = Unset
  NoRequest = NoRequest
  MaxWrites = 4
  Contracts = {1}
  Terms = {1, 2}
  Entries = {1}
  MaxEntries = 3
  nvda = nvda
  amd = amd
  Tasks <- TwoRequests
  Symbols <- MCSymbols
  Seed <- MCSeed
  Details = {1, 2}
  Objects = {o1, o2}
  Ids = {1, 2}
  NoObject = NoObject
  Closed = Closed
  Budget = 5
INVARIANTS HoldingMatchesLedger CountsComplete
INVARIANTS DemoKeepsWord
PROPERTIES ChoicesKept ClosedIsFinal RoutesAreAtomic
SYMMETRY Symmetry
