SPECIFICATION ClientSpec
CONSTANTS
  Symbols = {t1, t2}
  NoSymbol = NoSymbol
  WebSockets = {s1, s2}
  NoSocket = NoSocket
  NoQuote = NoQuote
  FeedRoutes = {home}
  Elsewhere = portfolio
  MaxMoves = 1
CHECK_DEADLOCK FALSE
INVARIANTS ShownIsCurrent
