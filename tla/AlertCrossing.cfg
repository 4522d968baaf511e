SPECIFICATION MCSpec
CONSTANTS
  cross = cross
  level = level
  Alerts = {cross, level}
  Fetchers = {hub}
  Evals = {e1, e2}
  Prices = {1, 2}
  NoPrice = NoPrice
  NoTarget = NoTarget
  NoTicker = NoTicker
  NoRule = NoRule
  Never = Never
  Ticker = T
  Tickers = {T}
  Recovery <- MCRecovery
  Initials <- MCInitials
  Drafts <- MCDrafts
  Edits <- MCEdits
  Limits = {1, 2}
  MaxEdits = 2
  MinInterval = 2
  MaxPreviousAge = 10
  Concurrency = 2
  MaxTime = 3
PROPERTIES CrossingsEvaluated
