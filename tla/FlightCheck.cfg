SPECIFICATION FairSpec
CONSTANTS
  atr = atr
  history = history
  Keys = {atr, history}
  Threads = {t1, t2}
  Flights = {f1, f2, f3}
  Needs <- MCNeeds
  NoKey = NoKey
  NoFlight = NoFlight
  NoValue = NoValue
  Failed = Failed
  TTL = 1
  MaxTime = 1
PROPERTIES CallsReturn
CHECK_DEADLOCK TRUE
INVARIANTS OneProducer FreshAnswers NoneStuck
