SPECIFICATION MCFairSpec
CONSTANTS
  r1 = r1
  r2 = r2
  r3 = r3
  Threads = {r1, r2, r3}
  Answering = {r2, r3}
  NoEvent = NoEvent
  Never = Never
  ShareTTL = 1
  MaxTime = 2
  near = near
  far = far
  other = other
  Clients = {near, far, other}
  NoAddress = NoAddress
  Forwarded <- MCForwarded
  TrustProxy = TRUE
  Limit = 2
  Window = 2
  MaxKeys = 2
  MaxClock = 5
  MaxRequests = 3
  Markers <- SessionOnlyOrOlder
  None = None
CHECK_DEADLOCK FALSE
INVARIANTS OneRefresh WindowHolds
INVARIANTS SessionKept MarkerMatchesLogin
PROPERTIES Returns
