----------------------------- MODULE RateLimiter -----------------------------
(***************************************************************************)
(* SlidingWindowRateLimiter (rate_limit.py) behind the middleware of       *)
(* main.py, which asks one limiter for the sensitive authentication        *)
(* routes, one for the simulations and one for GET /api/quote.  The three  *)
(* share nothing: this is any of them.  A refused request is answered 429  *)
(* with the seconds to wait; every other request goes on to its route.     *)
(*                                                                         *)
(* The limiter bounds its memory too: at the limit of keys, a new client   *)
(* takes the place of the client whose record is the oldest.               *)
(***************************************************************************)
EXTENDS Integers, Sequences

CONSTANTS
  Clients,     \* IP addresses
  NoAddress,   \* a hop that is not an IP address
  Forwarded,   \* values of X-Forwarded-For, as sequences of hops
  TrustProxy,  \* TRUST_PROXY_HEADERS
  Limit, Window,
  MaxKeys,
  MaxClock     \* bound: last tick of the limiter's clock

ASSUME LimiterAssumption ==
  /\ TrustProxy \in BOOLEAN
  /\ NoAddress \notin Clients /\ Forwarded \subseteq Seq(Clients \cup {NoAddress})
  /\ Limit \in Nat \ {0} /\ Window \in Nat \ {0}
  /\ MaxKeys \in Nat \ {0} /\ MaxClock \in Nat

VARIABLES
  recent,   \* _events: the times of a client's latest admissions
  order,    \* the clients with a record, oldest record first
  log,      \* history: every admission under the present record
  promise,  \* history: when a refused client was told to come back, or 0
  clock

limiterVars == <<recent, order, log, promise, clock>>

LimiterInit ==
  /\ recent = [c \in Clients |-> <<>>]
  /\ order = <<>>
  /\ log = [c \in Clients |-> <<>>]
  /\ promise = [c \in Clients |-> 0]
  /\ clock = 0

Known(c) == \E i \in 1..Len(order) : order[i] = c

(* request_client_identity: the hop the trusted proxy appended, when it is *)
(* an address, else the peer.                                              *)
Identity(peer, hops) ==
  IF TrustProxy /\ hops # <<>> /\ hops[Len(hops)] \in Clients
  THEN hops[Len(hops)] ELSE peer

HeadDecides(times, n) ==   \* mutation: a stale head empties the deque
  n = IF times # <<>> /\ times[1] + Window <= clock THEN Len(times) ELSE 0

(* while events and events[0] <= cutoff: the first n times go.             *)
Stale(times, n) ==
  /\ \A i \in 1..n : times[i] + Window <= clock
  /\ n < Len(times) => times[n + 1] + Window > clock

Without(times, n) == SubSeq(times, n + 1, Len(times))

(* A new client, at the limit: the first key of the dict is dropped.       *)
Evicts(c) == ~Known(c) /\ Len(order) >= MaxKeys

(* The record of the evicted client goes.                                 *)
Evicted(c, record, empty) ==
  [k \in Clients |-> IF Evicts(c) /\ k = order[1] THEN empty ELSE record[k]]

Admit(c) ==
  \E n \in 0..Len(recent[c]) :
    /\ Stale(recent[c], n)
    /\ Len(recent[c]) - n < Limit
    /\ recent' = [Evicted(c, recent, <<>>) EXCEPT
                    ![c] = Append(Without(recent[c], n), clock)]
    /\ log' = [Evicted(c, log, <<>>) EXCEPT ![c] = Append(log[c], clock)]
    /\ promise' = [Evicted(c, promise, 0) EXCEPT ![c] = 0]
    /\ order' = IF Known(c) THEN order
                ELSE Append(IF Evicts(c) THEN Tail(order) ELSE order, c)
    /\ UNCHANGED clock

(* 429 with Retry-After; only a known client has as many admissions.       *)
Refuse(c) ==
  \E n \in 0..Len(recent[c]) :
    /\ Stale(recent[c], n)
    /\ Len(recent[c]) - n >= Limit
    /\ recent' = [recent EXCEPT ![c] = Without(recent[c], n)]
    /\ promise' = [promise EXCEPT ![c] = recent[c][n + 1] + Window + 1]
    /\ UNCHANGED <<order, log, clock>>

(* The middleware's part of a request to a limited path.                   *)
Request(peer, hops) ==
  Admit(Identity(peer, hops)) \/ Refuse(Identity(peer, hops))

LimiterTick == clock < MaxClock /\ clock' = clock + 1 /\ UNCHANGED <<recent, order, log, promise>>

LimiterNext ==
  \/ \E peer \in Clients, hops \in Forwarded : Request(peer, hops)
  \/ LimiterTick

LimiterSpec == LimiterInit /\ [][LimiterNext]_limiterVars

-----------------------------------------------------------------------------
(* Types; a client without a record has no times.                          *)
LimiterTypeOK ==
  /\ recent \in [Clients -> Seq(Nat)]
  /\ order \in Seq(Clients)
  /\ log \in [Clients -> Seq(Nat)]
  /\ promise \in [Clients -> Nat]
  /\ clock \in Nat

(* While the record of a client lasts, no window holds more than Limit of  *)
(* its admissions: not only the windows that end at a request, and though  *)
(* times are dropped as soon as a request finds them stale.                *)
WindowHolds ==
  \A c \in Clients : \A i \in 1..Len(log[c]) :
    i + Limit <= Len(log[c]) => log[c][i + Limit] >= log[c][i] + Window

(* Retry-After is honest: a client that comes back when it was told to is  *)
(* admitted, if it was not admitted in the meantime.                       *)
RetryHonest ==
  \A c \in Clients :
    promise[c] # 0 /\ clock >= promise[c] =>
      \A n \in 0..Len(recent[c]) : Stale(recent[c], n) => Len(recent[c]) - n < Limit
=============================================================================
