---------------------------- MODULE SingleFlight ----------------------------
(***************************************************************************)
(* The TTL cache with request coalescing of cache.py, as @ttl_cache uses   *)
(* it from FastAPI's worker threads.  A key stands for one decorated       *)
(* function with its arguments; `Needs` names the cached function another  *)
(* one calls while it computes (get_atr_for_timeframe calls                *)
(* get_raw_history, calculate_iv_rank calls get_price_bundle).             *)
(*                                                                         *)
(* Every method of TTLCache runs under its lock and is one step; the       *)
(* wrapper's own statements between two of them are steps of their own.    *)
(* A value is the tick at which it was stored.  The hit, miss and          *)
(* coalesced counters only feed /api/cache/stats and are left out.         *)
(***************************************************************************)
EXTENDS Integers, FiniteSets

CONSTANTS
  Keys, Threads,
  Flights,      \* identities of _InFlight objects, reused once unreferenced
  Needs,        \* the cached function that a cached function calls
  NoKey, NoFlight, NoValue, Failed,
  TTL,          \* ttl_seconds, in clock ticks
  MaxTime       \* bound: last tick of the clock

ASSUME FlightAssumption ==
  /\ Needs \in [Keys -> Keys \cup {NoKey}]
  /\ \A S \in SUBSET Keys : S # {} => \E k \in S : Needs[k] \notin S   \* acyclic
  /\ NoKey \notin Keys /\ NoFlight \notin Flights
  /\ NoValue \notin Nat /\ Failed \notin Nat /\ NoValue # Failed
  /\ TTL \in Nat \ {0} /\ MaxTime \in Nat

VARIABLES
  store,     \* _store: the value of a key; it expires TTL ticks later
  inflight,  \* _inflight; NoFlight is an absent key
  flight,    \* the _InFlight objects: `done`, and `answer` for value or error
  call,      \* per thread and key, the wrapper's activation
  now

vars == <<store, inflight, flight, call, now>>

Answer == Nat \cup {NoValue, Failed}

(* `since` is when the wrapper was entered, `answer` what it will return.  *)
Call ==
  [pc : {"idle", "looking", "missed", "waiting", "producing", "nested",
         "computing", "sharing", "completing", "returning"},
   flight : Flights \cup {NoFlight}, answer : Answer, since : Nat]

Idle == [pc |-> "idle", flight |-> NoFlight, answer |-> NoValue, since |-> 0]

Producing == {"producing", "nested", "computing", "sharing", "completing"}

Init ==
  /\ store = [k \in Keys |-> NoValue]
  /\ inflight = [k \in Keys |-> NoFlight]
  /\ flight = [f \in Flights |-> [done |-> FALSE, answer |-> NoValue]]
  /\ call = [t \in Threads |-> [k \in Keys |-> Idle]]
  /\ now = 0

(* A frame of thread t moves on.                                           *)
Move(t, k, frame) == call' = [call EXCEPT ![t] = [@ EXCEPT ![k] = frame]]

Entered == [Idle EXCEPT !.pc = "looking", !.since = now]

(* An endpoint calls the cached function.                                  *)
Enter(t, k) ==
  /\ \A j \in Keys : call[t][j].pc = "idle"
  /\ Move(t, k, Entered)
  /\ UNCHANGED <<store, inflight, flight, now>>

(* The function that computes k calls the cached function it needs.        *)
EnterNested(t, k) ==
  LET j == Needs[k]
  IN /\ call[t][k].pc = "producing" /\ j # NoKey
     /\ call[t][j].pc = "idle"
     /\ call' = [call EXCEPT ![t] =
                   [@ EXCEPT ![k] = [call[t][k] EXCEPT !.pc = "nested"], ![j] = Entered]]
     /\ UNCHANGED <<store, inflight, flight, now>>

FreshForever(k) == store[k] # NoValue   \* mutation: entries never expire

Fresh(k) == store[k] # NoValue /\ now < store[k] + TTL

(* get(): a hit, or a miss that drops an expired entry.                    *)
Hit(t, k) ==
  /\ call[t][k].pc = "looking" /\ Fresh(k)
  /\ Move(t, k, [call[t][k] EXCEPT !.pc = "returning", !.answer = store[k]])
  /\ UNCHANGED <<store, inflight, flight, now>>

Miss(t, k) ==
  /\ call[t][k].pc = "looking" /\ ~Fresh(k)
  /\ store' = [store EXCEPT ![k] = NoValue]
  /\ Move(t, k, [call[t][k] EXCEPT !.pc = "missed"])
  /\ UNCHANGED <<inflight, flight, now>>

(* claim_inflight(): wait for the running producer of k ...                *)
Follow(t, k) ==
  /\ call[t][k].pc = "missed" /\ inflight[k] # NoFlight
  /\ Move(t, k, [call[t][k] EXCEPT !.pc = "waiting", !.flight = inflight[k]])
  /\ UNCHANGED <<store, inflight, flight, now>>

Unreferenced(f) == \A t \in Threads, k \in Keys : call[t][k].flight # f

NewFlight(t, k) ==
  \E f \in Flights :
    /\ Unreferenced(f)
    /\ inflight' = [inflight EXCEPT ![k] = f]
    /\ flight' = [flight EXCEPT ![f] = [done |-> FALSE, answer |-> NoValue]]
    /\ Move(t, k, [call[t][k] EXCEPT !.pc = "producing", !.flight = f])

LeadAnyway(t, k) ==   \* mutation: the claim does not look for a producer
  /\ call[t][k].pc = "missed"
  /\ NewFlight(t, k)
  /\ UNCHANGED <<store, now>>

(* ... or become the producer.                                             *)
Lead(t, k) ==
  /\ call[t][k].pc = "missed" /\ inflight[k] = NoFlight
  /\ NewFlight(t, k)
  /\ UNCHANGED <<store, now>>

(* The function returns and set() stores the value.                        *)
Store(t, k) ==
  /\ call[t][k].pc \in {"producing", "computing"}
  /\ store' = [store EXCEPT ![k] = now]
  /\ Move(t, k, [call[t][k] EXCEPT !.pc = "sharing", !.answer = now])
  /\ UNCHANGED <<inflight, flight, now>>

(* active.value = value                                                    *)
Share(t, k) ==
  /\ call[t][k].pc = "sharing"
  /\ flight' = [flight EXCEPT ![call[t][k].flight] = [@ EXCEPT !.answer = call[t][k].answer]]
  /\ Move(t, k, [call[t][k] EXCEPT !.pc = "completing"])
  /\ UNCHANGED <<store, inflight, now>>

FailSilently(t, k) ==   \* mutation: the error path skips complete_inflight
  /\ call[t][k].pc \in {"producing", "computing"}
  /\ flight' = [flight EXCEPT ![call[t][k].flight] = [@ EXCEPT !.answer = Failed]]
  /\ Move(t, k, [call[t][k] EXCEPT !.pc = "returning", !.answer = Failed])
  /\ UNCHANGED <<store, inflight, now>>

(* The function raises: active.error = exc                                 *)
Fail(t, k) ==
  /\ call[t][k].pc \in {"producing", "computing"}
  /\ flight' = [flight EXCEPT ![call[t][k].flight] = [@ EXCEPT !.answer = Failed]]
  /\ Move(t, k, [call[t][k] EXCEPT !.pc = "completing", !.answer = Failed])
  /\ UNCHANGED <<store, inflight, now>>

CompleteUnheard(t, k) ==   \* mutation: the event is never set
  /\ call[t][k].pc = "completing"
  /\ inflight' = [inflight EXCEPT ![k] = NoFlight]
  /\ Move(t, k, [call[t][k] EXCEPT !.pc = "returning", !.flight = NoFlight])
  /\ UNCHANGED <<store, flight, now>>

(* complete_inflight(), in the wrapper's finally clause.                   *)
Complete(t, k) ==
  LET f == call[t][k].flight
  IN /\ call[t][k].pc = "completing"
     /\ inflight' = IF inflight[k] = f THEN [inflight EXCEPT ![k] = NoFlight] ELSE inflight
     /\ flight' = [flight EXCEPT ![f] = [@ EXCEPT !.done = TRUE]]
     /\ Move(t, k, [call[t][k] EXCEPT !.pc = "returning", !.flight = NoFlight])
     /\ UNCHANGED <<store, now>>

(* active.done.wait() returns; the waiter takes the value or the error.    *)
Wake(t, k) ==
  LET f == call[t][k].flight
  IN /\ call[t][k].pc = "waiting" /\ flight[f].done
     /\ Move(t, k, [call[t][k] EXCEPT !.pc = "returning", !.flight = NoFlight,
                                      !.answer = flight[f].answer])
     /\ UNCHANGED <<store, inflight, flight, now>>

(* The wrapper returns or raises; a function that called it computes on.   *)
Return(t, k) ==
  /\ call[t][k].pc = "returning"
  /\ call' = [call EXCEPT ![t] =
                [j \in Keys |->
                   IF j = k THEN Idle
                   ELSE IF Needs[j] = k /\ call[t][j].pc = "nested"
                   THEN [call[t][j] EXCEPT !.pc = "computing"] ELSE call[t][j]]]
  /\ UNCHANGED <<store, inflight, flight, now>>

(* clear(), of everything or of one module's functions: what is in flight  *)
(* stays in flight.                                                        *)
Clear ==
  \E cleared \in SUBSET Keys \ {{}} :
    /\ store' = [k \in Keys |-> IF k \in cleared THEN NoValue ELSE store[k]]
    /\ UNCHANGED <<inflight, flight, call, now>>

(* A tick is seconds long, far longer than the few statements between the  *)
(* set() and the complete_inflight() of one producer.                      *)
Tick ==
  /\ now < MaxTime
  /\ \A t \in Threads, k \in Keys : call[t][k].pc \notin {"sharing", "completing"}
  /\ now' = now + 1
  /\ UNCHANGED <<store, inflight, flight, call>>

Step(t, k) ==
  \/ EnterNested(t, k) \/ Hit(t, k) \/ Miss(t, k) \/ Follow(t, k) \/ Lead(t, k)
  \/ Store(t, k) \/ Share(t, k) \/ Fail(t, k) \/ Complete(t, k) \/ Wake(t, k)
  \/ Return(t, k)

Next ==
  \/ \E t \in Threads, k \in Keys : Enter(t, k) \/ Step(t, k)
  \/ Clear \/ Tick

Spec == Init /\ [][Next]_vars

(* Threads are scheduled, and a provider call returns or raises.           *)
FairSpec == Spec /\ \A t \in Threads, k \in Keys : WF_vars(Step(t, k))

-----------------------------------------------------------------------------
(* Types of the cache's maps and of the calls; an error is never stored.   *)
TypeOK ==
  /\ store \in [Keys -> Nat \cup {NoValue}]
  /\ inflight \in [Keys -> Flights \cup {NoFlight}]
  /\ flight \in [Flights -> [done : BOOLEAN, answer : Answer]]
  /\ call \in [Threads -> [Keys -> Call]]
  /\ now \in Nat

(* "Keep one producer per key so a burst of identical requests does not    *)
(* stampede the upstream API."                                             *)
OneProducer ==
  \A k \in Keys : \A t, u \in Threads :
    call[t][k].pc \in Producing /\ call[u][k].pc \in Producing => t = u

(* A waiter's flight is either over, and then carries a value or an error, *)
(* or still registered for the waiter's key and owned by a thread that     *)
(* will complete it: no wake-up is lost and no one waits for a dead flight.*)
WaiterHasProducer ==
  \A t \in Threads, k \in Keys :
    call[t][k].pc = "waiting" =>
      LET f == call[t][k].flight
      IN IF flight[f].done THEN flight[f].answer # NoValue
         ELSE /\ inflight[k] = f
              /\ \E u \in Threads : call[u][k].pc \in Producing /\ call[u][k].flight = f

(* A call returns what was stored less than TTL ago when it was made, or   *)
(* later: neither the cache nor a coalesced flight hands out older data.   *)
FreshAnswers ==
  \A t \in Threads, k \in Keys :
    call[t][k].pc = "returning" =>
      call[t][k].answer = Failed \/ call[t][k].answer + TTL > call[t][k].since

(* What an activation waits for: the nested call it made, or the producer  *)
(* of its flight.                                                          *)
Blocked(t, k) ==
  \/ call[t][k].pc = "nested"
  \/ call[t][k].pc = "waiting" /\ ~flight[call[t][k].flight].done

WaitsFor(t, k, u, j) ==
  IF call[t][k].pc = "nested" THEN u = t /\ j = Needs[k] /\ call[u][j].pc # "idle"
  ELSE j = k /\ call[u][j].pc \in Producing /\ call[u][j].flight = call[t][k].flight

(* The waits have no time-out: no group of calls ever waits for nobody but *)
(* each other, though a producer holds its flight while it waits for a     *)
(* flight of another thread, nor for a producer that is gone.              *)
NoneStuck ==
  \A group \in [Threads -> SUBSET Keys] :
    (\A t \in Threads : \A k \in group[t] :
       /\ Blocked(t, k)
       /\ \A u \in Threads, j \in Keys : WaitsFor(t, k, u, j) => j \in group[u])
    => \A t \in Threads : group[t] = {}

(* Every call returns, although threads wait for each other and hold       *)
(* flights of their own while they wait.                                   *)
CallsReturn ==
  \A t \in Threads, k \in Keys : call[t][k].pc = "looking" ~> call[t][k].pc = "idle"
=============================================================================
