------------------------------ MODULE LiveQuote ------------------------------
(***************************************************************************)
(* How a quote is fetched (main.py): fetch_live_quote tries the providers  *)
(* in turn, each through run_bounded_market_call, which gives a blocking   *)
(* call a thread and a time-out and keeps its permit until the thread      *)
(* ends; get_price_bundle and the coroutines keep the last known price of  *)
(* each ticker in live_prices.                                             *)
(*                                                                         *)
(* `observed` is a history field: when the provider quoted the price that  *)
(* is stored.  The program only knows `at`, the time it was stored.        *)
(***************************************************************************)
EXTENDS Integers, FiniteSets

CONSTANTS
  Tickers,
  Fetches,     \* coroutines in fetch_live_quote
  Jobs,        \* provider threads
  Prices,
  NoQuote,     \* no snapshot; as the result of a call: None
  Raised,      \* the result of a call that raised
  NoJob, NoTicker,
  Polygon,     \* MARKET_DATA_PROVIDER is polygon and a key is configured
  Permits,     \* MARKET_DATA_MAX_CONCURRENCY
  StaleAfter,  \* LIVE_PRICE_STALE_SECONDS
  CacheTTL,    \* LIVE_PRICE_CACHE_TTL_SECONDS
  BundleTTL,   \* ttl of get_price_bundle
  MaxTickers,  \* LIVE_PRICE_CACHE_MAX_TICKERS
  Routes,      \* bound: threads of synchronous routes
  MaxTime      \* bound: last tick of the clock

Snapshot == [price : Prices, observed : Nat, at : Nat]

ASSUME QuoteAssumption ==
  /\ IsFiniteSet(Tickers) /\ IsFiniteSet(Fetches) /\ IsFiniteSet(Jobs)
  /\ NoQuote \notin Snapshot /\ Raised \notin Snapshot \cup {NoQuote}
  /\ NoJob \notin Jobs /\ NoTicker \notin Tickers /\ Polygon \in BOOLEAN
  /\ Permits \in Nat \ {0} /\ MaxTickers \in Nat \ {0}
  /\ StaleAfter \in Nat /\ CacheTTL \in Nat /\ CacheTTL >= StaleAfter
  /\ BundleTTL \in Nat /\ Routes \in Nat /\ MaxTime \in Nat

VARIABLES
  permits,  \* market_data_fetch_semaphore
  fetch,    \* the coroutines
  job,      \* the threads
  live,     \* live_prices
  bundle,   \* what ttl_cache keeps for get_price_bundle
  now

vars == <<permits, fetch, job, live, bundle, now>>

Providers == {"polygon", "one_minute", "bundle"}

(* Each fetch remembers the session it started in and the answer it gives. *)
Fetch == [pc : {"idle", "acquiring", "waiting", "answered"},
          ticker : Tickers \cup {NoTicker}, regular : BOOLEAN,
          provider : Providers, job : Jobs \cup {NoJob}, since : Nat,
          answer : Snapshot \cup {NoQuote}, stale : BOOLEAN]

(* `permit` is false for get_price_bundle called by a synchronous route.   *)
Job == [pc : {"idle", "asking", "leading", "following", "storing", "finished"},
        ticker : Tickers \cup {NoTicker}, provider : Providers, permit : BOOLEAN,
        result : Snapshot \cup {NoQuote, Raised}]

IdleFetch == [pc |-> "idle", ticker |-> NoTicker, regular |-> FALSE,
              provider |-> "bundle", job |-> NoJob, since |-> 0,
              answer |-> NoQuote, stale |-> FALSE]
IdleJob == [pc |-> "idle", ticker |-> NoTicker, provider |-> "bundle",
            permit |-> FALSE, result |-> NoQuote]

Init ==
  /\ permits = Permits
  /\ fetch = [f \in Fetches |-> IdleFetch]
  /\ job = [j \in Jobs |-> IdleJob]
  /\ live = [t \in Tickers |-> NoQuote]
  /\ bundle = [t \in Tickers |-> NoQuote]
  /\ now = 0

(***************************************************************************)
(* live_prices.                                                            *)
(***************************************************************************)
Known == {t \in Tickers : live[t] # NoQuote}

(* _cached_live_snapshot                                                   *)
Cached(t, age) ==
  IF live[t] # NoQuote /\ now - live[t].at <= age THEN live[t] ELSE NoQuote

(* _store_live_price: insert, drop what expired, then drop the oldest      *)
(* while there are too many.                                               *)
Store(t, quote) ==
  LET next == [live EXCEPT ![t] = quote]
      kept == {u \in Known \cup {t} : now - next[u].at <= CacheTTL}
      excess == IF Cardinality(kept) > MaxTickers
                THEN Cardinality(kept) - MaxTickers ELSE 0
  IN \E D \in SUBSET kept :
       /\ Cardinality(D) = excess
       /\ \A d \in D, u \in kept \ D : next[d].at <= next[u].at
       /\ live' = [u \in Tickers |-> IF u \in kept \ D THEN next[u] ELSE NoQuote]

(***************************************************************************)
(* The coroutines: fetch_live_quote and run_bounded_market_call.           *)
(***************************************************************************)
FirstProvider(regular) ==
  IF Polygon THEN "polygon" ELSE IF regular THEN "one_minute" ELSE "bundle"

StartFetch(f, t, regular) ==
  /\ fetch[f].pc = "idle"
  /\ fetch' = [fetch EXCEPT ![f] =
                 [IdleFetch EXCEPT !.pc = "acquiring", !.ticker = t, !.regular = regular,
                                   !.provider = FirstProvider(regular), !.since = now]]
  /\ UNCHANGED <<permits, job, live, bundle, now>>

(* A permit is free: take it and start the thread.                         *)
Acquire(f) ==
  /\ fetch[f].pc = "acquiring"
  /\ permits > 0
  /\ \E j \in Jobs :
       /\ job[j].pc = "idle"
       /\ job' = [job EXCEPT ![j] =
                    [IdleJob EXCEPT !.pc = "asking", !.ticker = fetch[f].ticker,
                                    !.provider = fetch[f].provider, !.permit = TRUE]]
       /\ fetch' = [fetch EXCEPT ![f] = [@ EXCEPT !.pc = "waiting", !.job = j]]
  /\ permits' = permits - 1
  /\ UNCHANGED <<live, bundle, now>>

Answered(f, quote, stale) ==
  [fetch EXCEPT ![f] = [@ EXCEPT !.pc = "answered", !.job = NoJob,
                                 !.answer = quote, !.stale = stale]]

(* On to the next provider of the chain.                                   *)
TryNext(f) ==
  [fetch EXCEPT ![f] =
     [@ EXCEPT !.pc = "acquiring", !.job = NoJob,
               !.provider = IF fetch[f].provider = "polygon" /\ fetch[f].regular
                            THEN "one_minute" ELSE "bundle"]]

(* The call raised or timed out.  Polygon's failure is caught on its own;  *)
(* any other one ends the fetch with the last known price, marked stale.   *)
CallFails(f) ==
  IF fetch[f].provider = "polygon" THEN TryNext(f)
  ELSE Answered(f, Cached(fetch[f].ticker, CacheTTL), TRUE)

(* No permit became free within MARKET_DATA_TIMEOUT_SECONDS.               *)
AcquireTimesOut(f) ==
  /\ fetch[f].pc = "acquiring"
  /\ permits = 0
  /\ fetch' = CallFails(f)
  /\ UNCHANGED <<permits, job, live, bundle, now>>

CallTimesOutReleasing(f) ==   \* mutation: no shield, so the task ends at once
  /\ fetch[f].pc = "waiting"
  /\ fetch' = CallFails(f)
  /\ permits' = permits + 1
  /\ UNCHANGED <<job, live, bundle, now>>

CallTimesOutNever(f) == FALSE /\ fetch' = CallFails(f)   \* mutation: no time-out

(* The thread did not answer in time; it goes on, with its permit.         *)
CallTimesOut(f) ==
  /\ fetch[f].pc = "waiting"
  /\ fetch' = CallFails(f)
  /\ UNCHANGED <<permits, job, live, bundle, now>>

(* The coroutine with the result of its call.                              *)
Resume(f, result) ==
  CASE result = Raised -> fetch' = CallFails(f) /\ UNCHANGED live
    [] result = NoQuote -> fetch' = TryNext(f) /\ UNCHANGED live
    [] OTHER ->
         IF fetch[f].provider = "bundle"
         THEN fetch' = Answered(f, result, FALSE) /\ UNCHANGED live
         ELSE LET quote == [result EXCEPT !.at = now]
              IN fetch' = Answered(f, quote, FALSE) /\ Store(fetch[f].ticker, quote)

Waiting(j) == {f \in Fetches : fetch[f].pc = "waiting" /\ fetch[f].job = j}

(* A thread ended: release_when_finished, and the coroutine that still     *)
(* waits for it, if any.                                                   *)
Finish(j) ==
  /\ job[j].pc = "finished"
  /\ job' = [job EXCEPT ![j] = IdleJob]
  /\ permits' = IF job[j].permit THEN permits + 1 ELSE permits
  /\ IF Waiting(j) = {} THEN UNCHANGED <<fetch, live>>
     ELSE \E f \in Waiting(j) : Resume(f, job[j].result)
  /\ UNCHANGED <<bundle, now>>

(* fetch_live_quote returns to the hub or to GET /api/quote.               *)
Return(f) ==
  /\ fetch[f].pc = "answered"
  /\ fetch' = [fetch EXCEPT ![f] = IdleFetch]
  /\ UNCHANGED <<permits, job, live, bundle, now>>

(***************************************************************************)
(* The threads.                                                            *)
(***************************************************************************)
Ends(j, result) ==
  job' = [job EXCEPT ![j] = [@ EXCEPT !.pc = "finished", !.result = result]]

(* get_live_1m_price and get_polygon_last_trade: a price or None; only     *)
(* the latter lets exceptions out.                                         *)
TradeAnswers(j) ==
  /\ job[j].pc = "asking" /\ job[j].provider # "bundle"
  /\ \/ \E p \in Prices : Ends(j, [price |-> p, observed |-> now, at |-> now])
     \/ Ends(j, NoQuote)
     \/ job[j].provider = "polygon" /\ Ends(j, Raised)
  /\ UNCHANGED <<permits, fetch, live, bundle, now>>

(* get_base_price of a synchronous route: without a fresh cached price it  *)
(* calls get_price_bundle in a thread of its own.                          *)
RouteAsks(j, t) ==
  /\ job[j].pc = "idle"
  /\ Cardinality({k \in Jobs : job[k].pc # "idle" /\ ~job[k].permit}) < Routes
  /\ Cached(t, StaleAfter) = NoQuote
  /\ job' = [job EXCEPT ![j] = [IdleJob EXCEPT !.pc = "asking", !.ticker = t]]
  /\ UNCHANGED <<permits, fetch, live, bundle, now>>

BundleFreshForever(t) ==   \* mutation: a bundle never expires
  bundle[t] # NoQuote

BundleFresh(t) == bundle[t] # NoQuote /\ now - bundle[t].at < BundleTTL

(* The threads that compute the bundle of a ticker: ttl_cache lets in one. *)
Leaders(t) ==
  {j \in Jobs : job[j].pc \in {"leading", "storing"} /\ job[j].ticker = t}

(* ttl_cache: a hit, a wait for the flight of another thread, or a claim.  *)
AsksBundle(j) == job[j].pc = "asking" /\ job[j].provider = "bundle"

BundleHit(j) ==
  /\ AsksBundle(j)
  /\ BundleFresh(job[j].ticker)
  /\ Ends(j, bundle[job[j].ticker])
  /\ UNCHANGED <<permits, fetch, live, bundle, now>>

BundleMiss(j) ==
  /\ AsksBundle(j)
  /\ ~BundleFresh(job[j].ticker)
  /\ job' = [job EXCEPT ![j].pc =
               IF Leaders(job[j].ticker) = {} THEN "leading" ELSE "following"]
  /\ UNCHANGED <<permits, fetch, live, bundle, now>>

(* The provider's answer, or its silence: get_price_bundle swallows every  *)
(* exception of the provider.                                              *)
BundleAnswers(j) ==
  /\ job[j].pc = "leading"
  /\ \E result \in [price : Prices, observed : {now}, at : {now}] \cup {NoQuote} :
       job' = [job EXCEPT ![j] = [@ EXCEPT !.pc = "storing", !.result = result]]
  /\ UNCHANGED <<permits, fetch, live, bundle, now>>

(* Everyone who waits for the bundle of `t` gets `result`.                 *)
Shared(j, result) ==
  [k \in Jobs |->
     IF k = j \/ (job[k].pc = "following" /\ job[k].ticker = job[j].ticker)
     THEN [job[k] EXCEPT !.pc = "finished", !.result = result] ELSE job[k]]

(* Without an answer the last known price is taken while it is fresh, and  *)
(* is stored again.                                                        *)
BundleStored(j) ==
  LET t == job[j].ticker
      last == IF job[j].result # NoQuote THEN job[j].result ELSE Cached(t, StaleAfter)
      quote == [last EXCEPT !.at = now]
  IN /\ job[j].pc = "storing"
     /\ last # NoQuote
     /\ Store(t, quote)
     /\ bundle' = [bundle EXCEPT ![t] = quote]
     /\ job' = Shared(j, quote)
     /\ UNCHANGED <<permits, fetch, now>>

BundleRaises(j) ==
  /\ job[j].pc = "storing" /\ job[j].result = NoQuote
  /\ Cached(job[j].ticker, StaleAfter) = NoQuote
  /\ job' = Shared(j, Raised)
  /\ UNCHANGED <<permits, fetch, live, bundle, now>>

(* A tick is about a minute: a thread that has its answer stores it in     *)
(* less, while a provider call may hang for any time.                      *)
Tick ==
  /\ now < MaxTime
  /\ \A j \in Jobs : job[j].pc \notin {"storing", "finished"}
  /\ now' = now + 1
  /\ UNCHANGED <<permits, fetch, job, live, bundle>>

Coroutine(f) ==
  \/ Acquire(f) \/ AcquireTimesOut(f) \/ CallTimesOut(f) \/ Return(f)

Thread(j) ==
  \/ TradeAnswers(j) \/ BundleHit(j) \/ BundleMiss(j) \/ BundleAnswers(j)
  \/ BundleStored(j) \/ BundleRaises(j)

Next ==
  \/ \E f \in Fetches, t \in Tickers, regular \in BOOLEAN : StartFetch(f, t, regular)
  \/ \E f \in Fetches : Coroutine(f)
  \/ \E j \in Jobs : Thread(j) \/ Finish(j)
  \/ \E j \in Jobs, t \in Tickers : RouteAsks(j, t)
  \/ Tick

Spec == Init /\ [][Next]_vars

(* The event loop runs, and its time-outs expire; a thread may hang for    *)
(* ever, so nothing is assumed of Thread.                                  *)
FairSpec ==
  /\ Spec
  /\ \A f \in Fetches : WF_vars(Coroutine(f))
  /\ \A j \in Jobs : WF_vars(Finish(j))

-----------------------------------------------------------------------------
(* Types of the fetches, the threads and the caches; no permit is lent     *)
(* that was not there.                                                     *)
TypeOK ==
  /\ permits \in Nat
  /\ fetch \in [Fetches -> Fetch]
  /\ job \in [Jobs -> Job]
  /\ live \in [Tickers -> Snapshot \cup {NoQuote}]
  /\ bundle \in [Tickers -> Snapshot \cup {NoQuote}]
  /\ now \in Nat

(* "Bounded live threads": a permit is away exactly while a thread that    *)
(* was started with it runs, whether or not anybody still waits for it;    *)
(* and public ticker input does not grow live_prices beyond its limit.     *)
ResourcesBounded ==
  /\ TypeOK
  /\ permits + Cardinality({j \in Jobs : job[j].pc # "idle" /\ job[j].permit}) = Permits
  /\ Cardinality(Known) <= MaxTickers

(* An answer that is not marked stale was stored during the fetch or at    *)
(* most BundleTTL before it.                                               *)
FreshMeansRecent ==
  \A f \in Fetches :
    fetch[f].pc = "answered" /\ ~fetch[f].stale =>
      /\ fetch[f].answer # NoQuote
      /\ \/ fetch[f].answer.at >= fetch[f].since
         \/ fetch[f].answer.at + BundleTTL > fetch[f].since

(* Every fetch returns, though provider threads may hang for ever with     *)
(* all permits.                                                            *)
FetchReturns == \A f \in Fetches : fetch[f].pc = "acquiring" ~> fetch[f].pc = "idle"

(* "Calculation APIs fail rather than ... silently use an unboundedly old  *)
(* quote when the provider is unavailable": a price that get_base_price    *)
(* still takes was quoted by the provider at most StaleAfter ago.          *)
NeverUnboundedlyOld ==
  \A t \in Tickers :
    LET cached == Cached(t, StaleAfter)
    IN cached # NoQuote => now - cached.observed <= StaleAfter + BundleTTL
=============================================================================
