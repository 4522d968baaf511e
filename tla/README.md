# Formal models of the option-tool-invest-bigdata terminal

TLA+ models of the stateful parts of the repository under `src/`: a FastAPI
backend that polls market data and pushes quotes over WebSockets, caches
provider calls, evaluates alert rules, and keeps a PostgreSQL workspace, and a
browser client that consumes all this.  Each module is translated from the
source lines that `PROJECT.json` names under `map`; TLC checks it on small
instances and TLAPS proves the results that are listed under "What is proved"
for every value of the constants.  Four runs are expected to fail: they show
places where the code does not do what its documentation says.

    tlc -config HubSafety.cfg MCQuoteHub      # model-check one run
    tlapm QuoteHubProofs.tla                  # check one proof module

## The system

| Component | State | Operations | Hard behaviour | What makes it correct |
|---|---|---|---|---|
| Live quote hub (`quote_hub.py`) and `/ws/price` (`main.py`) | subscribers, poll tasks, snapshots and sequence counters per ticker; one coroutine per connection and per poll task | subscribe, unsubscribe, latest, close; poll, publish, broadcast, record a failure | tasks cancel and join each other; connections break at any suspension point; pruning at the limits | a watched ticker is always polled, no dead connection stays registered, frames arrive in order, no price is invented |
| TTL cache with coalescing (`cache.py`) | stored values with expiry, flights in progress | look up, claim, store, complete, clear | many threads, nested cached calls, failing producers, expiry during a call | one producer per key, no lost wake-up, no stale answer, every call returns |
| Market data fetch and live price cache (`main.py`) | live price per ticker, a semaphore of provider permits | bounded provider call, price bundle, freshness | provider threads that outlive their timeout, outages | permits come back exactly once, an old price is never shown as fresh |
| Alert pipeline (`main.py`, `app/alert_service.py`) | throttle, pool of evaluations, alert rows, notification events and their read marks | evaluate a quote, trigger; create, redefine, delete a rule; list, count, mark, delete notifications | two consumers, detached threads, row locks, failing transactions, restarts, partial changes | no rule fires twice in its cooldown or against its stored definition, inbox and trigger state agree, nothing unread is hidden |
| Session authentication (`app/auth.py`, `/api/auth` in `main.py`) | the browser's cookies, the provider's tokens; registered refresh flights, recently shared results | check, renew, sign in, Google, sign out; lead, follow, share, fail | rotation tokens that may be used only once, bounded waits, several tabs, answers that are lost or overtaken, routes that raise after a renewal | one rotation per token and process, a signed-in browser stays signed in, the remember choice goes with its login |
| Rate limiter (`rate_limit.py` and its middleware) | the times of each client's admissions, in a bounded table | allow | windows that slide, eviction at the limit | no more than the limit in any window |
| Cloud workspace (`app/cloud_service.py`) | portfolio ledger and holdings, contracts, notes, watchlists, favourites, preferences, histories | trade, open, edit, close, note, add, remove, reorder, count, merge settings | concurrent requests of one profile that read, check and write without a lock of their own, unique keys | the holding is what the ledger adds up to, no count is lost, what is closed stays closed |
| Legacy in-memory lists (`main.py`) | two lists of the process | open, edit, close, list positions; add, remove tickers | unlocked threads, lists rebound while others read them, a listing that writes back | the list says what the answers said |
| Live price client (`frontend/services/live-price.js`) | socket, epoch, last sequence number, retry timer | connect, receive, reconcile, switch ticker | late callbacks of old sockets, REST answers racing frames, requests cut off by the next view | one connection at most, the feed comes up again, the price of another ticker does not stay |
| Client request cache (`frontend/api/*.js`) | cached answers, requests in progress | get, invalidate, retry, clean up | late answers after an invalidation, tabs that overwrite each other's storage, a cleanup in idle time | at most one request per key, old answers do not come back or stay, expired records go |
| Pure engines, catalogue | none | formulas, ranking | floating point | – |

How they interact: a browser opens `/ws/price`, whose endpoint coroutine
subscribes its socket with the hub; the hub's poll task calls
`fetch_live_quote`, which goes through the bounded market calls and the TTL
cache to the provider, stores the live price, and hands each verified quote to
the alert pipeline; that pipeline writes notification rows which the browser
reads through the REST API, together with the workspace.  Rules, inbox and
workspace share one lock, that of the profile's default folders, which every
route of a profile takes and no evaluation does.  `GET /api/quote`
reads the hub's snapshot and otherwise runs `fetch_live_quote` itself, at the
same time as the hub's task.  Authentication guards the workspace routes, the
rate limiter the expensive ones and those of authentication itself.  Without
cloud credentials the same position and watchlist routes work on lists of the
process.

## Modules

| Module | Models | Checked by |
|---|---|---|
| `QuoteFeed` | what the hub promises: abstract specification | as a property of `hub_safety` |
| `QuoteHub` | `LiveQuoteHub` and the `/ws/price` endpoint; implements `QuoteFeed` | `MCQuoteHub`: `hub_safety`, `hub_one_poll`; `MCLiveFeed`: `live_feed`; `QuoteHubProofs` |
| `SingleFlight` | `TTLCache` and `@ttl_cache` | `MCSingleFlight`: `flight`; `SingleFlightProofs` |
| `LiveQuote` | `fetch_live_quote`, the bounded market calls, `live_prices` | `MCLiveQuote`: `quote`, `quote_outage`; `LiveQuoteProofs` |
| `AlertRules` | definitions of alerts: validation, partial change, match | through `AlertPipeline` |
| `AlertPipeline` | from a quote to a notification | `alert_crossing`, and through `AlertDesk` |
| `AlertDesk` | what the owner of rules and notifications does meanwhile | `MCAlertPipeline`: `alert`; `AlertProofs` |
| `RefreshCoordinator` | `coordinated_refresh_session` | `MCRefreshCoordinator`: `refresh`; `AuthProofs` |
| `AuthSession` | the session of a browser: cookies, checks, sign-in routes, provider | `MCRefreshCoordinator`: `refresh`; `AuthProofs` |
| `RateLimiter` | `SlidingWindowRateLimiter` behind its middleware | `MCRefreshCoordinator`: `refresh`; `AuthProofs` |
| `Workspace` | the cloud workspace of one profile | `MCWorkspace`: `workspace`; `WorkspaceProofs` |
| `AtomicWorkspace` | what the workspace promises its tabs: abstract specification | as a property of `workspace` |
| `Activity` | contracts, notes, favourites, simulations and counts in that workspace | `MCWorkspace`: `workspace`; `WorkspaceProofs` |
| `LegacyBook` | the lists that stand in for it without cloud credentials | `MCWorkspace`: `workspace`; `WorkspaceProofs` |
| `LiveClient` | the browser's live feed | `MCLiveFeed`: `live_feed`; `MCLiveClient`: `client_switch`; `LiveClientProofs` |
| `ClientCache` | the browser's request cache in several tabs | `MCClientCache`: `client_cache`; `ClientCacheProofs` |
| `CacheCleanup` | when that cache drops expired records of its own accord | `MCClientCache`: `client_cache` |

An MC module names the values of a small instance.  Five of them also put
modules side by side that share few variables or none: a behaviour then belongs
to one `part`, chosen at the start, and leaves the variables of the other parts
alone, which spares the product of their states.  `MCAlertPipeline` has the parts
"overlap" (two evaluations at a time, an owner who switches and deletes), "rules"
and "inbox" (one evaluation at a time, an owner who redefines rules or reads
notifications); `MCRefreshCoordinator` "refresh", "session" and "limiter";
`MCWorkspace` "workspace", "activity" and "legacy"; `MCLiveFeed` "hub" and "client",
the two ends of the feed; `MCClientCache` "records" and "cleanup".  The `MCFairSpec`
of such a module states the fairness of each part's own specification, in that part.

The state variables
carry the names of the program's variables where it has them; a value called
"history" is kept for the properties and never read by a guard, a constant
called "bound" limits a counter of the model and stands for nothing in the
program.  An operator with the comment "mutation" is a plausible bug of the
definition that follows it; nothing uses it, and replacing that definition by
it must violate the property `PROJECT.json` names.

### QuoteHub

The process has one event loop, and no block under `self._lock` suspends, so an
action is a stretch of code between two suspension points.  `subscribers`,
`tasks`, `snapshots` and `sequences` are the hub's maps; `worker` holds the poll
tasks (`_run_ticker`), `sock` the endpoint coroutines, both with the point at
which they are suspended.  `Connect`, `Subscribe`, `Reject`, `Greeted` and
`Leave` are the endpoint; `StartFetch`, `FetchReturns`, `FetchFails`,
`SendSettles` (one member of the `gather`), `EndBroadcast`, `Retire` and `Finish`
are the task; `Drop` is a client that goes away at any moment; `Unwind` is a
cancelled task that runs to its end and wakes whoever joins it; `Stop` and
`Close` are the shutdown.  Pruning is part of the actions whose code prunes.
A frame is its sequence number, a payload its price.  The feed that the hub
implements has no tasks: a join is answered with the current frame, a
publication reaches every watcher at once.

### SingleFlight

Any number of worker threads run the wrapper of `@ttl_cache`.  Every method of
`TTLCache` runs under its lock and is one step; the wrapper's statements between
two of them are steps of their own.  `Needs` lets a cached function call another
while it computes, as `get_atr_for_timeframe` and `calculate_iv_rank` do, so a
thread can hold one flight and wait for another; `FlightAssumption` says that
no function needs itself, however indirectly, which is so of the cached functions
of `market_data.py` and the engines.  `NoneStuck` is the absence of deadlock as a
safety property: there is no group of calls in which each waits, for a flight or
for its nested call, and none waits for a call outside the group.  A value is the tick at which
it was stored.  A tick of the clock is seconds, and does not pass between
`set()` and `complete_inflight()`, two adjacent statements.  The counters behind
`/api/cache/stats` are left out.

### LiveQuote

A coroutine of `fetch_live_quote` tries its providers in turn.  Each attempt
takes a permit of `market_data_fetch_semaphore` (`Acquire`, `AcquireTimesOut`),
starts a thread, and either gets its result (`Resume`, `CallFails`) or gives up
(`CallTimesOut`); the permit comes back when the thread ends (`Finish`), which
may be never.  Threads of synchronous routes (`RouteAsks`) run the same
`get_price_bundle` without a permit.  `live` is `live_prices` with its pruning,
`bundle` what the TTL cache keeps of `get_price_bundle`; the coalescing of
concurrent bundles is abstracted to the answer being shared.  `observed` is
history: when the provider quoted the price, while `at`, the only time the
program knows, is when it was stored.  A tick is about a minute.

### AlertRules, AlertPipeline, AlertDesk

`AlertRules` has the definition of a rule as `normalize_alert_definition` accepts
it (`WellFormed`), what a PATCH makes of a stored one (`Merged`) and which price
observations match (`Matches`).  `Recovery` stands for target times tolerance.

In `AlertPipeline`, `StartFetch`, `QuoteAnswers`, `BundleStored` with
`BundleAnswers`, and `FetchFails` are `fetch_live_quote`, by the hub's task or by
`GET /api/quote`; `MaybeEvaluate` is the throttle with the pool.  An evaluation
is a thread with a transaction: `Select` reads the rules `FOR UPDATE` and
decides, `Commit` inserts the events with their dedupe keys and the trigger
state; `Abort` is a failure anywhere in it.  `Restart` replaces the process,
whose memory is lost while its threads may still finish a transaction.
Observations have distinct times, so a restart takes a tick.

`AlertDesk` adds the routes of the owner.  Each begins with the lock of the
workspace, so they exclude each other (`desk`), but not the evaluations, which
lock rules only: an inbox route is cut between its statements (`ListEvents`,
`CountUnread`; `SelectUnread`, `MarkSelected`), and a change of a rule waits for
an evaluation that has selected it.  Which events are the newest on a page is
left open.

### RefreshCoordinator

Both maps of the code are keyed by the token's hash, and keys do not interact:
this is the state of one key.  `Lead`, `Follow`, `TakeShared` are the critical
section at the entry; `Wake` and `TimeOut` the follower; `Rotate`, `Fail`,
`Succeed` and `Recover` the leader's provider call, which may never return;
`Finish` the `finally`.  `asked` is the clock as read before the lock.
An event is named by the request that made it, and each request is made once.

### AuthSession

One browser with any number of tabs.  `Send` copies the cookie jar into a
request, `Deliver` applies the cookies of its answer, in any order with others,
and `LoseAnswer` drops it.  `CurrentUser` is `get_optional_current_user` in
steps: the check of the access token, the renewal (`UseShared`, `RotateToken`,
`Share`, `Refused`, `RefreshFails`: what `RefreshCoordinator` promises), the
lookup with the new token.  `Routes` are the handlers.  A route that raises
answers without the cookies that were set for it (`Raise`), since FastAPI drops
the injected response.  The provider rotates a token once, expires access tokens
at any time, revokes a login, and accepts a code once.  A token is the login it
belongs to, its generation, and the choice ("kept") the user made there; `held`,
`failed` and `crossed` are history: the login the user expects to be in, a fault
that costs the session, and an answer that was overtaken by a change of it.

### RateLimiter

`recent` is the deque of each client, `order` the insertion order of the dict
that decides who is evicted, `Identity` the choice between the peer and the last
forwarded hop.  `Admit` and `Refuse` are `allow` with the middleware's answer.
`log` and `promise` are history: every admission under the present record, and
what the last Retry-After said.  A tick is a second, the unit of the window.

### Workspace

Every workspace route, those that only read included, is one READ COMMITTED
transaction that starts with `ensure_workspace`.  `Begin` reads profile and
preferences; then the row of the default portfolio is selected `FOR UPDATE`
and held (`holder`) to the end of the transaction, so each of the other actions
is the rest of one route after the lock, with its changes in `tx[r].write`
until `Commit` or `Rollback` (a validation error, a database error, the end of
the process).  At the first login there is no row to lock: the insertion of the
profile waits on its unique key and `Reread`s.  Shares are whole and prices
count units of the last decimal of NUMERIC(24, 8); the average cost is rounded
as the column rounds it.  `books` (what the trades add up to) and `missed`
(what was committed while a request was under way) are history.

`AtomicWorkspace` is the same workspace without transactions, locks or places:
each creation, renaming, archiving, deletion, trade, insertion, removal and sort is
one step that checks and changes the rows at once.  `RoutesAreAtomic` is the
refinement: a commit is one such step, or none.  The mapping forgets the numbers in
`sort_order` and keeps which tickers come before which (`Before`).  Preferences and
the picture are not part of it: they are read before the lock, are not atomic, and
have `ChoicesKept` instead.  Average and profit are not either, whose rounding
`HoldingMatchesLedger` bounds.

### Activity

The other routes of the same transaction: each drafts what it will write
(`draft`) from what it read behind the lock, and `CommitDraft` applies it.
Contracts are opened in a portfolio that is not archived, edited and closed while
they are open; `count` is the pair `search_count` and `view_count`, read, raised in
Python and written back.  `Around` are the few routes of `Workspace` that interact:
portfolios that come, trade once and are archived.  `asked` is history.

### LegacyBook

`lists` and `stars` are the list objects that the two globals were bound to, the
last of each being bound now: an append changes a list, a removal binds a
filtered copy, and a thread may hold on to an older one.  Python 3.12 switches
threads at calls and at the backward jumps of loops, which decides what is one
step: a membership test with the append behind it is, a filtering comprehension
with its assignment is not, and it sees what is appended to its list meanwhile.
`Without` is what a comprehension leaves of a list, in its order.
A listing copies position after position (`Mark`), each at the pace of the
provider, then pairs the copies with the list as it is by then (`Pair`) and
writes them back one by one (`WriteBack`).  `told`, `starred` and `crossed` are
history: what the answers said, and whether requests met in a way that loses an
update.

### LiveClient

A handler of the browser is an action.  A view context is only ever compared
with the current view, so it is the flag `current`, cleared whenever `viewEpoch`
moves.  `wsConnectionEpoch` moves exactly with `ws`, so the test of `ws` stands
for both.  Sockets open, send, close late or not at all; `ReconnectTimer`,
`Watchdog`, `ResyncTimer` and `AnimationFrame` are the timers; `SwitchStock`,
`ChangeTimeframe`, `Navigate`, `Offline`, `Online`, `Visible` and `PageRestored`
are the user, the network and the page.  `shown` is the ticker whose price is in
`#live-price`: `SwitchStock` leaves it, for what `switchStock` clears is a
variable and an element the page does not have.  `lost` is history for two gaps
in which nothing brings the feed up or replaces the price: the dashboard of the
view failed or had no data, and a resynchronisation was skipped because the route had no terminal, whose data is
loaded once only (`router.js:25`).

### ClientCache

The records of one category and account: `memory` of each tab, `storage`
(localStorage), the messages between tabs, the requests on the network, the
reads of the retry layer above (`resilience.js`) and the server's data, of which
only the version is kept.  An action is a piece of script up to its next
`await`.  The generation counter of the code is a flag on each request,
cleared by `invalidate`.  Ages are relative and capped one above `StaleFor`, so
time is not bounded.  Which record the limit evicts is left open, as is whether
`touch` writes and when `cleanupStorageCategory` runs.  `seen` and the version in
a message are history.

### CacheCleanup

The schedule of that cleanup, `scheduleCleanup` with `queueIdle`: `run` cleans as
many of the categories from `cursor` on as its deadline has room for, the first
one of a sweep in any case; `cleanupTimer` starts the next sweep.  The browser
has `requestIdleCallback` or has not, chosen at the start; without it every
deadline is 0.  Of the categories one is followed, any, chosen at the start:
whether the memory holds an expired record of it (`expired`) and whether its
stored copy is `unreadable`, in which case the `catch` of `cleanupStorageCategory`
(`cache.js:244`) passes over the memory too.  `Records` and `Copy` are what the
rest of the page does to these two, at any time.

## What the runs check

Every passing run checks for deadlock unless noted.  Every property of a
passing run has a mutation of the code in `PROJECT.json` that violates it.

| Run | Instance | States | Shows |
|---|---|---|---|
| `hub_safety` | 2 tickers, 2 connections, 2 tasks; 1 active ticker, 2 subscribers, 1 retained snapshot, TTL 0, 2 frames, 1 tick; symmetric connections and tasks | 345,000 | `WatchedIsPolled`, `NoLeakedSubscriber`, `WatchedPriceKept`; `ImplementsFeed` |
| `live_feed` | hub: 1 ticker, 2 connections, 2 tasks, no tick; client: 2 tickers, 2 sockets, 6 events of user, network and page | 88,000 | `Served`; `CleanedUp`: polling of an abandoned ticker ends and every lost connection leaves; `OneFeed`, `FeedWatched`, `FeedComesUp`; `OldPriceTended` and `OldPriceGoes`: a price left over from another ticker is about to be replaced, and is |
| `flight` | 2 threads, 2 functions of which one calls the other, 3 flights, TTL 1, 1 tick | 506,000 | `OneProducer`, `FreshAnswers`, `NoneStuck`, `CallsReturn` |
| `quote` | 2 tickers, 1 coroutine, 2 threads, 1 permit, 1 synchronous route, cache for 1 ticker, 1 tick, Polygon configured | 389,000 | `ResourcesBounded` (permits and places in the cache), `FreshMeansRecent`, `FetchReturns` |
| `alert` | overlap: 1 crossing and 1 level rule (cooldowns 0 and 2), 1 fetcher, 2 evaluations, interval 1, 1 tick; rules: 1 rule and 1 to create, 4 submitted definitions of which 3 acceptable, 4 sets of changed fields; inbox: pages of 1 and 2; 2 changes of rules | 254,000 | `OncePerCooldown`, `TriggerStateMatchesEvents`, `FiresOnStoredRule`, `RulesStayEvaluable`, `HidesNothing`, `EvaluationEnds` |
| `refresh` | refresh: 3 requests, the provider may never answer the first, share for 1 tick, 2 ticks; session: 3 requests of a browser that begins signed out, session-only, or with cookies from before the marker; limiter: 3 clients, 2 records, 2 admissions in 2 ticks, 5 ticks, a trusted proxy | 1,250,000 | `OneRefresh`, `Returns`; `SessionKept`, `MarkerMatchesLogin`; `WindowHolds` |
| `workspace` | workspace: 2 overlapping requests, 2 portfolios, 2 watchlists, 3 names of which two differ in case, 2 tickers, 2 preference keys, 4 writing transactions; activity: 1 contract, 1 simulation, 3 writing transactions; legacy: 2 threads, 2 positions, 2 ids, 5 requests; symmetric | 921,000 | `HoldingMatchesLedger`, `ChoicesKept`, `RoutesAreAtomic`; `CountsComplete`, `ClosedIsFinal`; `DemoKeepsWord` |
| `client_cache` | records: 2 tabs of which one mutates, 1 url, 1 change of the data, 2 attempts, 1 queued message; cleanup: the 7 categories of the code, with and without idle callbacks | 308,000 | `OneFetchPerKey`, `NoOldAnswerKept`, `ReadsEnd`, `Heals`; `Swept`: an expired record leaves the memory |
| `hub_one_poll` | as `hub_safety` with 1 ticker | violated | `OnePollPerTicker` |
| `alert_crossing` | interval 2, 3 ticks | violated | `CrossingsEvaluated` |
| `quote_outage` | 1 ticker, no Polygon, stale after 1, cache TTL 2, 4 ticks | violated | `NeverUnboundedlyOld` |
| `client_switch` | as the client of `live_feed` with 1 event | violated | `ShownIsCurrent` |

Why the bounds are enough.  The conflicts of each component involve two actors
and one contended resource, and the instances have just those: two tickers for
one slot of the hub and one place in each pruned map, two tasks so that a
successor starts before its predecessor is gone, a nested call with a second
thread between the two keys, one permit with two threads, two evaluations of one
rule, a leader with two followers, two tabs, two threads on one list.  Three
requests of a browser are a login or a renewal in one tab that meets two others;
three clients for two records of the limiter include one that is evicted and
comes back; two changes of rules are a creation and a partial change, or two
partial changes.  Clocks run one tick past the
shortest interval that matters (a TTL of 0 or 1), so that "just expired" and
"not yet" both occur; four writes of a workspace let a sale follow two purchases
with a rounding between them, and a removal follow two insertions.  Six events
let a client go offline, come back, and switch ticker on another route and back.
What two connections, three threads or longer histories cannot show is left to
the proofs where there are any.

Where the system stops.  The hub's runs, `refresh`, `live_feed` and `client_switch`
switch off the deadlock check: a closed hub stops; each request of `refresh` is
made once, the three requests of a browser too, and the events of a client are
bounded.  In
the other runs nobody ever blocks for good; the legacy lists rest when their last
request was answered (`Rest`).

### Fairness

- `QuoteHub`: weak fairness of each task and fairness of each endpoint.  The
  event loop runs every ready coroutine; sleeps and provider time-outs end; a
  send to a client that stopped reading fails at the latest when the WebSocket
  ping times out (`scripts/start-render.sh:20-21`).  The endpoint's fairness is
  strong only because the bound on task identities can disable `Subscribe` for
  a while, which `create_task` never does.
- `SingleFlight`: threads are scheduled, and a provider call returns or raises;
  the providers' clients have time-outs.
- `LiveQuote`: the event loop runs and its time-outs expire.  Nothing is assumed
  of provider threads: `FetchReturns` holds though they hang with every permit.
- `MCAlertPipeline`: the statements of an evaluation return or fail; PostgreSQL
  grants a row lock in the order of requests (strong fairness of `Select`).
- `RefreshCoordinator` (as `MCFairSpec` of the part "refresh"): bounded waits end;
  the provider is only assumed to answer the requests whose own return is claimed.
- `LiveClient`: timers fire, requests settle, closing sockets close, and a server
  that is tried for ever accepts some connection.  No fairness of the user.
- `ClientCache`: time passes and the timers of the retry layer fire.  A request
  may stay unanswered for ever and a message undelivered, and the cleanup need
  never run: what is expired is not served (`Heals` speaks of what is).
- `CacheCleanup`: queued runs start and the timer fires; a browser with idle
  callbacks gives a waiting run idle time some day (a run started by the time-out
  of `requestIdleCallback` gets none).  Nothing of the kind is assumed without
  them, where `setTimeout` hands every run a deadline of 0.
- `Workspace`, `Activity`, `AlertDesk`, `AuthSession` and `LegacyBook` have no
  liveness property: a transaction is never obliged to commit, nor an answer to
  arrive.  Neither has `RateLimiter`, whose `RetryHonest` says when a client is
  admitted.

## Findings

Four runs end in a counterexample, each against a sentence of the repository.

- `hub_one_poll`: "One WebSocket quote poll per ticker per application process"
  (`README.md:16`).  A task that drops its own last listener after a failed
  broadcast unregisters itself (`quote_hub.py:108`) and still sleeps once.  A
  client that joins in this sleep starts a second task, and the first one wakes,
  sees a listener, and polls on: two pollers until the ticker is abandoned.
  `ImplementsFeed` shows that clients do not notice.
- `alert_crossing`: "Price and Smart S/R alerts evaluate from verified fresh
  quotes while the terminal is active" (`README.md:25-28`).  Each quote replaces
  the cached price that the next one is compared with, while evaluations are
  throttled (`main.py:1155`): a crossing on a throttled poll is never evaluated.
- `quote_outage`: "Calculation APIs fail rather than ... silently use an
  unboundedly old quote" (`main.py:1084-1085`).  During an outage
  `get_price_bundle` stores the last known price again with the current time
  (`main.py:1061`), so it does not age as long as somebody polls.
- `client_switch`: "reconnect, sequence, stale-data, offline, resume, and
  stale-request guards are included" (`README.md:16-18`).  `switchStock`
  (`market-terminal.js:280-281`) sets `currentLivePrice` to null and writes only
  `#home-live-price`, an element `index.html` does not have.  The price on display
  (`#live-price`) stays that of the ticker before, without the stale mark, beside
  the title of the new one, until the dashboard answers, and for good if it fails
  (`market-terminal.js:254-258`).  `OldPriceTended` and `OldPriceGoes` say what is
  left: no late frame or answer brings an old price back, and one that is on
  display is replaced unless the dashboard fails or a resynchronisation is
  skipped.

Behaviour the models show and no text of the repository denies, which the
properties therefore exempt:

- `PUT /api/preferences` merges into settings read before the lock, so of two
  overlapping requests one may undo the other's key; a picture the user chose
  can be overwritten by an overlapping first request (`ChoicesKept`).
- An alert evaluation claims its throttle slot before it looks for a place in
  the pool, so a refused evaluation is not retried by the next poll.
- A price bundle that answers late stores its price over a newer one.
- A read after a mutation may join a request sent before it; an attempt that
  timed out leaves its request on the network, and its retry joins it; another
  tab's late write to localStorage can bring an old answer back until it ages
  out (`NoOldAnswerKept` speaks of the network's answers only, `Heals` of the
  end).
- Without `requestIdleCallback` the cleanup of the request cache does the first
  category once and then queues itself every tenth of a second for ever, since
  `timeRemaining()` is 0 (`cache.js:50`, `cache.js:256`); its five-minute timer is
  never set.  Expired records of the other categories stay in memory until
  something uses their key, though they are never served (`Swept` speaks of
  browsers that have it).
- A leader of a token refresh whose event a follower gave up may still rotate:
  then two rotations of one token are under way (`OneRefresh`).
- `close()` does not cancel the unregistered task of `hub_one_poll`.
- The browser is signed out without having asked for it (`failed` in
  `SessionKept`) when the provider fails during a renewal on `/api/auth/me`, the
  one route that answers normally after it; when a rotated token's answer is
  lost or comes back after the share expired; and when a request is refused
  while a leader it gave up is between rotating and sharing (`auth.py:424`).  On
  every other route the failure's answer carries no cookies and harms nothing.
- Answers apply in the order they arrive: a renewal that a sign-out overtook
  brings the cookies back, and one of an earlier login replaces a later
  (`crossed`).  So no property says that a browser stays signed out; what it
  could say without the overtaken renewal is that `clear_session_cookies` clears.
- A session without a remember marker becomes session-only when a request renews
  it, and a login of thirty days when `/api/auth/refresh` does
  (`MarkerMatchesLogin` speaks of tokens whose marker is known).
- Starting to sign in with Google in a second tab ends the attempt of the first,
  whose callback fails and leaves the session as it was (`SessionKept`).
- A client whose record the limiter evicts starts with an empty window, though
  it was active (`WindowHolds` speaks of the present record).
- `GET /api/positions` on the legacy lists writes its copies back by position in
  the list.  A close that rebinds the list meanwhile shifts the pairs: a position
  takes over the id and contract of its neighbour, the closed one included.  An
  edit made meanwhile is undone.  Two overlapping removals bring one of the two
  back.  Ids are drawn without looking: a close removes every position of the
  id.  `DemoKeepsWord` names these cases, and `WordKept` shows there are no others.

## What is proved

TLAPS checks these for every value of the constants that satisfies the named
assumption of the module: any number of tickers, connections, tasks, threads,
keys and requests, any limits and times.

- `QuoteHubProofs`, from `HubAssumption` (finite sets of tickers, connections and
  tasks, limits that the constructor accepts, names of absent values that are
  not values): `TypeCorrect`, `AlwaysPolled` (`WatchedIsPolled`), `NeverLeaks`
  (`NoLeakedSubscriber`), `WatchersCurrent` (every watcher has the newest frame,
  and a counter lives as long as its snapshot), `OrderedFrames` (a connection
  gets growing sequence numbers).
  The inductive invariant `Registration` joins types, `WatchedIsPolled` and
  `NoLeakedSubscriber`, which need each other (a task that ends must not take
  its successor's registration along: lemma `FinishTasks`), to `Bookkeeping`:
  whoever is not idle has a ticker, only those who join wait for a task, and
  nobody has a frame before `subscribe()`.  `FrameInvariant` is inductive
  relative to it, with the lemma that pruning forgets a snapshot together with
  its counter and leaves watched tickers alone (`PruneEffect`).
  On these rest two results about steps.  `HubImplementsFeed` (`ImplementsFeed`) is
  the refinement: the initial hub is the initial feed, and each step of the hub
  is a join, a departure or a publication of the feed or changes nothing of it;
  locks, tasks that cancel and join each other, broadcasts and pruning are the
  hub's own affair.  It needs that every watcher has seen the newest frame
  (`SeenIsNewest`), which is what the feed hands out on a join.  `PriceSurvives`
  (`WatchedPriceKept`) says that only a publication changes what a watched ticker
  last showed.
- `SingleFlightProofs`, from `FlightAssumption` (no function needs itself, however
  indirectly; the TTL is not 0): `TypeCorrect`, `NoStampede` (`OneProducer`), `NoLostWakeup` (whoever
  waits, waits for a flight that is over and carries an answer, or that a live
  producer of the same key holds), `AnswersFresh` (`FreshAnswers`), `NoDeadlock`
  (`NoneStuck`).
  The inductive invariant `FlightInv` adds that a producer's flight is registered
  for its key and not done (`OwnerRegistered`), that a registered flight has a
  producer and belongs to one key (`RegisteredOwned`), that a value or an error
  is assigned before a flight is completed (`AnswerAssigned`), and that a waiter's
  flight is done with an answer or still registered (`WaiterCovered`).  For
  `AnswersFresh` the invariant `Freshness` follows an answer from the thread that
  stored it through the flight to every waiter: it is never older than the TTL as
  seen from the time at which that thread's own call was made.
  For `NoDeadlock` the invariant adds `NestedOpen`: a call that computes through a
  nested one needs a cached function, and its thread's call of that one is under
  way.  In a group of calls that all wait for one another, some function needs
  none of the others, because `Needs` has no cycle.  The flight its call waits for
  is led by a call of the same function, which belongs to the group, and so waits
  for the nested call that its function was said not to need.
- `AuthProofs` proves about three modules that share no variable.
  `RefreshCoordinator`, from `RefreshAssumption`: `TypeCorrect`, `NoStaleEvent`
  (`FlightHasLeader`, a part of `OneRefresh`), `SingleRefresh` (`OneRefresh`).  The inductive invariant
  `RefreshInv` adds that a leader owns its event (`LeadersOwn`), has it registered
  unless a follower gave it up (`LeadersRegistered`), and that a follower waits
  for some leader's event (`WaitersFollow`).
  `RateLimiter`, from `LimiterAssumption` (limits above 0; forwarded hops are
  addresses or not): `NeverMoreThanLimit` (`WindowHolds`) and `HonestRetry`
  (`RetryHonest`, which the runs do not check).  A window is not checked by the
  code at all: it counts what its deque still holds.  The inductive invariant
  joins types to `Sound` of every client: the deque is a suffix of the admissions
  under the client's record (`Suffix`) and at most the limit long, what was
  dropped from it is a full window old (`Past`), admissions a limit apart are a
  window apart (`Spaced`), and the last Retry-After is honoured (`Due`).
  `AuthSession`, from `SessionAssumption` ("no value" is not a value):
  `SessionNotLost` (`SessionKept`), `ChoiceRemembered` (`MarkerMatchesLogin`).
  Neither is inductive, for each speaks of the browser alone, and the next
  cookies are already on their way.  `SessInv` follows them: what a request that
  has yet to answer carries (`Phase`: a renewal, a new login, a clearing that its
  login has deserved, or nothing of the session); that tokens and marker come and
  go together (`JarsWhole`); that a login is used only once its answer arrived
  (`Fresh`), all its tokens were given at one choice (`OneChoice`) and the browser
  has the newest of them (`Newest`); and that what the browser, or a request that
  has yet to show it, holds is not spent (`AllUsable`, the strengthening of
  `SessionKept` by the requests under way).
- `AlertProofs`, from `AlertAssumption` (finitely many rules, those of the
  start well formed; an interval above 0) and `DeskAssumption`: `CooldownKept`
  (`OncePerCooldown`), `RowsTellEvents` (`TriggerStateMatchesEvents`),
  `StoredRuleFires` (`FiresOnStoredRule`), `StoredRulesEvaluable`
  (`RulesStayEvaluable`), `InboxHidesNothing` (`HidesNothing`), of evaluations
  and owner together.  The inductive invariant `AInv` rests on the row locks: a
  row is locked by one evaluation (`Exclusive`), so what that evaluation decided
  still holds of it (`Decided`), and every row tells what its events say
  (`Remembered`).  Two overlapping evaluations do not commit the same event
  twice because observations have distinct times (`Distinct`), also of threads
  that outlive a restart.  `Shown` carries the inbox over its two statements.
- `LiveQuoteProofs`, from `QuoteAssumption`: `PermitsComeBack`
  (`ResourcesBounded`), `FreshAnswersRecent` (`FreshMeansRecent`).  The inductive
  invariant `QInv` counts the permits that are away by the threads that have
  them (`Lent`), however long ago their coroutines gave up; gives each waiting
  coroutine a thread that runs for it alone (`Attended`); and follows a quote
  from the bundle through the thread to the coroutine (`Timely`), with the time
  at which that coroutine began.
- `LiveClientProofs`, from `ClientAssumption`: `SingleFeed` (`OneFeed`),
  `AlwaysTended` (`FeedWatched`), `OldPriceLeaves` (`OldPriceTended`).  The
  inductive invariant `CInv` adds that whatever is still current, a socket or a
  queued frame, was made for the ticker of the view, and that a feed or a queued
  frame exists in the REGULAR session only (`OfView`); and that beside an old
  price that no request is about to replace there is no feed (`Unfed`), so that a
  resynchronisation which is skipped then counts as the gap it is.
- `WorkspaceProofs`, from `WorkspaceAssumption` (finitely many tickers; quantities
  above 0).  Of `Workspace`: `LedgerMatches` (`HoldingMatchesLedger`),
  `KeysStayDistinct` (`KeysDistinct`, which no run checks by itself, since
  `RoutesAreAtomic` says more), `ChoicesStay` (`ChoicesKept`), and
  `DeskSafe`, which is the inductive invariant `DeskInv` itself.  It is the
  argument that the code leaves to its first statement: only who holds the lock of
  the default portfolio is at work, and what it is about to write is right for the
  rows as they are now, though it locked none of them (`AtWork` with `Fits`: the
  drafted holding agrees with the ledger after the trade, the drafted name is not
  taken, the drafted order gives no place twice).  The rounding of a purchase and
  of a sale is bounded by what `books` allows (`Agrees`).  `Seen` says what a
  request still knows of the settings it read before the lock.  A place at the end
  of a watchlist is above all others because a finite set has a highest member
  (`Highest`, by well-foundedness of the subsets of a finite set).
  `RoutesAtomic` (`RoutesAreAtomic`) is the refinement of `AtomicWorkspace`.  The
  other half of what a request at work is about to write is that a route running
  alone could write it to these very rows (`AtOnce`): the portfolio is there and not
  archived, the shares differ from the current ones by the traded quantity, the new
  places are a permutation or bring in or drop one ticker and leave the others in
  their order (`Rearranged`).  Each route establishes it behind the lock (ranks grow
  with places, `RankGrows`), nobody's commit disturbs it, and `CommitIsAtomic` turns
  it into the abstract step; `Inserts` and `Drops` say what such a change of
  places does to the order.  It needs that the default watchlist and the archived
  portfolios keep their names (`Standing`).
  Of `Activity`: `NoCountLost` (`CountsComplete`), `FinalStays` (`ClosedIsFinal`),
  with `ActInv`: who is at work holds the lock (`Exclusive`), therefore what it read
  still holds when it commits (`Current`).
  Of `LegacyBook`, from `BookAssumption` (the list the process starts with has no
  ticker twice): `WordKept` (`DemoKeepsWord`).  While no two requests met in a way
  that loses an update, `BookInv` has that a close removes the position it found
  and no other (`Aims`), and that what a listing has yet to write back is what its
  partner in the list says already (`Mirrors`), so that writing it changes
  nothing.  `WithoutEffect` is the lemma about filtering: no repetition comes in
  and what is not dropped stays; it numbers the places that are kept by counting
  those before them, where an induction over the list is out of reach.
- `ClientCacheProofs`, from `CacheAssumption`: `TableIsRight` (`OneFetchPerKey`),
  `NothingOldReturns` (`NoOldAnswerKept`).  The inductive invariant `CacheInv` says
  that the table of requests is right about every key: one request on the network
  if the key is registered and none otherwise, and an answer under the current
  generation is as new as the tab knows of (`Slots` with `Asked`).  It needs
  that nobody hears of a change before the server made it (`Told`), since
  otherwise an invalidation could ask for data newer than the next answer; that a
  read which waits to retry has an attempt left (`Reads`); and that each memory
  stays within its limit and finite (`Stores`), or the eviction behind an answer
  would have no outcome.

Each proof has one step per action.  The bounds `MaxTime`, `MaxSeq`, `MaxMoves`
and the like, and the finite sets of identities, are constants of the theorems
like any other, so the results hold whatever they are.

Only model-checked: every liveness property (`Served`, `CleanedUp`, `CallsReturn`,
`EvaluationEnds`, `Returns`, `FetchReturns`, `FeedComesUp`, `OldPriceGoes`,
`ReadsEnd`, `Heals`, `Swept`).
Every safety invariant and every action property of a passing run is a theorem.

Out of the prover's reach: liveness under fairness and `ENABLED`; induction over
data, so what a recursive definition computes on every input; recursive
operators, which no module of this project declares.

## What is not modelled

- The ranking of the market catalogue and the clustering of support levels:
  stateless, candidates for a comparison with a reference definition.
- Option pricing and analytics: floating-point formulas without state.
- Within the modelled parts: how news, IV and earnings rules would be evaluated
  (no code path does it), `last_evaluated_at`, delivery channels and texts of
  alerts; the routes that only send a mail, the cross-origin check and the
  fallbacks of an incomplete configuration of authentication; the order in which
  portfolios are displayed and the valuation of holdings; the option-chain and
  history routes; the chart's own refresh, the workspace restored after a login;
  the storage-event fallback and metrics of the request cache.
- What a position's marks are: every reader computes them anew.
- Rendering, the service worker's one handler, migrations, scripts.

## Plan

The order puts the code with the most interleavings first; 1 to 11 are done.

1. `QuoteFeed`, `QuoteHub`, `QuoteHubProofs`.
2. `SingleFlight`, `SingleFlightProofs`.
3. `AlertPipeline`.
4. `LiveQuote`.
5. `RefreshCoordinator` and its part of `AuthProofs`.
6. `LiveClient`, `ClientCache`, `CacheCleanup`.
7. `Workspace`, `AtomicWorkspace`.
8. The rest of the services around them: `AlertRules` and `AlertDesk`, `Activity`,
   `AuthSession`, `LegacyBook`.
9. `RateLimiter` and its part of `AuthProofs`.
10. `AlertProofs`, `LiveQuoteProofs`, `LiveClientProofs`, `WorkspaceProofs`.
11. The refinements of `QuoteFeed` and `AtomicWorkspace`, the session's part of `AuthProofs`, the routes of
    `Workspace` and the lists of `LegacyBook`, `ClientCacheProofs`.
12. The browser's polling of the inbox (`notifications.js`) and the change of
    session in the page (`app-shell/auth.js`, `workspace.js`) with `LiveClient`; the
    ranking of the catalogue and the clustering of support levels as functions
    compared with a reference definition.
13. New actions join the runs of the modules they extend, and a new property
    replaces a shallower one there, so that the whole project stays checkable in
    minutes.
