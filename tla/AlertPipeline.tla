---------------------------- MODULE AlertPipeline ----------------------------
(***************************************************************************)
(* From a provider quote to a notification: fetch_live_quote and           *)
(* maybe_evaluate_price_alerts (main.py) throttle and start evaluations,   *)
(* evaluate_price_alerts (alert_service.py) runs each in a thread and a    *)
(* PostgreSQL transaction of its own.  One ticker; its price and support/  *)
(* resistance rules belong to any number of profiles.                      *)
(*                                                                         *)
(* fetch_live_quote runs in the hub's poll task and, at the same time, in  *)
(* GET /api/quote.  Times are ticks of one clock; a dedupe key is the rule *)
(* with the tick of the observation.                                       *)
(***************************************************************************)
EXTENDS AlertRules, FiniteSets

CONSTANTS
  Alerts, Fetchers,
  Evals,         \* identities of evaluation tasks
  Prices,
  Ticker, Tickers,
  NoRule,
  Initials,      \* the rules that may exist at the start
  MinInterval,   \* ALERT_PRICE_EVALUATION_MIN_INTERVAL_SECONDS
  MaxPreviousAge,\* ALERT_PREVIOUS_QUOTE_MAX_AGE_SECONDS
  Concurrency,   \* ALERT_EVALUATION_MAX_CONCURRENCY
  MaxTime        \* bound: last tick of the clock

ASSUME AlertAssumption ==
  /\ IsFiniteSet(Alerts)
  /\ Prices \subseteq Nat /\ NoPrice \notin Nat /\ Never \notin Nat
  /\ NoTarget \notin Nat /\ Ticker \in Tickers /\ NoTicker \notin Tickers
  /\ NoRule \notin Definition(Tickers)
  /\ \A rules \in Initials, a \in Alerts :
       rules[a] = NoRule \/ (rules[a] \in Definition(Tickers) /\ WellFormed(rules[a]))
  /\ MinInterval \in Nat \ {0} /\ MaxPreviousAge \in Nat
  /\ Concurrency \in Nat \ {0} /\ MaxTime \in Nat

VARIABLES
  quote,    \* live_prices[ticker]: price and time of the last good quote
  fetch,    \* the coroutines in fetch_live_quote
  claimed,  \* _alert_evaluation_last_ms[ticker]
  eval,     \* the evaluation tasks
  row,      \* the alerts table
  events,   \* the notification_events table
  fired,    \* history: every event ever inserted
  now

vars == <<quote, fetch, claimed, eval, row, events, fired, now>>

Time == Nat \cup {Never}
Quote == [price : Prices \cup {NoPrice}, at : Nat]
NoQuote == [price |-> NoPrice, at |-> 0]

(* `previous` is the cached price read before the provider was asked.      *)
Fetch == [pc : {"idle", "fetching", "answered"}, previous : Prices \cup {NoPrice},
          age : Nat, price : Prices \cup {NoPrice}]
IdleFetch == [pc |-> "idle", previous |-> NoPrice, age |-> 0, price |-> NoPrice]

(* `locked` are the rows it selected FOR UPDATE and `matched` those that    *)
(* evaluate_alert matched, as the rows were when they were selected; an    *)
(* orphan belongs to a process that is shutting down, which cancels tasks  *)
(* but not threads.                                                        *)
Eval == [pc : {"idle", "started", "writing", "done"}, price : Prices \cup {NoPrice},
         previous : Prices \cup {NoPrice}, at : Nat, locked : SUBSET Alerts,
         matched : SUBSET Alerts, orphan : BOOLEAN]
IdleEval == [pc |-> "idle", price |-> NoPrice, previous |-> NoPrice, at |-> 0,
             locked |-> {}, matched |-> {}, orphan |-> FALSE]

(* last_triggered_at and trigger_count; no step reads last_evaluated_at.   *)
Row == [state : {"unused", "live", "deleted"}, rule : Definition(Tickers) \cup {NoRule},
        triggered : Time, count : Nat]
Unused == [state |-> "unused", rule |-> NoRule, triggered |-> Never, count |-> 0]
Stored(d) == [state |-> "live", rule |-> d, triggered |-> Never, count |-> 0]

(* The payload has the observation; the dedupe key is the alert and `at`.  *)
Event == [alert : Alerts, at : Nat, price : Prices, previous : Prices \cup {NoPrice}]

Init ==
  /\ quote = NoQuote
  /\ fetch = [c \in Fetchers |-> IdleFetch]
  /\ claimed = Never
  /\ eval = [e \in Evals |-> IdleEval]
  /\ \E rules \in Initials :
       row = [a \in Alerts |-> IF rules[a] = NoRule THEN Unused ELSE Stored(rules[a])]
  /\ events = {}
  /\ fired = {}
  /\ now = 0

(***************************************************************************)
(* The quote side, on the event loop.                                      *)
(***************************************************************************)
StartFetch(c) ==
  /\ fetch[c].pc = "idle"
  /\ fetch' = [fetch EXCEPT ![c] =
                 [pc |-> "fetching", previous |-> quote.price,
                  age |-> now - quote.at, price |-> NoPrice]]
  /\ UNCHANGED <<quote, claimed, eval, row, events, fired, now>>

(* _claim_price_alert_evaluation                                           *)
Throttled == claimed # Never /\ now - claimed < MinInterval

(* The crossing conditions only see a recent previous price.               *)
Previous(f) == IF f.age <= MaxPreviousAge THEN f.previous ELSE NoPrice

Running == {e \in Evals : eval[e].pc # "idle" /\ ~eval[e].orphan}

(* maybe_evaluate_price_alerts: it does not suspend before the new task is *)
(* registered, since the semaphore is acquired only when it is free.       *)
MaybeEvaluate(f, price) ==
  IF Throttled THEN UNCHANGED <<claimed, eval>>
  ELSE /\ claimed' = now
       /\ IF Cardinality(Running) >= Concurrency THEN UNCHANGED eval
          ELSE \E e \in Evals :
                 /\ eval[e].pc = "idle"
                 /\ eval' = [eval EXCEPT ![e] =
                               [pc |-> "started", price |-> price, previous |-> Previous(f),
                                at |-> now, locked |-> {}, matched |-> {},
                                orphan |-> FALSE]]

(* Polygon or the one-minute price answered: the coroutine stores it.      *)
QuoteAnswers(c, price) ==
  /\ fetch[c].pc = "fetching"
  /\ quote' = [price |-> price, at |-> now]
  /\ fetch' = [fetch EXCEPT ![c] = IdleFetch]
  /\ MaybeEvaluate(fetch[c], price)
  /\ UNCHANGED <<row, events, fired, now>>

(* get_price_bundle stores its price in the provider thread; the coroutine *)
(* goes on later.                                                          *)
BundleStored(c, price) ==
  /\ fetch[c].pc = "fetching"
  /\ quote' = [price |-> price, at |-> now]
  /\ fetch' = [fetch EXCEPT ![c] = [@ EXCEPT !.pc = "answered", !.price = price]]
  /\ UNCHANGED <<claimed, eval, row, events, fired, now>>

BundleAnswers(c) ==
  /\ fetch[c].pc = "answered"
  /\ fetch' = [fetch EXCEPT ![c] = IdleFetch]
  /\ MaybeEvaluate(fetch[c], fetch[c].price)
  /\ UNCHANGED <<quote, row, events, fired, now>>

FetchFails(c) ==
  /\ fetch[c].pc = "fetching"
  /\ fetch' = [fetch EXCEPT ![c] = IdleFetch]
  /\ UNCHANGED <<quote, claimed, eval, row, events, fired, now>>

(***************************************************************************)
(* The evaluation side, in a thread.                                       *)
(***************************************************************************)
Locked == UNION {eval[e].locked : e \in Evals}

Live == {a \in Alerts : row[a].state = "live"}

(* The WHERE clause of evaluate_price_alerts.                              *)
Selected(x) ==
  {a \in Live : LET d == row[a].rule
                IN d.ticker = Ticker /\ d.type \in PriceTypes /\ d.enabled /\ ~Expired(d, x.at)}

CoolingNever(a, at) == FALSE   \* mutation: the cooldown is not looked at

Cooling(a, at) ==
  row[a].triggered # Never /\ row[a].triggered + row[a].rule.cooldown > at

(* The rules evaluate_alert matches, outside their cooldown.               *)
Due(x) ==
  {a \in Selected(x) : ~Cooling(a, x.at) /\ Matches(row[a].rule, x.price, x.previous)}

SelectUnlocked(e) ==   \* mutation: SELECT without FOR UPDATE
  /\ eval[e].pc = "started"
  /\ eval' = [eval EXCEPT ![e] =
                [@ EXCEPT !.pc = "writing", !.matched = Due(eval[e])]]
  /\ UNCHANGED <<quote, fetch, claimed, row, events, fired, now>>

(* SELECT ... FOR UPDATE, which looks at a row again after waiting for it. *)
Select(e) ==
  /\ eval[e].pc = "started"
  /\ Selected(eval[e]) \cap Locked = {}
  /\ eval' = [eval EXCEPT ![e] =
                [@ EXCEPT !.pc = "writing", !.locked = Selected(eval[e]),
                          !.matched = Due(eval[e])]]
  /\ UNCHANGED <<quote, fetch, claimed, row, events, fired, now>>

(* _record_alert_trigger inserts an event only under a new dedupe key.     *)
EventOf(a, x) == [alert |-> a, at |-> x.at, price |-> x.price, previous |-> x.previous]

(* _existing_deduped_event.                                                *)
Deduped(a, x) == \E ev \in events : ev.alert = a /\ ev.at = x.at

Triggers(x) == {a \in x.matched : ~Deduped(a, x)}

CommitUnrecorded(e) ==   \* mutation: the trigger time is not written back
  LET x == eval[e]
      new == {EventOf(a, x) : a \in Triggers(x)}
  IN /\ x.pc = "writing"
     /\ row' = [a \in Alerts |->
                  IF a \in Triggers(x) THEN [row[a] EXCEPT !.count = @ + 1] ELSE row[a]]
     /\ events' = events \cup new
     /\ fired' = fired \cup new
     /\ eval' = [eval EXCEPT ![e] = [@ EXCEPT !.pc = "done", !.locked = {}]]
     /\ UNCHANGED <<quote, fetch, claimed, now>>

(* The rest of evaluate_price_alerts, and the commit of session_scope.     *)
Commit(e) ==
  LET x == eval[e]
      new == {EventOf(a, x) : a \in Triggers(x)}
  IN /\ x.pc = "writing"
     /\ row' = [a \in Alerts |->
                  IF a \in Triggers(x)
                  THEN [row[a] EXCEPT !.triggered = x.at, !.count = @ + 1]
                  ELSE row[a]]
     /\ events' = events \cup new
     /\ fired' = fired \cup new
     /\ eval' = [eval EXCEPT ![e] =
                   [@ EXCEPT !.pc = "done", !.locked = {}, !.matched = {}]]
     /\ UNCHANGED <<quote, fetch, claimed, now>>

AbortHolding(e) ==   \* mutation: the failed task is never removed from the pool
  /\ eval[e].pc \in {"started", "writing"}
  /\ eval' = [eval EXCEPT ![e] =
                [@ EXCEPT !.pc = "started", !.locked = {}, !.matched = {}]]
  /\ UNCHANGED <<quote, fetch, claimed, row, events, fired, now>>

(* The database refuses: rollback, a warning, and no event.                *)
Abort(e) ==
  /\ eval[e].pc \in {"started", "writing"}
  /\ eval' = [eval EXCEPT ![e] =
                [@ EXCEPT !.pc = "done", !.locked = {}, !.matched = {}]]
  /\ UNCHANGED <<quote, fetch, claimed, row, events, fired, now>>

(* release_when_finished, on the event loop.                               *)
Release(e) ==
  /\ eval[e].pc = "done"
  /\ eval' = [eval EXCEPT ![e] = IdleEval]
  /\ UNCHANGED <<quote, fetch, claimed, row, events, fired, now>>

(* The process is replaced: what it kept in memory is lost, and each of    *)
(* its evaluation threads is either killed or still runs to its end.  Two  *)
(* observations never have the same time, so a restart takes one tick.     *)
Restart ==
  /\ now < MaxTime
  /\ quote' = NoQuote
  /\ fetch' = [c \in Fetchers |-> IdleFetch]
  /\ claimed' = Never
  /\ \E survivors \in SUBSET {e \in Evals : eval[e].pc \in {"started", "writing"}} :
       eval' = [e \in Evals |-> IF e \in survivors THEN [eval[e] EXCEPT !.orphan = TRUE]
                                ELSE IdleEval]
  /\ now' = now + 1
  /\ UNCHANGED <<row, events, fired>>

Tick ==
  /\ now < MaxTime
  /\ now' = now + 1
  /\ UNCHANGED <<quote, fetch, claimed, eval, row, events, fired>>

Evaluate(e) == Select(e) \/ Commit(e) \/ Abort(e) \/ Release(e)

Next ==
  \/ \E c \in Fetchers : StartFetch(c) \/ BundleAnswers(c) \/ FetchFails(c)
  \/ \E c \in Fetchers, price \in Prices : QuoteAnswers(c, price) \/ BundleStored(c, price)
  \/ \E e \in Evals : Evaluate(e)
  \/ Restart \/ Tick

-----------------------------------------------------------------------------
(* Types of the pipeline's state; an event in the inbox was inserted.      *)
TypeOK ==
  /\ quote \in Quote
  /\ fetch \in [Fetchers -> Fetch]
  /\ claimed \in Time
  /\ eval \in [Evals -> Eval]
  /\ row \in [Alerts -> Row]
  /\ events \subseteq fired /\ fired \subseteq Event
  /\ now \in Nat

(* No rule fires twice within its cooldown, as it is when the rule fires,  *)
(* whatever the order in which evaluations commit, across restarts,        *)
(* overlapping processes and deleted notifications.                        *)
OncePerCooldown ==
  [][\A ev \in fired' \ fired, x \in fired :
       x.alert = ev.alert => x.at + row[ev.alert].rule.cooldown <= ev.at]_vars

(* trigger_count and last_triggered_at describe exactly the events that    *)
(* were inserted: "a second worker" does not count an event it did not     *)
(* create.                                                                 *)
TriggerStateMatchesEvents ==
  \A a \in Live :
    LET mine == {ev.at : ev \in {x \in fired : x.alert = a}}
    IN /\ row[a].count = Cardinality(mine)
       /\ IF mine = {} THEN row[a].triggered = Never
          ELSE row[a].triggered \in mine /\ \A at \in mine : at <= row[a].triggered

(* An event is inserted only for a rule that, as it is stored when the      *)
(* event is inserted, is enabled, has not expired and matches the observed *)
(* price: not for the rule as it was before its owner changed, disabled or *)
(* deleted it while the evaluation was running.                            *)
FiresOnStoredRule ==
  [][\A ev \in fired' \ fired :
       /\ row[ev.alert].state = "live"
       /\ LET d == row[ev.alert].rule
          IN /\ d.type \in PriceTypes /\ d.enabled /\ ~Expired(d, ev.at)
             /\ Matches(d, ev.price, ev.previous)]_vars

(* Every evaluation ends and gives its place back.                         *)
EvaluationEnds == \A e \in Evals : eval[e].pc # "idle" ~> eval[e].pc = "idle"

(* "Price and Smart S/R alerts evaluate from verified fresh quotes while   *)
(* the terminal is active": a quote that takes the price across the target *)
(* of an enabled rule outside its cooldown is evaluated as that crossing.  *)
CrossingsEvaluated ==
  [][\A a \in Live :
       /\ row[a].rule.condition = "crosses_above" /\ row[a].rule.enabled
       /\ \E c \in Fetchers, price \in Prices : QuoteAnswers(c, price)
       /\ quote.price # NoPrice /\ quote.price < row[a].rule.target
       /\ quote'.price >= row[a].rule.target
       /\ quote.at < now /\ now - quote.at <= MaxPreviousAge
       /\ Cardinality(Running) < Concurrency
       => \E e \in Evals : /\ eval[e].pc = "idle" /\ eval'[e].pc = "started"
                           /\ Matches(row[a].rule, eval'[e].price, eval'[e].previous)]_vars
=============================================================================
