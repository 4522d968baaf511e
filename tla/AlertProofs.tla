---------------------------- MODULE AlertProofs ----------------------------
(***************************************************************************)
(* AlertDesk for any rules, evaluations, fetchers, prices and times.       *)
(***************************************************************************)
EXTENDS AlertDesk, FiniteSetTheorems, TLAPS

(***************************************************************************)
(* The inductive invariant, as predicates of one row, one evaluation, one  *)
(* fetch, and of pairs of them.                                            *)
(***************************************************************************)
RowOK(w) ==
  /\ w \in Row
  /\ w.state = "live" => w.rule \in Definition(Tickers) /\ WellFormed(w.rule)

TaskOK(x) ==
  /\ x \in Eval
  /\ x.matched \subseteq x.locked
  /\ x.pc # "writing" => x.locked = {}
  /\ x.pc \in {"started", "writing"} => x.price \in Prices

FetchOK(f) == f \in Fetch /\ (f.pc = "answered" => f.price \in Prices)

(* What Due says of one row.                                               *)
RowDue(w, x) ==
  /\ w.state = "live"
  /\ w.rule.ticker = Ticker /\ w.rule.type \in PriceTypes
  /\ w.rule.enabled /\ ~Expired(w.rule, x.at)
  /\ ~(w.triggered # Never /\ w.triggered + w.rule.cooldown > x.at)
  /\ Matches(w.rule, x.price, x.previous)

(* What TriggerStateMatchesEvents says of one row.                         *)
Mine(a, F) == {ev.at : ev \in {x \in F : x.alert = a}}

Tells(w, times) ==
  /\ w.count = Cardinality(times)
  /\ IF times = {} THEN w.triggered = Never
     ELSE w.triggered \in times /\ \A at \in times : at <= w.triggered

Busy(x) == x.pc \in {"started", "writing"}

(* An observation that was admitted by the throttle before the next one.   *)
Before(t, c, n) == IF c = Never THEN t < n ELSE t <= c

Rows == row \in [Alerts -> Row] /\ \A a \in Alerts : RowOK(row[a])
Tasks == eval \in [Evals -> Eval] /\ \A e \in Evals : TaskOK(eval[e])
Fetches == fetch \in [Fetchers -> Fetch] /\ \A c \in Fetchers : FetchOK(fetch[c])
Clocks ==
  /\ quote \in Quote /\ now \in Nat /\ quote.at <= now
  /\ claimed \in Time /\ (claimed = Never \/ claimed <= now)

(* What an evaluation decided still holds of the rows it has locked.       *)
Decided == \A e \in Evals : \A a \in eval[e].matched : RowDue(row[a], eval[e])

(* FOR UPDATE: a row is locked by one evaluation.                          *)
Exclusive ==
  \A e, f \in Evals : e # f => eval[e].locked \cap eval[f].locked = {}

(* Observations have distinct times.                                       *)
Distinct ==
  /\ \A e \in Evals : Busy(eval[e]) => Before(eval[e].at, claimed, now)
  /\ \A x \in fired : Before(x.at, claimed, now)
  /\ \A e, f \in Evals : e # f /\ Busy(eval[e]) /\ Busy(eval[f]) => eval[e].at # eval[f].at
  /\ \A e \in Evals, x \in fired : Busy(eval[e]) => eval[e].at # x.at

(* The history is finite and holds every event of the inbox.               *)
Log == fired \subseteq Event /\ IsFiniteSet(fired) /\ events \subseteq fired

(* Every row says what its events say.                                     *)
Remembered ==
  \A a \in Alerts :
    /\ row[a].state = "unused" => Mine(a, fired) = {}
    /\ row[a].state = "live" => Tells(row[a], Mine(a, fired))

(* What the answer under way says of the inbox still holds.                *)
Shown ==
  /\ read \subseteq events /\ desk \in Desk /\ edits \in 0..MaxEdits
  /\ desk.pc = "listed" => desk.shown \subseteq Unread
  /\ desk.pc = "counted" => Cardinality(desk.shown) <= desk.unread
  /\ desk.pc = "marking" => desk.selected \subseteq events

Pipeline ==
  /\ Rows /\ Tasks /\ Fetches /\ Clocks /\ Decided /\ Exclusive /\ Distinct
  /\ Log /\ Remembered

AInv == Pipeline /\ Shown

(***************************************************************************)
(* Facts about the helpers.                                                *)
(***************************************************************************)
LEMMA DueMeans ==
  ASSUME NEW x, NEW a \in Due(x)
  PROVE  a \in Alerts /\ RowDue(row[a], x)
BY DEF Due, Selected, Live, Cooling, RowDue

LEMMA MineOf ==
  ASSUME NEW a, NEW F, IsFiniteSet(F)
  PROVE  IsFiniteSet(Mine(a, F))
<1> DEFINE G == {x \in F : x.alert = a}
           f == [x \in G |-> x.at]
<1>1. IsFiniteSet(G)
  BY FS_Subset
<1>2. f \in Surjection(G, Mine(a, F))
  BY DEF Surjection, Mine
<1> QED BY <1>1, <1>2, FS_Surjection

LEMMA NewEvents ==
  ASSUME NEW x, NEW T, IsFiniteSet(T)
  PROVE  IsFiniteSet({EventOf(a, x) : a \in T})
<1> DEFINE f == [a \in T |-> EventOf(a, x)]
<1>1. f \in Surjection(T, {EventOf(a, x) : a \in T})
  BY DEF Surjection
<1> QED BY <1>1, FS_Surjection

(* One more event of the rule, later than the others.                      *)
LEMMA MineGrows ==
  ASSUME NEW a, NEW F, NEW N, NEW ev \in N, ev.alert = a,
         \A x \in N : x.alert = a => x = ev
  PROVE  Mine(a, F \cup N) = Mine(a, F) \cup {ev.at}
BY DEF Mine

LEMMA MineStays ==
  ASSUME NEW a, NEW F, NEW N, \A x \in N : x.alert # a
  PROVE  Mine(a, F \cup N) = Mine(a, F)
BY DEF Mine

LEMMA TellsNext ==
  ASSUME NEW w, NEW times, IsFiniteSet(times), NEW at \in Nat, at \notin times,
         times \subseteq Nat, w.count \in Nat,
         w \in Row, Tells(w, times), \A t \in times : t <= at
  PROVE  Tells([w EXCEPT !.triggered = at, !.count = @ + 1], times \cup {at})
<1> DEFINE v == [w EXCEPT !.triggered = at, !.count = @ + 1]
<1>1. v.triggered = at /\ v.count = w.count + 1
  BY DEF Row
<1>2. Cardinality(times \cup {at}) = Cardinality(times) + 1
  BY FS_AddElement
<1>3. \A t \in times \cup {at} : t <= at
  OBVIOUS
<1> HIDE DEF v
<1>4. Tells(v, times \cup {at})
  BY <1>1, <1>2, <1>3 DEF Tells
<1> QED BY <1>4 DEF v

LEMMA MergedDefinition ==
  ASSUME NEW d \in Definition(Tickers), NEW draft \in Definition(Tickers), NEW fields
  PROVE  Merged(d, draft, fields) \in Definition(Tickers)
<1>1. DOMAIN d = {"type", "condition", "ticker", "target", "enabled", "cooldown", "expires"}
  BY DEF Definition
<1> QED BY <1>1 DEF Merged, Definition

(***************************************************************************)
(* The quote side.                                                         *)
(***************************************************************************)
(* The throttle lets an observation through only later than the last one.  *)
LEMMA ClaimedBefore ==
  ASSUME Clocks, ~Throttled, NEW t \in Nat, Before(t, claimed, now)
  PROVE  t < now
BY AlertAssumption DEF Clocks, Throttled, Before, Time

LEMMA MaybeKeeps ==
  ASSUME Pipeline, NEW f \in Fetch, NEW price \in Prices, MaybeEvaluate(f, price),
         UNCHANGED <<row, fired, now>>
  PROVE  /\ Tasks' /\ Decided' /\ Exclusive' /\ Distinct'
         /\ claimed' \in Time /\ (claimed' = Never \/ claimed' <= now)
<1> USE DEF Pipeline
<1>1. CASE Throttled
  <2>1. UNCHANGED <<claimed, eval>>
    BY <1>1 DEF MaybeEvaluate
  <2> QED BY <2>1 DEF Tasks, Decided, Exclusive, Distinct, Clocks, Before
<1>2. CASE ~Throttled
  <2>1. claimed' = now /\ now \in Nat /\ Never \notin Nat
    BY <1>2, AlertAssumption DEF MaybeEvaluate, Clocks
  <2>2. \A e \in Evals : Busy(eval[e]) => eval[e].at \in Nat /\ eval[e].at < now
    <3> TAKE e \in Evals
    <3> HAVE Busy(eval[e])
    <3>1. eval[e].at \in Nat
      BY DEF Tasks, Eval
    <3>2. Before(eval[e].at, claimed, now)
      BY DEF Distinct
    <3> QED BY <3>1, <3>2, <1>2, ClaimedBefore
  <2>3. \A x \in fired : x.at \in Nat /\ x.at < now
    <3> TAKE x \in fired
    <3>1. x.at \in Nat
      BY DEF Log, Event
    <3>2. Before(x.at, claimed, now)
      BY DEF Distinct
    <3> QED BY <3>1, <3>2, <1>2, ClaimedBefore
  <2>4. \A t \in Nat : Before(t, claimed', now') <=> t <= now
    BY <2>1 DEF Before
  <2>5. claimed' \in Time /\ (claimed' = Never \/ claimed' <= now)
    BY <2>1 DEF Time
  <2>6. CASE UNCHANGED eval
    <3>1. Distinct'
      <4>1. \A e \in Evals : Busy(eval'[e]) => Before(eval'[e].at, claimed', now')
        BY <2>1, <2>2, <2>4, <2>6
      <4>2. \A x \in fired' : Before(x.at, claimed', now')
        BY <2>1, <2>3, <2>4
      <4>3. \A e, g \in Evals : e # g /\ Busy(eval'[e]) /\ Busy(eval'[g])
                                => eval'[e].at # eval'[g].at
        BY <2>6 DEF Distinct
      <4>4. \A e \in Evals, x \in fired' : Busy(eval'[e]) => eval'[e].at # x.at
        BY <2>6 DEF Distinct
      <4> QED BY <4>1, <4>2, <4>3, <4>4 DEF Distinct, Busy
    <3>2. Tasks'
      BY <2>6 DEF Tasks
    <3>3. Decided'
      BY <2>6 DEF Decided
    <3>4. Exclusive'
      BY <2>6 DEF Exclusive
    <3> QED BY <3>1, <3>2, <3>3, <3>4, <2>5
  <2>7. CASE ~UNCHANGED eval
    <3> DEFINE new == [pc |-> "started", price |-> price, previous |-> Previous(f), at |-> now,
                       locked |-> {}, matched |-> {}, orphan |-> FALSE]
    <3>1. PICK e \in Evals : eval[e].pc = "idle" /\ eval' = [eval EXCEPT ![e] = new]
      BY <1>2, <2>7 DEF MaybeEvaluate
    <3>2. Previous(f) \in Prices \cup {NoPrice}
      BY DEF Previous, Fetch
    <3>3. new \in Eval /\ TaskOK(new)
      BY <3>2, <2>1 DEF Eval, TaskOK
    <3>4. new.at = now /\ new.locked = {} /\ new.matched = {}
      OBVIOUS
    <3> HIDE DEF new
    <3>5. \A g \in Evals : eval'[g] = IF g = e THEN new ELSE eval[g]
      BY <3>1 DEF Tasks
    <3>6. Tasks'
      BY <3>1, <3>3, <3>5 DEF Tasks
    <3>7. Decided' /\ Exclusive'
      BY <3>4, <3>5 DEF Decided, Exclusive
    <3>8. Distinct'
      <4>1. \A g \in Evals : Busy(eval'[g]) =>
              g = e \/ (Busy(eval[g]) /\ eval'[g] = eval[g])
        BY <3>5
      <4>2. \A g \in Evals : Busy(eval'[g]) =>
              eval'[g].at \in Nat /\ Before(eval'[g].at, claimed', now')
        BY <4>1, <3>4, <3>5, <2>1, <2>2, <2>4 DEF Before
      <4>3. \A x \in fired' : Before(x.at, claimed', now')
        BY <2>1, <2>3, <2>4 DEF Before
      <4>4. \A g, h \in Evals : g # h /\ Busy(eval'[g]) /\ Busy(eval'[h])
                               => eval'[g].at # eval'[h].at
        BY <4>1, <3>4, <3>5, <2>1, <2>2 DEF Distinct
      <4>5. \A g \in Evals, x \in fired' : Busy(eval'[g]) => eval'[g].at # x.at
        BY <4>1, <3>4, <3>5, <2>1, <2>3 DEF Distinct
      <4> QED BY <4>2, <4>3, <4>4, <4>5 DEF Distinct, Before
    <3> QED BY <3>6, <3>7, <3>8, <2>5
  <2> QED BY <2>6, <2>7
<1> QED BY <1>1, <1>2

(* Only the quote and the fetches change.                                  *)
LEMMA Quiet ==
  ASSUME Pipeline, UNCHANGED <<claimed, eval, row, events, fired, now>>,
         quote' \in Quote, quote'.at <= now, Fetches'
  PROVE  Pipeline'
<1> USE DEF Pipeline
<1>1. Rows' /\ Tasks'
  BY DEF Rows, Tasks
<1>2. Clocks'
  BY DEF Clocks
<1>3. Decided' /\ Exclusive'
  BY DEF Decided, Exclusive
<1>4. Distinct'
  BY DEF Distinct
<1>5. Log' /\ Remembered'
  BY DEF Log, Remembered
<1> QED BY <1>1, <1>2, <1>3, <1>4, <1>5

LEMMA OneFetch ==
  ASSUME Fetches, NEW c \in Fetchers, NEW f, FetchOK(f), fetch' = [fetch EXCEPT ![c] = f]
  PROVE  Fetches'
BY DEF Fetches, FetchOK

LEMMA IdleIsOK == FetchOK(IdleFetch)
BY DEF FetchOK, IdleFetch, Fetch

LEMMA StartFetchKeeps ==
  ASSUME Pipeline, NEW c \in Fetchers, StartFetch(c)
  PROVE  Pipeline'
<1> DEFINE f == [pc |-> "fetching", previous |-> quote.price, age |-> now - quote.at,
                 price |-> NoPrice]
<1>1. FetchOK(f)
  <2>1. quote.price \in Prices \cup {NoPrice} /\ quote.at \in Nat
    BY DEF Pipeline, Clocks, Quote
  <2>2. now - quote.at \in Nat
    BY <2>1 DEF Pipeline, Clocks
  <2> QED BY <2>1, <2>2 DEF FetchOK, Fetch
<1>2. fetch' = [fetch EXCEPT ![c] = f]
  BY DEF StartFetch
<1> HIDE DEF f
<1>3. Fetches'
  BY <1>1, <1>2, OneFetch DEF Pipeline
<1>4. quote' \in Quote /\ quote'.at <= now
  BY DEF StartFetch, Pipeline, Clocks
<1> QED BY <1>3, <1>4, Quiet DEF StartFetch

LEMMA BundleStoredKeeps ==
  ASSUME Pipeline, NEW c \in Fetchers, NEW price \in Prices, BundleStored(c, price)
  PROVE  Pipeline'
<1> DEFINE f == [fetch[c] EXCEPT !.pc = "answered", !.price = price]
<1>1. FetchOK(f)
  BY DEF Pipeline, Fetches, FetchOK, Fetch
<1>2. fetch' = [fetch EXCEPT ![c] = f]
  BY DEF BundleStored
<1> HIDE DEF f
<1>3. Fetches'
  BY <1>1, <1>2, OneFetch DEF Pipeline
<1>4. quote' \in Quote /\ quote'.at <= now
  BY DEF BundleStored, Pipeline, Clocks, Quote
<1> QED BY <1>3, <1>4, Quiet DEF BundleStored

LEMMA FetchFailsKeeps ==
  ASSUME Pipeline, NEW c \in Fetchers, FetchFails(c)
  PROVE  Pipeline'
<1>1. Fetches'
  BY IdleIsOK, OneFetch DEF Pipeline, FetchFails
<1>2. quote' \in Quote /\ quote'.at <= now
  BY DEF FetchFails, Pipeline, Clocks
<1> QED BY <1>1, <1>2, Quiet DEF FetchFails

(* An answer: the quote is now's, and one evaluation may start.            *)
LEMMA Answered ==
  ASSUME Pipeline, UNCHANGED <<row, events, fired, now>>,
         quote' \in Quote, quote'.at <= now, Fetches',
         \E f \in Fetch, price \in Prices : MaybeEvaluate(f, price)
  PROVE  Pipeline'
<1>1. PICK f \in Fetch, price \in Prices : MaybeEvaluate(f, price)
  OBVIOUS
<1>2. /\ Tasks' /\ Decided' /\ Exclusive' /\ Distinct'
      /\ claimed' \in Time /\ (claimed' = Never \/ claimed' <= now)
  BY <1>1, MaybeKeeps
<1>3. Rows' /\ Log' /\ Remembered'
  BY DEF Pipeline, Rows, Log, Remembered
<1>4. Clocks'
  BY <1>2 DEF Pipeline, Clocks
<1> QED BY <1>2, <1>3, <1>4 DEF Pipeline

LEMMA QuoteAnswersKeeps ==
  ASSUME Pipeline, NEW c \in Fetchers, NEW price \in Prices, QuoteAnswers(c, price)
  PROVE  Pipeline'
<1>1. Fetches'
  BY IdleIsOK, OneFetch DEF Pipeline, QuoteAnswers
<1>2. quote' \in Quote /\ quote'.at <= now
  BY DEF QuoteAnswers, Pipeline, Clocks, Quote
<1>3. fetch[c] \in Fetch
  BY DEF Pipeline, Fetches
<1> QED BY <1>1, <1>2, <1>3, Answered DEF QuoteAnswers

LEMMA BundleAnswersKeeps ==
  ASSUME Pipeline, NEW c \in Fetchers, BundleAnswers(c)
  PROVE  Pipeline'
<1>1. Fetches'
  BY IdleIsOK, OneFetch DEF Pipeline, BundleAnswers
<1>2. quote' \in Quote /\ quote'.at <= now
  BY DEF BundleAnswers, Pipeline, Clocks
<1>3. fetch[c] \in Fetch /\ fetch[c].price \in Prices
  BY DEF Pipeline, Fetches, FetchOK, BundleAnswers
<1> QED BY <1>1, <1>2, <1>3, Answered DEF BundleAnswers

(***************************************************************************)
(* The evaluation side.                                                    *)
(***************************************************************************)
(* One evaluation goes on, by what the rows say, or ends.                  *)
GoesOn(e) ==
  /\ \A f \in Evals : f # e => eval'[f] = eval[f]
  /\ TaskOK(eval'[e])
  /\ Busy(eval'[e]) => Busy(eval[e]) /\ eval'[e].at = eval[e].at
  /\ \A a \in eval'[e].matched : RowDue(row[a], eval'[e])
  /\ \A f \in Evals : f # e => eval[f].locked \cap eval'[e].locked = {}

LEMMA OneTask ==
  ASSUME Pipeline, eval' \in [Evals -> Eval], \E e \in Evals : GoesOn(e),
         UNCHANGED <<quote, fetch, claimed, row, events, fired, now>>
  PROVE  Pipeline'
<1> USE DEF Pipeline
<1>1. PICK e \in Evals : GoesOn(e)
  OBVIOUS
<1>2. Rows' /\ Fetches' /\ Clocks' /\ Log' /\ Remembered'
  BY DEF Rows, Fetches, Clocks, Log, Remembered
<1>3. Tasks'
  BY <1>1 DEF Tasks, GoesOn
<1>4. Decided'
  BY <1>1 DEF Decided, GoesOn
<1>5. Exclusive'
  BY <1>1 DEF Exclusive, GoesOn
<1>6. \A f \in Evals : Busy(eval'[f]) => Busy(eval[f]) /\ eval'[f].at = eval[f].at
  BY <1>1 DEF GoesOn
<1>7. Distinct'
  BY <1>6 DEF Distinct
<1> QED BY <1>2, <1>3, <1>4, <1>5, <1>7

LEMMA SelectKeeps ==
  ASSUME Pipeline, NEW e \in Evals, Select(e)
  PROVE  Pipeline'
<1> DEFINE x == eval[e]
           y == [x EXCEPT !.pc = "writing", !.locked = Selected(x), !.matched = Due(x)]
<1>1. x \in Eval /\ x.pc = "started" /\ x.price \in Prices
  BY DEF Pipeline, Tasks, TaskOK, Select
<1>2. Selected(x) \subseteq Alerts /\ Due(x) \subseteq Selected(x)
  BY DEF Selected, Live, Due
<1>3. y \in Eval /\ y.pc = "writing" /\ y.price = x.price /\ y.previous = x.previous
      /\ y.at = x.at /\ y.locked = Selected(x) /\ y.matched = Due(x)
  BY <1>1, <1>2 DEF Eval
<1>4. eval' = [eval EXCEPT ![e] = y]
  BY DEF Select
<1> HIDE DEF y
<1>5. eval'[e] = y /\ \A f \in Evals : f # e => eval'[f] = eval[f]
  BY <1>4 DEF Pipeline, Tasks
<1>6. \A a \in y.matched : RowDue(row[a], y)
  <2> TAKE a \in y.matched
  <2>1. a \in Due(x)
    BY <1>3
  <2>2. RowDue(row[a], x)
    BY <2>1, DueMeans
  <2> QED BY <2>2, <1>3 DEF RowDue
<1>7. \A f \in Evals : f # e => eval[f].locked \cap y.locked = {}
  BY <1>3 DEF Select, Locked
<1>8. TaskOK(y)
  BY <1>1, <1>2, <1>3 DEF TaskOK
<1>9. GoesOn(e)
  BY <1>1, <1>3, <1>5, <1>6, <1>7, <1>8 DEF GoesOn, Busy
<1>10. eval' \in [Evals -> Eval]
  BY <1>3, <1>4 DEF Pipeline, Tasks
<1> QED BY <1>9, <1>10, OneTask DEF Select

LEMMA AbortKeeps ==
  ASSUME Pipeline, NEW e \in Evals, Abort(e)
  PROVE  Pipeline'
<1> DEFINE y == [eval[e] EXCEPT !.pc = "done", !.locked = {}, !.matched = {}]
<1>1. y \in Eval /\ y.pc = "done" /\ y.locked = {} /\ y.matched = {}
  BY DEF Pipeline, Tasks, Eval
<1>2. eval' = [eval EXCEPT ![e] = y]
  BY DEF Abort
<1> HIDE DEF y
<1>3. eval'[e] = y /\ \A f \in Evals : f # e => eval'[f] = eval[f]
  BY <1>2 DEF Pipeline, Tasks
<1>4. GoesOn(e)
  BY <1>1, <1>3 DEF GoesOn, TaskOK, Busy
<1>5. eval' \in [Evals -> Eval]
  BY <1>1, <1>2 DEF Pipeline, Tasks
<1> QED BY <1>4, <1>5, OneTask DEF Abort

LEMMA ReleaseKeeps ==
  ASSUME Pipeline, NEW e \in Evals, Release(e)
  PROVE  Pipeline'
<1>1. IdleEval \in Eval /\ IdleEval.pc = "idle" /\ IdleEval.locked = {} /\ IdleEval.matched = {}
  BY DEF IdleEval, Eval
<1>2. eval' = [eval EXCEPT ![e] = IdleEval]
  BY DEF Release
<1>3. eval'[e] = IdleEval /\ \A f \in Evals : f # e => eval'[f] = eval[f]
  BY <1>2 DEF Pipeline, Tasks
<1>4. GoesOn(e)
  BY <1>1, <1>3 DEF GoesOn, TaskOK, Busy
<1>5. eval' \in [Evals -> Eval]
  BY <1>1, <1>2 DEF Pipeline, Tasks
<1> QED BY <1>4, <1>5, OneTask DEF Release

(***************************************************************************)
(* A commit.                                                               *)
(***************************************************************************)
(* The events it inserts, for the rules that it triggers.                  *)
Inserted(e) == {EventOf(a, eval[e]) : a \in Triggers(eval[e])}

LEMMA CommitSees ==
  ASSUME Pipeline, NEW e \in Evals, Commit(e)
  PROVE  /\ eval[e] \in Eval /\ eval[e].pc = "writing" /\ eval[e].price \in Prices
         /\ eval[e].at \in Nat
         /\ Triggers(eval[e]) \subseteq eval[e].matched
         /\ eval[e].matched \subseteq eval[e].locked
         /\ eval[e].locked \subseteq Alerts
         /\ \A a \in Triggers(eval[e]) : RowDue(row[a], eval[e])
         /\ \A x \in fired : x.at # eval[e].at
         /\ \A a \in Alerts : row'[a] =
              IF a \in Triggers(eval[e])
              THEN [row[a] EXCEPT !.triggered = eval[e].at, !.count = @ + 1] ELSE row[a]
         /\ row' \in [Alerts -> Row]
<1>1. /\ eval[e] \in Eval /\ eval[e].pc = "writing" /\ eval[e].price \in Prices
      /\ eval[e].matched \subseteq eval[e].locked
  BY DEF Pipeline, Tasks, TaskOK, Commit
<1>2. eval[e].at \in Nat /\ eval[e].locked \subseteq Alerts
  BY <1>1 DEF Eval
<1>3. Triggers(eval[e]) \subseteq eval[e].matched
  BY DEF Triggers
<1>4. \A a \in Triggers(eval[e]) : RowDue(row[a], eval[e])
  BY <1>3 DEF Pipeline, Decided
<1>5. \A x \in fired : x.at # eval[e].at
  BY <1>1 DEF Pipeline, Distinct, Busy
<1>6. row' = [a \in Alerts |->
               IF a \in Triggers(eval[e])
               THEN [row[a] EXCEPT !.triggered = eval[e].at, !.count = @ + 1] ELSE row[a]]
  BY DEF Commit
<1>7. \A a \in Alerts : row[a] \in Row
                        /\ [row[a] EXCEPT !.triggered = eval[e].at, !.count = @ + 1] \in Row
  <2> TAKE a \in Alerts
  <2>1. row[a] \in Row
    BY DEF Pipeline, Rows
  <2>2. row[a].count + 1 \in Nat /\ eval[e].at \in Time
    BY <1>2, <2>1 DEF Row, Time
  <2> QED BY <2>1, <2>2 DEF Row
<1>8. row' \in [Alerts -> Row]
  BY <1>6, <1>7
<1> QED BY <1>1, <1>2, <1>3, <1>4, <1>5, <1>6, <1>8

LEMMA InsertedAre ==
  ASSUME Pipeline, NEW e \in Evals, Commit(e)
  PROVE  /\ \A ev \in Inserted(e) : /\ ev \in Event /\ ev.alert \in Triggers(eval[e])
                                    /\ ev = EventOf(ev.alert, eval[e])
                                    /\ ev.at = eval[e].at /\ ev.price = eval[e].price
                                    /\ ev.previous = eval[e].previous
         /\ \A a \in Triggers(eval[e]) : EventOf(a, eval[e]) \in Inserted(e)
         /\ IsFiniteSet(Inserted(e))
         /\ fired' = fired \cup Inserted(e) /\ events' = events \cup Inserted(e)
<1>1. fired' = fired \cup Inserted(e) /\ events' = events \cup Inserted(e)
  BY DEF Commit, Inserted
<1>2. Triggers(eval[e]) \subseteq Alerts
  BY CommitSees
<1>3. IsFiniteSet(Triggers(eval[e]))
  BY <1>2, AlertAssumption, FS_Subset
<1>4. IsFiniteSet(Inserted(e))
  BY <1>3, NewEvents DEF Inserted
<1>5. \A a \in Triggers(eval[e]) :
        /\ EventOf(a, eval[e]) \in Event
        /\ EventOf(a, eval[e]).alert = a /\ EventOf(a, eval[e]).at = eval[e].at
        /\ EventOf(a, eval[e]).price = eval[e].price
        /\ EventOf(a, eval[e]).previous = eval[e].previous
  BY <1>2, CommitSees DEF EventOf, Event, Eval
<1> QED BY <1>1, <1>4, <1>5 DEF Inserted

(* What a row says is still what its events say.                           *)
LEMMA CommitTells ==
  ASSUME Pipeline, NEW e \in Evals, Commit(e), NEW a \in Alerts
  PROVE  /\ row'[a].state = row[a].state /\ row'[a].rule = row[a].rule
         /\ row[a].state = "unused" => Mine(a, fired') = {}
         /\ row[a].state = "live" => Tells(row'[a], Mine(a, fired'))
<1> DEFINE x == eval[e]
<1>1. CASE a \notin Triggers(x)
  <2>1. row'[a] = row[a]
    BY <1>1, CommitSees
  <2>2. \A ev \in Inserted(e) : ev.alert # a
    BY <1>1, InsertedAre
  <2>3. Mine(a, fired \cup Inserted(e)) = Mine(a, fired)
    BY <2>2, MineStays
  <2>4. Mine(a, fired') = Mine(a, fired)
    BY <2>3, InsertedAre
  <2> QED BY <2>1, <2>4 DEF Pipeline, Remembered
<1>2. CASE a \in Triggers(x)
  <2> DEFINE times == Mine(a, fired)
  <2>1. RowDue(row[a], x) /\ x.at \in Nat /\ row[a] \in Row
    BY <1>2, CommitSees DEF Pipeline, Rows
  <2>2. row[a].state = "live" /\ Tells(row[a], times)
    BY <2>1 DEF RowDue, Pipeline, Remembered
  <2>3. IsFiniteSet(times)
    BY MineOf DEF Pipeline, Log
  <2>4. times \subseteq Nat /\ x.at \notin times
    BY CommitSees DEF Mine, Pipeline, Log, Event
  <2>5. \A t \in times : t <= x.at
    <3> SUFFICES ASSUME NEW t \in times PROVE t <= x.at
      OBVIOUS
    <3>1. row[a].triggered \in times /\ t <= row[a].triggered
      BY <2>2 DEF Tells
    <3>2. row[a].triggered \in Nat /\ t \in Nat /\ Never \notin Nat
      BY <2>4, <3>1, AlertAssumption
    <3>3. row[a].rule \in Definition(Tickers)
      BY <2>2 DEF Pipeline, Rows, RowOK
    <3>4. row[a].rule.cooldown \in Nat
      BY <3>3 DEF Definition
    <3>5. row[a].triggered + row[a].rule.cooldown <= x.at
      BY <2>1, <3>2, <3>4 DEF RowDue
    <3> QED BY <2>1, <3>1, <3>2, <3>4, <3>5
  <2>6. row[a].count \in Nat
    BY <2>1 DEF Row
  <2>7. Tells([row[a] EXCEPT !.triggered = x.at, !.count = @ + 1], times \cup {x.at})
    BY <2>1, <2>2, <2>3, <2>4, <2>5, <2>6, TellsNext
  <2>8. row'[a] = [row[a] EXCEPT !.triggered = x.at, !.count = @ + 1]
    BY <1>2, CommitSees
  <2>9. Mine(a, fired') = times \cup {x.at}
    <3>1. EventOf(a, x) \in Inserted(e) /\ EventOf(a, x).alert = a /\ EventOf(a, x).at = x.at
      BY <1>2, InsertedAre DEF EventOf
    <3>2. \A ev \in Inserted(e) : ev.alert = a => ev = EventOf(a, x)
      BY InsertedAre
    <3> HIDE DEF x
    <3>3. Mine(a, fired \cup Inserted(e)) = Mine(a, fired) \cup {EventOf(a, x).at}
      BY <3>1, <3>2, MineGrows
    <3> QED BY <3>1, <3>3, InsertedAre
  <2>10. row'[a].state = row[a].state /\ row'[a].rule = row[a].rule
    BY <2>1, <2>8 DEF Row
  <2> QED BY <2>2, <2>7, <2>8, <2>9, <2>10
<1> QED BY <1>1, <1>2

LEMMA CommitKeeps ==
  ASSUME Pipeline, NEW e \in Evals, Commit(e)
  PROVE  Pipeline'
<1> DEFINE y == [eval[e] EXCEPT !.pc = "done", !.locked = {}, !.matched = {}]
<1>1. y \in Eval /\ y.pc = "done" /\ y.locked = {} /\ y.matched = {}
  BY DEF Pipeline, Tasks, Eval
<1>2. eval' = [eval EXCEPT ![e] = y]
  BY DEF Commit
<1> HIDE DEF y
<1>3. eval'[e] = y /\ \A f \in Evals : f # e => eval'[f] = eval[f]
  BY <1>2 DEF Pipeline, Tasks
<1>4. Rows'
  <2>1. row' \in [Alerts -> Row]
    BY CommitSees
  <2>2. \A a \in Alerts : RowOK(row'[a])
    <3> TAKE a \in Alerts
    <3>1. RowOK(row[a]) /\ row'[a] \in Row
      BY <2>1 DEF Pipeline, Rows
    <3>2. row'[a].state = row[a].state /\ row'[a].rule = row[a].rule
      BY CommitTells
    <3> QED BY <3>1, <3>2 DEF RowOK
  <2> QED BY <2>1, <2>2 DEF Rows
<1>5. Tasks'
  BY <1>1, <1>2, <1>3 DEF Pipeline, Tasks, TaskOK
<1>6. Fetches' /\ Clocks'
  BY DEF Commit, Pipeline, Fetches, Clocks
<1>7. Decided'
  <2> SUFFICES ASSUME NEW f \in Evals, NEW a \in eval'[f].matched
               PROVE  RowDue(row'[a], eval'[f])
    BY DEF Decided
  <2>1. f # e /\ eval'[f] = eval[f]
    BY <1>1, <1>3
  <2>2. a \in eval[f].locked /\ a \in Alerts
    BY <2>1 DEF Pipeline, Tasks, TaskOK, Eval
  <2>3. a \notin eval[e].locked
    BY <2>1, <2>2 DEF Pipeline, Exclusive
  <2>4. row'[a] = row[a]
    BY <2>2, <2>3, CommitSees
  <2> QED BY <2>1, <2>4 DEF Pipeline, Decided
<1>8. Exclusive'
  BY <1>1, <1>3 DEF Pipeline, Exclusive
<1>9. Distinct'
  <2>1. \A f \in Evals : Busy(eval'[f]) => f # e /\ Busy(eval[f]) /\ eval'[f] = eval[f]
    BY <1>1, <1>3 DEF Busy
  <2>2. UNCHANGED <<claimed, now>> /\ Busy(eval[e])
    BY CommitSees DEF Commit, Busy
  <2>3. \A x \in fired' : x \in fired \/ x.at = eval[e].at
    BY InsertedAre
  <2>4. \A f \in Evals : Busy(eval'[f]) => Before(eval'[f].at, claimed', now')
    BY <2>1, <2>2 DEF Pipeline, Distinct
  <2>5. \A x \in fired' : Before(x.at, claimed', now')
    BY <2>2, <2>3 DEF Pipeline, Distinct
  <2>6. \A f, g \in Evals : f # g /\ Busy(eval'[f]) /\ Busy(eval'[g])
                           => eval'[f].at # eval'[g].at
    BY <2>1 DEF Pipeline, Distinct
  <2>7. \A f \in Evals, x \in fired' : Busy(eval'[f]) => eval'[f].at # x.at
    BY <2>1, <2>2, <2>3 DEF Pipeline, Distinct
  <2> QED BY <2>4, <2>5, <2>6, <2>7 DEF Distinct, Busy
<1>10. Log'
  <2>1. IsFiniteSet(fired \cup Inserted(e))
    BY InsertedAre, FS_Union DEF Pipeline, Log
  <2> QED BY <2>1, InsertedAre DEF Pipeline, Log
<1>11. Remembered'
  BY CommitTells DEF Remembered
<1> QED BY <1>4, <1>5, <1>6, <1>7, <1>8, <1>9, <1>10, <1>11 DEF Pipeline

(***************************************************************************)
(* The clock and the process.                                              *)
(***************************************************************************)
LEMMA RestartKeeps ==
  ASSUME Pipeline, Restart
  PROVE  Pipeline'
<1> USE DEF Pipeline
<1>1. PICK survivors \in SUBSET {e \in Evals : eval[e].pc \in {"started", "writing"}} :
        eval' = [e \in Evals |-> IF e \in survivors THEN [eval[e] EXCEPT !.orphan = TRUE]
                                 ELSE IdleEval]
  BY DEF Restart
<1>2. IdleEval \in Eval /\ IdleEval.pc = "idle" /\ IdleEval.locked = {} /\ IdleEval.matched = {}
  BY DEF IdleEval, Eval
<1>3. now \in Nat /\ now' = now + 1 /\ claimed' = Never /\ Never \notin Nat
  BY AlertAssumption DEF Restart, Clocks
<1>4. ASSUME NEW e \in Evals
      PROVE  /\ eval'[e] \in Eval
             /\ eval'[e].locked \subseteq eval[e].locked
             /\ eval'[e].matched \subseteq eval[e].matched
             /\ eval'[e].pc \in {"started", "writing"} =>
                  /\ eval'[e].pc = eval[e].pc /\ eval'[e].at = eval[e].at
                  /\ eval'[e].price = eval[e].price
                  /\ eval'[e].previous = eval[e].previous
                  /\ eval'[e].locked = eval[e].locked /\ eval'[e].matched = eval[e].matched
             /\ eval'[e].pc \notin {"started", "writing"} =>
                  eval'[e].locked = {} /\ eval'[e].matched = {}
  <2>1. CASE e \in survivors
    <3>1. eval'[e] = [eval[e] EXCEPT !.orphan = TRUE] /\ eval[e] \in Eval
          /\ eval[e].pc \in {"started", "writing"}
      BY <1>1, <2>1 DEF Tasks
    <3> QED BY <3>1 DEF Eval
  <2>2. CASE e \notin survivors
    <3>1. eval'[e] = IdleEval
      BY <1>1, <2>2
    <3> QED BY <3>1, <1>2
  <2> QED BY <2>1, <2>2
<1>5. Rows' /\ Log' /\ Remembered'
  BY DEF Restart, Rows, Log, Remembered
<1>6. Tasks'
  <2>1. eval' \in [Evals -> Eval]
    BY <1>1, <1>4
  <2>2. \A e \in Evals : TaskOK(eval'[e])
    BY <1>4 DEF Tasks, TaskOK
  <2> QED BY <2>1, <2>2 DEF Tasks
<1>7. Fetches'
  BY IdleIsOK DEF Restart, Fetches, FetchOK
<1>8. Clocks'
  BY <1>3 DEF Restart, Clocks, Quote, NoQuote, Time
<1>9. Decided'
  <2> SUFFICES ASSUME NEW e \in Evals, NEW a \in eval'[e].matched
               PROVE  RowDue(row'[a], eval'[e])
    BY DEF Decided
  <2>1. /\ a \in eval[e].matched /\ eval'[e].at = eval[e].at
        /\ eval'[e].price = eval[e].price /\ eval'[e].previous = eval[e].previous
    BY <1>4
  <2>2. RowDue(row[a], eval[e]) /\ row' = row
    BY <2>1 DEF Decided, Restart
  <2> QED BY <2>1, <2>2 DEF RowDue
<1>10. Exclusive'
  <2> SUFFICES ASSUME NEW e \in Evals, NEW f \in Evals, e # f
               PROVE  eval'[e].locked \cap eval'[f].locked = {}
    BY DEF Exclusive
  <2> QED BY <1>4 DEF Exclusive
<1>11. Distinct'
  <2>1. \A t \in Nat : Before(t, claimed, now) => Before(t, claimed', now')
    BY <1>3 DEF Before, Clocks, Time
  <2>2. \A e \in Evals : Busy(eval'[e]) =>
          Busy(eval[e]) /\ eval'[e].at = eval[e].at /\ eval[e].at \in Nat
    BY <1>4 DEF Busy, Tasks, Eval
  <2>3. fired' = fired /\ \A x \in fired : x.at \in Nat
    BY DEF Restart, Log, Event
  <2>4. \A e \in Evals : Busy(eval'[e]) => Before(eval'[e].at, claimed', now')
    BY <2>1, <2>2 DEF Distinct
  <2>5. \A x \in fired' : Before(x.at, claimed', now')
    BY <2>1, <2>3 DEF Distinct
  <2>6. \A e, f \in Evals : e # f /\ Busy(eval'[e]) /\ Busy(eval'[f])
                           => eval'[e].at # eval'[f].at
    BY <2>2 DEF Distinct
  <2>7. \A e \in Evals, x \in fired' : Busy(eval'[e]) => eval'[e].at # x.at
    BY <2>2, <2>3 DEF Distinct
  <2> QED BY <2>4, <2>5, <2>6, <2>7 DEF Distinct, Busy
<1> QED BY <1>5, <1>6, <1>7, <1>8, <1>9, <1>10, <1>11

LEMMA TickKeeps ==
  ASSUME Pipeline, Tick
  PROVE  Pipeline'
<1> USE DEF Pipeline
<1>1. now \in Nat /\ now' = now + 1
  BY DEF Tick, Clocks
<1>2. Rows' /\ Tasks' /\ Fetches'
  BY DEF Tick, Rows, Tasks, Fetches
<1>3. Clocks'
  BY <1>1, AlertAssumption DEF Tick, Clocks, Quote, Time
<1>4. Decided' /\ Exclusive'
  BY DEF Tick, Decided, Exclusive
<1>5. Log' /\ Remembered'
  BY DEF Tick, Log, Remembered
<1>6. Distinct'
  <2>1. \A t \in Nat : Before(t, claimed, now) => Before(t, claimed', now')
    BY <1>1 DEF Tick, Before
  <2>2. eval' = eval /\ fired' = fired
    BY DEF Tick
  <2>3. /\ \A e \in Evals : eval[e].at \in Nat
        /\ \A x \in fired : x.at \in Nat
    BY DEF Tasks, Eval, Log, Event
  <2>4. \A e \in Evals : Busy(eval'[e]) => Before(eval'[e].at, claimed', now')
    BY <2>1, <2>2, <2>3 DEF Distinct
  <2>5. \A x \in fired' : Before(x.at, claimed', now')
    BY <2>1, <2>2, <2>3 DEF Distinct
  <2>6. \A e, f \in Evals : e # f /\ Busy(eval'[e]) /\ Busy(eval'[f])
                           => eval'[e].at # eval'[f].at
    BY <2>2 DEF Distinct
  <2>7. \A e \in Evals, x \in fired' : Busy(eval'[e]) => eval'[e].at # x.at
    BY <2>2 DEF Distinct
  <2> QED BY <2>4, <2>5, <2>6, <2>7 DEF Distinct, Busy
<1> QED BY <1>2, <1>3, <1>4, <1>5, <1>6

LEMMA PipelineNext ==
  ASSUME Pipeline, Next
  PROVE  Pipeline'
<1>1. CASE \E c \in Fetchers : StartFetch(c) \/ BundleAnswers(c) \/ FetchFails(c)
  BY <1>1, StartFetchKeeps, BundleAnswersKeeps, FetchFailsKeeps
<1>2. CASE \E c \in Fetchers, price \in Prices : QuoteAnswers(c, price) \/ BundleStored(c, price)
  BY <1>2, QuoteAnswersKeeps, BundleStoredKeeps
<1>3. CASE \E e \in Evals : Evaluate(e)
  BY <1>3, SelectKeeps, CommitKeeps, AbortKeeps, ReleaseKeeps DEF Evaluate
<1>4. CASE Restart \/ Tick
  BY <1>4, RestartKeeps, TickKeeps
<1> QED BY <1>1, <1>2, <1>3, <1>4 DEF Next

(***************************************************************************)
(* The start.                                                              *)
(***************************************************************************)
LEMMA PipelineInit == Init => Pipeline
<1> SUFFICES ASSUME Init PROVE Pipeline
  OBVIOUS
<1>1. IdleEval \in Eval /\ IdleEval.pc = "idle" /\ IdleEval.locked = {} /\ IdleEval.matched = {}
  BY DEF IdleEval, Eval
<1>2. PICK rules \in Initials :
        row = [a \in Alerts |-> IF rules[a] = NoRule THEN Unused ELSE Stored(rules[a])]
  BY DEF Init
<1>3. ASSUME NEW a \in Alerts
      PROVE  RowOK(row[a]) /\ row[a].triggered = Never /\ row[a].count = 0
  <2>1. row[a] = IF rules[a] = NoRule THEN Unused ELSE Stored(rules[a])
    BY <1>2
  <2>2. CASE rules[a] = NoRule
    BY <2>1, <2>2 DEF Unused, RowOK, Row, Time
  <2>3. CASE rules[a] # NoRule
    <3>1. rules[a] \in Definition(Tickers) /\ WellFormed(rules[a])
      BY <2>3, AlertAssumption
    <3> DEFINE d == rules[a]
    <3> HIDE DEF d
    <3>2. Stored(d) \in Row /\ Stored(d).rule = d /\ Stored(d).triggered = Never
          /\ Stored(d).count = 0
      BY <3>1 DEF Stored, Row, Time, d
    <3> QED BY <2>1, <2>3, <3>1, <3>2 DEF RowOK, d
  <2> QED BY <2>2, <2>3
<1>4. Rows
  BY <1>2, <1>3 DEF Rows, RowOK
<1>5. Tasks
  BY <1>1 DEF Init, Tasks, TaskOK
<1>6. Fetches
  BY IdleIsOK DEF Init, Fetches, FetchOK
<1>7. Clocks
  BY DEF Init, Clocks, Quote, NoQuote, Time
<1>8. Decided /\ Exclusive
  BY <1>1 DEF Init, Decided, Exclusive
<1>9. Distinct
  BY <1>1 DEF Init, Distinct, Busy
<1>10. Log
  BY FS_EmptySet DEF Init, Log
<1>11. Remembered
  <2>1. \A a \in Alerts : Mine(a, fired) = {}
    BY DEF Init, Mine
  <2>2. Cardinality({}) = 0
    BY FS_EmptySet
  <2> QED BY <1>3, <2>1, <2>2 DEF Remembered, Tells
<1> QED BY <1>4, <1>5, <1>6, <1>7, <1>8, <1>9, <1>10, <1>11 DEF Pipeline

LEMMA DeskStart == DeskInit => AInv
<1>1. Init => Pipeline
  BY PipelineInit
<1>2. DeskInit => Shown
  BY DeskAssumption DEF DeskInit, Init, Shown, Desk, NoRequest
<1> QED BY <1>1, <1>2 DEF AInv, DeskInit

(***************************************************************************)
(* The owner changes a rule that no evaluation has locked.                 *)
(***************************************************************************)
LEMMA EditedKeeps ==
  ASSUME AInv, \E a \in Alerts : \E r :
                 /\ Edited(a, r) /\ RowOK(r)
                 /\ \A e \in Evals : a \notin eval[e].matched
                 /\ r.state # "unused"
                 /\ r.state = "live" => Tells(r, Mine(a, fired))
  PROVE  AInv'
<1> USE DEF AInv, Pipeline
<1>0. PICK a \in Alerts : \E r :
        /\ Edited(a, r) /\ RowOK(r)
        /\ \A e \in Evals : a \notin eval[e].matched
        /\ r.state # "unused"
        /\ r.state = "live" => Tells(r, Mine(a, fired))
  OBVIOUS
<1>1. PICK r : /\ Edited(a, r) /\ RowOK(r)
               /\ \A e \in Evals : a \notin eval[e].matched
               /\ r.state # "unused"
               /\ r.state = "live" => Tells(r, Mine(a, fired))
  BY <1>0
<1>2. row' = [row EXCEPT ![a] = r] /\ Alone /\ edits < MaxEdits /\ edits' = edits + 1
      /\ UNCHANGED <<quote, fetch, claimed, eval, events, fired, now, read, desk>>
  BY <1>1 DEF Edited
<1>3. row'[a] = r /\ \A b \in Alerts : b # a => row'[b] = row[b]
  BY <1>2 DEF Rows
<1>4. Rows'
  BY <1>1, <1>2, <1>3 DEF Rows, RowOK
<1>5. Tasks' /\ Fetches' /\ Clocks'
  BY <1>2 DEF Tasks, Fetches, Clocks
<1>6. Decided'
  <2> SUFFICES ASSUME NEW e \in Evals, NEW b \in eval'[e].matched
               PROVE  RowDue(row'[b], eval'[e])
    BY DEF Decided
  <2>1. eval'[e] = eval[e] /\ b # a /\ b \in Alerts
    BY <1>1, <1>2 DEF Tasks, Eval
  <2> QED BY <2>1, <1>3 DEF Decided
<1>7. Exclusive' /\ Log'
  BY <1>2 DEF Exclusive, Log
<1>8. Distinct'
  BY <1>2 DEF Distinct
<1>9. Remembered'
  <2>1. \A b \in Alerts : Mine(b, fired') = Mine(b, fired)
    BY <1>2
  <2> QED BY <1>1, <1>3, <2>1 DEF Remembered
<1>10. Shown'
  BY <1>2, DeskAssumption DEF Shown, Alone
<1> QED BY <1>4, <1>5, <1>6, <1>7, <1>8, <1>9, <1>10

LEMMA CreateAlertKeeps ==
  ASSUME AInv, NEW a \in Alerts, NEW draft \in Drafts, CreateAlert(a, draft)
  PROVE  AInv'
<1> DEFINE r == Stored(draft)
<1>1. draft \in Definition(Tickers) /\ WellFormed(draft)
  BY DeskAssumption DEF CreateAlert
<1>2. r \in Row /\ r.state = "live" /\ r.rule = draft /\ r.triggered = Never /\ r.count = 0
  BY <1>1 DEF Stored, Row, Time
<1>3. Edited(a, r) /\ row[a].state = "unused"
  BY DEF CreateAlert
<1> HIDE DEF r
<1>4. RowOK(r)
  BY <1>1, <1>2 DEF RowOK
<1>5. Mine(a, fired) = {} /\ Cardinality({}) = 0
  BY <1>3, FS_EmptySet DEF AInv, Pipeline, Remembered
<1>6. Tells(r, Mine(a, fired))
  BY <1>2, <1>5 DEF Tells
<1>7. \A e \in Evals : a \notin eval[e].matched
  BY <1>3 DEF AInv, Pipeline, Decided, RowDue
<1> QED BY <1>2, <1>3, <1>4, <1>6, <1>7, EditedKeeps

LEMMA NotMatched ==
  ASSUME AInv, NEW a \in Alerts, a \notin Locked
  PROVE  \A e \in Evals : a \notin eval[e].matched
BY DEF AInv, Pipeline, Tasks, TaskOK, Locked

LEMMA UpdateAlertKeeps ==
  ASSUME AInv, NEW a \in Alerts, NEW draft \in Drafts, NEW fields \in Edits,
         UpdateAlert(a, draft, fields)
  PROVE  AInv'
<1> DEFINE rule == Merged(row[a].rule, draft, fields)
           r == [row[a] EXCEPT !.rule = rule]
<1>1. Edited(a, r) /\ row[a].state = "live" /\ a \notin Locked /\ WellFormed(rule)
  BY DEF UpdateAlert
<1>2. row[a] \in Row /\ row[a].rule \in Definition(Tickers)
  BY <1>1 DEF AInv, Pipeline, Rows, RowOK
<1>3. rule \in Definition(Tickers)
  BY <1>2, DeskAssumption, MergedDefinition
<1> HIDE DEF rule
<1>4. r \in Row /\ r.state = row[a].state /\ r.rule = rule /\ r.triggered = row[a].triggered
      /\ r.count = row[a].count
  BY <1>2, <1>3 DEF Row
<1> HIDE DEF r
<1>5. RowOK(r)
  BY <1>1, <1>3, <1>4 DEF RowOK
<1>6. Tells(row[a], Mine(a, fired))
  BY <1>1 DEF AInv, Pipeline, Remembered
<1>7. Tells(r, Mine(a, fired))
  BY <1>4, <1>6 DEF Tells
<1> QED BY <1>1, <1>4, <1>5, <1>7, NotMatched, EditedKeeps

LEMMA DeleteAlertKeeps ==
  ASSUME AInv, NEW a \in Alerts, DeleteAlert(a)
  PROVE  AInv'
<1> DEFINE r == [Unused EXCEPT !.state = "deleted"]
<1>1. r \in Row /\ r.state = "deleted"
  BY DEF Unused, Row, Time
<1>2. Edited(a, r) /\ a \notin Locked
  BY DEF DeleteAlert
<1> HIDE DEF r
<1>3. RowOK(r)
  BY <1>1 DEF RowOK
<1> QED BY <1>1, <1>2, <1>3, NotMatched, EditedKeeps

(***************************************************************************)
(* The owner reads the inbox.                                              *)
(***************************************************************************)
(* A route that leaves the pipeline alone, but for deleted events.         *)
LEMMA InboxOnly ==
  ASSUME Pipeline, events' \subseteq events,
         UNCHANGED <<quote, fetch, claimed, eval, row, fired, now>>
  PROVE  Pipeline'
<1> USE DEF Pipeline
<1>1. Rows' /\ Tasks'
  BY DEF Rows, Tasks
<1>2. Fetches' /\ Clocks'
  BY DEF Fetches, Clocks
<1>3. Decided' /\ Exclusive'
  BY DEF Decided, Exclusive
<1>4. Distinct'
  BY DEF Distinct
<1>5. Log' /\ Remembered'
  BY DEF Log, Remembered
<1> QED BY <1>1, <1>2, <1>3, <1>4, <1>5

LEMMA UnreadIs ==
  ASSUME AInv
  PROVE  /\ IsFiniteSet(Unread) /\ Cardinality(Unread) \in Nat
         /\ events \subseteq Event /\ Unread \subseteq events
<1>1. Unread \subseteq fired /\ IsFiniteSet(fired) /\ events \subseteq Event
  BY DEF AInv, Pipeline, Log, Unread
<1>2. IsFiniteSet(Unread)
  BY <1>1, FS_Subset
<1> QED BY <1>1, <1>2, FS_CardinalityType DEF Unread

LEMMA ListEventsKeeps ==
  ASSUME AInv, NEW unreadOnly \in BOOLEAN, NEW limit \in Limits, ListEvents(unreadOnly, limit)
  PROVE  AInv'
<1> DEFINE inbox == IF unreadOnly THEN Unread ELSE events
<1>1. PICK page \in SUBSET inbox : desk' = [NoRequest EXCEPT !.pc = "listed", !.shown = page \ read]
  BY DEF ListEvents, kSubset
<1>2. page \subseteq events
  BY <1>1, UnreadIs
<1>3. UNCHANGED <<vars, read, edits>>
  BY DEF ListEvents
<1>4. desk' \in Desk /\ desk'.pc = "listed" /\ desk'.shown = page \ read
  BY <1>1, <1>2, UnreadIs DEF Desk, NoRequest
<1>5. Unread' = Unread /\ page \ read \subseteq Unread
  BY <1>2, <1>3 DEF Unread, vars
<1>6. Shown'
  BY <1>3, <1>4, <1>5 DEF AInv, Shown, vars
<1>7. Pipeline'
  BY <1>3, InboxOnly DEF AInv, vars
<1> QED BY <1>6, <1>7 DEF AInv

LEMMA CountUnreadKeeps ==
  ASSUME AInv, CountUnread
  PROVE  AInv'
<1>1. UNCHANGED <<vars, read, edits>> /\ desk.pc = "listed" /\ desk \in Desk
      /\ desk.shown \subseteq Unread
  BY DEF CountUnread, AInv, Shown
<1>2. Cardinality(desk.shown) <= Cardinality(Unread)
  BY <1>1, UnreadIs, FS_Subset
<1>3. /\ desk' \in Desk /\ desk'.pc = "counted" /\ desk'.shown = desk.shown
      /\ desk'.unread = Cardinality(Unread)
  BY <1>1, UnreadIs DEF CountUnread, Desk
<1>4. Shown'
  BY <1>1, <1>2, <1>3 DEF AInv, Shown, vars
<1>5. Pipeline'
  BY <1>1, InboxOnly DEF AInv, vars
<1> QED BY <1>4, <1>5 DEF AInv

LEMMA NoRequestIsDesk == NoRequest \in Desk /\ NoRequest.pc = "idle"
BY DEF NoRequest, Desk

LEMMA MarkReadKeeps ==
  ASSUME AInv, NEW ev \in events, MarkRead(ev)
  PROVE  AInv'
<1>1. Shown'
  BY DEF MarkRead, Alone, AInv, Shown, vars
<1>2. Pipeline'
  BY InboxOnly DEF MarkRead, AInv, vars
<1> QED BY <1>1, <1>2 DEF AInv

LEMMA DeleteEventKeeps ==
  ASSUME AInv, NEW ev \in events, DeleteEvent(ev)
  PROVE  AInv'
<1>1. Shown'
  BY DEF DeleteEvent, Alone, AInv, Shown
<1>2. Pipeline'
  BY InboxOnly DEF DeleteEvent, AInv
<1> QED BY <1>1, <1>2 DEF AInv

LEMMA SelectUnreadKeeps ==
  ASSUME AInv, SelectUnread
  PROVE  AInv'
<1>1. desk' \in Desk /\ desk'.pc = "marking" /\ desk'.selected \subseteq events
  BY UnreadIs DEF SelectUnread, NoRequest, Desk
<1>2. Shown'
  BY <1>1 DEF SelectUnread, AInv, Shown, vars
<1>3. Pipeline'
  BY InboxOnly DEF SelectUnread, AInv, vars
<1> QED BY <1>2, <1>3 DEF AInv

LEMMA MarkSelectedKeeps ==
  ASSUME AInv, MarkSelected
  PROVE  AInv'
<1>1. Shown'
  BY NoRequestIsDesk DEF MarkSelected, AInv, Shown, vars
<1>2. Pipeline'
  BY InboxOnly DEF MarkSelected, AInv, vars
<1> QED BY <1>1, <1>2 DEF AInv

LEMMA RequestEndsKeeps ==
  ASSUME AInv, RequestEnds
  PROVE  AInv'
<1>1. Shown'
  BY NoRequestIsDesk DEF RequestEnds, AInv, Shown, vars
<1>2. Pipeline'
  BY InboxOnly DEF RequestEnds, AInv, vars
<1> QED BY <1>1, <1>2 DEF AInv

(***************************************************************************)
(* The pipeline moves under a request: it only adds events.                *)
(***************************************************************************)
LEMMA EventsGrow ==
  ASSUME Pipeline, Next
  PROVE  events \subseteq events'
<1>1. ASSUME NEW e \in Evals, Commit(e) PROVE events \subseteq events'
  BY <1>1, InsertedAre
<1>2. CASE \E e \in Evals : Evaluate(e)
  BY <1>1, <1>2 DEF Evaluate, Select, Abort, Release
<1>3. CASE \E c \in Fetchers : StartFetch(c) \/ BundleAnswers(c) \/ FetchFails(c)
  BY <1>3 DEF StartFetch, BundleAnswers, FetchFails
<1>4. CASE \E c \in Fetchers, price \in Prices : QuoteAnswers(c, price) \/ BundleStored(c, price)
  BY <1>4 DEF QuoteAnswers, BundleStored
<1>5. CASE Restart \/ Tick
  BY <1>5 DEF Restart, Tick
<1> QED BY <1>2, <1>3, <1>4, <1>5 DEF Next

LEMMA PipelineUnderDesk ==
  ASSUME AInv, Next, UNCHANGED deskVars
  PROVE  AInv'
<1>1. Pipeline'
  BY PipelineNext DEF AInv
<1>2. events \subseteq events'
  BY EventsGrow DEF AInv
<1>3. Shown'
  BY <1>2 DEF AInv, Shown, deskVars, Unread
<1> QED BY <1>1, <1>3 DEF AInv

LEMMA InboxKeeps ==
  ASSUME AInv, Inbox
  PROVE  AInv'
BY ListEventsKeeps, CountUnreadKeeps, MarkReadKeeps, DeleteEventKeeps, SelectUnreadKeeps,
   MarkSelectedKeeps, RequestEndsKeeps DEF Inbox

LEMMA RulesKeep ==
  ASSUME AInv, Rules
  PROVE  AInv'
BY CreateAlertKeeps, UpdateAlertKeeps, DeleteAlertKeeps DEF Rules

LEMMA DeskStep == AInv /\ [DeskNext]_allVars => AInv'
<1> SUFFICES ASSUME AInv, [DeskNext]_allVars PROVE AInv'
  OBVIOUS
<1>1. CASE Next /\ UNCHANGED deskVars
  BY <1>1, PipelineUnderDesk
<1>2. CASE Routes
  BY <1>2, InboxKeeps, RulesKeep DEF Routes
<1>3. CASE UNCHANGED allVars
  <2>1. Pipeline'
    BY <1>3, InboxOnly DEF AInv, allVars, vars
  <2>2. Shown'
    BY <1>3 DEF AInv, Shown, Unread, allVars, vars, deskVars
  <2> QED BY <2>1, <2>2 DEF AInv
<1> QED BY <1>1, <1>2, <1>3 DEF DeskNext

LEMMA AlwaysAInv == DeskSpec => []AInv
<1> QED BY DeskStart, DeskStep, PTL DEF DeskSpec

(***************************************************************************)
(* What follows.                                                           *)
(***************************************************************************)
(* What is new in the history was inserted by one commit.                  *)
LEMMA OnlyCommitFires ==
  ASSUME AInv, [DeskNext]_allVars, NEW ev \in fired' \ fired
  PROVE  \E e \in Evals : /\ Commit(e)
                          /\ ev.alert \in Triggers(eval[e])
                          /\ ev.at = eval[e].at /\ ev.price = eval[e].price
                          /\ ev.previous = eval[e].previous
<1>1. ASSUME NEW e \in Evals, Commit(e)
      PROVE  /\ ev.alert \in Triggers(eval[e]) /\ ev.at = eval[e].at
             /\ ev.price = eval[e].price /\ ev.previous = eval[e].previous
  BY <1>1, InsertedAre DEF AInv
<1>2. CASE \E e \in Evals : Evaluate(e)
  BY <1>1, <1>2 DEF Evaluate, Select, Abort, Release
<1>3. CASE \E c \in Fetchers : StartFetch(c) \/ BundleAnswers(c) \/ FetchFails(c)
  BY <1>3 DEF StartFetch, BundleAnswers, FetchFails
<1>4. CASE \E c \in Fetchers, price \in Prices : QuoteAnswers(c, price) \/ BundleStored(c, price)
  BY <1>4 DEF QuoteAnswers, BundleStored
<1>5. CASE Restart \/ Tick
  BY <1>5 DEF Restart, Tick
<1>6. CASE Rules
  BY <1>6 DEF Rules, CreateAlert, UpdateAlert, DeleteAlert, Edited
<1>7. CASE Inbox
  <2>1. fired' = fired
    BY <1>7 DEF Inbox, ListEvents, CountUnread, MarkRead, DeleteEvent, SelectUnread,
                MarkSelected, RequestEnds, vars
  <2> QED BY <2>1
<1>8. CASE UNCHANGED allVars
  BY <1>8 DEF allVars, vars
<1> QED BY <1>2, <1>3, <1>4, <1>5, <1>6, <1>7, <1>8 DEF DeskNext, Next, Routes

(* trigger_count and last_triggered_at are those of the events inserted.   *)
THEOREM RowsTellEvents == DeskSpec => []TriggerStateMatchesEvents
<1>1. AInv => TriggerStateMatchesEvents
  BY DEF AInv, Pipeline, Remembered, Tells, Mine, TriggerStateMatchesEvents, Live
<1> QED BY <1>1, AlwaysAInv, PTL

(* Every stored rule passes the checks evaluate_alert asserts, and the     *)
(* state has its types.                                                    *)
THEOREM StoredRulesEvaluable == DeskSpec => []RulesStayEvaluable
<1>1. AInv => TypeOK
  BY DEF AInv, Pipeline, Rows, Tasks, Fetches, Clocks, Log, TypeOK
<1>2. AInv => DeskTypeOK
  BY <1>1 DEF AInv, Shown, DeskTypeOK
<1>3. AInv => \A a \in Live : WellFormed(row[a].rule)
  BY DEF AInv, Pipeline, Rows, RowOK, Live
<1>4. AInv => RulesStayEvaluable
  BY <1>2, <1>3 DEF RulesStayEvaluable
<1> QED BY <1>4, AlwaysAInv, PTL

(* No rule fires twice within its cooldown.                                *)
THEOREM CooldownKept == DeskSpec => OncePerCooldown
<1>1. ASSUME AInv, [DeskNext]_allVars
      PROVE  [\A ev \in fired' \ fired, x \in fired :
                x.alert = ev.alert => x.at + row[ev.alert].rule.cooldown <= ev.at]_vars
  <2> SUFFICES ASSUME NEW ev \in fired' \ fired, NEW x \in fired, x.alert = ev.alert
               PROVE  x.at + row[ev.alert].rule.cooldown <= ev.at
    OBVIOUS
  <2> DEFINE a == ev.alert
             w == row[a]
  <2>1. PICK e \in Evals : Commit(e) /\ a \in Triggers(eval[e]) /\ ev.at = eval[e].at
    BY <1>1, OnlyCommitFires
  <2>2. a \in Alerts /\ RowDue(w, eval[e]) /\ eval[e].at \in Nat
    BY <1>1, <2>1, CommitSees DEF AInv
  <2>3. Tells(w, Mine(a, fired)) /\ x.at \in Mine(a, fired) /\ Mine(a, fired) \subseteq Nat
    BY <1>1, <2>2 DEF RowDue, Mine, AInv, Pipeline, Remembered, Log, Event
  <2>4. w.triggered \in Nat /\ x.at \in Nat /\ x.at <= w.triggered /\ Never \notin Nat
    BY <2>3, AlertAssumption DEF Tells
  <2>5. w.rule.cooldown \in Nat
    BY <1>1, <2>2 DEF RowDue, AInv, Pipeline, Rows, RowOK, Definition
  <2>6. w.triggered + w.rule.cooldown <= eval[e].at
    BY <2>2, <2>4, <2>5 DEF RowDue
  <2> QED BY <2>1, <2>2, <2>4, <2>5, <2>6
<1> QED BY <1>1, AlwaysAInv, PTL DEF DeskSpec, OncePerCooldown

(* An event is inserted only for the rule as it is stored.                 *)
THEOREM StoredRuleFires == DeskSpec => FiresOnStoredRule
<1>1. ASSUME AInv, [DeskNext]_allVars
      PROVE  [\A ev \in fired' \ fired :
                /\ row[ev.alert].state = "live"
                /\ LET d == row[ev.alert].rule
                   IN /\ d.type \in PriceTypes /\ d.enabled /\ ~Expired(d, ev.at)
                      /\ Matches(d, ev.price, ev.previous)]_vars
  <2> SUFFICES ASSUME NEW ev \in fired' \ fired
               PROVE  /\ row[ev.alert].state = "live"
                      /\ LET d == row[ev.alert].rule
                         IN /\ d.type \in PriceTypes /\ d.enabled /\ ~Expired(d, ev.at)
                            /\ Matches(d, ev.price, ev.previous)
    OBVIOUS
  <2>1. PICK e \in Evals : /\ Commit(e) /\ ev.alert \in Triggers(eval[e])
                           /\ ev.at = eval[e].at /\ ev.price = eval[e].price
                           /\ ev.previous = eval[e].previous
    BY <1>1, OnlyCommitFires
  <2>2. RowDue(row[ev.alert], eval[e])
    BY <1>1, <2>1, CommitSees DEF AInv
  <2> QED BY <2>1, <2>2 DEF RowDue
<1> QED BY <1>1, AlwaysAInv, PTL DEF DeskSpec, FiresOnStoredRule

(* No answer of the inbox hides an unread notification.                    *)
THEOREM InboxHidesNothing == DeskSpec => HidesNothing
<1>1. AInv => (desk.pc = "counted" => Cardinality(desk.shown) <= desk.unread)
  BY DEF AInv, Shown
<1>2. ASSUME AInv, [DeskNext]_allVars
      PROVE  [desk.pc = "marking" => Unread \ desk.selected \subseteq events' \ read']_allVars
  <2> SUFFICES ASSUME desk.pc = "marking", DeskNext
               PROVE  Unread \ desk.selected \subseteq events' \ read'
    BY <1>2
  <2>1. CASE Next /\ UNCHANGED deskVars
    BY <1>2, <2>1, EventsGrow DEF AInv, deskVars, Unread
  <2>2. CASE Rules
    BY <2>2 DEF Rules, CreateAlert, UpdateAlert, DeleteAlert, Edited, Alone
  <2>3. CASE MarkSelected \/ RequestEnds
    BY <2>3 DEF MarkSelected, RequestEnds, vars, Unread
  <2>4. CASE /\ Inbox /\ ~(MarkSelected \/ RequestEnds)
    BY <2>4 DEF Inbox, ListEvents, CountUnread, MarkRead, DeleteEvent, SelectUnread, Alone
  <2> QED BY <2>1, <2>2, <2>3, <2>4 DEF DeskNext, Routes
<1> QED BY <1>1, <1>2, AlwaysAInv, PTL DEF DeskSpec, HidesNothing
=============================================================================
