--------------------------- MODULE LiveQuoteProofs ---------------------------
(***************************************************************************)
(* LiveQuote for any number of tickers, fetches, threads and permits, and  *)
(* any times to live.                                                      *)
(***************************************************************************)
EXTENDS LiveQuote, FiniteSetTheorems, TLAPS

(* The threads that have a permit.                                         *)
Borrowers == {j \in Jobs : job[j].pc # "idle" /\ job[j].permit}

Lent == permits + Cardinality(Borrowers) = Permits

Small == Cardinality(Known) <= MaxTickers

(* Whoever runs has a ticker; a coroutine waits for a thread that runs     *)
(* with its permit, and for which nobody else waits.                       *)
Attended ==
  /\ \A f \in Fetches : fetch[f].pc # "idle" => fetch[f].ticker \in Tickers
  /\ \A j \in Jobs : job[j].pc # "idle" => job[j].ticker \in Tickers
  /\ \A f \in Fetches : fetch[f].pc = "waiting" =>
       /\ fetch[f].job \in Jobs
       /\ job[fetch[f].job].pc # "idle" /\ job[fetch[f].job].permit
  /\ \A f, g \in Fetches :
       f # g /\ fetch[f].pc = "waiting" /\ fetch[g].pc = "waiting" => fetch[f].job # fetch[g].job

Recent(quote, since) == quote.at >= since \/ quote.at + BundleTTL > since

(* The price of a thread somebody waits for came after the wait began, or  *)
(* from a bundle that was fresh then.                                      *)
Timely ==
  /\ \A f \in Fetches : fetch[f].since <= now
  /\ \A j \in Jobs : job[j].pc = "storing" => job[j].result # Raised
  /\ \A f \in Fetches :
       /\ fetch[f].pc = "waiting"
       /\ job[fetch[f].job].pc = "finished"
       /\ job[fetch[f].job].result \in Snapshot
       => Recent(job[fetch[f].job].result, fetch[f].since)

QInv == TypeOK /\ Lent /\ Small /\ Attended /\ Timely /\ FreshMeansRecent

-----------------------------------------------------------------------------
LEMMA IdleTyped == IdleFetch \in Fetch /\ IdleJob \in Job
BY DEF IdleFetch, IdleJob, Fetch, Job, Providers

LEMMA Start == Init => QInv
<1> SUFFICES ASSUME Init PROVE QInv
  OBVIOUS
<1>1. TypeOK
  BY IdleTyped, QuoteAssumption DEF Init, TypeOK
<1>2. Borrowers = {} /\ Known = {}
  BY DEF Init, Borrowers, Known, IdleJob
<1>3. Lent /\ Small
  BY <1>2, FS_EmptySet, QuoteAssumption DEF Init, Lent, Small
<1>4. \A f \in Fetches : fetch[f].pc = "idle" /\ fetch[f].since = 0
  BY DEF Init, IdleFetch
<1>5. \A j \in Jobs : job[j].pc = "idle"
  BY DEF Init, IdleJob
<1>6. Attended /\ Timely /\ FreshMeansRecent
  BY <1>4, <1>5 DEF Init, Attended, Timely, FreshMeansRecent
<1> QED BY <1>1, <1>3, <1>6 DEF QInv

(***************************************************************************)
(* live_prices.                                                            *)
(***************************************************************************)
LEMMA StoreKeeps ==
  ASSUME TypeOK, \E t \in Tickers, quote \in Snapshot : Store(t, quote)
  PROVE  live' \in [Tickers -> Snapshot \cup {NoQuote}] /\ Small'
<1>1. PICK t \in Tickers, quote \in Snapshot : Store(t, quote)
  OBVIOUS
<1> DEFINE next == [live EXCEPT ![t] = quote]
           kept == {u \in Known \cup {t} : now - next[u].at <= CacheTTL}
           excess == IF Cardinality(kept) > MaxTickers THEN Cardinality(kept) - MaxTickers ELSE 0
<1>2. PICK D \in SUBSET kept :
        /\ Cardinality(D) = excess
        /\ live' = [u \in Tickers |-> IF u \in kept \ D THEN next[u] ELSE NoQuote]
  BY <1>1 DEF Store
<1>3. next \in [Tickers -> Snapshot \cup {NoQuote}]
  BY DEF TypeOK
<1>4. kept \subseteq Tickers
  BY DEF Known
<1> HIDE DEF next
<1>5. live' \in [Tickers -> Snapshot \cup {NoQuote}]
  BY <1>2, <1>3
<1>6. Known' \subseteq kept \ D
  BY <1>2 DEF Known
<1> HIDE DEF kept
<1>7. IsFiniteSet(kept) /\ IsFiniteSet(D) /\ IsFiniteSet(kept \ D)
  BY <1>4, QuoteAssumption, FS_Subset
<1>8. Cardinality((kept \ D) \cup D)
        = Cardinality(kept \ D) + Cardinality(D) - Cardinality((kept \ D) \cap D)
  BY <1>7, FS_Union
<1>9. (kept \ D) \cup D = kept /\ (kept \ D) \cap D = {}
  OBVIOUS
<1>10. Cardinality(kept \ D) = Cardinality(kept) - Cardinality(D)
  <2>1. Cardinality({}) = 0
    BY FS_EmptySet
  <2>2. /\ Cardinality(kept \ D) \in Nat /\ Cardinality(D) \in Nat
    BY <1>7, FS_CardinalityType
  <2>3. Cardinality(kept) = Cardinality(kept \ D) + Cardinality(D) - Cardinality({})
    BY <1>8, <1>9
  <2> QED BY <2>1, <2>2, <2>3
<1>11. Cardinality(kept \ D) <= MaxTickers
  BY <1>2, <1>7, <1>10, FS_CardinalityType, QuoteAssumption
<1>12. Cardinality(Known') <= Cardinality(kept \ D) /\ Cardinality(Known') \in Nat
  BY <1>6, <1>7, FS_Subset, FS_CardinalityType
<1>13. Small'
  BY <1>7, <1>11, <1>12, FS_CardinalityType, QuoteAssumption DEF Small, Known
<1> QED BY <1>5, <1>13

LEMMA CachedIs ==
  ASSUME TypeOK, NEW t \in Tickers, NEW age
  PROVE  Cached(t, age) \in Snapshot \cup {NoQuote}
BY DEF TypeOK, Cached

LEMMA Apart == NoQuote \notin Snapshot /\ Raised \notin Snapshot /\ Raised # NoQuote
BY QuoteAssumption

(***************************************************************************)
(* A coroutine goes on without a thread.                                   *)
(***************************************************************************)
(* It asks again, or answers with something recent, or marked stale.       *)
GoesOn(x) ==
  /\ x \in Fetch /\ x.pc \in {"idle", "acquiring", "answered"} /\ x.since <= now
  /\ x.pc # "idle" => x.ticker \in Tickers
  /\ x.pc = "answered" /\ ~x.stale => x.answer # NoQuote /\ Recent(x.answer, x.since)

LEMMA TryNextGoesOn ==
  ASSUME QInv, NEW f \in Fetches, fetch[f].pc # "idle"
  PROVE  \E x : GoesOn(x) /\ TryNext(f) = [fetch EXCEPT ![f] = x]
<1> DEFINE w == fetch[f]
           y == [w EXCEPT !.pc = "acquiring", !.job = NoJob,
                   !.provider = IF w.provider = "polygon" /\ w.regular
                                THEN "one_minute" ELSE "bundle"]
<1>1. w \in Fetch /\ w.since <= now /\ w.ticker \in Tickers
  BY DEF QInv, TypeOK, Timely, Attended
<1>2. GoesOn(y)
  BY <1>1 DEF GoesOn, Fetch, Providers
<1>3. TryNext(f) = [fetch EXCEPT ![f] = y]
  BY DEF TryNext
<1> QED BY <1>2, <1>3

LEMMA AnsweredGoesOn ==
  ASSUME QInv, NEW f \in Fetches, fetch[f].pc # "idle",
         NEW quote \in Snapshot \cup {NoQuote}, NEW stale \in BOOLEAN,
         ~stale => quote # NoQuote /\ Recent(quote, fetch[f].since)
  PROVE  \E x : GoesOn(x) /\ Answered(f, quote, stale) = [fetch EXCEPT ![f] = x]
<1> DEFINE w == fetch[f]
           z == [w EXCEPT !.pc = "answered", !.job = NoJob, !.answer = quote, !.stale = stale]
<1>1. w \in Fetch /\ w.since <= now /\ w.ticker \in Tickers
  BY DEF QInv, TypeOK, Timely, Attended
<1>2. z \in Fetch /\ z.pc = "answered" /\ z.stale = stale /\ z.answer = quote
      /\ z.since = w.since /\ z.ticker = w.ticker
  BY <1>1 DEF Fetch
<1>3. Answered(f, quote, stale) = [fetch EXCEPT ![f] = z]
  BY DEF Answered
<1> HIDE DEF z
<1>4. GoesOn(z)
  BY <1>1, <1>2 DEF GoesOn
<1> QED BY <1>3, <1>4

LEMMA CallFailsGoesOn ==
  ASSUME QInv, NEW f \in Fetches, fetch[f].pc # "idle"
  PROVE  \E x : GoesOn(x) /\ CallFails(f) = [fetch EXCEPT ![f] = x]
<1>1. CASE fetch[f].provider = "polygon"
  BY <1>1, TryNextGoesOn DEF CallFails
<1>2. CASE fetch[f].provider # "polygon"
  <2> DEFINE last == Cached(fetch[f].ticker, CacheTTL)
  <2>1. last \in Snapshot \cup {NoQuote}
    BY CachedIs DEF QInv, Attended
  <2>2. CallFails(f) = Answered(f, last, TRUE)
    BY <1>2 DEF CallFails
  <2> HIDE DEF last
  <2>3. \E x : GoesOn(x) /\ Answered(f, last, TRUE) = [fetch EXCEPT ![f] = x]
    BY <2>1, AnsweredGoesOn
  <2> QED BY <2>2, <2>3
<1> QED BY <1>1, <1>2

LEMMA CoroutineStep ==
  ASSUME QInv, \E f \in Fetches : \E x : GoesOn(x) /\ fetch' = [fetch EXCEPT ![f] = x],
         UNCHANGED <<permits, job, live, bundle, now>>
  PROVE  QInv'
<1>0. PICK f \in Fetches : \E x : GoesOn(x) /\ fetch' = [fetch EXCEPT ![f] = x]
  OBVIOUS
<1>1. PICK x : GoesOn(x) /\ fetch' = [fetch EXCEPT ![f] = x]
  BY <1>0
<1>2. fetch'[f] = x /\ \A g \in Fetches : g # f => fetch'[g] = fetch[g]
  BY <1>1 DEF QInv, TypeOK
<1>3. fetch' \in [Fetches -> Fetch]
  BY <1>1 DEF QInv, TypeOK, GoesOn
<1>4. TypeOK'
  BY <1>3 DEF QInv, TypeOK
<1>5. Lent' /\ Small'
  BY DEF QInv, Lent, Borrowers, Small, Known
<1>6. Attended'
  BY <1>1, <1>2 DEF QInv, Attended, GoesOn
<1>7. Timely'
  BY <1>1, <1>2 DEF QInv, Timely, GoesOn
<1>8. FreshMeansRecent'
  BY <1>1, <1>2 DEF QInv, FreshMeansRecent, GoesOn, Recent
<1> QED BY <1>4, <1>5, <1>6, <1>7, <1>8 DEF QInv

LEMMA StartFetchKeeps ==
  ASSUME QInv, NEW f \in Fetches, NEW t \in Tickers, NEW regular \in BOOLEAN,
         StartFetch(f, t, regular)
  PROVE  QInv'
<1> DEFINE x == [IdleFetch EXCEPT !.pc = "acquiring", !.ticker = t, !.regular = regular,
                                  !.provider = FirstProvider(regular), !.since = now]
<1>1. FirstProvider(regular) \in Providers
  BY DEF FirstProvider, Providers
<1>2. x \in Fetch /\ x.pc = "acquiring" /\ x.ticker = t /\ x.since = now
  BY <1>1, IdleTyped DEF IdleFetch, Fetch, QInv, TypeOK
<1>3. fetch' = [fetch EXCEPT ![f] = x]
  BY DEF StartFetch
<1> HIDE DEF x
<1>4. GoesOn(x)
  BY <1>2 DEF GoesOn, QInv, TypeOK
<1> QED BY <1>3, <1>4, CoroutineStep DEF StartFetch

LEMMA CallTimesOutKeeps ==
  ASSUME QInv, NEW f \in Fetches, AcquireTimesOut(f) \/ CallTimesOut(f)
  PROVE  QInv'
BY CallFailsGoesOn, CoroutineStep DEF AcquireTimesOut, CallTimesOut

LEMMA ReturnKeeps ==
  ASSUME QInv, NEW f \in Fetches, Return(f)
  PROVE  QInv'
<1>1. GoesOn(IdleFetch)
  BY IdleTyped DEF GoesOn, IdleFetch, QInv, TypeOK
<1> QED BY <1>1, CoroutineStep DEF Return

(***************************************************************************)
(* A permit is lent and given back.                                        *)
(***************************************************************************)
LEMMA BorrowersFinite ==
  ASSUME TypeOK
  PROVE  IsFiniteSet(Borrowers) /\ Cardinality(Borrowers) \in Nat
BY QuoteAssumption, FS_Subset, FS_CardinalityType DEF Borrowers

LEMMA AcquireKeeps ==
  ASSUME QInv, NEW f \in Fetches, Acquire(f)
  PROVE  QInv'
<1>1. PICK j \in Jobs :
        /\ job[j].pc = "idle"
        /\ job' = [job EXCEPT ![j] =
                     [IdleJob EXCEPT !.pc = "asking", !.ticker = fetch[f].ticker,
                                     !.provider = fetch[f].provider, !.permit = TRUE]]
        /\ fetch' = [fetch EXCEPT ![f] = [@ EXCEPT !.pc = "waiting", !.job = j]]
  BY DEF Acquire
<1> DEFINE y == [IdleJob EXCEPT !.pc = "asking", !.ticker = fetch[f].ticker,
                                !.provider = fetch[f].provider, !.permit = TRUE]
           x == [fetch[f] EXCEPT !.pc = "waiting", !.job = j]
<1>2. fetch[f] \in Fetch /\ fetch[f].pc = "acquiring" /\ fetch[f].ticker \in Tickers
      /\ fetch[f].since <= now
  BY DEF Acquire, QInv, TypeOK, Attended, Timely
<1>3. y \in Job /\ y.pc = "asking" /\ y.permit = TRUE /\ y.ticker = fetch[f].ticker
  BY <1>2, IdleTyped DEF IdleJob, Job, Fetch
<1>4. x \in Fetch /\ x.pc = "waiting" /\ x.job = j /\ x.ticker = fetch[f].ticker
      /\ x.since = fetch[f].since
  BY <1>2 DEF Fetch
<1>5. job' = [job EXCEPT ![j] = y] /\ fetch' = [fetch EXCEPT ![f] = x]
  BY <1>1
<1> HIDE DEF x, y
<1>6. /\ job'[j] = y /\ \A k \in Jobs : k # j => job'[k] = job[k]
      /\ fetch'[f] = x /\ \A g \in Fetches : g # f => fetch'[g] = fetch[g]
  BY <1>5 DEF QInv, TypeOK
<1>7. permits' = permits - 1 /\ permits > 0 /\ permits \in Nat
      /\ UNCHANGED <<live, bundle, now>>
  BY DEF Acquire, QInv, TypeOK
<1>8. TypeOK'
  BY <1>3, <1>4, <1>5, <1>7 DEF QInv, TypeOK
<1>9. Lent'
  <2>1. Borrowers' = Borrowers \cup {j} /\ j \notin Borrowers
    BY <1>1, <1>3, <1>6 DEF Borrowers
  <2>2. Cardinality(Borrowers') = Cardinality(Borrowers) + 1 /\ Cardinality(Borrowers) \in Nat
    BY <2>1, BorrowersFinite, FS_AddElement DEF QInv
  <2> QED BY <2>2, <1>7, QuoteAssumption DEF QInv, Lent
<1>10. Small'
  BY <1>7 DEF QInv, Small, Known
<1>11. Attended'
  BY <1>1, <1>2, <1>3, <1>4, <1>6 DEF QInv, Attended
<1>12. Timely'
  <2>1. \A g \in Fetches : fetch'[g].since <= now'
    BY <1>2, <1>4, <1>6, <1>7 DEF QInv, Timely
  <2>2. \A k \in Jobs : job'[k].pc = "storing" => job'[k].result # Raised
    BY <1>3, <1>6 DEF QInv, Timely
  <2>3. ASSUME NEW g \in Fetches, fetch'[g].pc = "waiting", job'[fetch'[g].job].pc = "finished",
               job'[fetch'[g].job].result \in Snapshot
        PROVE  Recent(job'[fetch'[g].job].result, fetch'[g].since)
    <3>1. g # f
      BY <2>3, <1>3, <1>4, <1>6
    <3>2. fetch'[g] = fetch[g] /\ fetch[g].job \in Jobs /\ job[fetch[g].job].pc # "idle"
      BY <2>3, <3>1, <1>6 DEF QInv, Attended
    <3>3. job'[fetch[g].job] = job[fetch[g].job]
      BY <3>2, <1>1, <1>6
    <3> QED BY <2>3, <3>2, <3>3 DEF QInv, Timely
  <2> QED BY <2>1, <2>2, <2>3 DEF Timely, Recent
<1>13. FreshMeansRecent'
  BY <1>4, <1>6 DEF QInv, FreshMeansRecent
<1> QED BY <1>8, <1>9, <1>10, <1>11, <1>12, <1>13 DEF QInv

(* A thread that somebody may wait for is over.                            *)
LEMMA Unattended ==
  ASSUME QInv, NEW j \in Jobs
  PROVE  \/ Waiting(j) = {}
         \/ \E f \in Fetches : /\ Waiting(j) = {f} /\ fetch[f].pc = "waiting" /\ fetch[f].job = j
BY DEF QInv, Attended, Waiting

(* The price a coroutine is resumed with goes into live_prices.            *)
LEMMA ResumeGoesOn ==
  ASSUME QInv, NEW f \in Fetches, NEW j \in Jobs, fetch[f].pc = "waiting", fetch[f].job = j,
         job[j].pc = "finished", Resume(f, job[j].result)
  PROVE  /\ \E x : GoesOn(x) /\ fetch' = [fetch EXCEPT ![f] = x]
         /\ live' \in [Tickers -> Snapshot \cup {NoQuote}] /\ Small'
<1> DEFINE result == job[j].result
<1>1. result \in Snapshot \cup {NoQuote, Raised}
  BY DEF QInv, TypeOK, Job
<1>2. fetch[f].ticker \in Tickers /\ now \in Nat /\ fetch[f].since \in Nat /\ fetch[f].since <= now
  BY DEF QInv, TypeOK, Attended, Timely, Fetch
<1>3. UNCHANGED live => live' \in [Tickers -> Snapshot \cup {NoQuote}] /\ Small'
  BY DEF QInv, TypeOK, Small, Known
<1>4. CASE result = Raised
  <2>1. fetch' = CallFails(f) /\ UNCHANGED live
    BY <1>4, Apart DEF Resume
  <2> QED BY <2>1, <1>3, CallFailsGoesOn
<1>5. CASE result = NoQuote
  <2>1. fetch' = TryNext(f) /\ UNCHANGED live
    BY <1>5, Apart DEF Resume
  <2> QED BY <2>1, <1>3, TryNextGoesOn
<1>6. CASE result \in Snapshot /\ fetch[f].provider = "bundle"
  <2>1. fetch' = Answered(f, result, FALSE) /\ UNCHANGED live
    BY <1>6, Apart DEF Resume
  <2>2. Recent(result, fetch[f].since) /\ result # NoQuote
    BY <1>6, Apart DEF QInv, Timely
  <2> HIDE DEF result
  <2>3. \E x : GoesOn(x) /\ Answered(f, result, FALSE) = [fetch EXCEPT ![f] = x]
    BY <1>6, <2>2, AnsweredGoesOn
  <2> QED BY <2>1, <2>3, <1>3
<1>7. CASE result \in Snapshot /\ fetch[f].provider # "bundle"
  <2> DEFINE quote == [result EXCEPT !.at = now]
  <2>1. fetch' = Answered(f, quote, FALSE) /\ Store(fetch[f].ticker, quote)
    BY <1>7, Apart DEF Resume
  <2> HIDE DEF result
  <2>2. quote \in Snapshot /\ quote.at = now
    BY <1>2, <1>7 DEF Snapshot
  <2> HIDE DEF quote
  <2>3. Recent(quote, fetch[f].since) /\ quote # NoQuote
    BY <1>2, <2>2, Apart DEF Recent
  <2>4. \E x : GoesOn(x) /\ Answered(f, quote, FALSE) = [fetch EXCEPT ![f] = x]
    BY <2>2, <2>3, AnsweredGoesOn
  <2>5. live' \in [Tickers -> Snapshot \cup {NoQuote}] /\ Small'
    BY <1>2, <2>1, <2>2, StoreKeeps DEF QInv
  <2> QED BY <2>1, <2>4, <2>5
<1> QED BY <1>1, <1>4, <1>5, <1>6, <1>7

LEMMA FinishKeeps ==
  ASSUME QInv, NEW j \in Jobs, Finish(j)
  PROVE  QInv'
<1>1. /\ job[j].pc = "finished" /\ job' = [job EXCEPT ![j] = IdleJob]
      /\ permits' = IF job[j].permit THEN permits + 1 ELSE permits
      /\ UNCHANGED <<bundle, now>>
  BY DEF Finish
<1>2. /\ job'[j] = IdleJob /\ IdleJob.pc = "idle"
      /\ \A k \in Jobs : k # j => job'[k] = job[k]
  BY <1>1 DEF QInv, TypeOK, IdleJob
<1>3. job' \in [Jobs -> Job]
  BY <1>1, IdleTyped DEF QInv, TypeOK
<1>4. permits' \in Nat /\ Lent'
  <2>1. permits \in Nat /\ permits + Cardinality(Borrowers) = Permits /\ Permits \in Nat
    BY QuoteAssumption DEF QInv, TypeOK, Lent
  <2>2. IsFiniteSet(Borrowers) /\ Cardinality(Borrowers) \in Nat
    BY BorrowersFinite DEF QInv
  <2>3. CASE job[j].permit
    <3>1. Borrowers' = Borrowers \ {j} /\ j \in Borrowers
      BY <1>1, <1>2, <2>3 DEF Borrowers
    <3>2. Cardinality(Borrowers') = Cardinality(Borrowers) - 1
      BY <2>2, <3>1, FS_RemoveElement
    <3> QED BY <1>1, <2>1, <2>2, <2>3, <3>2 DEF Lent
  <2>4. CASE ~job[j].permit
    <3>1. Borrowers' = Borrowers
      BY <1>1, <1>2, <2>4 DEF Borrowers
    <3> QED BY <1>1, <2>1, <2>4, <3>1 DEF Lent
  <2> QED BY <2>3, <2>4
<1>5. /\ fetch' \in [Fetches -> Fetch]
      /\ live' \in [Tickers -> Snapshot \cup {NoQuote}] /\ Small'
      /\ \A f \in Fetches :
           \/ fetch'[f] = fetch[f] /\ (fetch[f].pc = "waiting" => fetch[f].job # j)
           \/ GoesOn(fetch'[f])
  <2>1. CASE Waiting(j) = {}
    <3>1. UNCHANGED <<fetch, live>>
      BY <2>1 DEF Finish
    <3>2. \A f \in Fetches : fetch[f].pc = "waiting" => fetch[f].job # j
      BY <2>1 DEF Waiting
    <3> QED BY <3>1, <3>2 DEF QInv, TypeOK, Small, Known
  <2>2. CASE Waiting(j) # {}
    <3>1. PICK f \in Fetches : Waiting(j) = {f} /\ fetch[f].pc = "waiting" /\ fetch[f].job = j
      BY <2>2, Unattended
    <3>2. Resume(f, job[j].result)
      BY <2>2, <3>1 DEF Finish
    <3>3. live' \in [Tickers -> Snapshot \cup {NoQuote}] /\ Small'
      BY <1>1, <3>1, <3>2, ResumeGoesOn
    <3>4. PICK x : GoesOn(x) /\ fetch' = [fetch EXCEPT ![f] = x]
      BY <1>1, <3>1, <3>2, ResumeGoesOn
    <3>5. fetch'[f] = x /\ \A g \in Fetches : g # f => fetch'[g] = fetch[g]
      BY <3>4 DEF QInv, TypeOK
    <3>6. \A g \in Fetches : g # f => (fetch[g].pc = "waiting" => fetch[g].job # j)
      BY <3>1 DEF Waiting
    <3>7. fetch' \in [Fetches -> Fetch]
      BY <3>4 DEF QInv, TypeOK, GoesOn
    <3> QED BY <3>3, <3>4, <3>5, <3>6, <3>7
  <2> QED BY <2>1, <2>2
<1>6. TypeOK'
  BY <1>1, <1>3, <1>4, <1>5 DEF QInv, TypeOK
<1>7. \A f \in Fetches : fetch'[f].pc = "waiting" =>
        /\ fetch'[f] = fetch[f] /\ fetch[f].job \in Jobs
        /\ fetch[f].job # j /\ job'[fetch[f].job] = job[fetch[f].job]
  BY <1>2, <1>5 DEF GoesOn, QInv, Attended
<1>8. Attended'
  <2>1. \A f \in Fetches : fetch'[f].pc # "idle" => fetch'[f].ticker \in Tickers
    BY <1>5 DEF GoesOn, QInv, Attended
  <2>2. \A k \in Jobs : job'[k].pc # "idle" => job'[k].ticker \in Tickers
    BY <1>2 DEF QInv, Attended
  <2> QED BY <2>1, <2>2, <1>7 DEF QInv, Attended
<1>9. Timely'
  <2>1. \A f \in Fetches : fetch'[f].since <= now'
    BY <1>1, <1>5 DEF GoesOn, QInv, Timely
  <2>2. \A k \in Jobs : job'[k].pc = "storing" => job'[k].result # Raised
    BY <1>2 DEF QInv, Timely
  <2> QED BY <2>1, <2>2, <1>7 DEF QInv, Timely
<1>10. FreshMeansRecent'
  BY <1>5 DEF GoesOn, QInv, FreshMeansRecent, Recent
<1> QED BY <1>4, <1>5, <1>6, <1>8, <1>9, <1>10 DEF QInv

(***************************************************************************)
(* The threads.                                                            *)
(***************************************************************************)
ThreadGoesOn(k) ==
  /\ job'[k].pc # "idle" => job'[k].ticker \in Tickers
  /\ (job'[k].pc # "idle" /\ job'[k].permit) <=> (job[k].pc # "idle" /\ job[k].permit)
  /\ job'[k].pc = "storing" => job'[k].result # Raised
  /\ job'[k].pc = "finished" /\ job'[k].result \in Snapshot =>
       \/ job[k].pc = "finished" /\ job'[k].result = job[k].result
       \/ Recent(job'[k].result, now)

LEMMA ThreadStep ==
  ASSUME QInv, job' \in [Jobs -> Job], \A k \in Jobs : ThreadGoesOn(k),
         live' \in [Tickers -> Snapshot \cup {NoQuote}], Small',
         bundle' \in [Tickers -> Snapshot \cup {NoQuote}],
         UNCHANGED <<permits, fetch, now>>
  PROVE  QInv'
<1>1. TypeOK'
  BY DEF QInv, TypeOK
<1>2. Borrowers' = Borrowers
  BY DEF Borrowers, ThreadGoesOn
<1>3. Lent'
  BY <1>2 DEF QInv, Lent
<1>4. Attended'
  BY DEF QInv, Attended, ThreadGoesOn
<1>5. Timely'
  <2>1. \A f \in Fetches : fetch'[f].since <= now'
    BY DEF QInv, Timely
  <2>2. \A k \in Jobs : job'[k].pc = "storing" => job'[k].result # Raised
    BY DEF ThreadGoesOn
  <2>3. ASSUME NEW f \in Fetches, fetch'[f].pc = "waiting", job'[fetch'[f].job].pc = "finished",
               job'[fetch'[f].job].result \in Snapshot
        PROVE  Recent(job'[fetch'[f].job].result, fetch'[f].since)
    <3> DEFINE k == fetch[f].job
    <3>1. fetch'[f] = fetch[f] /\ k \in Jobs
      BY <2>3 DEF QInv, Attended
    <3>2. CASE job[k].pc = "finished" /\ job'[k].result = job[k].result
      BY <2>3, <3>1, <3>2 DEF QInv, Timely
    <3>3. CASE Recent(job'[k].result, now)
      <4>1. /\ job'[k].result.at \in Nat /\ now \in Nat /\ fetch[f].since \in Nat
            /\ fetch[f].since <= now /\ BundleTTL \in Nat
        BY <2>3, <3>1, QuoteAssumption DEF Snapshot, QInv, TypeOK, Fetch, Timely
      <4> QED BY <3>1, <3>3, <4>1 DEF Recent
    <3> QED BY <2>3, <3>1, <3>2, <3>3 DEF ThreadGoesOn
  <2> QED BY <2>1, <2>2, <2>3 DEF Timely, Recent
<1>6. FreshMeansRecent'
  BY DEF QInv, FreshMeansRecent
<1> QED BY <1>1, <1>3, <1>4, <1>5, <1>6 DEF QInv

(* One thread goes on, the others do not.                                  *)
LEMMA OneThread ==
  ASSUME QInv, \E j \in Jobs, y \in Job :
           /\ job' = [job EXCEPT ![j] = y]
           /\ y.pc # "idle" => y.ticker \in Tickers
           /\ (y.pc # "idle" /\ y.permit) <=> (job[j].pc # "idle" /\ job[j].permit)
           /\ y.pc = "storing" => y.result # Raised
           /\ y.pc = "finished" /\ y.result \in Snapshot => Recent(y.result, now),
         UNCHANGED <<permits, fetch, live, bundle, now>>
  PROVE  QInv'
<1>1. PICK j \in Jobs, y \in Job :
           /\ job' = [job EXCEPT ![j] = y]
           /\ y.pc # "idle" => y.ticker \in Tickers
           /\ (y.pc # "idle" /\ y.permit) <=> (job[j].pc # "idle" /\ job[j].permit)
           /\ y.pc = "storing" => y.result # Raised
           /\ y.pc = "finished" /\ y.result \in Snapshot => Recent(y.result, now)
  OBVIOUS
<1>2. job' \in [Jobs -> Job] /\ job'[j] = y /\ \A k \in Jobs : k # j => job'[k] = job[k]
  BY <1>1 DEF QInv, TypeOK
<1>3. \A k \in Jobs : ThreadGoesOn(k)
  BY <1>1, <1>2 DEF ThreadGoesOn, QInv, Attended, Timely
<1>4. /\ live' \in [Tickers -> Snapshot \cup {NoQuote}] /\ Small'
      /\ bundle' \in [Tickers -> Snapshot \cup {NoQuote}]
  BY DEF QInv, TypeOK, Small, Known
<1> QED BY <1>2, <1>3, <1>4, ThreadStep

(* A thread that asked ends with a price of now, or without one.           *)
LEMMA EndsKeeps ==
  ASSUME QInv, NEW j \in Jobs, job[j].pc = "asking",
         NEW result \in Snapshot \cup {NoQuote, Raised},
         result \in Snapshot => Recent(result, now),
         Ends(j, result), UNCHANGED <<permits, fetch, live, bundle, now>>
  PROVE  QInv'
<1> DEFINE y == [job[j] EXCEPT !.pc = "finished", !.result = result]
<1>1. job[j] \in Job /\ job[j].ticker \in Tickers
  BY DEF QInv, TypeOK, Attended
<1>2. y \in Job /\ y.pc = "finished" /\ y.result = result /\ y.ticker = job[j].ticker
      /\ y.permit = job[j].permit
  BY <1>1 DEF Job
<1>3. job' = [job EXCEPT ![j] = y]
  BY DEF Ends
<1> HIDE DEF y
<1> QED BY <1>1, <1>2, <1>3, OneThread

LEMMA TradeAnswersKeeps ==
  ASSUME QInv, NEW j \in Jobs, TradeAnswers(j)
  PROVE  QInv'
<1>1. job[j].pc = "asking" /\ UNCHANGED <<permits, fetch, live, bundle, now>>
  BY DEF TradeAnswers
<1>2. CASE \E p \in Prices : Ends(j, [price |-> p, observed |-> now, at |-> now])
  <2>1. PICK p \in Prices : Ends(j, [price |-> p, observed |-> now, at |-> now])
    BY <1>2
  <2> DEFINE quote == [price |-> p, observed |-> now, at |-> now]
  <2>2. quote \in Snapshot /\ quote.at = now /\ now \in Nat
    BY DEF Snapshot, QInv, TypeOK
  <2>3. Ends(j, quote)
    BY <2>1
  <2> HIDE DEF quote
  <2>4. Recent(quote, now)
    BY <2>2 DEF Recent
  <2> QED BY <1>1, <2>2, <2>3, <2>4, EndsKeeps
<1>3. CASE Ends(j, NoQuote)
  BY <1>1, <1>3, Apart, EndsKeeps
<1>4. CASE Ends(j, Raised)
  BY <1>1, <1>4, Apart, EndsKeeps
<1> QED BY <1>2, <1>3, <1>4 DEF TradeAnswers

LEMMA BundleHitKeeps ==
  ASSUME QInv, NEW j \in Jobs, BundleHit(j)
  PROVE  QInv'
<1> DEFINE quote == bundle[job[j].ticker]
<1>1. job[j].pc = "asking" /\ BundleFresh(job[j].ticker) /\ Ends(j, quote)
      /\ UNCHANGED <<permits, fetch, live, bundle, now>>
  BY DEF BundleHit, AsksBundle
<1>2. job[j].ticker \in Tickers
  BY <1>1 DEF QInv, Attended
<1>3. quote \in Snapshot
  BY <1>1, <1>2 DEF BundleFresh, QInv, TypeOK
<1>4. quote.at \in Nat /\ now \in Nat /\ now - quote.at < BundleTTL
  BY <1>1, <1>3 DEF BundleFresh, Snapshot, QInv, TypeOK
<1> HIDE DEF quote
<1>5. Recent(quote, now)
  BY <1>4, QuoteAssumption DEF Recent
<1> QED BY <1>1, <1>3, <1>5, EndsKeeps

LEMMA BundleMissKeeps ==
  ASSUME QInv, NEW j \in Jobs, BundleMiss(j)
  PROVE  QInv'
<1>1. PICK pc \in {"leading", "following"} : job' = [job EXCEPT ![j].pc = pc]
  BY DEF BundleMiss
<1> DEFINE y == [job[j] EXCEPT !.pc = pc]
<1>2. job[j] \in Job /\ job[j].pc = "asking" /\ job[j].ticker \in Tickers
  BY DEF BundleMiss, AsksBundle, QInv, TypeOK, Attended
<1>3. y \in Job /\ y.pc = pc /\ y.ticker = job[j].ticker /\ y.permit = job[j].permit
  BY <1>2 DEF Job
<1>4. job' = [job EXCEPT ![j] = y]
  BY <1>1
<1> HIDE DEF y
<1> QED BY <1>2, <1>3, <1>4, OneThread DEF BundleMiss

LEMMA BundleAnswersKeeps ==
  ASSUME QInv, NEW j \in Jobs, BundleAnswers(j)
  PROVE  QInv'
<1>1. PICK result \in [price : Prices, observed : {now}, at : {now}] \cup {NoQuote} :
        job' = [job EXCEPT ![j] = [@ EXCEPT !.pc = "storing", !.result = result]]
  BY DEF BundleAnswers
<1> DEFINE y == [job[j] EXCEPT !.pc = "storing", !.result = result]
<1>2. job[j] \in Job /\ job[j].pc = "leading" /\ job[j].ticker \in Tickers /\ now \in Nat
  BY DEF BundleAnswers, QInv, TypeOK, Attended
<1>3. result \in Snapshot \cup {NoQuote} /\ result # Raised
  BY <1>2, Apart DEF Snapshot
<1>4. y \in Job /\ y.pc = "storing" /\ y.result = result /\ y.ticker = job[j].ticker
      /\ y.permit = job[j].permit
  BY <1>2, <1>3 DEF Job
<1>5. job' = [job EXCEPT ![j] = y]
  BY <1>1
<1> HIDE DEF y
<1> QED BY <1>2, <1>3, <1>4, <1>5, OneThread DEF BundleAnswers

LEMMA RouteAsksKeeps ==
  ASSUME QInv, NEW j \in Jobs, NEW t \in Tickers, RouteAsks(j, t)
  PROVE  QInv'
<1> DEFINE y == [IdleJob EXCEPT !.pc = "asking", !.ticker = t]
<1>1. y \in Job /\ y.pc = "asking" /\ y.ticker = t /\ y.permit = FALSE
  BY IdleTyped DEF IdleJob, Job
<1>2. job' = [job EXCEPT ![j] = y] /\ job[j].pc = "idle"
  BY DEF RouteAsks
<1> HIDE DEF y
<1> QED BY <1>1, <1>2, OneThread DEF RouteAsks

(* The flight of a bundle ends: with it, the threads that waited for it.   *)
LEMMA SharedGoesOn ==
  ASSUME QInv, NEW j \in Jobs, job[j].pc = "storing",
         NEW result \in Snapshot \cup {Raised}, result \in Snapshot => Recent(result, now),
         job' = Shared(j, result)
  PROVE  job' \in [Jobs -> Job] /\ \A k \in Jobs : ThreadGoesOn(k)
<1>1. ASSUME NEW k \in Jobs
      PROVE  job'[k] \in Job /\ ThreadGoesOn(k)
  <2>1. job[k] \in Job
    BY DEF QInv, TypeOK
  <2>2. CASE k = j \/ (job[k].pc = "following" /\ job[k].ticker = job[j].ticker)
    <3>1. job'[k] = [job[k] EXCEPT !.pc = "finished", !.result = result]
      BY <2>2 DEF Shared
    <3>2. /\ job'[k] \in Job /\ job'[k].pc = "finished" /\ job'[k].result = result
          /\ job'[k].permit = job[k].permit /\ job'[k].ticker = job[k].ticker
      BY <2>1, <3>1 DEF Job
    <3>3. job[k].pc # "idle" /\ job[k].ticker \in Tickers
      BY <2>2 DEF QInv, Attended
    <3> QED BY <3>2, <3>3 DEF ThreadGoesOn
  <2>3. CASE ~(k = j \/ (job[k].pc = "following" /\ job[k].ticker = job[j].ticker))
    <3>1. job'[k] = job[k]
      BY <2>3 DEF Shared
    <3> QED BY <2>1, <3>1 DEF ThreadGoesOn, QInv, Attended, Timely
  <2> QED BY <2>2, <2>3
<1>2. job' = [k \in Jobs |-> job'[k]]
  BY DEF Shared
<1> QED BY <1>1, <1>2

LEMMA BundleStoredKeeps ==
  ASSUME QInv, NEW j \in Jobs, BundleStored(j)
  PROVE  QInv'
<1> DEFINE t == job[j].ticker
           last == IF job[j].result # NoQuote THEN job[j].result ELSE Cached(t, StaleAfter)
           quote == [last EXCEPT !.at = now]
<1>1. /\ job[j].pc = "storing" /\ last # NoQuote /\ Store(t, quote)
      /\ bundle' = [bundle EXCEPT ![t] = quote] /\ job' = Shared(j, quote)
      /\ UNCHANGED <<permits, fetch, now>>
  BY DEF BundleStored
<1>2. t \in Tickers /\ job[j].result \in Snapshot \cup {NoQuote} /\ now \in Nat
  BY <1>1 DEF QInv, TypeOK, Attended, Timely, Job
<1>3. Cached(t, StaleAfter) \in Snapshot \cup {NoQuote}
  BY <1>2, CachedIs DEF QInv
<1>4. last \in Snapshot
  BY <1>1, <1>2, <1>3
<1> HIDE DEF last
<1>5. quote \in Snapshot /\ quote.at = now
  BY <1>2, <1>4 DEF Snapshot
<1> HIDE DEF quote, t
<1>6. Recent(quote, now)
  BY <1>2, <1>5 DEF Recent
<1>7. job' \in [Jobs -> Job] /\ \A k \in Jobs : ThreadGoesOn(k)
  BY <1>1, <1>5, <1>6, SharedGoesOn
<1>8. live' \in [Tickers -> Snapshot \cup {NoQuote}] /\ Small'
  BY <1>1, <1>2, <1>5, StoreKeeps DEF QInv
<1>9. bundle' \in [Tickers -> Snapshot \cup {NoQuote}]
  BY <1>1, <1>5 DEF QInv, TypeOK
<1> QED BY <1>1, <1>7, <1>8, <1>9, ThreadStep

LEMMA BundleRaisesKeeps ==
  ASSUME QInv, NEW j \in Jobs, BundleRaises(j)
  PROVE  QInv'
<1>1. job[j].pc = "storing" /\ job' = Shared(j, Raised)
      /\ UNCHANGED <<permits, fetch, live, bundle, now>>
  BY DEF BundleRaises
<1>2. job' \in [Jobs -> Job] /\ \A k \in Jobs : ThreadGoesOn(k)
  BY <1>1, Apart, SharedGoesOn
<1>3. /\ live' \in [Tickers -> Snapshot \cup {NoQuote}] /\ Small'
      /\ bundle' \in [Tickers -> Snapshot \cup {NoQuote}]
  BY <1>1 DEF QInv, TypeOK, Small, Known
<1> QED BY <1>1, <1>2, <1>3, ThreadStep

LEMMA TickKeeps ==
  ASSUME QInv, Tick
  PROVE  QInv'
<1>1. now \in Nat /\ now' = now + 1 /\ UNCHANGED <<permits, fetch, job, live, bundle>>
  BY DEF Tick, QInv, TypeOK
<1>2. TypeOK'
  BY <1>1 DEF QInv, TypeOK
<1>3. Lent' /\ Small' /\ Attended'
  BY <1>1 DEF QInv, Lent, Borrowers, Small, Known, Attended
<1>4. Timely'
  <2>1. \A f \in Fetches : fetch[f].since \in Nat /\ fetch[f].since <= now
    BY DEF QInv, TypeOK, Fetch, Timely
  <2>2. \A f \in Fetches : fetch'[f].since <= now'
    BY <1>1, <2>1
  <2> QED BY <1>1, <2>2 DEF QInv, Timely
<1>5. FreshMeansRecent'
  BY <1>1 DEF QInv, FreshMeansRecent
<1> QED BY <1>2, <1>3, <1>4, <1>5 DEF QInv

LEMMA Stutters == ASSUME QInv, UNCHANGED vars PROVE QInv'
<1>1. TypeOK'
  BY DEF QInv, TypeOK, vars
<1>2. Lent' /\ Small' /\ Attended'
  BY DEF QInv, Lent, Borrowers, Small, Known, Attended, vars
<1>3. Timely' /\ FreshMeansRecent'
  BY DEF QInv, Timely, FreshMeansRecent, vars
<1> QED BY <1>1, <1>2, <1>3 DEF QInv

LEMMA Steps == QInv /\ [Next]_vars => QInv'
<1> SUFFICES ASSUME QInv, [Next]_vars PROVE QInv'
  OBVIOUS
<1>1. CASE \E f \in Fetches, t \in Tickers, regular \in BOOLEAN : StartFetch(f, t, regular)
  BY <1>1, StartFetchKeeps
<1>2. CASE \E f \in Fetches : Coroutine(f)
  BY <1>2, AcquireKeeps, CallTimesOutKeeps, ReturnKeeps DEF Coroutine
<1>3. CASE \E j \in Jobs : Thread(j)
  BY <1>3, TradeAnswersKeeps, BundleHitKeeps, BundleMissKeeps, BundleAnswersKeeps,
     BundleStoredKeeps, BundleRaisesKeeps DEF Thread
<1>4. CASE \E j \in Jobs : Finish(j)
  BY <1>4, FinishKeeps
<1>5. CASE \E j \in Jobs, t \in Tickers : RouteAsks(j, t)
  BY <1>5, RouteAsksKeeps
<1>6. CASE Tick
  BY <1>6, TickKeeps
<1>7. CASE UNCHANGED vars
  BY <1>7, Stutters
<1> QED BY <1>1, <1>2, <1>3, <1>4, <1>5, <1>6, <1>7 DEF Next

LEMMA Always == Spec => []QInv
<1> QED BY Start, Steps, PTL DEF Spec

-----------------------------------------------------------------------------
(* A permit is away exactly while a thread that was started with it runs,  *)
(* and live_prices keeps to its limit.                                     *)
THEOREM PermitsComeBack == Spec => []ResourcesBounded
<1>1. QInv => ResourcesBounded
  BY DEF QInv, Lent, Borrowers, Small, ResourcesBounded
<1> QED BY <1>1, Always, PTL

(* An answer that is not marked stale was stored during the fetch or at    *)
(* most BundleTTL before it.                                               *)
THEOREM FreshAnswersRecent == Spec => []FreshMeansRecent
<1>1. QInv => FreshMeansRecent
  BY DEF QInv
<1> QED BY <1>1, Always, PTL
=============================================================================
