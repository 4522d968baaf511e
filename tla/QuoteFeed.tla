----------------------------- MODULE QuoteFeed -----------------------------
(***************************************************************************)
(* What the quote hub promises its clients, with no tasks, timers or       *)
(* shared maps: per ticker a counter of published frames, and per watcher  *)
(* the newest frame it has been given.  A join is answered with the        *)
(* current frame, a publication reaches every watcher at once, and only    *)
(* tickers nobody watches may be forgotten.                                *)
(***************************************************************************)
EXTENDS Naturals

CONSTANTS Tickers, Sockets, NoTicker

VARIABLES
  watching,   \* the ticker a socket watches
  published,  \* frames published per ticker, 0 when nothing is retained
  seen        \* the newest frame a watching socket was given

feedVars == <<watching, published, seen>>

Watchers(t) == {s \in Sockets : watching[s] = t}

Init ==
  /\ watching = [s \in Sockets |-> NoTicker]
  /\ published = [t \in Tickers |-> 0]
  /\ seen = [s \in Sockets |-> 0]

Unwatched == {t \in Tickers : Watchers(t) = {}}

(* `published` becomes `counts`, except for some of the `idle` tickers,    *)
(* which are forgotten.                                                    *)
Forgetting(counts, idle) ==
  \E D \in SUBSET idle :
    published' = [t \in Tickers |-> IF t \in D THEN 0 ELSE counts[t]]

(* A ticker may be forgotten just before somebody joins it, not after.     *)
Join(s, t) ==
  /\ watching[s] = NoTicker
  /\ watching' = [watching EXCEPT ![s] = t]
  /\ Forgetting(published, Unwatched)
  /\ seen' = [seen EXCEPT ![s] = published'[t]]

Part(gone) ==
  /\ watching' = [s \in Sockets |-> IF s \in gone THEN NoTicker ELSE watching[s]]
  /\ seen' = [s \in Sockets |-> IF s \in gone THEN 0 ELSE seen[s]]
  /\ Forgetting(published, Unwatched')

Publish(t) ==
  /\ watching' = watching
  /\ Forgetting([published EXCEPT ![t] = @ + 1], Unwatched)
  /\ seen' = [s \in Sockets |-> IF watching[s] = t THEN published[t] + 1 ELSE seen[s]]

Next ==
  \/ \E s \in Sockets, t \in Tickers : Join(s, t)
  \/ \E gone \in SUBSET Sockets : Part(gone)
  \/ \E t \in Tickers : Publish(t)

Spec == Init /\ [][Next]_feedVars
=============================================================================
