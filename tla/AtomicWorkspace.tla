-------------------------- MODULE AtomicWorkspace --------------------------
(***************************************************************************)
(* What the workspace of a profile promises its tabs: every change of a    *)
(* folder, a list or a holding happens at once, to the rows as they are at *)
(* that moment, as if the requests came one after the other.  There are no *)
(* transactions, no locks and no positions: a list is the tickers in it    *)
(* and, for each of them, those that come before it.                       *)
(***************************************************************************)
EXTENDS Integers

CONSTANTS
  Portfolios, MainPortfolio, Watchlists, MainWatchlist,
  Names, Lower, NoName, MainName,
  Tickers, Quantities

VARIABLES
  folder,  \* the names of portfolios and watchlists
  closed,  \* the portfolios that were archived
  shares,  \* the shares held in a portfolio
  listed,  \* the tickers in a watchlist
  ahead    \* those that come before a ticker there

deskVars == <<folder, closed, shares, listed, ahead>>

Folders == Portfolios \cup Watchlists
Nobody == [t \in Tickers |-> {}]

Init ==
  /\ folder = [f \in Folders |-> IF f \in {MainPortfolio, MainWatchlist} THEN MainName ELSE NoName]
  /\ closed = {}
  /\ shares = [p \in Portfolios |-> 0]
  /\ listed = [w \in Watchlists |-> {}]
  /\ ahead = [w \in Watchlists |-> Nobody]

Alike(f, g) == f \in Portfolios <=> g \in Portfolios

(* A folder is created or renamed, under a name no other has in any case.  *)
Name(f, n) ==
  /\ f \notin closed
  /\ \A g \in Folders \ {f} :
       Alike(f, g) /\ folder[g] # NoName => Lower[folder[g]] # Lower[n]
  /\ folder' = [folder EXCEPT ![f] = n]
  /\ UNCHANGED <<closed, shares, listed, ahead>>

Close(p) ==
  /\ folder[p] # NoName /\ p # MainPortfolio /\ p \notin closed
  /\ closed' = closed \cup {p}
  /\ UNCHANGED <<folder, shares, listed, ahead>>

Discard(w) ==
  /\ folder[w] # NoName /\ w # MainWatchlist
  /\ folder' = [folder EXCEPT ![w] = NoName]
  /\ listed' = [listed EXCEPT ![w] = {}]
  /\ ahead' = [ahead EXCEPT ![w] = Nobody]
  /\ UNCHANGED <<closed, shares>>

(* What is sold was held when it was sold.                                 *)
Trade(p, q) ==
  /\ folder[p] # NoName /\ p \notin closed
  /\ \E held \in {shares[p] + q, shares[p] - q} :
       held >= 0 /\ shares' = [shares EXCEPT ![p] = held]
  /\ UNCHANGED <<folder, closed, listed, ahead>>

Arranges(w, L, before) ==
  /\ folder[w] # NoName
  /\ listed' = [listed EXCEPT ![w] = L]
  /\ ahead' = [ahead EXCEPT ![w] = before]
  /\ UNCHANGED <<folder, closed, shares>>

(* A ticker enters behind those of `place`, a beginning of the list.       *)
Insert(w, t) ==
  /\ t \notin listed[w]
  /\ \E place \in SUBSET listed[w] :
       /\ \A u \in place : ahead[w][u] \subseteq place
       /\ Arranges(w, listed[w] \cup {t},
            [u \in Tickers |-> IF u = t THEN place
                               ELSE ahead[w][u] \cup (IF u \in listed[w] \ place THEN {t} ELSE {})])

Drop(w, t) ==
  /\ t \in listed[w]
  /\ Arranges(w, listed[w] \ {t}, [u \in Tickers |-> IF u = t THEN {} ELSE ahead[w][u] \ {t}])

(* `before` puts the tickers of L in some order.                           *)
Orders(L, before) ==
  /\ \A t \in Tickers \ L : before[t] = {}
  /\ \A t \in L : before[t] \subseteq L \ {t}
  /\ \A t, u \in L : t # u => t \in before[u] \/ u \in before[t]
  /\ \A t, u \in L : t \in before[u] => before[t] \subseteq before[u]

Sort(w) ==
  \E before \in [Tickers -> SUBSET Tickers] :
    Orders(listed[w], before) /\ Arranges(w, listed[w], before)

Next ==
  \/ \E f \in Folders, n \in Names : Name(f, n)
  \/ \E p \in Portfolios : Close(p) \/ \E q \in Quantities : Trade(p, q)
  \/ \E w \in Watchlists :
       Discard(w) \/ Sort(w) \/ \E t \in Tickers : Insert(w, t) \/ Drop(w, t)

Spec == Init /\ [][Next]_deskVars
=============================================================================
