-------------------------- MODULE WorkspaceProofs --------------------------
(***************************************************************************)
(* Workspace and Activity for any number of requests, folders, tickers,    *)
(* preferences and contracts.  The lock of the default portfolio makes     *)
(* what a route read behind it hold until it commits, although the rows    *)
(* themselves are never locked.  LegacyBook, which has no lock, keeps its  *)
(* word as long as requests do not meet in the ways it names.              *)
(***************************************************************************)
EXTENDS Activity, LegacyBook, FiniteSetTheorems, SequenceTheorems, WellFoundedInduction, TLAPS

-----------------------------------------------------------------------------
(***************************************************************************)
(* The routes of Workspace.                                                *)
(***************************************************************************)
(* The holding h is what the trades of a portfolio, b, add up to.          *)
Agrees(h, b) ==
  LET drift == h.realized - (b.cash + h.shares * h.average)
  IN /\ h.shares = b.shares
     /\ 2 * drift <= b.slack /\ -(2 * drift) <= b.slack

Ledger == \A p \in Portfolios : Agrees(holding[p], books[p])

LiveHolding == [shares : Nat, average : Nat, realized : Int]

(* No two tickers share a place.                                           *)
Apart(places) ==
  \A t, u \in Tickers :
    t # u /\ places[t] # Unlisted /\ places[u] # Unlisted => places[t] # places[u]

Applied(places, order) ==
  [t \in Tickers |-> IF order[t] = Untouched THEN places[t] ELSE order[t]]

(* What a request will write is right for the rows as they are now.        *)
Fits(x) ==
  /\ x.kind = "trade" =>
       x.holding \in LiveHolding /\ Agrees(x.holding, NextBook(books[x.portfolio], x))
  /\ x.kind = "name" => ~Taken(x.folder, x.name)
  /\ x.kind = "archive" => x.portfolio # MainPortfolio
  /\ x.kind = "order" => Apart(Applied(items[x.watchlist], x.order))

(* The tickers that have a place, and those before a ticker.               *)
Shown(places) == {t \in Tickers : places[t] # Unlisted}

Preceding(places) ==
  [t \in Tickers |-> IF t \in Shown(places)
                     THEN {u \in Shown(places) : places[u] < places[t]} ELSE {}]

(* The places are dealt anew to the same tickers, or one comes or goes     *)
(* and the others keep their order.                                        *)
SameOrder(S, old, new) == \A u, v \in S : old[u] < old[v] => new[u] < new[v]

Rearranged(old, new) ==
  \/ Shown(new) = Shown(old)
  \/ \E t \in Tickers \ Shown(old) :
       Shown(new) = Shown(old) \cup {t} /\ SameOrder(Shown(old), old, new)
  \/ \E t \in Shown(old) :
       Shown(new) = Shown(old) \ {t} /\ SameOrder(Shown(new), old, new)

(* A route that runs alone could write x to the rows as they are now.      *)
AtOnce(x) ==
  /\ x.kind = "trade" =>
       /\ name[x.portfolio] # NoName /\ x.portfolio \notin archived
       /\ \E q \in Quantities :
            x.holding.shares \in {holding[x.portfolio].shares + q, holding[x.portfolio].shares - q}
  /\ x.kind = "name" => x.folder \notin archived
  /\ x.kind = "archive" => name[x.portfolio] # NoName /\ x.portfolio \notin archived
  /\ x.kind = "delete" => name[x.watchlist] # NoName /\ x.watchlist # MainWatchlist
  /\ x.kind = "order" =>
       /\ name[x.watchlist] # NoName
       /\ Rearranged(items[x.watchlist], Applied(items[x.watchlist], x.order))

Applies(x) == Fits(x) /\ AtOnce(x) /\ (x # Nothing => writes < MaxWrites)

(* A choice that was not asked for is one of the first read.               *)
Keeps(x, read) ==
  x.kind = "settings" => \A k \in Keys \ x.asked : x.settings[k] = read[k]

(* Only the holder of the lock is at work, on rows that stay as they are.  *)
AtWork ==
  \A r \in Requests : tx[r].pc = "working" =>
    holder = r /\ Applies(tx[r].write) /\ Keeps(tx[r].write, tx[r].settings)

(* What a request does not know to have changed is as it first read it.    *)
Seen ==
  \A r \in Requests : tx[r].pc # "idle" =>
    /\ \A k \in Keys \ tx[r].missed : tx[r].settings[k] = settings[k]
    /\ "picture" \notin tx[r].missed => tx[r].picture = picture

(* The default watchlist and the archived portfolios stay.                 *)
Standing == name[MainWatchlist] # NoName /\ \A p \in archived : name[p] # NoName

DeskInv == TypeOK /\ AtWork /\ Ledger /\ KeysDistinct /\ Seen /\ Standing

(* A route that took the lock, whatever it is going to write.              *)
Route(r) ==
  \E x \in Write : Works(r, x) /\ Fits(x) /\ AtOnce(x) /\ Keeps(x, tx[r].settings)

-----------------------------------------------------------------------------
(* A finite set has a member with the greatest place: a minimal one among  *)
(* the sets of those above.                                                *)
LEMMA Highest ==
  ASSUME NEW L, IsFiniteSet(L), L # {}, NEW f, \A u \in L : f[u] \in Int
  PROVE  \E u \in L : \A v \in L : f[v] <= f[u]
<1> DEFINE Above(u) == {v \in L : f[v] > f[u]}
           Sets == {Above(u) : u \in L}
<1>1. IsWellFoundedOn(StrictSubsetOrdering(L), SUBSET L)
  BY FS_StrictSubsetOrderingWellFounded, FS_FiniteSubsetsOfFinite
<1>2. Sets \subseteq SUBSET L /\ Sets # {}
  OBVIOUS
<1>3. PICK X \in Sets : \A Y \in Sets : <<Y, X>> \notin StrictSubsetOrdering(L)
  <2> HIDE DEF Sets
  <2> QED BY <1>1, <1>2, WFMin
<1>4. PICK u \in L : X = Above(u)
  OBVIOUS
<1>5. ASSUME NEW v \in L, v \in Above(u) PROVE FALSE
  <2>1. Above(v) \subseteq Above(u) /\ v \notin Above(v)
    BY <1>5
  <2>2. <<Above(v), X>> \in StrictSubsetOrdering(L)
    BY <1>4, <1>5, <2>1 DEF StrictSubsetOrdering
  <2> QED BY <1>3, <2>2
<1>6. \A v \in L : f[v] <= f[u]
  BY <1>5
<1> QED BY <1>6

(* The rank grows with the place.                                          *)
LEMMA RankGrows ==
  ASSUME NEW w, NEW S, IsFiniteSet(S), NEW t \in S, NEW u \in S,
         \A v \in S : items[w][v] \in Int
  PROVE  /\ Rank(w, S, t) \in Nat
         /\ items[w][t] < items[w][u] => Rank(w, S, t) < Rank(w, S, u)
<1> DEFINE Below(x) == {v \in S : items[w][v] < items[w][x]}
<1>1. IsFiniteSet(Below(t)) /\ IsFiniteSet(Below(u))
  BY FS_Subset
<1>2. Cardinality(Below(t)) \in Nat /\ Cardinality(Below(u)) \in Nat
  BY <1>1, FS_CardinalityType
<1>3. ASSUME items[w][t] < items[w][u] PROVE Cardinality(Below(t)) < Cardinality(Below(u))
  <2>1. Below(t) \subseteq Below(u) /\ Below(t) # Below(u)
    <3>1. t \in Below(u) /\ t \notin Below(t)
      BY <1>3
    <3>2. Below(t) \subseteq Below(u)
      BY <1>3
    <3> QED BY <3>1, <3>2
  <2> HIDE DEF Below
  <2> QED BY <1>1, <1>2, <2>1, FS_Subset
<1> QED BY <1>2, <1>3 DEF Rank

(* The average that is stored is at most half a unit per share off.        *)
LEMMA RoundedError ==
  ASSUME NEW total \in Nat, NEW shares \in Nat \ {0}
  PROVE  /\ Rounded(total, shares) \in Nat
         /\ 2 * (total - shares * Rounded(total, shares)) < shares
         /\ -(2 * (total - shares * Rounded(total, shares))) <= shares
<1> DEFINE a == (2 * total + shares) \div (2 * shares)
           c == (2 * total + shares) % (2 * shares)
<1>1. a \in Int /\ c \in 0 .. 2 * shares - 1 /\ 2 * total + shares = (2 * shares) * a + c
  OBVIOUS
<1>2. (2 * shares) * a = 2 * (shares * a) /\ shares * a \in Int
  BY <1>1
<1>3. a >= 0
  BY <1>1
<1> HIDE DEF a, c
<1>4. /\ 2 * (total - shares * a) < shares
      /\ -(2 * (total - shares * a)) <= shares
  BY <1>1, <1>2
<1> QED BY <1>1, <1>3, <1>4 DEF Rounded, a

(* Buying adds what it costs; the average loses the rounding error.        *)
LEMMA BuyAgrees ==
  ASSUME NEW h \in LiveHolding, NEW b \in [shares : Int, cash : Int, slack : Nat], Agrees(h, b),
         NEW shares \in Nat \ {0}, NEW price \in Nat,
         NEW write, write.delta = shares, write.cash = -(shares * price),
         NEW held, held = h.shares + shares,
         NEW average, average = Rounded(h.shares * h.average + shares * price, held)
  PROVE  /\ average \in Nat
         /\ Agrees([h EXCEPT !.shares = held, !.average = average], NextBook(b, write))
<1> DEFINE cost == h.shares * h.average
           paid == shares * price
           now == held * average
           next == [h EXCEPT !.shares = held, !.average = average]
           book == NextBook(b, write)
<1>1. /\ h.shares \in Nat /\ h.average \in Nat /\ h.realized \in Int
      /\ b.shares = h.shares /\ b.cash \in Int /\ b.slack \in Nat
  BY DEF LiveHolding, Agrees
<1>2. cost \in Nat /\ paid \in Nat /\ held \in Nat \ {0}
  BY <1>1
<1>3. average \in Nat /\ 2 * (cost + paid - now) < held /\ -(2 * (cost + paid - now)) <= held
  <2> DEFINE total == cost + paid
  <2>1. average = Rounded(total, held) /\ total \in Nat /\ held \in Nat \ {0}
    BY <1>2
  <2> HIDE DEF total
  <2>2. /\ average \in Nat
        /\ 2 * (total - held * average) < held /\ -(2 * (total - held * average)) <= held
    BY ONLY <2>1, RoundedError
  <2>3. total = cost + paid /\ now = held * average
    BY DEF total
  <2> HIDE DEF cost, paid, now
  <2> QED BY ONLY <2>2, <2>3, <1>2
<1>4. now \in Nat
  BY <1>2, <1>3
<1>5. next.shares = held /\ next.average = average /\ next.realized = h.realized
  BY DEF LiveHolding
<1>6. book.shares = held /\ book.cash = b.cash - paid /\ book.slack = b.slack + held
  BY <1>1, <1>2 DEF NextBook
<1>7. /\ 2 * (h.realized - (b.cash + cost)) <= b.slack
      /\ -(2 * (h.realized - (b.cash + cost))) <= b.slack
  BY DEF Agrees
<1>8. next.shares * next.average = now
  BY <1>5
<1> HIDE DEF cost, paid, now, next, book
<1>9. /\ 2 * (h.realized - ((b.cash - paid) + now)) <= b.slack + held
      /\ -(2 * (h.realized - ((b.cash - paid) + now))) <= b.slack + held
  BY <1>1, <1>2, <1>3, <1>4, <1>7
<1>10. Agrees(next, book)
  BY <1>5, <1>6, <1>8, <1>9 DEF Agrees
<1> QED BY <1>3, <1>10 DEF next, book

(* Selling moves its gain to the realized profit, at no error.             *)
LEMMA SellAgrees ==
  ASSUME NEW h \in LiveHolding, NEW b \in [shares : Int, cash : Int, slack : Nat], Agrees(h, b),
         NEW shares \in Nat \ {0}, NEW price \in Nat, shares <= h.shares,
         NEW write, write.delta = -shares, write.cash = -((-shares) * price),
         NEW realized, realized = h.realized + (price - h.average) * shares
  PROVE  /\ realized \in Int
         /\ Agrees([h EXCEPT !.shares = h.shares - shares, !.realized = realized],
                   NextBook(b, write))
<1> DEFINE next == [h EXCEPT !.shares = h.shares - shares, !.realized = realized]
           book == NextBook(b, write)
<1>1. /\ h.shares \in Nat /\ h.average \in Nat /\ h.realized \in Int
      /\ b.shares = h.shares /\ b.cash \in Int /\ b.slack \in Nat
  BY DEF LiveHolding, Agrees
<1>2. /\ (price - h.average) * shares = shares * price - shares * h.average
      /\ (h.shares - shares) * h.average = h.shares * h.average - shares * h.average
      /\ -((-shares) * price) = shares * price
      /\ shares * price \in Int /\ shares * h.average \in Int /\ h.shares * h.average \in Int
  BY <1>1
<1>3. /\ next.shares = h.shares - shares /\ next.average = h.average /\ next.realized = realized
  BY DEF LiveHolding
<1>4. /\ book.shares = h.shares - shares /\ book.cash = b.cash + shares * price
      /\ book.slack = b.slack
  BY <1>1, <1>2 DEF NextBook
<1> HIDE DEF next, book
<1>5. next.realized - (book.cash + next.shares * next.average)
        = h.realized - (b.cash + h.shares * h.average)
  BY <1>1, <1>2, <1>3, <1>4
<1>6. Agrees(next, book)
  BY <1>3, <1>4, <1>5, <1>1 DEF Agrees
<1> QED BY <1>1, <1>2, <1>6 DEF next, book

-----------------------------------------------------------------------------
(* The parts of a write, by its kind.                                      *)
LEMMA Kinds ==
  ASSUME NEW x \in Write
  PROVE  /\ x.kind = "nothing" => x = Nothing
         /\ x.kind \in {"nothing", "picture", "trade", "name", "archive", "delete", "settings",
                        "order"}
         /\ x.kind = "trade" =>
              x.portfolio \in Portfolios /\ x.delta \in Int /\ x.cash \in Int
         /\ x.kind = "name" => x.folder \in Folders /\ x.name \in Names
         /\ x.kind = "archive" => x.portfolio \in Portfolios
         /\ x.kind = "delete" => x.watchlist \in Watchlists
         /\ x.kind = "settings" => x.settings \in Settings /\ x.asked \subseteq Keys
         /\ x.kind = "order" => /\ x.watchlist \in Watchlists
                                /\ x.order \in [Tickers -> Nat \cup {Unlisted, Untouched}]
<1>1. CASE x = Nothing
  BY <1>1 DEF Nothing
<1>2. CASE x = [kind |-> "picture"]
  BY <1>2
<1>3. CASE x \in [kind : {"trade"}, portfolio : Portfolios, holding : Holding, delta : Int,
                  cash : Int]
  BY <1>3
<1>4. CASE x \in [kind : {"name"}, folder : Folders, name : Names]
  BY <1>4
<1>5. CASE x \in [kind : {"archive"}, portfolio : Portfolios]
  BY <1>5
<1>6. CASE x \in [kind : {"delete"}, watchlist : Watchlists]
  BY <1>6
<1>7. CASE x \in [kind : {"settings"}, settings : Settings, asked : SUBSET Keys]
  BY <1>7
<1>8. CASE x \in [kind : {"order"}, watchlist : Watchlists,
                  order : [Tickers -> Nat \cup {Unlisted, Untouched}]]
  BY <1>8
<1> QED BY <1>1, <1>2, <1>3, <1>4, <1>5, <1>6, <1>7, <1>8 DEF Write

(* The fields of a transaction.                                            *)
LEMMA TxFields ==
  ASSUME TypeOK, NEW r \in Requests
  PROVE  /\ DOMAIN tx = Requests
         /\ tx[r].pc \in {"idle", "inserting", "waiting", "working"}
         /\ tx[r].settings \in Settings /\ tx[r].picture \in Picture
         /\ tx[r].write \in Write /\ tx[r].missed \subseteq Keys \cup {"picture"}
         /\ DOMAIN tx[r] = {"pc", "settings", "picture", "write", "missed"}
<1>1. tx[r] \in [pc : {"idle", "inserting", "waiting", "working"},
                 settings : Settings, picture : Picture, write : Write,
                 missed : SUBSET (Keys \cup {"picture"})]
  BY DEF TypeOK
<1>2. DOMAIN tx = Requests
  BY DEF TypeOK
<1> QED BY ONLY <1>1, <1>2

LEMMA DeskStart ==
  ASSUME WorkspaceAssumption, Init
  PROVE  DeskInv
<1>1. /\ MainPortfolio \in Folders /\ MainWatchlist \in Folders /\ MainName \in Names
      /\ MainName # NoName /\ Portfolios \cap Watchlists = {}
  BY DEF WorkspaceAssumption, Folders
<1>2. IdleTx \in [pc : {"idle", "inserting", "waiting", "working"},
                  settings : Settings, picture : Picture, write : Write,
                  missed : SUBSET (Keys \cup {"picture"})]
  BY DEF IdleTx, Settings, Picture, Write
<1>3. TypeOK
  <2>1. name \in [Folders -> Names \cup {NoName}]
    BY <1>1 DEF Init
  <2>2. /\ holding \in [Portfolios -> [shares : Nat, average : Nat, realized : Int]]
        /\ books \in [Portfolios -> [shares : Int, cash : Int, slack : Nat]]
    BY DEF Init, NoHolding
  <2>3. items \in [Watchlists -> [Tickers -> Nat \cup {Unlisted}]] /\ settings \in Settings
    BY DEF Init, Settings
  <2>4. tx \in [Requests -> [pc : {"idle", "inserting", "waiting", "working"},
                            settings : Settings, picture : Picture, write : Write,
                            missed : SUBSET (Keys \cup {"picture"})]]
    BY <1>2 DEF Init
  <2>5. /\ provisioned \in BOOLEAN /\ archived \subseteq Portfolios \ {MainPortfolio}
        /\ picture \in Picture /\ holder \in Requests \cup {NoRequest}
    BY DEF Init, Picture
  <2>6. writes \in 0 .. MaxWrites
    BY DEF Init, WorkspaceAssumption
  <2> QED BY <2>1, <2>2, <2>3, <2>4, <2>5, <2>6 DEF TypeOK
<1>4. AtWork /\ Seen
  BY DEF Init, AtWork, Seen, IdleTx
<1>5. Ledger
  BY DEF Init, Ledger, Agrees, NoHolding
<1>6. \A f \in Folders : name[f] # NoName => f \in {MainPortfolio, MainWatchlist}
  BY DEF Init
<1>7. \A f \in Folders : \A g \in Siblings(f) \ {f} : name[f] = NoName \/ name[g] = NoName
  BY <1>1, <1>6 DEF Siblings, Folders, WorkspaceAssumption
<1>8. KeysDistinct
  BY <1>7 DEF Init, KeysDistinct, Listed
<1>9. Standing
  BY <1>1 DEF Init, Standing
<1> QED BY <1>3, <1>4, <1>5, <1>8, <1>9 DEF DeskInv

(* Without a change of the rows, what was true of them is.                 *)
LEMMA RowsStay ==
  ASSUME UNCHANGED rows
  PROVE  /\ \A x : (Applies(x) => Applies(x)') /\ (Fits(x) => Fits(x)')
         /\ Ledger => Ledger'
         /\ KeysDistinct => KeysDistinct'
         /\ Standing => Standing'
<1>1. /\ name' = name /\ archived' = archived /\ holding' = holding /\ items' = items
      /\ books' = books /\ writes' = writes
  BY DEF rows
<1>2. ASSUME NEW x, Fits(x) PROVE Fits(x)'
  BY <1>1, <1>2 DEF Fits, Taken
<1>3. ASSUME NEW x, Applies(x) PROVE Applies(x)'
  <2>1. AtOnce(x)'
    BY <1>1, <1>3 DEF Applies, AtOnce
  <2> QED BY <1>1, <1>2, <1>3, <2>1 DEF Applies
<1>4. Ledger => Ledger'
  BY <1>1 DEF Ledger
<1>5. KeysDistinct => KeysDistinct'
  BY <1>1 DEF KeysDistinct, Listed
<1>6. Standing => Standing'
  BY <1>1 DEF Standing
<1> QED BY <1>2, <1>3, <1>4, <1>5, <1>6

(* One transaction moves, the rows and the other transactions stay.        *)
LEMMA OneMoves ==
  ASSUME DeskInv, UNCHANGED rows, NEW r \in Requests, NEW x, tx' = [tx EXCEPT ![r] = x],
         x \in [pc : {"idle", "inserting", "waiting", "working"},
                settings : Settings, picture : Picture, write : Write,
                missed : SUBSET (Keys \cup {"picture"})],
         holder' \in Requests \cup {NoRequest},
         \A q \in Requests \ {r} : holder = q => holder' = q,
         x.pc = "working" => holder' = r /\ Applies(x.write) /\ Keeps(x.write, x.settings),
         x.pc # "idle" => /\ \A k \in Keys \ x.missed : x.settings[k] = settings[k]
                          /\ "picture" \notin x.missed => x.picture = picture
  PROVE  DeskInv'
<1>1. /\ provisioned' = provisioned /\ name' = name /\ archived' = archived
      /\ holding' = holding /\ items' = items /\ settings' = settings /\ picture' = picture
      /\ books' = books /\ writes' = writes
  BY DEF rows
<1>2. tx'[r] = x /\ \A q \in Requests : q # r => tx'[q] = tx[q]
  BY TxFields DEF DeskInv
<1>3. TypeOK'
  BY <1>1 DEF DeskInv, TypeOK
<1>4. ASSUME NEW q \in Requests, tx'[q].pc = "working"
      PROVE  (holder = q /\ Applies(tx[q].write) /\ Keeps(tx[q].write, tx[q].settings))'
  <2>1. holder' = q /\ Applies(tx'[q].write) /\ Keeps(tx'[q].write, tx'[q].settings)
    BY <1>2, <1>4 DEF DeskInv, AtWork
  <2>2. Fits(tx[q].write)' /\ Keeps(tx[q].write, tx[q].settings)'
    BY <1>1, <2>1 DEF Applies, Fits, Taken, Keeps
  <2>3. AtOnce(tx[q].write)'
    BY <1>1, <2>1 DEF Applies, AtOnce
  <2> QED BY <1>1, <2>1, <2>2, <2>3 DEF Applies
<1>5. AtWork'
  BY <1>4 DEF AtWork
<1>6. Seen'
  BY <1>1, <1>2 DEF DeskInv, Seen
<1>7. Ledger' /\ KeysDistinct' /\ Standing'
  BY RowsStay DEF DeskInv
<1> QED BY <1>3, <1>5, <1>6, <1>7 DEF DeskInv

(* The profile and its preferences are read without the lock.              *)
LEMMA ReadsRows ==
  ASSUME DeskInv, NEW r \in Requests, Begin(r) \/ Reread(r)
  PROVE  DeskInv'
<1>1. PICK pc \in {"waiting", "inserting"} : tx' = [tx EXCEPT ![r] = Snapshot(pc)]
  BY DEF Begin, Reread
<1>2. UNCHANGED <<rows, holder>> /\ tx[r].pc # "working"
  BY DEF Begin, Reread
<1> DEFINE x == Snapshot(pc)
<1>3. x.pc = pc /\ x.settings = settings /\ x.picture = picture /\ x.missed = {}
  BY DEF Snapshot, IdleTx
<1>4. x \in [pc : {"idle", "inserting", "waiting", "working"},
             settings : Settings, picture : Picture, write : Write,
             missed : SUBSET (Keys \cup {"picture"})]
  BY DEF Snapshot, IdleTx, Write, DeskInv, TypeOK
<1>5. holder' = holder /\ holder \in Requests \cup {NoRequest}
  BY <1>2 DEF DeskInv, TypeOK
<1> HIDE DEF x
<1> QED BY <1>1, <1>2, <1>3, <1>4, <1>5, OneMoves DEF x

LEMMA RollsBack ==
  ASSUME DeskInv, WorkspaceAssumption, NEW r \in Requests, Rollback(r)
  PROVE  DeskInv'
<1>1. /\ UNCHANGED rows /\ tx' = [tx EXCEPT ![r] = IdleTx]
      /\ holder' = IF holder = r THEN NoRequest ELSE holder
  BY DEF Rollback
<1>2. IdleTx \in [pc : {"idle", "inserting", "waiting", "working"},
                  settings : Settings, picture : Picture, write : Write,
                  missed : SUBSET (Keys \cup {"picture"})]
  BY DEF IdleTx, Settings, Picture, Write
<1>3. IdleTx.pc = "idle"
  BY DEF IdleTx
<1>4. holder' \in Requests \cup {NoRequest} /\ \A q \in Requests \ {r} : holder = q => holder' = q
  BY <1>1 DEF DeskInv, TypeOK
<1> QED BY <1>1, <1>2, <1>3, <1>4, OneMoves

(* A route behind the lock: nobody else has it.                            *)
LEMMA TakesTheLock ==
  ASSUME DeskInv, WorkspaceAssumption, NEW r \in Requests, Route(r)
  PROVE  DeskInv'
<1>1. PICK write \in Write :
        Works(r, write) /\ Fits(write) /\ AtOnce(write) /\ Keeps(write, tx[r].settings)
  BY DEF Route
<1> DEFINE x == [tx[r] EXCEPT !.pc = "working", !.write = write]
<1>2. /\ UNCHANGED rows /\ holder' = r /\ holder = NoRequest /\ tx[r].pc # "idle"
      /\ tx' = [tx EXCEPT ![r] = x]
      /\ write # Nothing => writes < MaxWrites
  BY <1>1 DEF Works, Locks
<1>3. /\ x.pc = "working" /\ x.write = write /\ x.settings = tx[r].settings
      /\ x.picture = tx[r].picture /\ x.missed = tx[r].missed
  BY TxFields DEF DeskInv
<1>4. x \in [pc : {"idle", "inserting", "waiting", "working"},
             settings : Settings, picture : Picture, write : Write,
             missed : SUBSET (Keys \cup {"picture"})]
  <2>1. tx[r] \in [pc : {"idle", "inserting", "waiting", "working"},
                   settings : Settings, picture : Picture, write : Write,
                   missed : SUBSET (Keys \cup {"picture"})]
    BY DEF DeskInv, TypeOK
  <2> QED BY ONLY <2>1, write \in Write
<1>5. /\ \A k \in Keys \ x.missed : x.settings[k] = settings[k]
      /\ "picture" \notin x.missed => x.picture = picture
  BY <1>2, <1>3 DEF DeskInv, Seen
<1> HIDE DEF x
<1>6. Applies(x.write) /\ Keeps(x.write, x.settings)
  <2>1. Applies(write) /\ Keeps(write, tx[r].settings)
    BY <1>1, <1>2 DEF Applies
  <2> QED BY ONLY <2>1, <1>3, Zenon
<1>7. /\ \A q \in Requests \ {r} : holder = q => holder' = q
      /\ holder' \in Requests \cup {NoRequest}
  BY <1>2 DEF WorkspaceAssumption
<1> QED BY <1>2, <1>4, <1>5, <1>6, <1>7, OneMoves

-----------------------------------------------------------------------------
LEMMA SiblingsAre ==
  ASSUME WorkspaceAssumption, NEW f \in Folders, NEW g \in Siblings(f)
  PROVE  g \in Folders /\ f \in Siblings(g)
BY DEF Siblings, Folders, WorkspaceAssumption

(* The commit of a name: it was free, and is the only one to change.       *)
LEMMA NamesLand ==
  ASSUME DeskInv, WorkspaceAssumption, NEW r \in Requests, Commit(r)
  PROVE  /\ name' \in [Folders -> Names \cup {NoName}]
         /\ \A f \in Folders : \A g \in Siblings(f) \ {f} :
              name'[f] # NoName /\ name'[g] # NoName => Lower[name'[f]] # Lower[name'[g]]
<1> DEFINE x == tx[r].write
<1>1. x \in Write /\ Fits(x)
  BY TxFields DEF DeskInv, AtWork, Applies, Commit
<1>2. name' = CASE x.kind = "name" -> [name EXCEPT ![x.folder] = x.name]
                [] x.kind = "delete" -> [name EXCEPT ![x.watchlist] = NoName]
                [] OTHER -> name
  BY DEF Commit
<1> HIDE DEF x
<1>3. /\ name \in [Folders -> Names \cup {NoName}]
      /\ \A f \in Folders : \A g \in Siblings(f) \ {f} :
           name[f] # NoName /\ name[g] # NoName => Lower[name[f]] # Lower[name[g]]
  BY DEF DeskInv, TypeOK, KeysDistinct
<1>4. ASSUME x.kind = "name"
      PROVE  /\ name' \in [Folders -> Names \cup {NoName}]
             /\ \A f \in Folders : \A g \in Siblings(f) \ {f} :
                  name'[f] # NoName /\ name'[g] # NoName => Lower[name'[f]] # Lower[name'[g]]
  <2>1. x.folder \in Folders /\ x.name \in Names /\ ~Taken(x.folder, x.name)
    BY <1>1, <1>4, Kinds DEF Fits
  <2>2. name' = [name EXCEPT ![x.folder] = x.name]
    BY <1>2, <1>4
  <2>3. \A g \in Siblings(x.folder) \ {x.folder} :
          name[g] # NoName => Lower[name[g]] # Lower[x.name]
    BY <2>1 DEF Taken
  <2>4. ASSUME NEW f \in Folders, NEW g \in Siblings(f) \ {f},
               name'[f] # NoName, name'[g] # NoName
        PROVE  Lower[name'[f]] # Lower[name'[g]]
    <3>1. g \in Folders /\ f \in Siblings(g) /\ f # g
      BY SiblingsAre
    <3>2. CASE f = x.folder
      BY <1>3, <2>2, <2>3, <2>4, <3>1, <3>2
    <3>3. CASE g = x.folder
      BY <1>3, <2>2, <2>3, <2>4, <3>1, <3>3
    <3>4. CASE f # x.folder /\ g # x.folder
      BY <1>3, <2>2, <2>4, <3>1, <3>4
    <3> QED BY <3>2, <3>3, <3>4
  <2> QED BY <1>3, <2>1, <2>2, <2>4
<1>5. ASSUME x.kind = "delete"
      PROVE  /\ name' \in [Folders -> Names \cup {NoName}]
             /\ \A f \in Folders : name'[f] # NoName => name'[f] = name[f]
  <2>1. x.watchlist \in Folders
    BY <1>1, <1>5, Kinds DEF Folders
  <2> QED BY <1>2, <1>3, <1>5, <2>1
<1>6. ASSUME x.kind \notin {"name", "delete"} PROVE name' = name
  BY <1>2, <1>6
<1>7. \A f \in Folders : \A g \in Siblings(f) : g \in Folders
  BY SiblingsAre
<1> QED BY <1>3, <1>4, <1>5, <1>6, <1>7

(* The commit of an order keeps the items apart.                           *)
LEMMA ItemsLand ==
  ASSUME DeskInv, WorkspaceAssumption, NEW r \in Requests, Commit(r)
  PROVE  /\ items' \in [Watchlists -> [Tickers -> Nat \cup {Unlisted}]]
         /\ \A w \in Watchlists : Apart(items'[w])
<1> DEFINE x == tx[r].write
<1>1. x \in Write /\ Fits(x)
  BY TxFields DEF DeskInv, AtWork, Applies, Commit
<1>2. items' = CASE x.kind = "order" ->
                      [items EXCEPT ![x.watchlist] = Applied(items[x.watchlist], x.order)]
                 [] x.kind = "delete" ->
                      [items EXCEPT ![x.watchlist] = [t \in Tickers |-> Unlisted]]
                 [] OTHER -> items
  BY DEF Commit, Applied
<1> HIDE DEF x
<1>3. /\ items \in [Watchlists -> [Tickers -> Nat \cup {Unlisted}]]
      /\ \A w \in Watchlists : Apart(items[w])
  BY DEF DeskInv, TypeOK, KeysDistinct, Apart, Listed
<1>4. CASE x.kind = "order"
  <2>1. /\ x.watchlist \in Watchlists
        /\ x.order \in [Tickers -> Nat \cup {Unlisted, Untouched}]
        /\ Apart(Applied(items[x.watchlist], x.order))
    BY <1>1, <1>4, Kinds DEF Fits
  <2>2. Applied(items[x.watchlist], x.order) \in [Tickers -> Nat \cup {Unlisted}]
    BY <1>3, <2>1 DEF Applied
  <2>3. items' = [items EXCEPT ![x.watchlist] = Applied(items[x.watchlist], x.order)]
    BY <1>2, <1>4
  <2> QED BY <1>3, <2>1, <2>2, <2>3
<1>5. CASE x.kind = "delete"
  <2>1. x.watchlist \in Watchlists
    BY <1>1, <1>5, Kinds
  <2>2. Apart([t \in Tickers |-> Unlisted])
    BY DEF Apart
  <2> QED BY <1>2, <1>3, <1>5, <2>1, <2>2
<1>6. CASE x.kind \notin {"order", "delete"}
  BY <1>2, <1>3, <1>6
<1> QED BY <1>4, <1>5, <1>6

(* The commit of a trade brings the holding and the books on together.     *)
LEMMA TradesLand ==
  ASSUME DeskInv, NEW r \in Requests, Commit(r)
  PROVE  /\ holding' \in [Portfolios -> [shares : Nat, average : Nat, realized : Int]]
         /\ books' \in [Portfolios -> [shares : Int, cash : Int, slack : Nat]]
         /\ Ledger'
<1> DEFINE x == tx[r].write
<1>1. x \in Write /\ Fits(x)
  BY TxFields DEF DeskInv, AtWork, Applies, Commit
<1>2. /\ holding' = IF x.kind = "trade" THEN [holding EXCEPT ![x.portfolio] = x.holding]
                     ELSE holding
      /\ books' = IF x.kind = "trade"
                  THEN [books EXCEPT ![x.portfolio] = NextBook(books[x.portfolio], x)]
                  ELSE books
  BY DEF Commit
<1> HIDE DEF x
<1>3. /\ holding \in [Portfolios -> LiveHolding]
      /\ books \in [Portfolios -> [shares : Int, cash : Int, slack : Nat]]
      /\ \A p \in Portfolios : Agrees(holding[p], books[p])
  BY DEF DeskInv, TypeOK, Ledger, LiveHolding
<1>4. CASE x.kind = "trade"
  <2> DEFINE h == x.holding
             b == NextBook(books[x.portfolio], x)
  <2>1. x.portfolio \in Portfolios /\ x.delta \in Int /\ x.cash \in Int
    BY <1>1, <1>4, Kinds
  <2>2. h \in LiveHolding /\ Agrees(h, b)
    BY <1>1, <1>4 DEF Fits
  <2>3. b.shares \in Nat
    BY <2>2 DEF Agrees, LiveHolding
  <2>4. b \in [shares : Int, cash : Int, slack : Nat]
    <3>1. books[x.portfolio] \in [shares : Int, cash : Int, slack : Nat]
      BY <1>3, <2>1
    <3>2. books[x.portfolio].shares + x.delta \in Nat
      BY <2>3 DEF NextBook
    <3> QED BY <2>1, <3>1, <3>2 DEF NextBook
  <2>5. holding' = [holding EXCEPT ![x.portfolio] = h] /\ books' = [books EXCEPT ![x.portfolio] = b]
    BY <1>2, <1>4
  <2> HIDE DEF h, b
  <2>6. /\ holding' \in [Portfolios -> LiveHolding]
        /\ books' \in [Portfolios -> [shares : Int, cash : Int, slack : Nat]]
    BY <1>3, <2>2, <2>4, <2>5
  <2>7. \A p \in Portfolios : Agrees(holding'[p], books'[p])
    BY <1>3, <2>1, <2>2, <2>5
  <2> QED BY <2>6, <2>7 DEF Ledger, LiveHolding
<1>5. CASE x.kind # "trade"
  BY <1>2, <1>3, <1>5 DEF Ledger, LiveHolding
<1> QED BY <1>4, <1>5

(* A commit releases the lock and tells the others what changed.           *)
LEMMA CommitEnds ==
  ASSUME DeskInv, NEW r \in Requests, Commit(r)
  PROVE  /\ holder' = NoRequest
         /\ tx' \in [Requests -> [pc : {"idle", "inserting", "waiting", "working"},
                                  settings : Settings, picture : Picture, write : Write,
                                  missed : SUBSET (Keys \cup {"picture"})]]
         /\ tx'[r] = IdleTx
         /\ \A q \in Requests : tx'[q].pc # "working"
         /\ \A q \in Requests : tx'[q].pc # "idle" =>
              /\ tx[q].pc # "idle" /\ tx'[q].settings = tx[q].settings
              /\ tx'[q].picture = tx[q].picture
              /\ tx'[q].missed = tx[q].missed \cup Missing(r)
<1> DEFINE Tx == [pc : {"idle", "inserting", "waiting", "working"},
                  settings : Settings, picture : Picture, write : Write,
                  missed : SUBSET (Keys \cup {"picture"})]
           M == Missing(r)
<1>1. /\ tx[r].pc = "working"
      /\ holder' = IF holder = r THEN NoRequest ELSE holder
      /\ tx' = [q \in Requests |->
                  CASE q = r -> IdleTx
                    [] q # r /\ tx[q].pc = "idle" -> tx[q]
                    [] OTHER -> [tx[q] EXCEPT !.missed = @ \cup M]]
  BY DEF Commit
<1>2. holder = r /\ \A q \in Requests : tx[q].pc = "working" => q = r
  BY <1>1 DEF DeskInv, AtWork
<1>3. M \subseteq Keys \cup {"picture"}
  BY DEF Missing
<1> HIDE DEF M
<1>4. \A q \in Requests : tx[q] \in Tx
  BY DEF DeskInv, TypeOK
<1>5. IdleTx \in Tx /\ IdleTx.pc = "idle"
  BY DEF IdleTx, Settings, Picture, Write
<1>6. ASSUME NEW q \in Requests, q # r, tx[q].pc # "idle"
      PROVE  /\ tx'[q] \in Tx /\ tx'[q].pc = tx[q].pc
             /\ tx'[q].settings = tx[q].settings /\ tx'[q].picture = tx[q].picture
             /\ tx'[q].missed = tx[q].missed \cup M
  <2>1. tx'[q] = [tx[q] EXCEPT !.missed = @ \cup M]
    BY <1>1, <1>6
  <2> QED BY <1>3, <1>4, <2>1
<1>7. ASSUME NEW q \in Requests, q # r, tx[q].pc = "idle" PROVE tx'[q] = tx[q]
  BY <1>1, <1>7
<1>8. tx'[r] = IdleTx
  BY <1>1
<1>9. tx' \in [Requests -> Tx]
  <2>1. \A q \in Requests : tx'[q] \in Tx
    BY <1>4, <1>5, <1>6, <1>7, <1>8
  <2>2. tx' = [q \in Requests |-> tx'[q]]
    BY <1>1
  <2> HIDE DEF Tx
  <2> QED BY <2>1, <2>2
<1>10. \A q \in Requests : tx'[q].pc # "working"
  BY <1>2, <1>5, <1>6, <1>7, <1>8
<1>11. \A q \in Requests : tx'[q].pc # "idle" =>
         /\ tx[q].pc # "idle" /\ tx'[q].settings = tx[q].settings
         /\ tx'[q].picture = tx[q].picture /\ tx'[q].missed = tx[q].missed \cup M
  BY <1>5, <1>6, <1>7, <1>8
<1> QED BY <1>1, <1>2, <1>8, <1>9, <1>10, <1>11 DEF M

LEMMA CommitLands ==
  ASSUME DeskInv, WorkspaceAssumption, NEW r \in Requests, Commit(r)
  PROVE  DeskInv'
<1> DEFINE x == tx[r].write
<1>1. x \in Write /\ Applies(x)
  BY TxFields DEF DeskInv, AtWork, Commit
<1>2. /\ provisioned' = TRUE
      /\ archived' = IF x.kind = "archive" THEN archived \cup {x.portfolio} ELSE archived
      /\ settings' = IF x.kind = "settings" THEN x.settings ELSE settings
      /\ picture' \in NextPicture(r)
      /\ writes' = IF x.kind = "nothing" THEN writes ELSE writes + 1
  BY DEF Commit
<1> HIDE DEF x
<1>3. /\ archived \subseteq Portfolios \ {MainPortfolio} /\ settings \in Settings
      /\ picture \in Picture /\ writes \in 0 .. MaxWrites
  BY DEF DeskInv, TypeOK
<1>4. archived' \subseteq Portfolios \ {MainPortfolio} /\ settings' \in Settings
  BY <1>1, <1>2, <1>3, Kinds DEF Applies, Fits
<1>5. picture' \in Picture
  BY <1>2, <1>3 DEF NextPicture, Picture
<1>6. writes' \in 0 .. MaxWrites
  <2>1. CASE x.kind = "nothing"
    BY <1>2, <1>3, <2>1
  <2>2. CASE x.kind # "nothing"
    BY <1>1, <1>2, <1>3, <2>2 DEF Applies, Nothing, WorkspaceAssumption
  <2> QED BY <2>1, <2>2
<1>7. TypeOK'
  BY <1>2, <1>4, <1>5, <1>6, CommitEnds, NamesLand, ItemsLand, TradesLand DEF TypeOK
<1>8. AtWork'
  BY CommitEnds DEF AtWork
<1>9. Seen'
  <2> SUFFICES ASSUME NEW q \in Requests, tx'[q].pc # "idle"
               PROVE  /\ \A k \in Keys \ tx'[q].missed : tx'[q].settings[k] = settings'[k]
                      /\ "picture" \notin tx'[q].missed => tx'[q].picture = picture'
    BY DEF Seen
  <2>1. /\ tx[q].pc # "idle" /\ tx'[q].settings = tx[q].settings
        /\ tx'[q].picture = tx[q].picture
        /\ tx'[q].missed = tx[q].missed \cup Missing(r)
    BY CommitEnds
  <2>2. /\ \A k \in Keys \ tx[q].missed : tx[q].settings[k] = settings[k]
        /\ "picture" \notin tx[q].missed => tx[q].picture = picture
    BY <2>1 DEF DeskInv, Seen
  <2>3. /\ \A k \in Keys : settings'[k] # settings[k] => k \in Missing(r)
        /\ picture' # picture => "picture" \in Missing(r)
    BY DEF Missing
  <2> QED BY ONLY <2>1, <2>2, <2>3
<1>10. KeysDistinct'
  <2>1. \A w \in Watchlists : Apart(items'[w])
    BY ItemsLand
  <2>2. \A w \in Watchlists : \A t, u \in Listed(w)' :
          t # u => items'[w][t] # items'[w][u]
    BY <2>1 DEF Listed, Apart
  <2> QED BY <2>2, NamesLand DEF KeysDistinct, Siblings
<1>11. Standing'
  <2>1. AtOnce(x) /\ Standing
    BY <1>1 DEF Applies, DeskInv
  <2>2. name' = CASE x.kind = "name" -> [name EXCEPT ![x.folder] = x.name]
                  [] x.kind = "delete" -> [name EXCEPT ![x.watchlist] = NoName]
                  [] OTHER -> name
    BY DEF Commit, x
  <2>3. /\ MainWatchlist \in Folders /\ \A p \in archived' : p \in Folders /\ p \notin Watchlists
        /\ name \in [Folders -> Names \cup {NoName}] /\ NoName \notin Names
    BY <1>4 DEF DeskInv, TypeOK, Folders, WorkspaceAssumption
  <2>4. \A p \in archived' : name[p] # NoName
    BY <1>2, <2>1 DEF AtOnce, Standing
  <2>5. CASE x.kind = "name"
    BY <1>1, <2>1, <2>2, <2>3, <2>4, <2>5, Kinds DEF Standing
  <2>6. CASE x.kind = "delete"
    <3>1. x.watchlist \in Watchlists /\ x.watchlist # MainWatchlist
      BY <1>1, <2>1, <2>6, Kinds DEF AtOnce
    <3> QED BY <2>1, <2>2, <2>3, <2>4, <2>6, <3>1 DEF Standing
  <2>7. CASE x.kind \notin {"name", "delete"}
    BY <2>1, <2>2, <2>4, <2>7 DEF Standing
  <2> QED BY <2>5, <2>6, <2>7
<1> QED BY <1>7, <1>8, <1>9, <1>10, <1>11, TradesLand DEF DeskInv

-----------------------------------------------------------------------------
(* What the routes prepare fits the rows they read.                        *)
LEMMA NothingFits ==
  ASSUME NEW r \in Requests, NEW x \in Write, Works(r, x),
         x.kind \in {"nothing", "picture"}
  PROVE  Route(r)
BY DEF Route, Fits, Keeps, AtOnce

LEMMA TradeFits ==
  ASSUME DeskInv, WorkspaceAssumption, NEW r \in Requests, NEW p \in Portfolios,
         NEW shares \in Quantities, NEW price \in Prices,
         Buy(r, p, shares, price) \/ Sell(r, p, shares, price)
  PROVE  Route(r)
<1> DEFINE h == holding[p]
           b == books[p]
<1>1. /\ h \in LiveHolding /\ b \in [shares : Int, cash : Int, slack : Nat] /\ Agrees(h, b)
  BY DEF DeskInv, TypeOK, LiveHolding, Ledger
<1>2. shares \in Nat \ {0} /\ price \in Nat
  BY DEF WorkspaceAssumption
<1>3. ASSUME NEW next \in LiveHolding, NEW delta \in Int,
             Trade(r, p, next, delta, price),
             \E q \in Quantities : next.shares \in {h.shares + q, h.shares - q},
             \A x : x.delta = delta /\ x.cash = -(delta * price) => Agrees(next, NextBook(b, x))
      PROVE  Route(r)
  <2> DEFINE x == [kind |-> "trade", portfolio |-> p, holding |-> next, delta |-> delta,
                   cash |-> -(delta * price)]
  <2>1. Works(r, x)
    BY <1>3 DEF Trade
  <2>2. x \in Write
    <3>1. -(delta * price) \in Int /\ next \in Holding
      BY <1>2, <1>3 DEF LiveHolding, Holding
    <3> QED BY <3>1 DEF Write
  <2>3. /\ x.kind = "trade" /\ x.portfolio = p /\ x.holding = next /\ x.delta = delta
        /\ x.cash = -(delta * price)
    OBVIOUS
  <2> HIDE DEF x
  <2>4. Agrees(next, NextBook(b, x))
    BY <1>3, <2>3
  <2>5. Fits(x) /\ Keeps(x, tx[r].settings)
    BY <1>3, <2>3, <2>4 DEF Fits, Keeps
  <2>6. AtOnce(x)
    BY <1>3, <2>3 DEF AtOnce, Trade
  <2> QED BY <2>1, <2>2, <2>5, <2>6 DEF Route
<1>4. CASE Buy(r, p, shares, price)
  <2> DEFINE held == h.shares + shares
             average == Rounded(h.shares * h.average + shares * price, held)
             next == [h EXCEPT !.shares = held, !.average = average]
  <2>1. Trade(r, p, next, shares, price)
    BY <1>4 DEF Buy
  <2>2. \A x : x.delta = shares /\ x.cash = -(shares * price) =>
          average \in Nat /\ Agrees(next, NextBook(b, x))
    <3> SUFFICES ASSUME NEW x, x.delta = shares, x.cash = -(shares * price)
                 PROVE  average \in Nat /\ Agrees(next, NextBook(b, x))
      OBVIOUS
    <3>1. held = h.shares + shares /\ average = Rounded(h.shares * h.average + shares * price, held)
      OBVIOUS
    <3> HIDE DEF h, b, held, average
    <3>2. average \in Nat /\ Agrees([h EXCEPT !.shares = held, !.average = average], NextBook(b, x))
      BY ONLY <1>1, <1>2, <3>1, x.delta = shares, x.cash = -(shares * price), BuyAgrees
    <3> QED BY <3>2
  <2>3. average \in Nat
    <3>1. \E x : x.delta = shares /\ x.cash = -(shares * price)
      <4> WITNESS [delta |-> shares, cash |-> -(shares * price)]
      <4> QED OBVIOUS
    <3> HIDE DEF average, next
    <3> QED BY <2>2, <3>1
  <2>4. next \in LiveHolding
    <3> HIDE DEF average, h, b
    <3>1. held \in Nat /\ h \in [shares : Nat, average : Nat, realized : Int]
      BY <1>1, <1>2 DEF LiveHolding
    <3> HIDE DEF held
    <3> QED BY ONLY <3>1, <2>3 DEF LiveHolding, next
  <2> HIDE DEF next, average, h, b
  <2>5. shares \in Int
    BY <1>2
  <2>6. next.shares = h.shares + shares
    BY <1>1 DEF next, LiveHolding
  <2> QED BY <1>3, <2>1, <2>2, <2>4, <2>5, <2>6
<1>5. CASE Sell(r, p, shares, price)
  <2> DEFINE realized == h.realized + (price - h.average) * shares
             next == [h EXCEPT !.shares = h.shares - shares, !.realized = realized]
  <2>1. Trade(r, p, next, -shares, price) /\ shares <= h.shares
    BY <1>5 DEF Sell
  <2>2. \A x : x.delta = -shares /\ x.cash = -((-shares) * price) =>
          realized \in Int /\ Agrees(next, NextBook(b, x))
    <3> SUFFICES ASSUME NEW x, x.delta = -shares, x.cash = -((-shares) * price)
                 PROVE  realized \in Int /\ Agrees(next, NextBook(b, x))
      OBVIOUS
    <3> HIDE DEF h, b
    <3> QED BY <1>1, <1>2, <2>1, SellAgrees
  <2>3. realized \in Int
    BY <1>1, <1>2 DEF LiveHolding
  <2>4. next \in LiveHolding
    <3> HIDE DEF realized, h, b
    <3>1. h.shares - shares \in Nat /\ h \in [shares : Nat, average : Nat, realized : Int]
      BY <1>1, <1>2, <2>1 DEF LiveHolding
    <3> QED BY ONLY <3>1, <2>3 DEF LiveHolding, next
  <2> HIDE DEF next, realized, h, b
  <2>5. -shares \in Int
    BY <1>2
  <2>6. next.shares = h.shares - shares
    BY <1>1 DEF next, LiveHolding
  <2> QED BY <1>3, <2>1, <2>2, <2>4, <2>5, <2>6
<1> QED BY <1>4, <1>5

LEMMA NameFits ==
  ASSUME NEW r \in Requests, NEW f \in Folders, NEW n \in Names, Named(r, f, n),
         f \notin archived
  PROVE  Route(r)
<1> DEFINE x == [kind |-> "name", folder |-> f, name |-> n]
<1>1. Works(r, x) /\ ~Taken(f, n)
  BY DEF Named
<1>2. x \in Write /\ x.kind = "name" /\ x.folder = f /\ x.name = n
  BY DEF Write
<1> HIDE DEF x
<1> QED BY <1>1, <1>2 DEF Route, Fits, Keeps, AtOnce

LEMMA FolderFits ==
  ASSUME NEW r \in Requests,
         \/ \E p \in Portfolios : Archive(r, p)
         \/ \E w \in Watchlists : Delete(r, w)
         \/ ChoosePicture(r) \/ Read(r)
  PROVE  Route(r)
<1>1. CASE \E p \in Portfolios : Archive(r, p)
  <2>1. PICK p \in Portfolios : Archive(r, p)
    BY <1>1
  <2> DEFINE x == [kind |-> "archive", portfolio |-> p]
  <2>2. Works(r, x) /\ p # MainPortfolio /\ name[p] # NoName /\ p \notin archived
    BY <2>1 DEF Archive
  <2>3. x \in Write /\ x.kind = "archive" /\ x.portfolio = p
    BY DEF Write
  <2> HIDE DEF x
  <2> QED BY <2>2, <2>3 DEF Route, Fits, Keeps, AtOnce
<1>2. CASE \E w \in Watchlists : Delete(r, w)
  <2>1. PICK w \in Watchlists : Delete(r, w)
    BY <1>2
  <2> DEFINE x == [kind |-> "delete", watchlist |-> w]
  <2>2. Works(r, x) /\ w # MainWatchlist /\ name[w] # NoName
    BY <2>1 DEF Delete
  <2>3. x \in Write /\ x.kind = "delete" /\ x.watchlist = w
    BY DEF Write
  <2> HIDE DEF x
  <2> QED BY <2>2, <2>3 DEF Route, Fits, Keeps, AtOnce
<1>3. CASE ChoosePicture(r)
  <2> DEFINE x == [kind |-> "picture"]
  <2>1. Works(r, x) /\ x \in Write /\ x.kind = "picture"
    BY <1>3 DEF ChoosePicture, Write
  <2> HIDE DEF x
  <2> QED BY <2>1, NothingFits
<1>4. CASE Read(r)
  <2>1. Works(r, Nothing) /\ Nothing \in Write /\ Nothing.kind = "nothing"
    BY <1>4 DEF Read, Write, Nothing
  <2> QED BY <2>1, NothingFits
<1> QED BY <1>1, <1>2, <1>3, <1>4

(* Merging keeps every choice that the payload does not name.              *)
LEMMA SettingsFit ==
  ASSUME DeskInv, NEW r \in Requests, NEW wanted \in SUBSET Keys, NEW choice \in Options,
         SetPreferences(r, wanted, choice)
  PROVE  Route(r)
<1> DEFINE merged == Merged(r, wanted, choice)
           x == [kind |-> "settings", settings |-> merged, asked |-> wanted]
<1>1. merged \in Settings /\ \A k \in Keys \ wanted : merged[k] = tx[r].settings[k]
  <2>1. tx[r].settings \in [Keys -> Options \cup {Unset}]
    BY TxFields DEF DeskInv, Settings
  <2> QED BY <2>1 DEF Merged, Settings
<1>2. Works(r, Nothing) \/ Works(r, x)
  BY DEF SetPreferences
<1> HIDE DEF merged
<1>3. x \in Write /\ x.kind = "settings" /\ x.settings = merged /\ x.asked = wanted
  BY <1>1 DEF Write
<1>4. Nothing \in Write /\ Nothing.kind = "nothing"
  BY DEF Write, Nothing
<1> HIDE DEF x
<1>5. Fits(x) /\ AtOnce(x) /\ Keeps(x, tx[r].settings)
  BY <1>1, <1>3 DEF Fits, AtOnce, Keeps
<1> QED BY <1>2, <1>3, <1>4, <1>5, NothingFits DEF Route

-----------------------------------------------------------------------------
(* Where a new order puts the tickers.                                     *)
Placed(w, order) ==
  [t \in Tickers |-> IF t \in DOMAIN order THEN order[t] ELSE items[w][t]]

LEMMA OrderFits ==
  ASSUME DeskInv, NEW r \in Requests, NEW w \in Watchlists, NEW order,
         DOMAIN order \subseteq Tickers, \A t \in DOMAIN order : order[t] \in Nat \cup {Unlisted},
         name[w] # NoName, Apart(Placed(w, order)), Rearranged(items[w], Placed(w, order)),
         SetsOrder(r, w, order)
  PROVE  Route(r)
<1> DEFINE changes == Changes(w, order)
           x == [kind |-> "order", watchlist |-> w, order |-> changes]
<1>1. Works(r, Nothing) \/ Works(r, x)
  BY DEF SetsOrder
<1>2. items[w] \in [Tickers -> Nat \cup {Unlisted}]
  BY DEF DeskInv, TypeOK
<1>3. changes \in [Tickers -> Nat \cup {Unlisted, Untouched}]
  BY DEF Changes
<1>4. Applied(items[w], changes) = Placed(w, order)
  <2>1. \A t \in DOMAIN order : order[t] # Untouched
    BY DEF Untouched, Unlisted
  <2>2. \A t \in Tickers : changes[t] = IF t \notin DOMAIN order \/ order[t] = items[w][t]
                                       THEN Untouched ELSE order[t]
    BY DEF Changes
  <2> HIDE DEF changes
  <2>3. \A t \in Tickers : (IF changes[t] = Untouched THEN items[w][t] ELSE changes[t])
                           = (IF t \in DOMAIN order THEN order[t] ELSE items[w][t])
    BY <2>1, <2>2
  <2> QED BY <2>3 DEF Applied, Placed
<1> HIDE DEF changes
<1>5. x \in Write /\ x.kind = "order" /\ x.watchlist = w /\ x.order = changes
  BY <1>3 DEF Write
<1>6. Nothing \in Write /\ Nothing.kind = "nothing"
  BY DEF Write, Nothing
<1> HIDE DEF x
<1>7. Fits(x) /\ AtOnce(x) /\ Keeps(x, tx[r].settings)
  BY <1>4, <1>5 DEF Fits, AtOnce, Keeps
<1> QED BY <1>1, <1>5, <1>6, <1>7, NothingFits DEF Route

(* The items of a watchlist, at places of their own.                       *)
LEMMA PlacesAre ==
  ASSUME DeskInv, WorkspaceAssumption, NEW w \in Watchlists
  PROVE  /\ IsFiniteSet(Listed(w)) /\ Listed(w) \subseteq Tickers
         /\ items[w] \in [Tickers -> Nat \cup {Unlisted}]
         /\ \A t \in Listed(w) : items[w][t] \in Nat
         /\ \A t \in Tickers : t \notin Listed(w) => items[w][t] = Unlisted
         /\ \A t, u \in Listed(w) : t # u => items[w][t] # items[w][u]
<1>1. items[w] \in [Tickers -> Nat \cup {Unlisted}]
  BY DEF DeskInv, TypeOK
<1>2. IsFiniteSet(Tickers) /\ Listed(w) \subseteq Tickers
  BY DEF Listed, WorkspaceAssumption
<1>3. IsFiniteSet(Listed(w))
  BY <1>2, FS_Subset
<1> QED BY <1>1, <1>2, <1>3 DEF Listed, DeskInv, KeysDistinct

(* Ranks are numbers, and those of two items differ, also when the item    *)
(* that is removed is left out.                                            *)
LEMMA RanksDiffer ==
  ASSUME DeskInv, WorkspaceAssumption, NEW w \in Watchlists, NEW S, S \subseteq Listed(w)
  PROVE  /\ \A t \in S : Rank(w, S, t) \in Nat
         /\ \A t, u \in S : t # u => Rank(w, S, t) # Rank(w, S, u)
<1>1. IsFiniteSet(S) /\ \A t \in S : items[w][t] \in Int
  BY PlacesAre, FS_Subset
<1>2. \A t, u \in S :
         /\ Rank(w, S, t) \in Nat /\ Rank(w, S, u) \in Nat
         /\ items[w][t] < items[w][u] => Rank(w, S, t) < Rank(w, S, u)
         /\ items[w][u] < items[w][t] => Rank(w, S, u) < Rank(w, S, t)
  BY <1>1, RankGrows
<1>3. \A t, u \in S : t # u => items[w][t] # items[w][u]
  BY PlacesAre
<1>4. ASSUME NEW t \in S, NEW u \in S, t # u PROVE Rank(w, S, t) # Rank(w, S, u)
  <2>1. items[w][t] < items[w][u] \/ items[w][u] < items[w][t]
    BY <1>1, <1>3, <1>4
  <2> QED BY <1>2, <2>1
<1> QED BY <1>2, <1>4

(* The routes of the items: each gives every item a place of its own.      *)
LEMMA AddItemFits ==
  ASSUME DeskInv, WorkspaceAssumption, NEW r \in Requests, NEW w \in Watchlists,
         NEW t \in Tickers, NEW i \in Nat, AddItem(r, w, t, i)
  PROVE  Route(r)
<1> DEFINE L == Listed(w)
           at(u) == Rank(w, L, u)
           place(u) == IF u = t THEN i ELSE IF at(u) < i THEN at(u) ELSE at(u) + 1
           order == [u \in L \cup {t} |-> place(u)]
<1>1. SetsOrder(r, w, order) /\ t \notin L
  BY DEF AddItem
<1>2. L \subseteq Tickers /\ \A u \in Tickers : u \notin L => items[w][u] = Unlisted
  BY PlacesAre
<1>3. \A u \in L : at(u) \in Nat /\ \A v \in L : u # v => at(u) # at(v)
  BY RanksDiffer
<1> HIDE DEF L, at
<1>4. \A u \in L \cup {t} : place(u) \in Nat
  BY <1>3
<1>5. \A u, v \in L \cup {t} : u # v => place(u) # place(v)
  BY <1>1, <1>3
<1>6. \A u \in Tickers :
        Placed(w, order)[u] = IF u \in L \cup {t} THEN place(u) ELSE Unlisted
  BY <1>2 DEF Placed
<1>7. DOMAIN order \subseteq Tickers /\ \A u \in DOMAIN order : order[u] \in Nat \cup {Unlisted}
  BY <1>2, <1>4
<1> HIDE DEF place, order
<1>8. Apart(Placed(w, order))
  BY <1>5, <1>6 DEF Apart
<1>9. \A u, v \in L : items[w][u] < items[w][v] => at(u) < at(v)
  <2>1. IsFiniteSet(L) /\ \A u \in L : items[w][u] \in Int
    BY PlacesAre DEF L
  <2> QED BY <2>1, RankGrows DEF at
<1>10. \A u, v \in L : items[w][u] < items[w][v] => place(u) < place(v)
  BY <1>1, <1>3, <1>9 DEF place
<1>11. Rearranged(items[w], Placed(w, order))
  <2>1. Shown(items[w]) = L
    BY DEF Shown, Listed, L
  <2>2. Shown(Placed(w, order)) = L \cup {t}
    BY <1>2, <1>4, <1>6 DEF Shown, Unlisted
  <2>3. SameOrder(L, items[w], Placed(w, order))
    BY <1>2, <1>6, <1>10 DEF SameOrder
  <2> QED BY <1>1, <2>1, <2>2, <2>3 DEF Rearranged
<1>12. name[w] # NoName
  BY DEF AddItem
<1> QED BY <1>1, <1>7, <1>8, <1>11, <1>12, OrderFits

LEMMA RemoveItemFits ==
  ASSUME DeskInv, WorkspaceAssumption, NEW r \in Requests, NEW w \in Watchlists,
         NEW t \in Tickers, RemoveItem(r, w, t)
  PROVE  Route(r)
<1> DEFINE L == Listed(w)
           S == L \ {t}
           order == [u \in L |-> IF u = t THEN Unlisted ELSE Rank(w, S, u)]
<1>1. SetsOrder(r, w, order)
  BY DEF RemoveItem
<1>2. L \subseteq Tickers /\ \A u \in Tickers : u \notin L => items[w][u] = Unlisted
  BY PlacesAre
<1>3. /\ \A u \in S : Rank(w, S, u) \in Nat
      /\ \A u, v \in S : u # v => Rank(w, S, u) # Rank(w, S, v)
  BY RanksDiffer
<1> HIDE DEF L
<1>4. \A u \in Tickers :
        Placed(w, order)[u] = IF u \in S THEN Rank(w, S, u) ELSE Unlisted
  BY <1>2 DEF Placed
<1>5. DOMAIN order \subseteq Tickers /\ \A u \in DOMAIN order : order[u] \in Nat \cup {Unlisted}
  BY <1>2, <1>3
<1> HIDE DEF order, S
<1>6. Apart(Placed(w, order))
  BY <1>3, <1>4 DEF Apart
<1>7. \A u, v \in S : items[w][u] < items[w][v] => Rank(w, S, u) < Rank(w, S, v)
  <2>1. IsFiniteSet(S) /\ \A u \in S : items[w][u] \in Int
    BY PlacesAre, FS_Subset DEF S, L
  <2> QED BY <2>1, RankGrows
<1>8. Rearranged(items[w], Placed(w, order))
  <2>1. Shown(items[w]) = L
    BY DEF Shown, Listed, L
  <2>2. Shown(Placed(w, order)) = S
    BY <1>2, <1>3, <1>4 DEF Shown, Unlisted, S
  <2>3. SameOrder(S, items[w], Placed(w, order))
    BY <1>2, <1>4, <1>7 DEF SameOrder, S
  <2>4. t \in L
    BY DEF RemoveItem, L
  <2> QED BY <2>1, <2>2, <2>3, <2>4 DEF Rearranged, S
<1>9. name[w] # NoName
  BY DEF RemoveItem
<1> QED BY <1>1, <1>5, <1>6, <1>8, <1>9, OrderFits

LEMMA ReorderFits ==
  ASSUME DeskInv, WorkspaceAssumption, NEW r \in Requests, NEW w \in Watchlists,
         NEW seq \in SetToSeqs(Listed(w)), Reorder(r, w, seq)
  PROVE  Route(r)
<1> DEFINE order == Resequenced(seq)
           index(u) == CHOOSE i \in DOMAIN seq : seq[i] = u
<1>1. SetsOrder(r, w, order) /\ ToSet(seq) = Listed(w)
  BY DEF Reorder
<1>2. \A i \in DOMAIN seq : i \in Nat \ {0}
  <2>1. DOMAIN seq = 1 .. Cardinality(Listed(w))
    BY DEF SetToSeqs
  <2>2. Cardinality(Listed(w)) \in Nat
    BY PlacesAre, FS_CardinalityType
  <2> QED BY <2>1, <2>2
<1>3. \A u \in ToSet(seq) : index(u) \in DOMAIN seq /\ seq[index(u)] = u
  BY DEF ToSet
<1>4. Listed(w) \subseteq Tickers /\ \A u \in Tickers : u \notin Listed(w) => items[w][u] = Unlisted
  BY PlacesAre
<1>5. DOMAIN order = Listed(w) /\ \A u \in Listed(w) : order[u] = index(u) - 1
  BY <1>1 DEF Resequenced
<1> HIDE DEF order, index
<1>6. \A u \in Listed(w) : order[u] \in Nat /\ \A v \in Listed(w) : u # v => order[u] # order[v]
  BY <1>1, <1>2, <1>3, <1>5
<1>7. \A u \in Tickers : Placed(w, order)[u] = IF u \in Listed(w) THEN order[u] ELSE Unlisted
  BY <1>4, <1>5 DEF Placed
<1>8. Apart(Placed(w, order))
  BY <1>6, <1>7 DEF Apart
<1>9. Rearranged(items[w], Placed(w, order))
  BY <1>4, <1>6, <1>7 DEF Rearranged, Shown, Listed, Unlisted
<1>10. name[w] # NoName
  BY DEF Reorder
<1> QED BY <1>1, <1>4, <1>5, <1>6, <1>8, <1>9, <1>10, OrderFits

(* Behind the last item there is no other.                                 *)
LEMMA AddTickerFits ==
  ASSUME DeskInv, WorkspaceAssumption, NEW r \in Requests, NEW t \in Tickers, AddTicker(r, t)
  PROVE  Route(r)
<1> DEFINE w == MainWatchlist
           L == Listed(w)
           greatest(n) == \A u \in L : items[w][u] <= n
           last == IF L = {} THEN 0
                   ELSE CHOOSE n \in {items[w][u] : u \in L} : greatest(n)
           order == [u \in {t} |-> last + 1]
<1>1. SetsOrder(r, w, order) /\ t \notin L
  BY DEF AddTicker
<1>2. w \in Watchlists
  BY DEF WorkspaceAssumption
<1>3. /\ IsFiniteSet(L) /\ L \subseteq Tickers /\ \A u \in L : items[w][u] \in Nat
      /\ \A u, v \in L : u # v => items[w][u] # items[w][v]
      /\ \A u \in Tickers : u \notin L => items[w][u] = Unlisted
  BY <1>2, PlacesAre
<1> HIDE DEF L, w
<1>4. last \in Nat /\ \A u \in L : items[w][u] <= last
  <2>1. CASE L = {}
    BY <2>1
  <2>2. CASE L # {}
    <3>1. \E n \in {items[w][u] : u \in L} : greatest(n)
      <4>1. \E v \in L : \A u \in L : items[w][u] <= items[w][v]
        BY <1>3, <2>2, Highest
      <4> QED BY <4>1
    <3>2. last \in {items[w][u] : u \in L} /\ greatest(last)
      <4> HIDE DEF greatest
      <4> QED BY <2>2, <3>1
    <3> QED BY <1>3, <3>2
  <2> QED BY <2>1, <2>2
<1> HIDE DEF last
<1>5. \A u \in Tickers : Placed(w, order)[u] = IF u = t THEN last + 1 ELSE items[w][u]
  BY DEF Placed
<1>6. DOMAIN order \subseteq Tickers /\ \A u \in DOMAIN order : order[u] \in Nat \cup {Unlisted}
  BY <1>4
<1> HIDE DEF order
<1>7. Apart(Placed(w, order))
  <2>1. \A u \in Tickers : items[w][u] # Unlisted => u \in L /\ items[w][u] \in Nat
    BY <1>3
  <2>2. \A u \in L : items[w][u] # last + 1
    BY <1>3, <1>4
  <2> QED BY <1>3, <1>5, <2>1, <2>2 DEF Apart
<1>8. Rearranged(items[w], Placed(w, order))
  <2>1. Shown(items[w]) = L
    BY DEF Shown, Listed, L
  <2>2. Shown(Placed(w, order)) = L \cup {t}
    BY <1>3, <1>4, <1>5 DEF Shown, Listed, L, Unlisted
  <2>3. SameOrder(L, items[w], Placed(w, order))
    BY <1>1, <1>3, <1>5 DEF SameOrder
  <2> QED BY <1>1, <2>1, <2>2, <2>3 DEF Rearranged
<1>9. name[w] # NoName
  BY DEF DeskInv, Standing, w
<1> QED BY <1>1, <1>2, <1>6, <1>7, <1>8, <1>9, OrderFits

LEMMA RemoveTickerFits ==
  ASSUME DeskInv, WorkspaceAssumption, NEW r \in Requests, NEW t \in Tickers, RemoveTicker(r, t)
  PROVE  Route(r)
<1> DEFINE w == MainWatchlist
           order == [u \in {t} |-> Unlisted]
<1>1. SetsOrder(r, w, order)
  BY DEF RemoveTicker
<1>2. w \in Watchlists
  BY DEF WorkspaceAssumption
<1> HIDE DEF w
<1>3. /\ \A u, v \in Listed(w) : u # v => items[w][u] # items[w][v]
      /\ \A u \in Tickers : u \notin Listed(w) => items[w][u] = Unlisted
  BY <1>2, PlacesAre
<1>4. \A u \in Tickers : Placed(w, order)[u] = IF u = t THEN Unlisted ELSE items[w][u]
  BY DEF Placed
<1>5. DOMAIN order \subseteq Tickers /\ \A u \in DOMAIN order : order[u] \in Nat \cup {Unlisted}
  OBVIOUS
<1> HIDE DEF order
<1>6. Apart(Placed(w, order))
  BY <1>3, <1>4 DEF Apart
<1>7. Rearranged(items[w], Placed(w, order))
  <2>1. Shown(items[w]) = Listed(w) /\ t \in Listed(w)
    BY DEF Shown, Listed, RemoveTicker, w
  <2>2. Shown(Placed(w, order)) = Listed(w) \ {t}
    BY <1>3, <1>4 DEF Shown, Listed
  <2>3. SameOrder(Listed(w) \ {t}, items[w], Placed(w, order))
    BY <1>4 DEF SameOrder, Listed
  <2> QED BY <2>1, <2>2, <2>3 DEF Rearranged
<1>8. name[w] # NoName
  BY DEF DeskInv, Standing, w
<1> QED BY <1>1, <1>2, <1>5, <1>6, <1>7, <1>8, OrderFits

-----------------------------------------------------------------------------
(* A step reads, takes the lock with a write that fits, or ends.           *)
LEMMA StepIs ==
  ASSUME DeskInv, WorkspaceAssumption, Next
  PROVE  \E r \in Requests : Begin(r) \/ Reread(r) \/ Rollback(r) \/ Commit(r) \/ Route(r)
<1>1. PICK r \in Requests :
        \/ Begin(r) \/ Reread(r) \/ Rollback(r) \/ Commit(r) \/ Read(r)
        \/ \E p \in Portfolios, n \in Names : CreatePortfolio(r, p, n) \/ RenamePortfolio(r, p, n)
        \/ \E w \in Watchlists, n \in Names : CreateWatchlist(r, w, n) \/ UpdateWatchlist(r, w, n)
        \/ \E p \in Portfolios : Archive(r, p)
        \/ \E w \in Watchlists : Delete(r, w)
        \/ \E w \in Watchlists, t \in Tickers :
             \/ \E i \in 0 .. Cardinality(Tickers) : AddItem(r, w, t, i)
             \/ RemoveItem(r, w, t)
        \/ \E w \in Watchlists : \E seq \in SetToSeqs(Listed(w)) : Reorder(r, w, seq)
        \/ \E t \in Tickers : AddTicker(r, t) \/ RemoveTicker(r, t)
        \/ \E p \in Portfolios, shares \in Quantities, price \in Prices :
             Buy(r, p, shares, price) \/ Sell(r, p, shares, price)
        \/ \E wanted \in SUBSET Keys, choice \in Options : SetPreferences(r, wanted, choice)
        \/ ChoosePicture(r)
  BY DEF Next
<1>2. CASE Begin(r) \/ Reread(r) \/ Rollback(r) \/ Commit(r)
  BY <1>2
<1>3. CASE \/ Read(r) \/ ChoosePicture(r)
           \/ \E p \in Portfolios : Archive(r, p)
           \/ \E w \in Watchlists : Delete(r, w)
  BY <1>3, FolderFits
<1>4. CASE \E p \in Portfolios, n \in Names : CreatePortfolio(r, p, n) \/ RenamePortfolio(r, p, n)
  <2>1. PICK p \in Portfolios, n \in Names : Named(r, p, n) /\ p \notin archived
    BY <1>4 DEF CreatePortfolio, RenamePortfolio, DeskInv, Standing
  <2> QED BY <2>1, NameFits DEF Folders
<1>5. CASE \E w \in Watchlists, n \in Names : CreateWatchlist(r, w, n) \/ UpdateWatchlist(r, w, n)
  <2>1. PICK w \in Watchlists, n \in Names : Named(r, w, n)
    BY <1>5 DEF CreateWatchlist, UpdateWatchlist
  <2>2. w \notin archived
    BY DEF DeskInv, TypeOK, WorkspaceAssumption
  <2> QED BY <2>1, <2>2, NameFits DEF Folders
<1>6. CASE \E w \in Watchlists, t \in Tickers :
             \E i \in 0 .. Cardinality(Tickers) : AddItem(r, w, t, i)
  BY <1>6, AddItemFits
<1>7. CASE \E w \in Watchlists, t \in Tickers : RemoveItem(r, w, t)
  BY <1>7, RemoveItemFits
<1>8. CASE \E w \in Watchlists : \E seq \in SetToSeqs(Listed(w)) : Reorder(r, w, seq)
  BY <1>8, ReorderFits
<1>9. CASE \E t \in Tickers : AddTicker(r, t) \/ RemoveTicker(r, t)
  BY <1>9, AddTickerFits, RemoveTickerFits
<1>10. CASE \E p \in Portfolios, shares \in Quantities, price \in Prices :
              Buy(r, p, shares, price) \/ Sell(r, p, shares, price)
  BY <1>10, TradeFits
<1>11. CASE \E wanted \in SUBSET Keys, choice \in Options : SetPreferences(r, wanted, choice)
  BY <1>11, SettingsFit
<1> QED BY <1>1, <1>2, <1>3, <1>4, <1>5, <1>6, <1>7, <1>8, <1>9, <1>10, <1>11

LEMMA DeskStep ==
  ASSUME DeskInv, WorkspaceAssumption, [Next]_vars
  PROVE  DeskInv'
<1>1. CASE Next
  BY <1>1, StepIs, ReadsRows, RollsBack, TakesTheLock, CommitLands
<1>2. CASE UNCHANGED vars
  <2>1. /\ provisioned' = provisioned /\ name' = name /\ archived' = archived
        /\ holding' = holding /\ items' = items /\ settings' = settings /\ picture' = picture
        /\ books' = books /\ writes' = writes /\ holder' = holder /\ tx' = tx
    BY <1>2 DEF vars, rows
  <2>2. TypeOK' /\ Seen'
    BY <2>1 DEF DeskInv, TypeOK, Seen
  <2>3. Ledger' /\ KeysDistinct' /\ Standing'
    BY <1>2, RowsStay DEF DeskInv, vars
  <2>4. ASSUME NEW r \in Requests, tx'[r].pc = "working"
        PROVE  (holder = r /\ Applies(tx[r].write) /\ Keeps(tx[r].write, tx[r].settings))'
    <3>1. holder = r /\ Applies(tx[r].write) /\ Keeps(tx[r].write, tx[r].settings)
      BY <2>1, <2>4 DEF DeskInv, AtWork
    <3>2. Fits(tx[r].write)' /\ Keeps(tx[r].write, tx[r].settings)'
      BY <2>1, <3>1 DEF Applies, Fits, Taken, Keeps
    <3>3. AtOnce(tx[r].write)'
      BY <2>1, <3>1 DEF Applies, AtOnce
    <3> QED BY <2>1, <3>1, <3>2, <3>3 DEF Applies
  <2>5. AtWork'
    BY <2>4 DEF AtWork
  <2> QED BY <2>2, <2>3, <2>5 DEF DeskInv
<1> QED BY <1>1, <1>2

(* In every workspace, for any number of requests, folders, tickers and    *)
(* preferences, what a request at work will write fits the rows.           *)
THEOREM DeskSafe == Spec => []DeskInv
<1>1. Init => DeskInv
  BY DeskStart, WorkspaceAssumption
<1>2. DeskInv /\ [Next]_vars => DeskInv'
  BY DeskStep, WorkspaceAssumption
<1> QED BY <1>1, <1>2, PTL DEF Spec

(* A holding has the shares and the realized profit its recorded trades    *)
(* add up to, whatever the sizes and prices of the trades.                 *)
THEOREM LedgerMatches == Spec => []HoldingMatchesLedger
<1>1. DeskInv => HoldingMatchesLedger
  BY DEF DeskInv, Ledger, Agrees, HoldingMatchesLedger
<1> QED BY <1>1, DeskSafe, PTL

(* Names stay distinct but for their case, and items at places of their    *)
(* own, although each was checked by a request of its own.                 *)
THEOREM KeysStayDistinct == Spec => []KeysDistinct
<1>1. DeskInv => KeysDistinct
  BY DEF DeskInv
<1> QED BY <1>1, DeskSafe, PTL

-----------------------------------------------------------------------------
(***************************************************************************)
(* The routes are atomic: each commit is one step of AtomicWorkspace.      *)
(***************************************************************************)
(* What the abstract workspace knows of the places in a watchlist.         *)
LEMMA PlacesShow ==
  ASSUME NEW w \in Watchlists
  PROVE  /\ Listed(w) = Shown(items[w])
         /\ [t \in Tickers |-> Before(w, t)] = Preceding(items[w])
BY DEF Listed, Before, Shown, Preceding

(* Places that tell the tickers apart put them in an order.                *)
LEMMA PlacesOrder ==
  ASSUME NEW places \in [Tickers -> Nat \cup {Unlisted}], Apart(places)
  PROVE  Preceding(places) \in [Tickers -> SUBSET Tickers]
         /\ Atomic!Orders(Shown(places), Preceding(places))
<1>1. \A t \in Shown(places) : t \in Tickers /\ places[t] \in Nat
  BY DEF Shown
<1>2. /\ \A t \in Shown(places) :
           Preceding(places)[t] = {u \in Shown(places) : places[u] < places[t]}
      /\ \A t \in Tickers \ Shown(places) : Preceding(places)[t] = {}
  BY <1>1 DEF Preceding
<1>3. \A t \in Shown(places) : Preceding(places)[t] \subseteq Shown(places) \ {t}
  BY <1>1, <1>2
<1>4. ASSUME NEW t \in Shown(places), NEW u \in Shown(places), t # u
      PROVE  t \in Preceding(places)[u] \/ u \in Preceding(places)[t]
  <2>1. places[t] # places[u]
    BY <1>4 DEF Apart, Shown
  <2> QED BY <1>1, <1>2, <2>1
<1>5. ASSUME NEW t \in Shown(places), NEW u \in Shown(places), t \in Preceding(places)[u]
      PROVE  Preceding(places)[t] \subseteq Preceding(places)[u]
  BY <1>1, <1>2, <1>5
<1>6. Preceding(places) \in [Tickers -> SUBSET Tickers]
  BY DEF Preceding, Shown
<1> QED BY <1>2, <1>3, <1>4, <1>5, <1>6 DEF Atomic!Orders

(* Tickers that keep their order keep those before them.                   *)
LEMMA OrderKept ==
  ASSUME NEW old \in [Tickers -> Nat \cup {Unlisted}], Apart(old),
         NEW new \in [Tickers -> Nat \cup {Unlisted}], Apart(new),
         NEW S, S \subseteq Shown(old), S \subseteq Shown(new), SameOrder(S, old, new)
  PROVE  \A u, v \in S : v \in Preceding(new)[u] <=> v \in Preceding(old)[u]
<1>1. \A t \in S : t \in Tickers /\ old[t] \in Nat /\ new[t] \in Nat
  BY DEF Shown
<1>2. \A u, v \in S : v \in Preceding(new)[u] <=> new[v] < new[u]
  BY <1>1 DEF Preceding
<1>3. \A u, v \in S : v \in Preceding(old)[u] <=> old[v] < old[u]
  BY <1>1 DEF Preceding
<1>4. ASSUME NEW u \in S, NEW v \in S PROVE new[v] < new[u] <=> old[v] < old[u]
  <2>1. CASE u = v
    BY <1>1, <2>1
  <2>2. CASE u # v
    <3>1. old[v] < old[u] \/ old[u] < old[v]
      <4>1. old[u] # old[v]
        BY <1>1, <2>2 DEF Apart, Unlisted
      <4> QED BY <1>1, <4>1
    <3>2. /\ old[v] < old[u] => new[v] < new[u]
          /\ old[u] < old[v] => new[u] < new[v]
      BY DEF SameOrder
    <3> QED BY <1>1, <3>1, <3>2
  <2> QED BY <2>1, <2>2
<1> QED BY <1>2, <1>3, <1>4

(* What Insert makes of the list.                                          *)
LEMMA Inserts ==
  ASSUME NEW old \in [Tickers -> Nat \cup {Unlisted}], Apart(old),
         NEW new \in [Tickers -> Nat \cup {Unlisted}], Apart(new),
         NEW t \in Tickers \ Shown(old), Shown(new) = Shown(old) \cup {t},
         SameOrder(Shown(old), old, new)
  PROVE  /\ Preceding(new)[t] \subseteq Shown(old)
         /\ \A u \in Preceding(new)[t] : Preceding(old)[u] \subseteq Preceding(new)[t]
         /\ Preceding(new) =
              [u \in Tickers |->
                 IF u = t THEN Preceding(new)[t]
                 ELSE Preceding(old)[u] \cup
                        (IF u \in Shown(old) \ Preceding(new)[t] THEN {t} ELSE {})]
<1> DEFINE L == Shown(old)
           place == Preceding(new)[t]
<1>1. Atomic!Orders(L, Preceding(old)) /\ Atomic!Orders(L \cup {t}, Preceding(new))
  BY PlacesOrder
<1>2. \A u, v \in L : v \in Preceding(new)[u] <=> v \in Preceding(old)[u]
  BY OrderKept
<1>3. L \subseteq Tickers /\ t \notin L
  BY DEF Shown
<1>4. /\ DOMAIN Preceding(new) = Tickers
      /\ Preceding(new) = [u \in Tickers |-> Preceding(new)[u]]
  BY DEF Preceding
<1> HIDE DEF L
<1>5. place \subseteq L
  BY <1>1 DEF Atomic!Orders
<1>6. ASSUME NEW u \in place PROVE Preceding(old)[u] \subseteq place
  <2>1. Preceding(old)[u] \subseteq L /\ Preceding(new)[u] \subseteq place
    BY <1>1, <1>5 DEF Atomic!Orders
  <2> QED BY <1>2, <1>5, <2>1
<1>7. ASSUME NEW u \in L PROVE Preceding(new)[u] =
                              Preceding(old)[u] \cup (IF u \in L \ place THEN {t} ELSE {})
  <2>1. Preceding(new)[u] \subseteq L \cup {t} /\ Preceding(old)[u] \subseteq L
    BY <1>1 DEF Atomic!Orders
  <2>2. t \in Preceding(new)[u] <=> u \notin place
    <3>1. t \in Preceding(new)[u] \/ u \in place
      BY <1>1, <1>3 DEF Atomic!Orders
    <3>2. t \in Preceding(new)[u] => place \subseteq Preceding(new)[u] /\ u \notin Preceding(new)[u]
      BY <1>1 DEF Atomic!Orders
    <3> QED BY <3>1, <3>2
  <2> QED BY <1>2, <2>1, <2>2
<1>8. ASSUME NEW u \in Tickers \ (L \cup {t}) PROVE Preceding(new)[u] = {} /\ Preceding(old)[u] = {}
  BY <1>1, <1>8 DEF Atomic!Orders
<1>9. ASSUME NEW u \in Tickers
      PROVE  Preceding(new)[u] = IF u = t THEN place
                                 ELSE Preceding(old)[u] \cup (IF u \in L \ place THEN {t} ELSE {})
  <2>1. CASE u \in L
    BY <1>3, <1>7, <2>1
  <2>2. CASE u \notin L /\ u # t
    BY <1>8, <2>2
  <2> QED BY <2>1, <2>2
<1>10. Preceding(new) = [u \in Tickers |-> IF u = t THEN place
                           ELSE Preceding(old)[u] \cup (IF u \in L \ place THEN {t} ELSE {})]
  BY <1>4, <1>9
<1> QED BY <1>5, <1>6, <1>10 DEF L

(* What Drop makes of it.                                                  *)
LEMMA Drops ==
  ASSUME NEW old \in [Tickers -> Nat \cup {Unlisted}], Apart(old),
         NEW new \in [Tickers -> Nat \cup {Unlisted}], Apart(new),
         NEW t \in Shown(old), Shown(new) = Shown(old) \ {t},
         SameOrder(Shown(new), old, new)
  PROVE  Preceding(new) = [u \in Tickers |-> IF u = t THEN {} ELSE Preceding(old)[u] \ {t}]
<1> DEFINE S == Shown(new)
<1>1. Atomic!Orders(S \cup {t}, Preceding(old)) /\ Atomic!Orders(S, Preceding(new))
  <2>1. S \cup {t} = Shown(old)
    OBVIOUS
  <2> QED BY <2>1, PlacesOrder
<1>2. \A u, v \in S : v \in Preceding(new)[u] <=> v \in Preceding(old)[u]
  BY OrderKept
<1>3. S \subseteq Tickers /\ t \notin S /\ t \in Tickers
  BY DEF Shown
<1>4. Preceding(new) = [u \in Tickers |-> Preceding(new)[u]]
  BY DEF Preceding
<1> HIDE DEF S
<1>5. ASSUME NEW u \in S PROVE Preceding(new)[u] = Preceding(old)[u] \ {t}
  <2>1. Preceding(new)[u] \subseteq S /\ Preceding(old)[u] \subseteq S \cup {t}
    BY <1>1 DEF Atomic!Orders
  <2> QED BY <1>2, <1>3, <2>1
<1>6. ASSUME NEW u \in Tickers \ S PROVE Preceding(new)[u] = {}
  BY <1>1, <1>6 DEF Atomic!Orders
<1>7. ASSUME NEW u \in Tickers \ (S \cup {t}) PROVE Preceding(old)[u] = {}
  BY <1>1, <1>7 DEF Atomic!Orders
<1>8. ASSUME NEW u \in Tickers
      PROVE  Preceding(new)[u] = IF u = t THEN {} ELSE Preceding(old)[u] \ {t}
  BY <1>3, <1>5, <1>6, <1>7
<1> QED BY <1>4, <1>8

(* The lists of the abstract workspace after one watchlist is rearranged.  *)
LEMMA ListsMove ==
  ASSUME DeskInv, NEW w \in Watchlists, NEW new, items' = [items EXCEPT ![w] = new]
  PROVE  /\ [v \in Watchlists |-> Listed(v)'] =
              [[v \in Watchlists |-> Listed(v)] EXCEPT ![w] = Shown(new)]
         /\ [v \in Watchlists |-> [t \in Tickers |-> Before(v, t)']] =
              [[v \in Watchlists |-> [t \in Tickers |-> Before(v, t)]] EXCEPT ![w] = Preceding(new)]
<1>1. /\ DOMAIN items = Watchlists
      /\ items'[w] = new /\ \A v \in Watchlists \ {w} : items'[v] = items[v]
  BY DEF DeskInv, TypeOK
<1>2. \A v \in Watchlists :
        /\ Listed(v)' = Shown(items'[v])
        /\ [t \in Tickers |-> Before(v, t)'] = Preceding(items'[v])
  BY DEF Listed, Before, Shown, Preceding
<1>3. \A v \in Watchlists :
        /\ Listed(v) = Shown(items[v])
        /\ [t \in Tickers |-> Before(v, t)] = Preceding(items[v])
  BY PlacesShow
<1>4. \A v \in Watchlists : Listed(v)' = IF v = w THEN Shown(new) ELSE Listed(v)
  BY <1>1, <1>2, <1>3
<1>5. \A v \in Watchlists : [t \in Tickers |-> Before(v, t)'] =
        IF v = w THEN Preceding(new) ELSE [t \in Tickers |-> Before(v, t)]
  BY <1>1, <1>2, <1>3
<1> QED BY <1>4, <1>5

(* A commit that rearranges a watchlist sorts it, or inserts or drops one  *)
(* ticker.                                                                 *)
LEMMA OrdersAreAtomic ==
  ASSUME DeskInv, NEW w \in Watchlists,
         NEW new \in [Tickers -> Nat \cup {Unlisted}], Apart(new),
         items' = [items EXCEPT ![w] = new], name[w] # NoName, Rearranged(items[w], new),
         name' = name, archived' = archived, holding' = holding
  PROVE  Atomic!Next
<1> DEFINE old == items[w]
           sets == [v \in Watchlists |-> Listed(v)]
           orders == [v \in Watchlists |-> [t \in Tickers |-> Before(v, t)]]
<1>1. old \in [Tickers -> Nat \cup {Unlisted}] /\ Apart(old)
  BY DEF DeskInv, TypeOK, KeysDistinct, Apart, Listed
<1>2. sets[w] = Shown(old) /\ orders[w] = Preceding(old)
  BY PlacesShow
<1>3. Atomic!Arranges(w, Shown(new), Preceding(new))
  <2>1. [p \in Portfolios |-> holding'[p].shares] = [p \in Portfolios |-> holding[p].shares]
    OBVIOUS
  <2> QED BY <2>1, ListsMove DEF Atomic!Arranges
<1>4. CASE Shown(new) = Shown(old)
  <2>1. Atomic!Sort(w)
    <3> HIDE DEF sets, orders, old
    <3> QED BY <1>2, <1>3, <1>4, PlacesOrder DEF Atomic!Sort, sets
  <2> QED BY <2>1 DEF Atomic!Next
<1>5. CASE \E t \in Tickers \ Shown(old) :
             Shown(new) = Shown(old) \cup {t} /\ SameOrder(Shown(old), old, new)
  <2>1. PICK t \in Tickers \ Shown(old) :
          Shown(new) = Shown(old) \cup {t} /\ SameOrder(Shown(old), old, new)
    BY <1>5
  <2> DEFINE place == Preceding(new)[t]
  <2>2. /\ place \subseteq sets[w]
        /\ \A u \in place : orders[w][u] \subseteq place
        /\ Preceding(new) =
             [u \in Tickers |-> IF u = t THEN place
                                ELSE orders[w][u] \cup (IF u \in sets[w] \ place THEN {t} ELSE {})]
    <3> HIDE DEF sets, orders, old
    <3>1. /\ place \subseteq Shown(old)
          /\ \A u \in place : Preceding(old)[u] \subseteq place
          /\ Preceding(new) =
               [u \in Tickers |->
                  IF u = t THEN place
                  ELSE Preceding(old)[u] \cup (IF u \in Shown(old) \ place THEN {t} ELSE {})]
      BY <1>1, <2>1, Inserts
    <3> QED BY <1>2, <3>1
  <2>3. t \notin sets[w] /\ Shown(new) = sets[w] \cup {t}
    BY <1>2, <2>1
  <2> HIDE DEF place
  <2>4. Atomic!Arranges(w, sets[w] \cup {t},
          [u \in Tickers |-> IF u = t THEN place
                             ELSE orders[w][u] \cup (IF u \in sets[w] \ place THEN {t} ELSE {})])
    <3> HIDE DEF sets, orders
    <3> QED BY <1>3, <2>2, <2>3
  <2>5. Atomic!Insert(w, t)
    BY <2>2, <2>3, <2>4 DEF Atomic!Insert
  <2> QED BY <2>5 DEF Atomic!Next
<1>6. CASE \E t \in Shown(old) : Shown(new) = Shown(old) \ {t} /\ SameOrder(Shown(new), old, new)
  <2>1. PICK t \in Shown(old) : Shown(new) = Shown(old) \ {t} /\ SameOrder(Shown(new), old, new)
    BY <1>6
  <2>2. /\ t \in sets[w] /\ Shown(new) = sets[w] \ {t}
        /\ Preceding(new) = [u \in Tickers |-> IF u = t THEN {} ELSE orders[w][u] \ {t}]
    <3> HIDE DEF sets, orders, old
    <3>1. Preceding(new) = [u \in Tickers |-> IF u = t THEN {} ELSE Preceding(old)[u] \ {t}]
      BY <1>1, <2>1, Drops
    <3> QED BY <1>2, <2>1, <3>1
  <2>3. t \in Tickers
    BY <2>1 DEF Shown
  <2>4. Atomic!Drop(w, t)
    BY <1>3, <2>2 DEF Atomic!Drop
  <2> QED BY <2>3, <2>4 DEF Atomic!Next
<1> QED BY <1>4, <1>5, <1>6 DEF Rearranged

(* Any commit is one step of the abstract workspace, or none.              *)
LEMMA CommitIsAtomic ==
  ASSUME DeskInv, WorkspaceAssumption, NEW r \in Requests, Commit(r)
  PROVE  Atomic!Next \/ UNCHANGED Atomic!deskVars
<1> DEFINE x == tx[r].write
           held == [p \in Portfolios |-> holding[p].shares]
<1>1. x \in Write /\ Fits(x) /\ AtOnce(x)
  BY TxFields DEF DeskInv, AtWork, Applies, Commit
<1>2. /\ name' = CASE x.kind = "name" -> [name EXCEPT ![x.folder] = x.name]
                    [] x.kind = "delete" -> [name EXCEPT ![x.watchlist] = NoName]
                    [] OTHER -> name
      /\ archived' = IF x.kind = "archive" THEN archived \cup {x.portfolio} ELSE archived
      /\ holding' = IF x.kind = "trade" THEN [holding EXCEPT ![x.portfolio] = x.holding]
                    ELSE holding
      /\ items' = CASE x.kind = "order" ->
                         [items EXCEPT ![x.watchlist] = Applied(items[x.watchlist], x.order)]
                    [] x.kind = "delete" ->
                         [items EXCEPT ![x.watchlist] = [t \in Tickers |-> Unlisted]]
                    [] OTHER -> items
  BY DEF Commit, Applied
<1> HIDE DEF x
<1>3. items' = items => /\ [w \in Watchlists |-> Listed(w)'] = [w \in Watchlists |-> Listed(w)]
                        /\ [w \in Watchlists |-> [t \in Tickers |-> Before(w, t)']] =
                             [w \in Watchlists |-> [t \in Tickers |-> Before(w, t)]]
  BY DEF Listed, Before
<1>4. holding' = holding => [p \in Portfolios |-> holding'[p].shares] = held
  OBVIOUS
<1>5. CASE x.kind \in {"nothing", "picture", "settings"}
  <2>1. name' = name /\ archived' = archived /\ holding' = holding /\ items' = items
    BY <1>2, <1>5
  <2> QED BY <1>3, <1>4, <2>1 DEF Atomic!deskVars
<1>6. CASE x.kind = "trade"
  <2> DEFINE p == x.portfolio
  <2>1. /\ name' = name /\ archived' = archived /\ items' = items
        /\ holding' = [holding EXCEPT ![p] = x.holding]
    BY <1>2, <1>6
  <2>2. /\ p \in Portfolios /\ name[p] # NoName /\ p \notin archived
        /\ x.holding.shares \in Nat
    BY <1>1, <1>6, Kinds DEF Fits, AtOnce, LiveHolding
  <2>3. PICK q \in Quantities : x.holding.shares \in {held[p] + q, held[p] - q}
    BY <1>1, <1>6, <2>2 DEF AtOnce
  <2>4. [n \in Portfolios |-> holding'[n].shares] = [held EXCEPT ![p] = x.holding.shares]
    BY <2>1, <2>2 DEF DeskInv, TypeOK
  <2>5. x.holding.shares >= 0
    BY <2>2
  <2> HIDE DEF p
  <2>6. Atomic!Trade(p, q)
    BY <1>3, <2>1, <2>2, <2>3, <2>4, <2>5 DEF Atomic!Trade
  <2> QED BY <2>2, <2>6 DEF Atomic!Next
<1>7. CASE x.kind = "name"
  <2>1. /\ archived' = archived /\ holding' = holding /\ items' = items
        /\ name' = [name EXCEPT ![x.folder] = x.name]
    BY <1>2, <1>7
  <2>2. /\ x.folder \in Folders /\ x.name \in Names /\ x.folder \notin archived
        /\ ~Taken(x.folder, x.name)
    BY <1>1, <1>7, Kinds DEF Fits, AtOnce
  <2>3. \A g \in Folders \ {x.folder} :
          Atomic!Alike(x.folder, g) /\ name[g] # NoName => Lower[name[g]] # Lower[x.name]
    BY <2>2 DEF Taken, Siblings, Folders, Atomic!Alike
  <2>4. Atomic!Folders = Folders
    BY DEF Folders, Atomic!Folders
  <2>5. Atomic!Name(x.folder, x.name)
    BY <1>3, <1>4, <2>1, <2>2, <2>3, <2>4 DEF Atomic!Name
  <2> QED BY <2>2, <2>4, <2>5 DEF Atomic!Next
<1>8. CASE x.kind = "archive"
  <2>1. /\ name' = name /\ holding' = holding /\ items' = items
        /\ archived' = archived \cup {x.portfolio}
    BY <1>2, <1>8
  <2>2. /\ x.portfolio \in Portfolios /\ name[x.portfolio] # NoName
        /\ x.portfolio # MainPortfolio /\ x.portfolio \notin archived
    BY <1>1, <1>8, Kinds DEF Fits, AtOnce
  <2>3. Atomic!Close(x.portfolio)
    BY <1>3, <1>4, <2>1, <2>2 DEF Atomic!Close
  <2> QED BY <2>2, <2>3 DEF Atomic!Next
<1>9. CASE x.kind = "delete"
  <2> DEFINE w == x.watchlist
             none == [t \in Tickers |-> Unlisted]
  <2>1. /\ archived' = archived /\ holding' = holding
        /\ name' = [name EXCEPT ![w] = NoName] /\ items' = [items EXCEPT ![w] = none]
    BY <1>2, <1>9
  <2>2. w \in Watchlists /\ name[w] # NoName /\ w # MainWatchlist
    BY <1>1, <1>9, Kinds DEF AtOnce
  <2>3. Shown(none) = {} /\ Preceding(none) = Atomic!Nobody
    BY DEF Shown, Preceding, Atomic!Nobody
  <2> HIDE DEF w, none
  <2>4. /\ [v \in Watchlists |-> Listed(v)'] =
             [[v \in Watchlists |-> Listed(v)] EXCEPT ![w] = {}]
        /\ [v \in Watchlists |-> [t \in Tickers |-> Before(v, t)']] =
             [[v \in Watchlists |-> [t \in Tickers |-> Before(v, t)]] EXCEPT ![w] = Atomic!Nobody]
    BY <2>1, <2>2, <2>3, ListsMove
  <2>5. Atomic!Discard(w)
    BY <1>4, <2>1, <2>2, <2>4 DEF Atomic!Discard
  <2> QED BY <2>2, <2>5 DEF Atomic!Next
<1>10. CASE x.kind = "order"
  <2> DEFINE w == x.watchlist
             new == Applied(items[w], x.order)
  <2>1. /\ name' = name /\ archived' = archived /\ holding' = holding
        /\ items' = [items EXCEPT ![w] = new]
    BY <1>2, <1>10
  <2>2. /\ w \in Watchlists /\ name[w] # NoName /\ Apart(new) /\ Rearranged(items[w], new)
        /\ x.order \in [Tickers -> Nat \cup {Unlisted, Untouched}]
    BY <1>1, <1>10, Kinds DEF Fits, AtOnce
  <2>3. new \in [Tickers -> Nat \cup {Unlisted}]
    BY <2>2 DEF Applied, DeskInv, TypeOK
  <2> HIDE DEF w, new
  <2> QED BY <2>1, <2>2, <2>3, OrdersAreAtomic
<1> QED BY <1>1, <1>5, <1>6, <1>7, <1>8, <1>9, <1>10, Kinds

LEMMA StepIsAtomic ==
  ASSUME DeskInv, WorkspaceAssumption, [Next]_vars
  PROVE  Atomic!Next \/ UNCHANGED Atomic!deskVars
<1>1. CASE UNCHANGED rows
  BY <1>1 DEF rows, Atomic!deskVars, Listed, Before
<1>2. CASE \E r \in Requests : Commit(r)
  BY <1>2, CommitIsAtomic
<1>3. CASE \E r \in Requests : Begin(r) \/ Reread(r) \/ Rollback(r) \/ Route(r)
  <2>1. UNCHANGED rows
    BY <1>3 DEF Begin, Reread, Rollback, Route, Works
  <2> QED BY <1>1, <2>1
<1> QED BY <1>1, <1>2, <1>3, StepIs DEF vars

(* Whatever the number of tabs, folders and tickers, each commit does to   *)
(* the rows, as they are then, what its route would have done alone.       *)
THEOREM RoutesAtomic == Spec => RoutesAreAtomic
<1>1. Init => Atomic!Init
  <2> SUFFICES ASSUME Init PROVE Atomic!Init
    OBVIOUS
  <2>1. [p \in Portfolios |-> holding[p].shares] = [p \in Portfolios |-> 0]
    BY DEF Init, NoHolding
  <2>2. /\ [w \in Watchlists |-> Listed(w)] = [w \in Watchlists |-> {}]
        /\ [w \in Watchlists |-> [t \in Tickers |-> Before(w, t)]] =
             [w \in Watchlists |-> Atomic!Nobody]
    BY DEF Init, Listed, Before, Atomic!Nobody
  <2> QED BY <2>1, <2>2 DEF Init, Folders, Atomic!Init, Atomic!Folders
<1>2. DeskInv /\ [Next]_vars => [Atomic!Next]_Atomic!deskVars
  BY StepIsAtomic, WorkspaceAssumption
<1> QED BY <1>1, <1>2, DeskSafe, PTL DEF Spec, RoutesAreAtomic, Atomic!Spec

-----------------------------------------------------------------------------
(* A choice of the user is lost only to a request that was under way.      *)
THEOREM ChoicesStay == Spec => ChoicesKept
<1> DEFINE Kept(r) ==
      tx[r].pc = "working" /\ tx'[r].pc = "idle" =>
        /\ \A k \in Keys \ tx[r].missed :
             settings'[k] # settings[k] => tx[r].write.kind = "settings" /\ k \in tx[r].write.asked
        /\ picture' # picture /\ picture = "chosen" => "picture" \in tx[r].missed
<1>1. ASSUME DeskInv, [Next]_vars, NEW r \in Requests, tx[r].pc = "working", tx'[r].pc = "idle"
      PROVE  Kept(r)
  <2>1. CASE settings' = settings /\ picture' = picture
    BY <2>1
  <2>2. CASE ~(settings' = settings /\ picture' = picture)
    <3>1. PICK q \in Requests : Commit(q)
      <4>1. Next
        BY <1>1, <2>2 DEF vars, rows
      <4>2. PICK q \in Requests : Begin(q) \/ Reread(q) \/ Rollback(q) \/ Commit(q) \/ Route(q)
        BY <1>1, <4>1, StepIs, WorkspaceAssumption
      <4>3. ~UNCHANGED rows
        BY <2>2 DEF rows
      <4> QED BY <4>2, <4>3 DEF Begin, Reread, Rollback, Route, Works
    <3>2. tx[q].pc = "working"
      BY <3>1 DEF Commit
    <3>3. q = r
      BY <1>1, <3>2 DEF DeskInv, AtWork
    <3> DEFINE x == tx[r].write
    <3>4. /\ settings' = IF x.kind = "settings" THEN x.settings ELSE settings
          /\ picture' \in NextPicture(r)
      BY <3>1, <3>3 DEF Commit
    <3>5. /\ Keeps(x, tx[r].settings)
          /\ \A k \in Keys \ tx[r].missed : tx[r].settings[k] = settings[k]
          /\ "picture" \notin tx[r].missed => tx[r].picture = picture
      BY <1>1 DEF DeskInv, AtWork, Seen
    <3>6. ASSUME NEW k \in Keys \ tx[r].missed, settings'[k] # settings[k]
          PROVE  x.kind = "settings" /\ k \in x.asked
      BY <3>4, <3>5, <3>6 DEF Keeps
    <3>7. ASSUME picture' # picture, picture = "chosen" PROVE "picture" \in tx[r].missed
      BY <3>4, <3>5, <3>7 DEF NextPicture
    <3> QED BY <3>6, <3>7
  <2> QED BY <2>1, <2>2
<1>2. DeskInv /\ [Next]_vars => [\A r \in Requests : Kept(r)]_vars
  BY <1>1
<1>3. [\A r \in Requests : Kept(r)]_vars => [\A r \in Requests :
         tx[r].pc = "working" /\ tx'[r].pc = "idle" =>
           LET write == tx[r].write
           IN /\ \A k \in Keys \ tx[r].missed :
                   settings'[k] # settings[k] => write.kind = "settings" /\ k \in write.asked
              /\ picture' # picture /\ picture = "chosen" => "picture" \in tx[r].missed]_vars
  OBVIOUS
<1> QED BY <1>2, <1>3, DeskSafe, PTL DEF Spec, ChoicesKept

-----------------------------------------------------------------------------
(***************************************************************************)
(* The routes of Activity, with those of Workspace around them.            *)
(***************************************************************************)
(* Only the holder of the lock is at work, and only it has a draft.        *)
Exclusive ==
  \A r \in Requests :
    /\ tx[r].pc = "working" => holder = r
    /\ draft[r] # Nothing => tx[r].pc = "working"

Domains ==
  /\ DOMAIN tx = Requests /\ DOMAIN draft = Requests
  /\ \A r \in Requests : DOMAIN tx[r] = {"pc", "settings", "picture", "write", "missed"}
  /\ DOMAIN name = Folders /\ DOMAIN holding = Portfolios
  /\ DOMAIN position = Contracts /\ DOMAIN note = Portfolios

(* What the routes of Workspace that occur here may still write.           *)
WriteHolds(w) ==
  \/ w = Nothing
  \/ \E p \in Portfolios \ archived :
       \/ name[p] # NoName /\ w = [kind |-> "archive", portfolio |-> p]
       \/ \E n : w = [kind |-> "name", folder |-> p, name |-> n]
       \/ \E h, delta, cash : w = [kind |-> "trade", portfolio |-> p, holding |-> h,
                                   delta |-> delta, cash |-> cash]

(* What a draft says is based on the rows as they are.                     *)
DraftHolds(d) ==
  \/ d = Nothing
  \/ \E c \in Contracts, p \in Portfolios \ archived : \E terms :
       /\ position[c] = Absent
       /\ d = [kind |-> "open", contract |-> c, portfolio |-> p, terms |-> terms]
  \/ \E c \in Contracts : \E terms :
       position[c].open /\ d = [kind |-> "terms", contract |-> c, terms |-> terms]
  \/ \E c \in Contracts : position[c].open /\ d = [kind |-> "close", contract |-> c]
  \/ \E p \in Portfolios \ archived : \E text :
       d = [kind |-> "note", portfolio |-> p, text |-> text]
  \/ \E row : d = [kind |-> "keep", row |-> row]
  \/ \E row : d = [kind |-> "drop", row |-> row]
  \/ \E table, t : d = [kind |-> "count", table |-> table, ticker |-> t,
                        count |-> count[table][t] + 1]

Current ==
  \A r \in Requests : tx[r].pc = "working" => WriteHolds(tx[r].write) /\ DraftHolds(draft[r])

(* An archived portfolio exists, so its name is never given to a new one.  *)
Archives == archived \subseteq Portfolios /\ \A p \in archived : name[p] # NoName

ActInv == Domains /\ Exclusive /\ Current /\ Archives /\ CountsComplete

actVars == <<vars, activityVars>>

-----------------------------------------------------------------------------
LEMMA Start ==
  ASSUME WorkspaceAssumption, Init, ActivityInit
  PROVE  ActInv
<1>1. Domains
  BY DEF WorkspaceAssumption, Init, ActivityInit, Domains, IdleTx, Folders
<1>2. Exclusive /\ Current
  BY DEF Init, ActivityInit, Exclusive, Current, IdleTx, Nothing
<1>3. Archives /\ CountsComplete
  BY DEF Init, ActivityInit, Archives, CountsComplete
<1> QED BY <1>1, <1>2, <1>3 DEF ActInv

(* Writes and drafts depend on the rows only.                              *)
LEMMA HoldsStay ==
  ASSUME UNCHANGED <<rows, activity>>
  PROVE  /\ \A w : WriteHolds(w) => WriteHolds(w)'
         /\ \A d : DraftHolds(d) => DraftHolds(d)'
<1>1. name' = name /\ archived' = archived /\ position' = position /\ count' = count
  BY DEF rows, activity
<1>2. ASSUME NEW w, WriteHolds(w) PROVE WriteHolds(w)'
  BY <1>1, <1>2 DEF WriteHolds
<1>3. ASSUME NEW d, DraftHolds(d) PROVE DraftHolds(d)'
  BY <1>1, <1>3 DEF DraftHolds
<1> QED BY <1>2, <1>3

(* A route takes the lock: nobody is at work, so nobody has a draft.       *)
LEMMA TakesLock ==
  ASSUME ActInv, WorkspaceAssumption, NEW r \in Requests, NEW write, NEW d, Works(r, write),
         WriteHolds(write), DraftHolds(d), UNCHANGED activity,
         DOMAIN draft' = Requests, draft'[r] = d,
         \A q \in Requests : q # r => draft'[q] = draft[q]
  PROVE  ActInv'
<1>1. \A q \in Requests : tx[q].pc # "working" /\ draft[q] = Nothing
  BY DEF ActInv, Exclusive, Works, Locks, WorkspaceAssumption
<1>2. /\ tx' = [tx EXCEPT ![r] = [tx[r] EXCEPT !.pc = "working", !.write = write]]
      /\ holder' = r
  BY DEF Works
<1>3. \A q \in Requests : q # r => tx'[q] = tx[q] /\ draft'[q] = draft[q]
  BY <1>2 DEF ActInv, Domains
<1>4. tx'[r].pc = "working" /\ tx'[r].write = write /\ draft'[r] = d
  BY <1>2 DEF ActInv, Domains
<1>5. UNCHANGED <<rows, activity>>
  BY DEF Works
<1>6. Domains'
  BY <1>2, <1>5 DEF ActInv, Domains, rows, activity
<1>7. Exclusive'
  BY <1>1, <1>2, <1>3, <1>4 DEF Exclusive
<1>8. WriteHolds(write)' /\ DraftHolds(d)'
  BY <1>5, HoldsStay
<1>9. Current'
  <2> SUFFICES ASSUME NEW q \in Requests, tx'[q].pc = "working"
               PROVE  WriteHolds(tx[q].write)' /\ DraftHolds(draft[q])'
    BY DEF Current
  <2>1. q = r
    BY <1>1, <1>3
  <2> QED BY <1>4, <1>8, <2>1
<1> QED BY <1>5, <1>6, <1>7, <1>9 DEF ActInv, Archives, CountsComplete, rows, activity

(* Another request moves without the lock, and keeps no draft.             *)
LEMMA WaitsOrGivesUp ==
  ASSUME ActInv, WorkspaceAssumption, NEW r \in Requests, NEW x,
         x.pc # "working", DOMAIN x = {"pc", "settings", "picture", "write", "missed"},
         tx' = [tx EXCEPT ![r] = x], UNCHANGED <<rows, activity>>,
         DOMAIN draft' = Requests, draft'[r] = Nothing,
         \A q \in Requests : q # r => draft'[q] = draft[q],
         holder' = holder \/ holder = r
  PROVE  ActInv'
<1>1. \A q \in Requests : q # r => tx'[q] = tx[q] /\ draft'[q] = draft[q]
  BY DEF ActInv, Domains
<1>2. tx'[r] = x /\ tx'[r].pc # "working"
  BY DEF ActInv, Domains
<1>3. Domains'
  BY DEF ActInv, Domains, rows, activity
<1>4. Exclusive'
  BY <1>1, <1>2 DEF ActInv, Exclusive
<1>5. Current'
  <2> SUFFICES ASSUME NEW q \in Requests, tx'[q].pc = "working"
               PROVE  WriteHolds(tx[q].write)' /\ DraftHolds(draft[q])'
    BY DEF Current
  <2>1. q # r
    BY <1>2
  <2>2. tx'[q] = tx[q] /\ draft'[q] = draft[q]
    BY <1>1, <2>1
  <2>3. WriteHolds(tx[q].write) /\ DraftHolds(draft[q])
    BY <2>2 DEF ActInv, Current
  <2> QED BY <2>2, <2>3, HoldsStay
<1> QED BY <1>3, <1>4, <1>5 DEF ActInv, Archives, CountsComplete, rows, activity

LEMMA ReadsProfile ==
  ASSUME ActInv, WorkspaceAssumption, NEW r \in Requests, Begin(r) \/ Reread(r),
         UNCHANGED activityVars
  PROVE  ActInv'
<1>1. PICK pc \in {"waiting", "inserting"} : tx' = [tx EXCEPT ![r] = Snapshot(pc)]
  BY DEF Begin, Reread
<1>2. tx[r].pc # "working"
  BY DEF Begin, Reread
<1>3. draft[r] = Nothing
  BY <1>2 DEF ActInv, Exclusive
<1>4. /\ Snapshot(pc).pc # "working"
      /\ DOMAIN Snapshot(pc) = {"pc", "settings", "picture", "write", "missed"}
  BY DEF Snapshot, IdleTx
<1>5. UNCHANGED <<rows, activity, holder, draft>>
  BY DEF Begin, Reread, activityVars
<1> HIDE DEF Snapshot
<1> QED BY <1>1, <1>3, <1>4, <1>5, WaitsOrGivesUp DEF ActInv, Domains

LEMMA GivesUp ==
  ASSUME ActInv, WorkspaceAssumption, NEW r \in Requests, RollbackDraft(r)
  PROVE  ActInv'
<1>1. /\ tx' = [tx EXCEPT ![r] = IdleTx]
      /\ UNCHANGED <<rows, activity>>
      /\ draft' = [draft EXCEPT ![r] = Nothing]
      /\ holder' = holder \/ holder = r
  BY DEF RollbackDraft, Rollback
<1>2. IdleTx.pc # "working" /\ DOMAIN IdleTx = {"pc", "settings", "picture", "write", "missed"}
  BY DEF IdleTx
<1>3. /\ DOMAIN draft' = Requests /\ draft'[r] = Nothing
      /\ \A q \in Requests : q # r => draft'[q] = draft[q]
  BY <1>1 DEF ActInv, Domains
<1> QED BY <1>1, <1>2, <1>3, WaitsOrGivesUp

-----------------------------------------------------------------------------
(***************************************************************************)
(* The commit: nobody else was at work, so what it writes is based on the  *)
(* rows as they are.                                                       *)
(***************************************************************************)
(* Every request but the one that commits is without the lock.             *)
LEMMA OthersWait ==
  ASSUME ActInv, WorkspaceAssumption, NEW r \in Requests, CommitDraft(r)
  PROVE  /\ \A q \in Requests : tx'[q].pc # "working" /\ draft'[q] = Nothing
         /\ DOMAIN tx' = Requests /\ DOMAIN draft' = Requests
         /\ \A q \in Requests : DOMAIN tx'[q] = {"pc", "settings", "picture", "write", "missed"}
<1>1. /\ tx[r].pc = "working" /\ draft' = [draft EXCEPT ![r] = Nothing]
      /\ tx' = [q \in Requests |->
                 CASE q = r -> IdleTx
                   [] q # r /\ tx[q].pc = "idle" -> tx[q]
                   [] OTHER -> [tx[q] EXCEPT !.missed = @ \cup Missing(r)]]
  BY DEF CommitDraft, Commit
<1>2. \A q \in Requests : q # r => tx[q].pc # "working" /\ draft[q] = Nothing
  BY <1>1 DEF ActInv, Exclusive
<1>3. IdleTx.pc # "working" /\ DOMAIN IdleTx = {"pc", "settings", "picture", "write", "missed"}
  BY DEF IdleTx
<1> HIDE DEF IdleTx
<1>4. ASSUME NEW q \in Requests
      PROVE  /\ tx'[q].pc # "working"
             /\ DOMAIN tx'[q] = {"pc", "settings", "picture", "write", "missed"}
  <2>1. CASE q = r
    BY <1>1, <1>3, <2>1
  <2>2. CASE q # r /\ tx[q].pc = "idle"
    BY <1>1, <2>2 DEF ActInv, Domains
  <2>3. CASE q # r /\ tx[q].pc # "idle"
    <3>1. tx'[q] = [tx[q] EXCEPT !.missed = @ \cup Missing(r)]
      BY <1>1, <2>3
    <3> QED BY <1>2, <2>3, <3>1 DEF ActInv, Domains
  <2> QED BY <2>1, <2>2, <2>3
<1>5. \A q \in Requests : draft'[q] = Nothing
  BY <1>1, <1>2 DEF ActInv, Domains
<1> QED BY <1>1, <1>4, <1>5 DEF ActInv, Domains

(* What the writes of Workspace do to names, holdings and archives.        *)
LEMMA WorkspaceRows ==
  ASSUME ActInv, WorkspaceAssumption, NEW r \in Requests, Commit(r)
  PROVE  /\ DOMAIN name' = Folders /\ DOMAIN holding' = Portfolios
         /\ Archives'
         /\ \A p \in archived : holding'[p] = holding[p] /\ name'[p] = name[p]
<1> DEFINE w == tx[r].write
<1>1. WriteHolds(w)
  BY DEF ActInv, Current, Commit
<1>2. CASE w = Nothing
  <2>1. w.kind = "nothing"
    BY <1>2 DEF Nothing
  <2>2. UNCHANGED <<name, holding, archived>>
    BY <2>1 DEF Commit
  <2> QED BY <2>2 DEF ActInv, Domains, Archives
<1>3. CASE w # Nothing
  <2>1. PICK p \in Portfolios \ archived :
          \/ name[p] # NoName /\ w = [kind |-> "archive", portfolio |-> p]
          \/ \E n : w = [kind |-> "name", folder |-> p, name |-> n]
          \/ \E h, delta, cash : w = [kind |-> "trade", portfolio |-> p, holding |-> h,
                                      delta |-> delta, cash |-> cash]
    BY <1>1, <1>3 DEF WriteHolds
  <2>2. CASE name[p] # NoName /\ w = [kind |-> "archive", portfolio |-> p]
    <3>1. archived' = archived \cup {p} /\ UNCHANGED <<name, holding>>
      BY <2>2 DEF Commit
    <3> QED BY <2>2, <3>1 DEF ActInv, Domains, Archives
  <2>3. CASE \E n : w = [kind |-> "name", folder |-> p, name |-> n]
    <3>1. PICK n : w = [kind |-> "name", folder |-> p, name |-> n]
      BY <2>3
    <3>2. name' = [name EXCEPT ![p] = n] /\ UNCHANGED <<archived, holding>>
      BY <3>1 DEF Commit
    <3> QED BY <3>2 DEF ActInv, Domains, Archives, Folders, WorkspaceAssumption
  <2>4. CASE \E h, delta, cash : w = [kind |-> "trade", portfolio |-> p, holding |-> h,
                                      delta |-> delta, cash |-> cash]
    <3>1. PICK h, delta, cash : w = [kind |-> "trade", portfolio |-> p, holding |-> h,
                                     delta |-> delta, cash |-> cash]
      BY <2>4
    <3>2. holding' = [holding EXCEPT ![p] = h] /\ UNCHANGED <<archived, name>>
      BY <3>1 DEF Commit
    <3> QED BY <3>2 DEF ActInv, Domains, Archives, Folders
  <2> QED BY <2>1, <2>2, <2>3, <2>4
<1> QED BY <1>2, <1>3

(* What a draft does to contracts, notes and counts: it ends nothing that  *)
(* was ended, and a count grows by what was asked.                         *)
Final(c) ==
  /\ position[c] # Absent /\ ~position[c].open => position'[c] = position[c]
  /\ position[c] = Absent /\ position'[c] # Absent => position'[c].portfolio \notin archived

Settled ==
  /\ \A c \in Contracts : Final(c)
  /\ \A p \in archived : note'[p] = note[p]

LEMMA DraftRows ==
  ASSUME ActInv, WorkspaceAssumption, NEW r \in Requests, CommitDraft(r)
  PROVE  /\ DOMAIN position' = Contracts /\ DOMAIN note' = Portfolios
         /\ CountsComplete'
         /\ Settled
<1> DEFINE d == draft[r]
<1>1. DraftHolds(d)
  BY DEF ActInv, Current, CommitDraft, Commit
<1>2. ASSUME UNCHANGED <<position, note>>, count' = asked'
      PROVE  /\ DOMAIN position' = Contracts /\ DOMAIN note' = Portfolios
             /\ CountsComplete' /\ Settled
  BY <1>2 DEF ActInv, Domains, CountsComplete, Settled, Final
<1>3. ASSUME UNCHANGED <<note, count, asked>>, NEW c \in Contracts, NEW x,
             position' = [position EXCEPT ![c] = x],
             \/ position[c].open
             \/ position[c] = Absent /\ x.portfolio \notin archived
      PROVE  /\ DOMAIN position' = Contracts /\ DOMAIN note' = Portfolios
             /\ CountsComplete' /\ Settled
  <2>1. ~Absent.open
    BY DEF Absent
  <2>2. \A e \in Contracts : e # c => position'[e] = position[e]
    BY <1>3 DEF ActInv, Domains
  <2>3. position'[c] = x
    BY <1>3 DEF ActInv, Domains
  <2>4. ASSUME NEW e \in Contracts PROVE Final(e)
    <3>1. CASE e # c
      BY <2>2, <3>1 DEF Final
    <3>2. CASE e = c
      BY <1>3, <2>1, <2>3, <3>2 DEF Final
    <3> QED BY <3>1, <3>2
  <2>5. \A p \in archived : note'[p] = note[p]
    BY <1>3
  <2>6. DOMAIN position' = Contracts /\ DOMAIN note' = Portfolios /\ CountsComplete'
    BY <1>3 DEF ActInv, Domains, CountsComplete
  <2> QED BY <2>4, <2>5, <2>6 DEF Settled
<1>4. CASE d = Nothing
  <2>1. d.kind = "nothing"
    BY <1>4 DEF Nothing
  <2>2. UNCHANGED <<position, note, count, asked>>
    BY <2>1 DEF CommitDraft
  <2> QED BY <1>2, <2>2 DEF ActInv, CountsComplete
<1>5. CASE \E c \in Contracts, p \in Portfolios \ archived : \E terms :
             /\ position[c] = Absent
             /\ d = [kind |-> "open", contract |-> c, portfolio |-> p, terms |-> terms]
  <2>1. PICK c \in Contracts, p \in Portfolios \ archived : \E terms :
          /\ position[c] = Absent
          /\ d = [kind |-> "open", contract |-> c, portfolio |-> p, terms |-> terms]
    BY <1>5
  <2>2. PICK terms : d = [kind |-> "open", contract |-> c, portfolio |-> p, terms |-> terms]
    BY <2>1
  <2> DEFINE x == [portfolio |-> p, open |-> TRUE, terms |-> terms]
  <2>3. position' = [position EXCEPT ![c] = x] /\ UNCHANGED <<note, count, asked>>
    BY <2>2 DEF CommitDraft
  <2>4. x.portfolio \notin archived
    BY <2>1
  <2> HIDE DEF x
  <2> QED BY <1>3, <2>1, <2>3, <2>4
<1>6. CASE \E c \in Contracts : \E terms :
             position[c].open /\ d = [kind |-> "terms", contract |-> c, terms |-> terms]
  <2>1. PICK c \in Contracts : \E terms :
          position[c].open /\ d = [kind |-> "terms", contract |-> c, terms |-> terms]
    BY <1>6
  <2>2. PICK terms : d = [kind |-> "terms", contract |-> c, terms |-> terms]
    BY <2>1
  <2> DEFINE x == [position[c] EXCEPT !.terms = terms]
  <2>3. position' = [position EXCEPT ![c] = x] /\ UNCHANGED <<note, count, asked>>
    BY <2>2 DEF CommitDraft
  <2> HIDE DEF x
  <2> QED BY <1>3, <2>1, <2>3
<1>7. CASE \E c \in Contracts : position[c].open /\ d = [kind |-> "close", contract |-> c]
  <2>1. PICK c \in Contracts : position[c].open /\ d = [kind |-> "close", contract |-> c]
    BY <1>7
  <2> DEFINE x == [position[c] EXCEPT !.open = FALSE]
  <2>2. position' = [position EXCEPT ![c] = x] /\ UNCHANGED <<note, count, asked>>
    BY <2>1 DEF CommitDraft
  <2> HIDE DEF x
  <2> QED BY <1>3, <2>1, <2>2
<1>8. CASE \E p \in Portfolios \ archived : \E text :
             d = [kind |-> "note", portfolio |-> p, text |-> text]
  <2>1. PICK p \in Portfolios \ archived : \E text :
          d = [kind |-> "note", portfolio |-> p, text |-> text]
    BY <1>8
  <2>2. PICK text : d = [kind |-> "note", portfolio |-> p, text |-> text]
    BY <2>1
  <2>3. note' = [note EXCEPT ![p] = text] /\ UNCHANGED <<position, count, asked>>
    BY <2>2 DEF CommitDraft
  <2>4. \A q \in archived : note'[q] = note[q]
    BY <2>3 DEF ActInv, Domains, Archives
  <2> QED BY <2>3, <2>4 DEF ActInv, Domains, CountsComplete, Settled, Final
<1>9. CASE (\E row : d = [kind |-> "keep", row |-> row])
           \/ (\E row : d = [kind |-> "drop", row |-> row])
  <2>1. d.kind = "keep" \/ d.kind = "drop"
    <3>1. CASE \E row : d = [kind |-> "keep", row |-> row]
      BY <3>1
    <3>2. CASE \E row : d = [kind |-> "drop", row |-> row]
      BY <3>2
    <3> QED BY <1>9, <3>1, <3>2
  <2>2. UNCHANGED <<position, note, count, asked>>
    BY <2>1 DEF CommitDraft
  <2> QED BY <1>2, <2>2 DEF ActInv, CountsComplete
<1>10. CASE \E table, t : d = [kind |-> "count", table |-> table, ticker |-> t,
                               count |-> count[table][t] + 1]
  <2>1. PICK table, t : d = [kind |-> "count", table |-> table, ticker |-> t,
                             count |-> count[table][t] + 1]
    BY <1>10
  <2>2. /\ UNCHANGED <<position, note>>
        /\ count' = [count EXCEPT ![table][t] = count[table][t] + 1]
        /\ asked' = [asked EXCEPT ![table][t] = asked[table][t] + 1]
    BY <2>1 DEF CommitDraft
  <2> QED BY <1>2, <2>2 DEF ActInv, CountsComplete
<1> QED BY <1>1, <1>4, <1>5, <1>6, <1>7, <1>8, <1>9, <1>10 DEF DraftHolds

LEMMA Commits ==
  ASSUME ActInv, WorkspaceAssumption, NEW r \in Requests, CommitDraft(r)
  PROVE  ActInv'
<1>1. Commit(r)
  BY DEF CommitDraft
<1>2. Domains'
  BY <1>1, OthersWait, WorkspaceRows, DraftRows DEF Domains
<1>3. Exclusive' /\ Current'
  BY OthersWait DEF Exclusive, Current
<1>4. Archives' /\ CountsComplete'
  BY <1>1, WorkspaceRows, DraftRows
<1> QED BY <1>2, <1>3, <1>4 DEF ActInv

-----------------------------------------------------------------------------
(***************************************************************************)
(* The routes.                                                             *)
(***************************************************************************)
LEMMA DraftsOn ==
  ASSUME ActInv, WorkspaceAssumption, NEW r \in Requests, NEW d, Drafts(r, d), DraftHolds(d)
  PROVE  ActInv'
<1>1. Works(r, Nothing) /\ draft' = [draft EXCEPT ![r] = d] /\ UNCHANGED activity
  BY DEF Drafts
<1>2. WriteHolds(Nothing)
  BY DEF WriteHolds
<1>3. /\ DOMAIN draft' = Requests /\ draft'[r] = d
      /\ \A q \in Requests : q # r => draft'[q] = draft[q]
  BY <1>1 DEF ActInv, Domains
<1> QED BY <1>1, <1>2, <1>3, TakesLock

(* A route of Workspace that writes w: it has no draft.                    *)
LEMMA WorksOn ==
  ASSUME ActInv, WorkspaceAssumption, NEW r \in Requests, NEW w, Works(r, w), WriteHolds(w),
         UNCHANGED activityVars
  PROVE  ActInv'
<1>1. draft[r] = Nothing
  BY DEF ActInv, Exclusive, Works, Locks, WorkspaceAssumption
<1>2. DraftHolds(Nothing)
  BY DEF DraftHolds
<1>3. UNCHANGED <<draft, activity>>
  BY DEF activityVars
<1> QED BY <1>1, <1>2, <1>3, TakesLock DEF ActInv, Domains

LEMMA WorkspaceRoutes ==
  ASSUME ActInv, WorkspaceAssumption, NEW r \in Requests, Around(r)
  PROVE  ActInv'
<1>1. CASE Begin(r) \/ Reread(r)
  BY <1>1, ReadsProfile DEF Around
<1>2. ASSUME NEW p \in Portfolios, NEW n, CreatePortfolio(r, p, n)
      PROVE  ActInv'
  <2> DEFINE w == [kind |-> "name", folder |-> p, name |-> n]
  <2>1. Works(r, w) /\ name[p] = NoName
    BY <1>2 DEF CreatePortfolio, Named
  <2>2. WriteHolds(w)
    BY <2>1 DEF WriteHolds, ActInv, Archives
  <2> HIDE DEF w
  <2> QED BY <2>1, <2>2, WorksOn DEF Around
<1>3. ASSUME NEW p \in Portfolios, Archive(r, p)
      PROVE  ActInv'
  <2> DEFINE w == [kind |-> "archive", portfolio |-> p]
  <2>1. Works(r, w) /\ p \notin archived /\ name[p] # NoName
    BY <1>3 DEF Archive
  <2>2. WriteHolds(w)
    BY <2>1 DEF WriteHolds
  <2> HIDE DEF w
  <2> QED BY <2>1, <2>2, WorksOn DEF Around
<1>4. ASSUME NEW p \in Portfolios, NEW shares, NEW price, Buy(r, p, shares, price)
      PROVE  ActInv'
  <2>1. PICK h, delta, cash :
          /\ Works(r, [kind |-> "trade", portfolio |-> p, holding |-> h,
                       delta |-> delta, cash |-> cash])
          /\ p \notin archived
    BY <1>4 DEF Buy, Trade
  <2> DEFINE w == [kind |-> "trade", portfolio |-> p, holding |-> h,
                   delta |-> delta, cash |-> cash]
  <2>2. WriteHolds(w)
    BY <2>1 DEF WriteHolds
  <2>3. Works(r, w)
    BY <2>1
  <2> HIDE DEF w
  <2> QED BY <2>2, <2>3, WorksOn DEF Around
<1> QED BY <1>1, <1>2, <1>3, <1>4 DEF Around

LEMMA Steps ==
  ASSUME ActInv, WorkspaceAssumption, [ActivityNext]_actVars
  PROVE  ActInv'
<1>1. ASSUME NEW r \in Requests, NEW t, NEW table, Touch(r, table, t)
      PROVE  ActInv'
  <2> DEFINE d == [kind |-> "count", table |-> table, ticker |-> t,
                   count |-> count[table][t] + 1]
  <2>1. Drafts(r, d)
    BY <1>1 DEF Touch
  <2>2. DraftHolds(d)
    BY DEF DraftHolds
  <2> HIDE DEF d
  <2> QED BY <2>1, <2>2, DraftsOn
<1>2. ASSUME NEW r \in Requests, NEW c \in Contracts, NEW p \in Portfolios, NEW terms,
             OpenContract(r, c, p, terms)
      PROVE  ActInv'
  <2> DEFINE d == [kind |-> "open", contract |-> c, portfolio |-> p, terms |-> terms]
  <2>1. Drafts(r, d) /\ position[c] = Absent /\ p \notin archived
    BY <1>2 DEF OpenContract
  <2>2. DraftHolds(d)
    BY <2>1 DEF DraftHolds
  <2> HIDE DEF d
  <2> QED BY <2>1, <2>2, DraftsOn
<1>3. ASSUME NEW r \in Requests, NEW c \in Contracts, NEW terms, EditContract(r, c, terms)
      PROVE  ActInv'
  <2> DEFINE d == [kind |-> "terms", contract |-> c, terms |-> terms]
  <2>1. Drafts(r, d) /\ position[c].open
    BY <1>3 DEF EditContract
  <2>2. DraftHolds(d)
    BY <2>1 DEF DraftHolds
  <2> HIDE DEF d
  <2> QED BY <2>1, <2>2, DraftsOn
<1>4. ASSUME NEW r \in Requests, NEW c \in Contracts, CloseContract(r, c)
      PROVE  ActInv'
  <2> DEFINE d == [kind |-> "close", contract |-> c]
  <2>1. Drafts(r, d) /\ position[c].open
    BY <1>4 DEF CloseContract
  <2>2. DraftHolds(d)
    BY <2>1 DEF DraftHolds
  <2> HIDE DEF d
  <2> QED BY <2>1, <2>2, DraftsOn
<1>5. ASSUME NEW r \in Requests, NEW p \in Portfolios, NEW text, SetNote(r, p, text)
      PROVE  ActInv'
  <2> DEFINE d == [kind |-> "note", portfolio |-> p, text |-> text]
  <2>1. Drafts(r, d) /\ p \notin archived
    BY <1>5 DEF SetNote
  <2>2. DraftHolds(d)
    BY <2>1 DEF DraftHolds
  <2> HIDE DEF d
  <2> QED BY <2>1, <2>2, DraftsOn
<1>6. ASSUME NEW r \in Requests, NEW row,
             \/ Drafts(r, Nothing)
             \/ Drafts(r, [kind |-> "keep", row |-> row])
             \/ Drafts(r, [kind |-> "drop", row |-> row])
      PROVE  ActInv'
  <2>1. /\ DraftHolds(Nothing)
        /\ DraftHolds([kind |-> "keep", row |-> row])
        /\ DraftHolds([kind |-> "drop", row |-> row])
    BY DEF DraftHolds
  <2> QED BY <1>6, <2>1, DraftsOn
<1>7. ASSUME NEW r \in Requests, NEW t \in Tickers, AddFavorite(r, t) \/ RemoveFavorite(r, t)
      PROVE  ActInv'
  BY <1>6, <1>7 DEF AddFavorite, RemoveFavorite
<1>8. ASSUME NEW r \in Requests, NEW e, SaveSimulation(r, e) \/ DropSimulation(r, e)
      PROVE  ActInv'
  BY <1>6, <1>8 DEF SaveSimulation, DropSimulation
<1>9. ASSUME NEW r \in Requests, Overview(r)
      PROVE  ActInv'
  BY <1>6, <1>9 DEF Overview
<1>10. CASE UNCHANGED actVars
  <2>1. UNCHANGED <<rows, activity, holder, tx, draft>>
    BY <1>10 DEF actVars, vars, activityVars
  <2>2. Current'
    BY <2>1, HoldsStay DEF ActInv, Current
  <2> QED BY <2>1, <2>2 DEF ActInv, Domains, Exclusive, Archives, CountsComplete, rows, activity
<1> QED BY <1>1, <1>2, <1>3, <1>4, <1>5, <1>7, <1>8, <1>9, <1>10,
           WorkspaceRoutes, Commits, GivesUp DEF ActivityNext, Search, View

LEMMA Always == ActivitySpec => []ActInv
<1> QED BY Start, Steps, WorkspaceAssumption, PTL DEF ActivitySpec, actVars

-----------------------------------------------------------------------------
(* The counts are those that were asked for: no search and no view that    *)
(* was answered is lost, whatever other tabs do.                           *)
THEOREM NoCountLost == ActivitySpec => []CountsComplete
<1>1. ActInv => CountsComplete
  BY DEF ActInv
<1> QED BY <1>1, Always, PTL

(* A closed contract and an archived portfolio never change again.         *)
THEOREM FinalStays == ActivitySpec => ClosedIsFinal
<1> DEFINE AsItWas ==
      /\ \A c \in Contracts :
           /\ position[c] # Absent /\ ~position[c].open => position'[c] = position[c]
           /\ position[c] = Absent /\ position'[c] # Absent
                => position'[c].portfolio \notin archived
      /\ \A p \in archived :
           note'[p] = note[p] /\ holding'[p] = holding[p] /\ name'[p] = name[p]
<1>1. ASSUME ActInv, [ActivityNext]_actVars, WorkspaceAssumption PROVE AsItWas
  <2>1. CASE UNCHANGED <<rows, activity>>
    BY <2>1 DEF rows, activity
  <2>2. ASSUME NEW r \in Requests, CommitDraft(r) PROVE AsItWas
    <3>1. Commit(r)
      BY <2>2 DEF CommitDraft
    <3>2. \A p \in archived : holding'[p] = holding[p] /\ name'[p] = name[p]
      BY <1>1, <3>1, WorkspaceRows
    <3>3. Settled
      BY <1>1, <2>2, DraftRows
    <3> QED BY <3>2, <3>3 DEF Settled, Final
  <2>3. \/ UNCHANGED <<rows, activity>>
        \/ \E r \in Requests : CommitDraft(r)
    <3>1. ASSUME NEW r \in Requests, NEW d, Drafts(r, d) PROVE UNCHANGED <<rows, activity>>
      BY <3>1 DEF Drafts, Works
    <3>2. ASSUME NEW r \in Requests, Around(r) PROVE UNCHANGED <<rows, activity>>
      BY <3>2 DEF Around, Begin, Reread, CreatePortfolio, Named, Archive, Buy, Trade, Works,
                  activityVars
    <3>3. ASSUME NEW r \in Requests, RollbackDraft(r) PROVE UNCHANGED <<rows, activity>>
      BY <3>3 DEF RollbackDraft, Rollback
    <3>4. CASE UNCHANGED actVars
      BY <3>4 DEF actVars, vars, activityVars
    <3> QED BY <1>1, <3>1, <3>2, <3>3, <3>4
            DEF ActivityNext, OpenContract, EditContract, CloseContract, SetNote, AddFavorite,
                RemoveFavorite, SaveSimulation, DropSimulation, Touch, Search, View, Overview
  <2> QED BY <2>1, <2>2, <2>3
<1> QED BY <1>1, Always, WorkspaceAssumption, PTL DEF ActivitySpec, ClosedIsFinal, actVars

-----------------------------------------------------------------------------
(***************************************************************************)
(* The lists of LegacyBook.                                                *)
(***************************************************************************)
(* A list without repetition.                                              *)
Plain(list) == \A i, k \in DOMAIN list : list[i] = list[k] => i = k

(* Filtering keeps what is not gone, and introduces no repetition: counting *)
(* the places before a place numbers the places that are kept.             *)
LEMMA WithoutEffect ==
  ASSUME NEW S, NEW list \in Seq(S), NEW gone
  PROVE  /\ Without(list, gone) \in Seq(S)
         /\ ToSet(Without(list, gone)) = ToSet(list) \ gone
         /\ Plain(list) => Plain(Without(list, gone))
<1> DEFINE places == {i \in DOMAIN list : list[i] \notin gone}
           below(i) == {j \in places : j < i}
           Earlier(i) == Cardinality(below(i))
           N == Cardinality(places)
           place(n) == CHOOSE i \in places : Earlier(i) = n - 1
           rank == [i \in places |-> Earlier(i)]
<1>1. places \subseteq Nat /\ IsFiniteSet(places) /\ N \in Nat
  <2>1. DOMAIN list = 1..Len(list) /\ Len(list) \in Nat
    OBVIOUS
  <2>2. IsFiniteSet(1..Len(list))
    BY <2>1, FS_Interval
  <2>3. places \subseteq 1..Len(list)
    BY <2>1
  <2> QED BY <2>1, <2>2, <2>3, FS_Subset, FS_CardinalityType
<1>2. \A i \in places : IsFiniteSet(below(i)) /\ Earlier(i) \in 0 .. N - 1
  <2> TAKE i \in places
  <2>1. below(i) \subseteq places \ {i}
    BY <1>1
  <2>2. IsFiniteSet(places \ {i}) /\ Cardinality(places \ {i}) = N - 1
    BY <1>1, FS_RemoveElement
  <2>3. IsFiniteSet(below(i)) /\ Cardinality(below(i)) <= N - 1
    BY <2>1, <2>2, FS_Subset
  <2>4. Earlier(i) \in Nat
    BY <2>3, FS_CardinalityType
  <2> QED BY <1>1, <2>3, <2>4
<1>3. \A i, k \in places : i < k => Earlier(i) < Earlier(k)
  <2> TAKE i \in places, k \in places
  <2> HAVE i < k
  <2>1. below(i) \cup {i} \subseteq below(k) /\ i \notin below(i)
    BY <1>1
  <2>2. Cardinality(below(i) \cup {i}) = Earlier(i) + 1
    BY <1>2, <2>1, FS_AddElement
  <2>3. Cardinality(below(i) \cup {i}) <= Earlier(k)
    BY <1>2, <2>1, FS_Subset
  <2> HIDE DEF Earlier, below, places, N
  <2> QED BY <1>2, <2>2, <2>3
<1>4. \A i, k \in places : Earlier(i) = Earlier(k) => i = k
  <2> HIDE DEF Earlier, below, places, N
  <2> QED BY <1>1, <1>2, <1>3
<1>5. \A n \in 1..N : \E i \in places : Earlier(i) = n - 1
  <2>1. rank \in Injection(places, 0 .. N - 1)
    <3> HIDE DEF Earlier, places
    <3>1. rank \in [places -> 0 .. N - 1]
      BY <1>2
    <3> QED BY <1>4, <3>1 DEF Injection, IsInjective
  <2>2. IsFiniteSet(0 .. N - 1) /\ Cardinality(0 .. N - 1) = N
    <3> HIDE DEF N
    <3> QED BY <1>1, FS_Interval
  <2>3. rank \in Surjection(places, 0 .. N - 1)
    BY <1>1, <2>1, <2>2, FS_Injection
  <2> HIDE DEF Earlier, below, places, N
  <2> TAKE n \in 1..N
  <2>4. n - 1 \in 0 .. N - 1
    BY <1>1
  <2>5. PICK i \in places : rank[i] = n - 1
    BY <2>3, <2>4 DEF Surjection
  <2> QED BY <2>5
<1>6. \A n \in 1..N : place(n) \in places /\ Earlier(place(n)) = n - 1
  BY <1>5
<1>7. \A i \in places : Earlier(i) + 1 \in 1..N /\ place(Earlier(i) + 1) = i
  <2> HIDE DEF Earlier, below, places, N
  <2> QED BY <1>1, <1>2, <1>4
<1>8. Without(list, gone) = [n \in 1..N |-> list[place(n)]]
  BY DEF Without
<1> HIDE DEF places, below, Earlier, N, place
<1>9. Without(list, gone) \in Seq(S) /\ DOMAIN Without(list, gone) = 1..N
  BY <1>1, <1>6, <1>8 DEF places
<1>10. ToSet(Without(list, gone)) = ToSet(list) \ gone
  <2>1. \A n \in 1..N : list[place(n)] \in ToSet(list) \ gone
    BY <1>6 DEF places, ToSet
  <2>2. \A i \in DOMAIN list : list[i] \notin gone => \E n \in 1..N : list[i] = list[place(n)]
    BY <1>7 DEF places
  <2> QED BY <1>8, <1>9, <2>1, <2>2 DEF ToSet
<1>11. ASSUME Plain(list) PROVE Plain(Without(list, gone))
  <2> SUFFICES ASSUME NEW n \in 1..N, NEW m \in 1..N, list[place(n)] = list[place(m)]
               PROVE  n = m
    BY <1>8, <1>9 DEF Plain
  <2>1. place(n) = place(m)
    BY <1>6, <1>11 DEF Plain, places
  <2> QED BY <1>1, <1>6, <2>1
<1> QED BY <1>9, <1>10, <1>11

Entry == [id : Ids \cup {0}, terms : Details \cup {NoObject}]
Copy == [of : Objects, id : Ids \cup {0}, terms : Details \cup {NoObject}]

JobPCs == {"idle", "editing", "closing", "filtering", "listing", "writing", "unstarring"}

Job ==
  [pc : JobPCs,
   id : Ids \cup {0}, object : Objects \cup {NoObject}, list : Nat, copies : Seq(Copy),
   written : Nat, symbol : Symbols \cup {NoObject}]

BookTypes ==
  /\ field \in [Objects -> Entry]
  /\ lists \in Seq(Seq(Objects)) /\ lists # <<>>
  /\ stars \in Seq(Seq(Symbols)) /\ stars # <<>>
  /\ task \in [Tasks -> Job]
  /\ told \in [Objects -> Details \cup {NoObject, Closed}]
  /\ crossed \in BOOLEAN

(* Whatever is or was in the list of positions was opened.                 *)
EverOpened == \A n \in DOMAIN lists : \A i \in DOMAIN lists[n] : told[lists[n][i]] # NoObject

(* A thread at work has found a position that was opened, or a list.       *)
Has(x) ==
  /\ x.pc \in {"editing", "closing", "filtering"} =>
       x.object \in Objects /\ told[x.object] # NoObject
  /\ x.pc \in {"filtering", "listing", "writing"} => x.list \in DOMAIN lists
  /\ x.pc = "unstarring" => x.list \in DOMAIN stars

(* A close removes the position it found and no other.                     *)
Aims(x) ==
  x.pc \in {"closing", "filtering"} =>
    \A o \in Objects : Known(o) => (field[o].id = x.id <=> o = x.object)

(* What a listing has yet to write back is what its partner says already.  *)
Mirrors(x) ==
  /\ x.pc = "listing" => x.list = Len(lists) /\ x.written = 0
  /\ x.pc \in {"listing", "writing"} =>
       /\ Len(x.copies) <= Len(lists[x.list])
       /\ \A i \in DOMAIN x.copies : i > x.written => x.copies[i] = Copied(lists[x.list][i])

PositionsOf(list, fields, said) ==
  /\ \A o \in Objects : /\ o \in ToSet(list) <=> said[o] \in Details
                        /\ o \in ToSet(list) => fields[o].terms = said[o]
  /\ \A i, k \in DOMAIN list : fields[list[i]].id = fields[list[k]].id => i = k

Positions == PositionsOf(Book, field, told)

Starred == Plain(Last(stars)) /\ ToSet(Last(stars)) = starred

Undisturbed ==
  ~crossed => Positions /\ Starred /\ \A t \in Tasks : Aims(task[t]) /\ Mirrors(task[t])

BookInv == BookTypes /\ EverOpened /\ (\A t \in Tasks : Has(task[t])) /\ Undisturbed

-----------------------------------------------------------------------------
LEMMA BookStart ==
  ASSUME BookInit PROVE BookInv
<1>1. /\ Idle \in Job /\ Idle.pc = "idle"
      /\ [id |-> 0, terms |-> NoObject] \in Entry
  BY DEF Idle, Job, JobPCs, Entry
<1>2. /\ lists = <<<<>>>> /\ Len(lists) = 1 /\ Last(lists) = <<>> /\ DOMAIN lists = {1}
      /\ DOMAIN lists[1] = {} /\ lists \in Seq(Seq(Objects)) /\ lists # <<>>
  BY DEF BookInit, Last
<1>3. stars = <<Seed>> /\ Last(stars) = Seed /\ stars \in Seq(Seq(Symbols)) /\ stars # <<>>
  BY BookAssumption DEF BookInit, Last
<1>4. BookTypes
  BY <1>1, <1>2, <1>3 DEF BookInit, BookTypes
<1>5. EverOpened
  BY <1>2 DEF EverOpened
<1>6. \A t \in Tasks : task[t] = Idle
  BY DEF BookInit
<1>7. \A t \in Tasks : Has(task[t]) /\ Aims(task[t]) /\ Mirrors(task[t])
  BY <1>1, <1>6 DEF Has, Aims, Mirrors
<1>8. Positions
  BY <1>2, BookAssumption DEF Positions, PositionsOf, Known, Book, ToSet, BookInit
<1>9. Starred
  BY <1>3, BookAssumption DEF Starred, Plain, BookInit
<1> QED BY <1>4, <1>5, <1>7, <1>8, <1>9 DEF BookInv, Undisturbed

(* The list that is bound, and what becomes of the lists when it grows or  *)
(* another one is bound.                                                   *)
LEMMA Bound ==
  ASSUME NEW S, NEW ls \in Seq(S), ls # <<>>
  PROVE  /\ Len(ls) \in DOMAIN ls /\ Len(ls) \in Nat \ {0} /\ DOMAIN ls = 1..Len(ls)
         /\ Last(ls) = ls[Len(ls)] /\ Last(ls) \in S
BY DEF Last

LEMMA Replaced ==
  ASSUME NEW S, NEW ls \in Seq(S), ls # <<>>, NEW s \in S,
         NEW new \in Seq(S), new = [ls EXCEPT ![Len(ls)] = s]
  PROVE  new # <<>> /\ Last(new) = s
<1>1. Len(new) = Len(ls) /\ Len(ls) \in DOMAIN ls /\ new[Len(ls)] = s
  OBVIOUS
<1> QED BY <1>1 DEF Last

LEMMA Rebound ==
  ASSUME NEW S, NEW ls \in Seq(S), ls # <<>>, NEW s \in S
  PROVE  LET new == Append(ls, s)
         IN /\ new \in Seq(S) /\ new # <<>> /\ Len(new) = Len(ls) + 1 /\ Last(new) = s
            /\ DOMAIN new = DOMAIN ls \cup {Len(ls) + 1}
            /\ \A n \in DOMAIN ls : new[n] = ls[n]
BY DEF Last

LEMMA Added ==
  ASSUME NEW S, NEW list \in Seq(S), NEW e \in S
  PROVE  LET new == Append(list, e)
         IN /\ new \in Seq(S) /\ Len(new) = Len(list) + 1 /\ ToSet(new) = ToSet(list) \cup {e}
            /\ DOMAIN new = DOMAIN list \cup {Len(list) + 1} /\ Len(list) + 1 \notin DOMAIN list
            /\ new[Len(list) + 1] = e
            /\ \A i \in DOMAIN list : new[i] = list[i]
BY DEF ToSet

(* A thread goes on, and nothing but what it knows changes.                *)
LEMMA Moves ==
  ASSUME BookInv, NEW t \in Tasks, NEW x \in Job, task' = [task EXCEPT ![t] = x],
         UNCHANGED <<field, lists, stars, told, starred>>,
         crossed' \in BOOLEAN, crossed => crossed',
         Has(x), ~crossed' => Aims(x) /\ Mirrors(x)
  PROVE  BookInv'
<1>1. task'[t] = x /\ \A u \in Tasks \ {t} : task'[u] = task[u]
  BY DEF BookInv, BookTypes
<1>2. BookTypes'
  BY DEF BookInv, BookTypes
<1>3. EverOpened'
  BY DEF BookInv, EverOpened
<1>4. \A u \in Tasks : Has(task[u])'
  BY <1>1 DEF BookInv, Has
<1>5. \A y : /\ Aims(y) => Aims(y)'
             /\ Mirrors(y) => Mirrors(y)'
  BY DEF Aims, Mirrors, Known, Book, Copied
<1>6. ASSUME ~crossed'
      PROVE  Positions' /\ Starred' /\ \A u \in Tasks : (Aims(task[u]) /\ Mirrors(task[u]))'
  <2>1. Positions /\ Starred /\ \A u \in Tasks : Aims(task[u]) /\ Mirrors(task[u])
    BY <1>6 DEF BookInv, Undisturbed
  <2>2. Positions' /\ Starred'
    BY <2>1 DEF Positions, Starred, Book
  <2>3. \A u \in Tasks : Aims(task'[u]) /\ Mirrors(task'[u])
    BY <1>1, <1>6, <2>1
  <2>4. \A u \in Tasks : Aims(task[u])'
    BY <2>3 DEF Aims, Known, Book
  <2>5. ASSUME NEW u \in Tasks PROVE Mirrors(task[u])'
    <3>1. Mirrors(task'[u]) /\ lists' = lists /\ field' = field
      BY <2>3
    <3> QED BY ONLY <3>1 DEF Mirrors, Copied
  <2> QED BY <2>2, <2>4, <2>5
<1> QED BY <1>2, <1>3, <1>4, <1>6 DEF BookInv, Undisturbed

LEMMA IdleJob == Idle \in Job /\ Idle.pc = "idle" /\ Idle.copies = <<>> /\ Idle.written = 0
BY DEF Idle, Job, JobPCs

LEMMA FindInv ==
  ASSUME BookInv, NEW t \in Tasks, NEW next \in {"editing", "closing"}, Find(t, next)
  PROVE  BookInv'
<1>1. PICK i \in DOMAIN Book :
        task' = [task EXCEPT ![t] =
                  [Idle EXCEPT !.pc = next, !.id = field[Book[i]].id, !.object = Book[i]]]
  BY DEF Find
<1> DEFINE x == [Idle EXCEPT !.pc = next, !.id = field[Book[i]].id, !.object = Book[i]]
<1>2. Book \in Seq(Objects) /\ Book = lists[Len(lists)] /\ Len(lists) \in DOMAIN lists
  BY Bound DEF BookInv, BookTypes, Book
<1>3. Book[i] \in Objects /\ field[Book[i]] \in Entry /\ told[Book[i]] # NoObject
  BY <1>2 DEF BookInv, BookTypes, EverOpened
<1>4. x \in Job /\ x.pc = next /\ x.id = field[Book[i]].id /\ x.object = Book[i]
  BY <1>3, IdleJob DEF Job, JobPCs, Entry
<1> HIDE DEF x
<1>5. Has(x) /\ Mirrors(x)
  BY <1>3, <1>4 DEF Has, Mirrors
<1>6. ASSUME ~crossed PROVE Aims(x)
  <2>1. \A k \in DOMAIN Book : field[Book[k]].id = x.id => Book[k] = Book[i]
    BY <1>4, <1>6 DEF BookInv, Undisturbed, Positions, PositionsOf
  <2> QED BY <1>4, <2>1 DEF Aims, Known, ToSet
<1> QED BY <1>1, <1>4, <1>5, <1>6, Moves DEF Find, BookInv, BookTypes, x

LEMMA CloseReadsInv ==
  ASSUME BookInv, NEW t \in Tasks, CloseReads(t)
  PROVE  BookInv'
<1> DEFINE x == [task[t] EXCEPT !.pc = "filtering", !.list = Len(lists)]
<1>1. Len(lists) \in DOMAIN lists /\ Len(lists) \in Nat
  BY Bound DEF BookInv, BookTypes
<1>2. /\ x \in Job /\ x.pc = "filtering" /\ x.list = Len(lists)
      /\ x.id = task[t].id /\ x.object = task[t].object
  BY <1>1 DEF BookInv, BookTypes, Job, JobPCs
<1>3. task' = [task EXCEPT ![t] = x] /\ task[t].pc = "closing"
  BY DEF CloseReads
<1> HIDE DEF x
<1>4. Has(x) /\ Mirrors(x)
  BY <1>1, <1>2, <1>3 DEF BookInv, Has, Mirrors
<1>5. ASSUME ~crossed PROVE Aims(x)
  BY <1>2, <1>3, <1>5 DEF BookInv, Undisturbed, Aims
<1> QED BY <1>2, <1>3, <1>4, <1>5, Moves DEF CloseReads, BookInv, BookTypes

LEMMA ListInv ==
  ASSUME BookInv, NEW t \in Tasks, List(t)
  PROVE  BookInv'
<1> DEFINE x == [Idle EXCEPT !.pc = "listing", !.list = Len(lists)]
<1>1. Len(lists) \in DOMAIN lists /\ Len(lists) \in Nat /\ lists[Len(lists)] \in Seq(Objects)
  BY Bound DEF BookInv, BookTypes
<1>2. /\ x \in Job /\ x.pc = "listing" /\ x.list = Len(lists) /\ x.written = 0
      /\ x.copies = <<>>
  BY <1>1, IdleJob DEF Job, JobPCs
<1>3. task' = [task EXCEPT ![t] = x]
  BY DEF List
<1> HIDE DEF x
<1>4. Has(x) /\ Aims(x) /\ Mirrors(x)
  BY <1>1, <1>2 DEF Has, Aims, Mirrors
<1> QED BY <1>2, <1>3, <1>4, Moves DEF List, BookInv, BookTypes

LEMMA MarkInv ==
  ASSUME BookInv, NEW t \in Tasks, Mark(t)
  PROVE  BookInv'
<1> DEFINE list == lists[task[t].list]
           c == task[t].copies
           o == list[Len(c) + 1]
           x == [task[t] EXCEPT !.copies = Append(@, Copied(o))]
<1>1. /\ task[t] \in Job /\ task[t].pc = "listing" /\ list \in Seq(Objects)
      /\ task[t].list \in DOMAIN lists
      /\ c \in Seq(Copy) /\ Len(c) + 1 <= Len(list)
  BY DEF Mark, BookInv, BookTypes, Has, Job
<1>2. o \in Objects /\ Copied(o) \in Copy
  <2>1. o \in Objects
    BY <1>1
  <2> QED BY <2>1 DEF BookInv, BookTypes, Copied, Copy, Entry
<1>3. /\ x \in Job /\ x.pc = "listing" /\ x.list = task[t].list /\ x.written = task[t].written
      /\ x.copies = Append(c, Copied(o))
  <2>1. Append(c, Copied(o)) \in Seq(Copy)
    BY <1>1, <1>2
  <2> HIDE DEF o
  <2> HIDE DEF c
  <2> QED BY <1>1, <2>1 DEF Job, c
<1>4. task' = [task EXCEPT ![t] = x]
  BY DEF Mark
<1>5. Has(x) /\ Aims(x)
  BY <1>1, <1>3 DEF Has, Aims
<1>6. ASSUME ~crossed PROVE Mirrors(x)
  <2>1. Mirrors(task[t])
    BY <1>6 DEF BookInv, Undisturbed
  <2>2. /\ Len(x.copies) = Len(c) + 1 /\ DOMAIN x.copies = DOMAIN c \cup {Len(c) + 1}
        /\ x.copies[Len(c) + 1] = Copied(o) /\ \A i \in DOMAIN c : x.copies[i] = c[i]
    BY <1>1, <1>2, <1>3, Added
  <2> HIDE DEF x, c, o
  <2> QED BY <1>1, <1>3, <2>1, <2>2 DEF Mirrors, c, o
<1> HIDE DEF x
<1> QED BY <1>3, <1>4, <1>5, <1>6, Moves DEF Mark, BookInv, BookTypes

LEMMA PairInv ==
  ASSUME BookInv, NEW t \in Tasks, Pair(t)
  PROVE  BookInv'
<1> DEFINE x == [task[t] EXCEPT !.pc = "writing", !.list = Len(lists)]
<1>1. Len(lists) \in DOMAIN lists /\ Len(lists) \in Nat
  BY Bound DEF BookInv, BookTypes
<1>2. /\ x \in Job /\ x.pc = "writing" /\ x.list = Len(lists)
      /\ x.copies = task[t].copies /\ x.written = task[t].written
  BY <1>1 DEF BookInv, BookTypes, Job, JobPCs
<1>3. task' = [task EXCEPT ![t] = x] /\ task[t].pc = "listing"
  BY DEF Pair
<1> HIDE DEF x
<1>4. Has(x) /\ Aims(x)
  BY <1>1, <1>2 DEF Has, Aims
<1>5. ASSUME ~crossed PROVE Mirrors(x)
  BY <1>2, <1>3, <1>5 DEF BookInv, Undisturbed, Mirrors
<1> QED BY <1>2, <1>3, <1>4, <1>5, Moves DEF Pair, BookInv, BookTypes

LEMMA RemoveReadsInv ==
  ASSUME BookInv, NEW t \in Tasks, NEW s \in Symbols, RemoveReads(t, s)
  PROVE  BookInv'
<1> DEFINE x == [Idle EXCEPT !.pc = "unstarring", !.symbol = s, !.list = Len(stars)]
<1>1. Len(stars) \in DOMAIN stars /\ Len(stars) \in Nat
  BY Bound DEF BookInv, BookTypes
<1>2. x \in Job /\ x.pc = "unstarring" /\ x.list = Len(stars)
  BY <1>1, IdleJob DEF Job, JobPCs
<1>3. task' = [task EXCEPT ![t] = x]
  BY DEF RemoveReads
<1> HIDE DEF x
<1>4. Has(x) /\ Aims(x) /\ Mirrors(x)
  BY <1>1, <1>2 DEF Has, Aims, Mirrors
<1> QED BY <1>2, <1>3, <1>4, Moves DEF RemoveReads, BookInv, BookTypes

(* A write that nothing disturbed writes what is there.                    *)
LEMMA WriteBackInv ==
  ASSUME BookInv, NEW t \in Tasks, WriteBack(t)
  PROVE  BookInv'
<1> DEFINE i == task[t].written + 1
           list == lists[task[t].list]
           c == task[t].copies
<1>1. /\ task[t] \in Job /\ task[t].pc = "writing" /\ list \in Seq(Objects)
      /\ task[t].list \in DOMAIN lists /\ c \in Seq(Copy) /\ i \in Nat \ {0}
  <2>1. task[t] \in Job /\ lists \in Seq(Seq(Objects)) /\ Has(task[t])
    BY DEF BookInv, BookTypes
  <2>2. task[t].pc = "writing"
    BY DEF WriteBack
  <2>3. c \in Seq(Copy) /\ i \in Nat \ {0}
    BY <2>1 DEF Job
  <2>4. task[t].list \in DOMAIN lists /\ list \in Seq(Objects)
    BY <2>1, <2>2 DEF Has
  <2> QED BY <2>1, <2>2, <2>3, <2>4
<1>2. CASE i > Len(c) \/ i > Len(list)
  <2>1. Idle \in Job /\ Idle.pc = "idle"
    BY IdleJob
  <2>2. Has(Idle) /\ Aims(Idle) /\ Mirrors(Idle)
    BY <2>1 DEF Has, Aims, Mirrors
  <2>3. /\ task' = [task EXCEPT ![t] = Idle]
        /\ UNCHANGED <<field, lists, stars, told, starred, crossed>>
    BY <1>2 DEF WriteBack
  <2> QED BY <2>1, <2>2, <2>3, Moves DEF BookInv, BookTypes
<1>3. CASE i <= Len(c) /\ i <= Len(list)
  <2> DEFINE x == [task[t] EXCEPT !.written = i]
             entry == [id |-> c[i].id, terms |-> c[i].terms]
  <2>1. /\ field' = [field EXCEPT ![list[i]] = entry] /\ task' = [task EXCEPT ![t] = x]
        /\ UNCHANGED <<lists, stars, told, starred, crossed>>
    BY <1>1, <1>3 DEF WriteBack
  <2>2. /\ x \in Job /\ x.pc = "writing" /\ x.list = task[t].list /\ x.copies = c
        /\ x.written = i
    BY <1>1 DEF Job
  <2>3. i \in DOMAIN c /\ c[i] \in Copy /\ list[i] \in Objects /\ entry \in Entry
    <3>1. i \in DOMAIN c /\ c[i] \in Copy /\ list[i] \in Objects
      BY <1>1, <1>3
    <3> QED BY <3>1 DEF Copy, Entry
  <2>4. CASE ~crossed
    <3>1. Mirrors(task[t])
      BY <2>4 DEF BookInv, Undisturbed
    <3>2. c[i] = Copied(list[i])
      <4>1. i > task[t].written
        BY <1>1 DEF Job
      <4> HIDE DEF i
      <4> QED BY <1>1, <2>3, <3>1, <4>1 DEF Mirrors
    <3>3. entry = field[list[i]]
      <4>1. entry = [id |-> field[list[i]].id, terms |-> field[list[i]].terms]
        BY <3>2 DEF Copied
      <4>2. field[list[i]] \in Entry
        BY <2>3 DEF BookInv, BookTypes
      <4> QED BY <4>1, <4>2 DEF Entry
    <3>4. field' = field
      BY <2>1, <3>3 DEF BookInv, BookTypes
    <3>5. Has(x) /\ Aims(x) /\ Mirrors(x)
      <4>1. \A k \in DOMAIN c : k > i => k > task[t].written
        BY <1>1 DEF Job
      <4> HIDE DEF x, i
      <4> QED BY <1>1, <2>2, <3>1, <4>1 DEF Has, Aims, Mirrors
    <3> HIDE DEF x
    <3> QED BY <2>1, <2>2, <3>4, <3>5, Moves DEF BookInv, BookTypes
  <2>5. CASE crossed
    <3> HIDE DEF x, entry
    <3>1. BookTypes'
      BY <2>1, <2>2, <2>3 DEF BookInv, BookTypes
    <3>2. EverOpened'
      BY <2>1 DEF BookInv, EverOpened
    <3>3. \A u \in Tasks : Has(task[u])'
      BY <1>1, <2>1, <2>2 DEF BookInv, BookTypes, Has
    <3>4. Undisturbed'
      BY <2>1, <2>5 DEF Undisturbed
    <3> QED BY <3>1, <3>2, <3>3, <3>4 DEF BookInv
  <2> QED BY <2>4, <2>5 DEF BookInv, BookTypes
<1> QED BY <1>1, <1>2, <1>3

(* A new position was never in a list, and its id is nobody's.             *)
LEMMA OpenInv ==
  ASSUME BookInv, NEW t \in Tasks, Open(t)
  PROVE  BookInv'
<1>1. PICK o \in Objects, d \in Ids, c \in Details :
        /\ told[o] = NoObject
        /\ field' = [field EXCEPT ![o] = [id |-> d, terms |-> c]]
        /\ lists' = [lists EXCEPT ![Len(lists)] = Append(Book, o)]
        /\ told' = [told EXCEPT ![o] = c]
        /\ crossed' = (crossed \/ (\E p \in Objects : Known(p) /\ field[p].id = d)
                               \/ \E u \in Tasks : task[u].pc # "idle" /\ task[u].id = d)
        /\ UNCHANGED <<stars, task, starred>>
  BY DEF Open, OpenedWith
<1> DEFINE L == Len(lists)
           entry == [id |-> d, terms |-> c]
<1>2. /\ Book \in Seq(Objects) /\ Book = lists[L] /\ L \in DOMAIN lists
      /\ lists \in Seq(Seq(Objects)) /\ lists # <<>>
  BY Bound DEF BookInv, BookTypes, Book
<1>3. /\ Append(Book, o) \in Seq(Objects) /\ ToSet(Append(Book, o)) = ToSet(Book) \cup {o}
      /\ Len(Append(Book, o)) = Len(Book) + 1
      /\ DOMAIN Append(Book, o) = DOMAIN Book \cup {Len(Book) + 1}
      /\ Append(Book, o)[Len(Book) + 1] = o
      /\ \A i \in DOMAIN Book : Append(Book, o)[i] = Book[i]
  BY <1>2, Added
<1>4. /\ lists' \in Seq(Seq(Objects)) /\ lists' # <<>> /\ Len(lists') = L
      /\ DOMAIN lists' = DOMAIN lists /\ Book' = Append(Book, o) /\ lists'[L] = Append(Book, o)
      /\ \A n \in DOMAIN lists : n # L => lists'[n] = lists[n]
  <2> DEFINE longer == Append(Book, o)
             S == Seq(Objects)
  <2>1. /\ lists \in Seq(S) /\ lists # <<>> /\ longer \in S
        /\ lists' = [lists EXCEPT ![Len(lists)] = longer]
    BY <1>1, <1>2, <1>3
  <2> HIDE DEF longer, S
  <2>2. /\ Len(lists) \in DOMAIN lists /\ lists'[Len(lists)] = longer
        /\ DOMAIN lists' = DOMAIN lists /\ Len(lists') = Len(lists)
        /\ \A n \in DOMAIN lists : n # Len(lists) => lists'[n] = lists[n]
    BY ONLY <2>1
  <2>3. lists' \in Seq(S)
    BY ONLY <2>1
  <2>4. lists' # <<>> /\ Last(lists') = longer
    BY ONLY <2>1, <2>3, Replaced
  <2>5. Book' = longer
    BY <2>4 DEF Book
  <2> QED BY <2>2, <2>3, <2>4, <2>5 DEF L, longer, S
<1>5. /\ entry \in Entry /\ field' \in [Objects -> Entry] /\ entry.id = d /\ entry.terms = c
      /\ field'[o] = entry /\ \A p \in Objects \ {o} : field'[p] = field[p]
      /\ told' \in [Objects -> Details \cup {NoObject, Closed}]
      /\ told'[o] = c /\ \A p \in Objects \ {o} : told'[p] = told[p]
  <2>1. entry \in Entry
    BY DEF Entry
  <2> QED BY <1>1, <2>1 DEF BookInv, BookTypes
<1> HIDE DEF entry, L
<1>6. c # NoObject
  BY BookAssumption
<1>7. ASSUME NEW n \in DOMAIN lists
      PROVE  /\ lists[n] \in Seq(Objects) /\ Len(lists[n]) <= Len(lists'[n])
             /\ \A i \in DOMAIN lists[n] :
                  /\ i \in DOMAIN lists'[n] /\ lists'[n][i] = lists[n][i]
                  /\ lists[n][i] \in Objects \ {o}
  <2>1. lists[n] \in Seq(Objects)
    BY <1>2
  <2>2. \A i \in DOMAIN lists[n] : lists[n][i] \in Objects \ {o}
    BY <1>1, <2>1 DEF BookInv, EverOpened
  <2>3. CASE n = L
    <3>1. lists[n] = Book /\ lists'[n] = Append(Book, o) /\ Len(Book) \in Nat
      BY <1>2, <1>4, <2>3
    <3>2. Len(Book) <= Len(Append(Book, o))
      BY <1>3, <3>1
    <3> QED BY <1>3, <2>1, <2>2, <3>1, <3>2
  <2>4. CASE n # L
    BY <1>4, <2>1, <2>2, <2>4
  <2> QED BY <2>3, <2>4
<1>8. BookTypes'
  BY <1>1, <1>4, <1>5 DEF BookInv, BookTypes
<1>9. EverOpened'
  <2> SUFFICES ASSUME NEW n \in DOMAIN lists, NEW i \in DOMAIN lists'[n]
               PROVE  told'[lists'[n][i]] # NoObject
    BY <1>4 DEF EverOpened
  <2>1. CASE i \in DOMAIN lists[n]
    BY <1>5, <1>7, <2>1 DEF BookInv, EverOpened
  <2>2. CASE i \notin DOMAIN lists[n]
    <3>1. n = L /\ i = Len(Book) + 1
      BY <1>2, <1>3, <1>4, <2>2
    <3> QED BY <1>3, <1>4, <1>5, <1>6, <3>1
  <2> QED BY <2>1, <2>2
<1>10. \A u \in Tasks : Has(task[u])'
  BY <1>1, <1>4, <1>5, <1>6 DEF BookInv, Has
<1>11. ASSUME ~crossed'
       PROVE  Positions' /\ Starred' /\ \A u \in Tasks : (Aims(task[u]) /\ Mirrors(task[u]))'
  <2>1. Positions /\ Starred /\ \A u \in Tasks : Aims(task[u]) /\ Mirrors(task[u])
    BY <1>1, <1>11 DEF BookInv, Undisturbed
  <2>2. /\ \A p \in Objects : Known(p) => field[p].id # d
        /\ \A u \in Tasks : task[u].pc # "idle" => task[u].id # d
    BY <1>1, <1>11
  <2>3. ~Known(o) /\ \A p : p \in ToSet(Book') <=> Known(p) \/ p = o
    BY <1>1, <1>3, <1>4, <2>1, BookAssumption DEF Known, Positions, PositionsOf
  <2>4. Positions'
    <3>1. \A p \in Objects : /\ p \in ToSet(Book') <=> told'[p] \in Details
                             /\ p \in ToSet(Book') => field'[p].terms = told'[p]
      BY <1>5, <2>1, <2>3 DEF Positions, PositionsOf, Known
    <3>2. ASSUME NEW i \in DOMAIN Book', NEW k \in DOMAIN Book',
                 field'[Book'[i]].id = field'[Book'[k]].id
          PROVE  i = k
      <4>1. \A j \in DOMAIN Book : /\ Known(Book[j]) /\ Book[j] \in Objects \ {o}
                                   /\ Book'[j] = Book[j]
        BY <1>2, <1>3, <1>4, <1>7 DEF Known, ToSet
      <4>2. Book'[Len(Book) + 1] = o
        BY <1>3, <1>4
      <4>3. DOMAIN Book' = DOMAIN Book \cup {Len(Book) + 1}
        BY <1>3, <1>4
      <4> QED BY <1>5, <2>1, <2>2, <3>2, <4>1, <4>2, <4>3 DEF Positions, PositionsOf, Known
    <3>3. \A i, k \in DOMAIN Book' : field'[Book'[i]].id = field'[Book'[k]].id => i = k
      BY <3>2
    <3>4. PositionsOf(Book', field', told')
      BY ONLY <3>1, <3>3 DEF PositionsOf
    <3> QED BY ONLY <3>4 DEF Positions
  <2>5. Starred'
    BY <1>1, <2>1 DEF Starred
  <2>6. ASSUME NEW u \in Tasks PROVE Aims(task[u])'
    <3>1. Aims(task[u]) /\ Has(task[u]) /\ task'[u] = task[u]
      BY <1>1, <2>1 DEF BookInv
    <3> QED BY <1>1, <1>5, <2>2, <2>3, <3>1 DEF Aims, Has, Known
  <2>7. ASSUME NEW u \in Tasks PROVE Mirrors(task[u])'
    <3>1. Mirrors(task[u]) /\ Has(task[u]) /\ task'[u] = task[u] /\ task[u].copies \in Seq(Copy)
      BY <1>1, <2>1 DEF BookInv, BookTypes, Job
    <3>2. CASE task[u].pc \in {"listing", "writing"}
      <4>1. /\ task[u].list \in DOMAIN lists /\ Len(lists[task[u].list]) \in Nat
            /\ Len(task[u].copies) <= Len(lists[task[u].list])
            /\ DOMAIN task[u].copies \subseteq DOMAIN lists[task[u].list]
            /\ Len(lists'[task[u].list]) \in Nat
        BY <1>4, <1>7, <3>1, <3>2 DEF Has, Mirrors
      <4>2. /\ Len(task[u].copies) \in Nat
            /\ Len(task[u].copies) <= Len(lists'[task[u].list])
        BY <1>7, <3>1, <4>1
      <4>3. ASSUME NEW i \in DOMAIN task[u].copies, i > task[u].written
            PROVE  task[u].copies[i] = Copied(lists[task[u].list][i])'
        <5>1. task[u].copies[i] = Copied(lists[task[u].list][i])
          BY <3>1, <3>2, <4>3 DEF Mirrors
        <5>2. /\ lists'[task[u].list][i] = lists[task[u].list][i]
              /\ lists[task[u].list][i] \in Objects \ {o}
          BY <1>7, <4>1
        <5> QED BY <1>5, <3>1, <5>1, <5>2 DEF Copied
      <4> QED BY <1>4, <3>1, <3>2, <4>2, <4>3 DEF Mirrors, L, Copied
    <3>3. CASE task[u].pc \notin {"listing", "writing"}
      BY <3>1, <3>3 DEF Mirrors
    <3> QED BY <3>2, <3>3
  <2> QED BY <2>4, <2>5, <2>6, <2>7
<1> QED BY <1>8, <1>9, <1>10, <1>11 DEF BookInv, Undisturbed

(* An edit is seen by every listing that has not copied the position yet.  *)
LEMMA EditInv ==
  ASSUME BookInv, NEW t \in Tasks, Edit(t)
  PROVE  BookInv'
<1> DEFINE o == task[t].object
<1>1. PICK c \in Details :
        /\ field' = [field EXCEPT ![o].terms = c]
        /\ told' = [told EXCEPT ![o] = IF told[o] = Closed THEN @ ELSE c]
  BY DEF Edit
<1>2. /\ task[t].pc = "editing" /\ task' = [task EXCEPT ![t] = Idle]
      /\ crossed' = (crossed \/ \E u \in Tasks : \E e \in Pending(u) : e.of = o)
      /\ UNCHANGED <<lists, stars, starred>>
  BY DEF Edit
<1>3. o \in Objects /\ told[o] # NoObject
  BY <1>2 DEF BookInv, Has
<1> HIDE DEF o
<1>4. /\ field' \in [Objects -> Entry] /\ field'[o].terms = c /\ field'[o].id = field[o].id
      /\ \A p \in Objects \ {o} : field'[p] = field[p]
      /\ told' \in [Objects -> Details \cup {NoObject, Closed}]
      /\ told'[o] = IF told[o] = Closed THEN Closed ELSE c
      /\ \A p \in Objects \ {o} : told'[p] = told[p]
  BY <1>1, <1>3 DEF BookInv, BookTypes, Entry
<1>5. /\ task'[t] = Idle /\ \A u \in Tasks \ {t} : task'[u] = task[u]
      /\ task' \in [Tasks -> Job]
  BY <1>2, IdleJob DEF BookInv, BookTypes
<1>6. NoObject \notin Details \cup {Closed} /\ Closed \notin Details
  BY BookAssumption
<1>7. BookTypes'
  BY <1>2, <1>4, <1>5 DEF BookInv, BookTypes
<1>8. \A p \in Objects : told'[p] = NoObject <=> told[p] = NoObject
  BY <1>3, <1>4, <1>6
<1>9. EverOpened'
  <2> SUFFICES ASSUME NEW n \in DOMAIN lists, NEW i \in DOMAIN lists[n]
               PROVE  told'[lists[n][i]] # NoObject
    BY <1>2 DEF EverOpened
  <2>1. lists[n][i] \in Objects
    BY DEF BookInv, BookTypes
  <2> QED BY <1>8, <2>1 DEF BookInv, EverOpened
<1>10. \A u \in Tasks : Has(task[u])'
  BY <1>2, <1>5, <1>8, IdleJob DEF BookInv, Has
<1>11. ASSUME ~crossed'
       PROVE  Positions' /\ Starred' /\ \A u \in Tasks : (Aims(task[u]) /\ Mirrors(task[u]))'
  <2>1. Positions /\ Starred /\ \A u \in Tasks : Aims(task[u]) /\ Mirrors(task[u])
    BY <1>2, <1>11 DEF BookInv, Undisturbed
  <2>2. \A u \in Tasks : \A e \in Pending(u) : e.of # o
    BY <1>2, <1>11
  <2>3. Book' = Book /\ \A p : p \in ToSet(Book') <=> Known(p)
    BY <1>2 DEF Book, Known
  <2>4. \A p \in Objects : field'[p].id = field[p].id
    BY <1>4
  <2>5. Positions'
    <3>1. \A p \in Objects : /\ p \in ToSet(Book') <=> told'[p] \in Details
                             /\ p \in ToSet(Book') => field'[p].terms = told'[p]
      BY <1>1, <1>3, <1>4, <1>6, <2>1, <2>3 DEF Positions, PositionsOf, Known, BookInv, BookTypes
    <3>2. \A i \in DOMAIN Book : Book[i] \in Objects
      BY Bound DEF BookInv, BookTypes, Book
    <3>3. \A i, k \in DOMAIN Book' : field'[Book'[i]].id = field'[Book'[k]].id => i = k
      BY <2>1, <2>3, <2>4, <3>2 DEF Positions, PositionsOf
    <3>4. PositionsOf(Book', field', told')
      BY ONLY <3>1, <3>3 DEF PositionsOf
    <3> QED BY ONLY <3>4 DEF Positions
  <2>6. Starred'
    BY <1>2, <2>1 DEF Starred
  <2>7. ASSUME NEW u \in Tasks PROVE Aims(task[u])'
    BY <1>5, <2>1, <2>3, <2>4, IdleJob DEF Aims, Known
  <2>8. ASSUME NEW u \in Tasks PROVE Mirrors(task[u])'
    <3>1. CASE u # t /\ task[u].pc \in {"listing", "writing"}
      <4>1. /\ Mirrors(task[u]) /\ Has(task[u]) /\ task'[u] = task[u] /\ task[u] \in Job
            /\ task[u].list \in DOMAIN lists /\ lists[task[u].list] \in Seq(Objects)
            /\ task[u].copies \in Seq(Copy) /\ task[u].written \in Nat
        <5>1. Mirrors(task[u]) /\ task'[u] = task[u]
          BY <1>5, <2>1, <3>1
        <5>2. Has(task[u]) /\ task[u] \in Job /\ lists \in Seq(Seq(Objects))
          BY DEF BookInv, BookTypes
        <5>3. task[u].copies \in Seq(Copy) /\ task[u].written \in Nat
          BY <5>2 DEF Job
        <5>4. task[u].list \in DOMAIN lists /\ lists[task[u].list] \in Seq(Objects)
          BY <3>1, <5>2 DEF Has
        <5> QED BY <5>1, <5>2, <5>3, <5>4
      <4>2. ASSUME NEW i \in DOMAIN task[u].copies, i > task[u].written
            PROVE  /\ lists[task[u].list][i] \in Objects \ {o}
                   /\ task[u].copies[i] = Copied(lists[task[u].list][i])
        <5>1. task[u].copies[i] = Copied(lists[task[u].list][i])
          BY <3>1, <4>1, <4>2 DEF Mirrors
        <5>2. task[u].copies[i] \in Pending(u)
          BY <4>1, <4>2 DEF Pending
        <5>3. task[u].copies[i].of # o
          BY <2>2, <5>2
        <5>4. lists[task[u].list][i] \in Objects
          BY <3>1, <4>1 DEF Mirrors
        <5> QED BY <5>1, <5>3, <5>4 DEF Copied
      <4>3. ASSUME NEW i \in DOMAIN task[u].copies, i > task[u].written
            PROVE  task[u].copies[i] = Copied(lists[task[u].list][i])'
        <5>1. field'[lists[task[u].list][i]] = field[lists[task[u].list][i]]
          BY <1>4, <4>2, <4>3
        <5>2. lists' = lists /\ task'[u] = task[u]
          BY <1>2, <4>1
        <5> QED BY <4>2, <4>3, <5>1, <5>2 DEF Copied
      <4>4. /\ task[u].pc = "listing" => task[u].list = Len(lists) /\ task[u].written = 0
            /\ Len(task[u].copies) <= Len(lists[task[u].list])
        BY <3>1, <4>1 DEF Mirrors
      <4>5. lists' = lists /\ task'[u] = task[u]
        BY <1>2, <4>1
      <4> QED BY <4>3, <4>4, <4>5 DEF Mirrors
    <3>2. CASE u = t \/ task[u].pc \notin {"listing", "writing"}
      BY <1>5, <3>2, IdleJob DEF Mirrors
    <3> QED BY <3>1, <3>2
  <2> QED BY <2>5, <2>6, <2>7, <2>8
<1> QED BY <1>7, <1>9, <1>10, <1>11 DEF BookInv, Undisturbed

(* A close binds the list without the position it found.                   *)
LEMMA CloseRebindsInv ==
  ASSUME BookInv, NEW t \in Tasks, CloseRebinds(t)
  PROVE  BookInv'
<1> DEFINE o == task[t].object
           L == Len(lists)
           gone == {p \in Objects : field[p].id = task[t].id}
           left == Without(lists[task[t].list], gone)
<1>1. /\ task[t].pc = "filtering"
      /\ lists' = Append(lists, left) /\ told' = [told EXCEPT ![o] = Closed]
      /\ task' = [task EXCEPT ![t] = Idle]
      /\ crossed' = (crossed \/ task[t].list # L \/ \E u \in Tasks : task[u].pc = "listing")
      /\ UNCHANGED <<field, stars, starred>>
  BY DEF CloseRebinds
<1>2. /\ o \in Objects /\ told[o] # NoObject /\ task[t].list \in DOMAIN lists
      /\ lists[task[t].list] \in Seq(Objects)
  BY <1>1 DEF BookInv, BookTypes, Has
<1>3. /\ left \in Seq(Objects) /\ ToSet(left) = ToSet(lists[task[t].list]) \ gone
      /\ Plain(lists[task[t].list]) => Plain(left)
  BY <1>2, WithoutEffect
<1>4. /\ Book \in Seq(Objects) /\ Book = lists[L] /\ L \in DOMAIN lists /\ L \in Nat
      /\ lists \in Seq(Seq(Objects)) /\ lists # <<>>
  BY Bound DEF BookInv, BookTypes, Book
<1> HIDE DEF o, L, gone, left
<1>5. /\ lists' \in Seq(Seq(Objects)) /\ lists' # <<>> /\ Len(lists') = L + 1
      /\ DOMAIN lists' = DOMAIN lists \cup {L + 1} /\ L + 1 \notin DOMAIN lists
      /\ Book' = left /\ lists'[L + 1] = left /\ \A n \in DOMAIN lists : lists'[n] = lists[n]
  <2>1. Book' = Last(lists')
    BY DEF Book
  <2>2. Last(lists') = lists'[Len(lists')]
    BY DEF Last
  <2> QED BY <1>1, <1>3, <1>4, <2>1, <2>2, Rebound DEF L
<1>6. /\ told' \in [Objects -> Details \cup {NoObject, Closed}]
      /\ told'[o] = Closed /\ \A p \in Objects \ {o} : told'[p] = told[p]
  BY <1>1, <1>2 DEF BookInv, BookTypes
<1>7. /\ task'[t] = Idle /\ \A u \in Tasks \ {t} : task'[u] = task[u]
      /\ task' \in [Tasks -> Job]
  BY <1>1, IdleJob DEF BookInv, BookTypes
<1>8. Closed # NoObject /\ Closed \notin Details
  BY BookAssumption
<1>9. BookTypes'
  BY <1>1, <1>5, <1>6, <1>7 DEF BookInv, BookTypes
<1>10. \A p \in Objects : told[p] # NoObject => told'[p] # NoObject
  BY <1>6, <1>8
<1>11. EverOpened'
  <2> SUFFICES ASSUME NEW n \in DOMAIN lists', NEW i \in DOMAIN lists'[n]
               PROVE  told'[lists'[n][i]] # NoObject
    BY DEF EverOpened
  <2>1. \A m \in DOMAIN lists : \A j \in DOMAIN lists[m] :
          lists[m][j] \in Objects /\ told[lists[m][j]] # NoObject
    BY <1>4 DEF BookInv, EverOpened
  <2>2. CASE n \in DOMAIN lists
    BY <1>5, <1>10, <2>1, <2>2
  <2>3. CASE n = L + 1
    <3>1. lists'[n][i] \in ToSet(lists[task[t].list])
      BY <1>3, <1>5, <2>3 DEF ToSet
    <3>2. PICK j \in DOMAIN lists[task[t].list] : lists'[n][i] = lists[task[t].list][j]
      BY <3>1 DEF ToSet
    <3> QED BY <1>2, <1>10, <2>1, <3>2
  <2> QED BY <1>5, <2>2, <2>3
<1>12. \A u \in Tasks : Has(task[u])'
  BY <1>1, <1>5, <1>7, <1>10, IdleJob DEF BookInv, Has
<1>13. ASSUME ~crossed'
       PROVE  Positions' /\ Starred' /\ \A u \in Tasks : (Aims(task[u]) /\ Mirrors(task[u]))'
  <2>1. Positions /\ Starred /\ \A u \in Tasks : Aims(task[u]) /\ Mirrors(task[u])
    BY <1>1, <1>13 DEF BookInv, Undisturbed
  <2>2. lists[task[t].list] = Book /\ \A u \in Tasks : task[u].pc # "listing"
    BY <1>1, <1>4, <1>13
  <2>3. \A p \in Objects : p \in ToSet(Book) => (field[p].id = task[t].id <=> p = o)
    BY <1>1, <2>1 DEF Aims, Known, o
  <2>4. \A p : p \in ToSet(Book') <=> p \in ToSet(Book) /\ p # o
    <3>1. \A p : p \in ToSet(Book) => p \in Objects
      BY <1>4 DEF ToSet
    <3>2. \A p \in ToSet(Book) : p \in gone <=> p = o
      BY <2>3, <3>1 DEF gone
    <3> QED BY <1>3, <1>5, <2>2, <3>2
  <2>5. Positions'
    <3>1. \A p \in Objects : /\ p \in ToSet(Book') <=> told'[p] \in Details
                             /\ p \in ToSet(Book') => field'[p].terms = told'[p]
      BY <1>1, <1>6, <1>8, <2>1, <2>4 DEF Positions, PositionsOf
    <3>2. Plain(left)
      BY <1>3, <2>1, <2>2 DEF Plain, Positions, PositionsOf
    <3>3. \A i, k \in DOMAIN Book' : field'[Book'[i]].id = field'[Book'[k]].id => i = k
      <4> SUFFICES ASSUME NEW i \in DOMAIN left, NEW k \in DOMAIN left,
                          field[left[i]].id = field[left[k]].id
                   PROVE  i = k
        BY <1>1, <1>5
      <4>1. left[i] \in ToSet(Book) /\ left[k] \in ToSet(Book)
        BY <1>3, <2>2 DEF ToSet
      <4>2. left[i] = left[k]
        BY <2>1, <4>1 DEF Positions, PositionsOf, ToSet
      <4> QED BY <3>2, <4>2 DEF Plain
    <3>4. PositionsOf(Book', field', told')
      BY ONLY <3>1, <3>3 DEF PositionsOf
    <3> QED BY ONLY <3>4 DEF Positions
  <2>6. Starred'
    BY <1>1, <2>1 DEF Starred
  <2>7. ASSUME NEW u \in Tasks PROVE Aims(task[u])'
    BY <1>1, <1>7, <2>1, <2>4, IdleJob DEF Aims, Known
  <2>8. ASSUME NEW u \in Tasks PROVE Mirrors(task[u])'
    <3>1. CASE u # t /\ task[u].pc = "writing"
      <4>1. /\ Mirrors(task[u]) /\ task'[u] = task[u] /\ task[u].list \in DOMAIN lists
            /\ lists'[task[u].list] = lists[task[u].list]
        BY <1>5, <1>7, <2>1, <3>1 DEF BookInv, Has
      <4>2. /\ Len(task[u].copies) <= Len(lists[task[u].list])
            /\ \A i \in DOMAIN task[u].copies : i > task[u].written =>
                 task[u].copies[i] = Copied(lists[task[u].list][i])
        BY <3>1, <4>1 DEF Mirrors
      <4>3. \A i \in DOMAIN task[u].copies : i > task[u].written =>
              task[u].copies[i] = Copied(lists[task[u].list][i])'
        BY <1>1, <4>1, <4>2 DEF Copied
      <4> QED BY <3>1, <4>1, <4>2, <4>3 DEF Mirrors, Copied
    <3>2. CASE u = t \/ task[u].pc # "writing"
      BY <1>7, <2>2, <3>2, IdleJob DEF Mirrors
    <3> QED BY <3>1, <3>2
  <2> QED BY <2>5, <2>6, <2>7, <2>8
<1> QED BY <1>9, <1>11, <1>12, <1>13 DEF BookInv, Undisturbed

-----------------------------------------------------------------------------
(* The tickers change, and the positions do not.                           *)
LEMMA TickersMove ==
  ASSUME BookInv, UNCHANGED <<field, lists, told>>, crossed' \in BOOLEAN, crossed => crossed',
         stars' \in Seq(Seq(Symbols)), stars' # <<>>, DOMAIN stars \subseteq DOMAIN stars',
         task' \in [Tasks -> Job], \A u \in Tasks : task'[u] = task[u] \/ task'[u] = Idle,
         ~crossed' => Starred'
  PROVE  BookInv'
<1>1. BookTypes' /\ EverOpened'
  BY DEF BookInv, BookTypes, EverOpened
<1>2. \A u \in Tasks : Has(task[u])'
  BY IdleJob DEF BookInv, Has
<1>3. ASSUME ~crossed'
      PROVE  Positions' /\ \A u \in Tasks : (Aims(task[u]) /\ Mirrors(task[u]))'
  <2>1. Positions /\ \A u \in Tasks : Aims(task[u]) /\ Mirrors(task[u])
    BY <1>3 DEF BookInv, Undisturbed
  <2>2. Positions'
    BY <2>1 DEF Positions, Book
  <2>3. ASSUME NEW u \in Tasks PROVE (Aims(task[u]) /\ Mirrors(task[u]))'
    <3>1. CASE task'[u] = task[u]
      <4>1. Aims(task'[u]) /\ Mirrors(task'[u])
        BY <2>1, <3>1
      <4> QED BY <4>1 DEF Aims, Mirrors, Known, Book, Copied
    <3>2. CASE task'[u] = Idle
      BY <3>2, IdleJob DEF Aims, Mirrors
    <3> QED BY <3>1, <3>2
  <2> QED BY <2>2, <2>3
<1> QED BY <1>1, <1>2, <1>3 DEF BookInv, Undisturbed

LEMMA StarInv ==
  ASSUME BookInv, NEW t \in Tasks, NEW s \in Symbols, Star(t, s)
  PROVE  BookInv'
<1> DEFINE list == stars[Len(stars)]
           more == IF s \in ToSet(list) THEN list ELSE Append(list, s)
<1>1. /\ stars' = [stars EXCEPT ![Len(stars)] = more] /\ starred' = starred \cup {s}
      /\ UNCHANGED <<field, lists, task, told, crossed>>
  BY DEF Star
<1>2. /\ stars \in Seq(Seq(Symbols)) /\ stars # <<>> /\ list \in Seq(Symbols)
      /\ Last(stars) = list
  BY Bound DEF BookInv, BookTypes
<1>3. /\ Append(list, s) \in Seq(Symbols) /\ ToSet(Append(list, s)) = ToSet(list) \cup {s}
      /\ DOMAIN Append(list, s) = DOMAIN list \cup {Len(list) + 1}
      /\ Append(list, s)[Len(list) + 1] = s
      /\ \A i \in DOMAIN list : Append(list, s)[i] = list[i]
  BY <1>2, Added
<1> HIDE DEF list
<1>4. more \in Seq(Symbols) /\ ToSet(more) = ToSet(list) \cup {s} /\ (Plain(list) => Plain(more))
  <2>1. CASE s \in ToSet(list)
    BY <1>2, <2>1
  <2>2. CASE s \notin ToSet(list)
    <3>1. \A i \in DOMAIN list : list[i] # s
      BY <2>2 DEF ToSet
    <3> QED BY <1>3, <2>2, <3>1 DEF Plain
  <2> QED BY <2>1, <2>2
<1> HIDE DEF more
<1>5. /\ stars' \in Seq(Seq(Symbols)) /\ stars' # <<>> /\ DOMAIN stars' = DOMAIN stars
      /\ Last(stars') = more
  <2> DEFINE S == Seq(Symbols)
  <2>1. /\ stars \in Seq(S) /\ stars # <<>> /\ more \in S
        /\ stars' = [stars EXCEPT ![Len(stars)] = more]
    BY <1>1, <1>2, <1>4
  <2> HIDE DEF S
  <2>2. DOMAIN stars' = DOMAIN stars /\ stars' \in Seq(S)
    BY ONLY <2>1
  <2>3. stars' # <<>> /\ Last(stars') = more
    BY ONLY <2>1, <2>2, Replaced
  <2> QED BY <2>2, <2>3 DEF S
<1>6. ASSUME ~crossed' PROVE Starred'
  BY <1>1, <1>2, <1>4, <1>5, <1>6 DEF BookInv, Undisturbed, Starred
<1> QED BY <1>1, <1>5, <1>6, TickersMove DEF BookInv, BookTypes

LEMMA RemoveRebindsInv ==
  ASSUME BookInv, NEW t \in Tasks, RemoveRebinds(t)
  PROVE  BookInv'
<1> DEFINE list == stars[task[t].list]
           s == task[t].symbol
           left == Without(list, {s})
<1>1. /\ task[t].pc = "unstarring"
      /\ stars' = Append(stars, left) /\ starred' = starred \ {s}
      /\ task' = [task EXCEPT ![t] = Idle]
      /\ crossed' = (crossed \/ task[t].list # Len(stars))
      /\ UNCHANGED <<field, lists, told>>
  BY DEF RemoveRebinds
<1>2. /\ stars \in Seq(Seq(Symbols)) /\ stars # <<>> /\ list \in Seq(Symbols)
      /\ Last(stars) = stars[Len(stars)]
  BY <1>1, Bound DEF BookInv, BookTypes, Has
<1>3. /\ left \in Seq(Symbols) /\ ToSet(left) = ToSet(list) \ {s}
      /\ Plain(list) => Plain(left)
  BY <1>2, WithoutEffect
<1> HIDE DEF left
<1>4. /\ stars' \in Seq(Seq(Symbols)) /\ stars' # <<>> /\ DOMAIN stars \subseteq DOMAIN stars'
      /\ Last(stars') = left
  BY <1>1, <1>2, <1>3, Rebound
<1>5. task' \in [Tasks -> Job] /\ \A u \in Tasks : task'[u] = task[u] \/ task'[u] = Idle
  BY <1>1, IdleJob DEF BookInv, BookTypes
<1>6. ASSUME ~crossed' PROVE Starred'
  BY <1>1, <1>2, <1>3, <1>4, <1>6 DEF BookInv, Undisturbed, Starred
<1> QED BY <1>1, <1>4, <1>5, <1>6, TickersMove DEF BookInv, BookTypes

-----------------------------------------------------------------------------
LEMMA BookStep ==
  ASSUME BookInv, [BookNext]_bookVars
  PROVE  BookInv'
<1>1. CASE UNCHANGED bookVars
  <2>1. BookTypes' /\ EverOpened' /\ \A u \in Tasks : Has(task[u])'
    BY <1>1 DEF bookVars, BookInv, BookTypes, EverOpened, Has
  <2>2. Undisturbed'
    BY <1>1 DEF bookVars, BookInv, Undisturbed, Positions, Starred, Aims, Mirrors, Known, Book,
                Copied
  <2> QED BY <2>1, <2>2 DEF BookInv
<1>2. ASSUME NEW t \in Tasks, Step(t) PROVE BookInv'
  <2>1. CASE \E s \in Symbols : Star(t, s) \/ RemoveReads(t, s)
    BY <2>1, StarInv, RemoveReadsInv
  <2>2. CASE Find(t, "editing") \/ Find(t, "closing")
    BY <2>2, FindInv
  <2> QED
    BY <1>2, <2>1, <2>2, OpenInv, EditInv, CloseReadsInv, CloseRebindsInv, ListInv, MarkInv,
       PairInv, WriteBackInv, RemoveRebindsInv DEF Step
<1> QED BY <1>1, <1>2 DEF BookNext

(* A list without repetition is as long as the set of what is in it.       *)
LEMMA PlainLength ==
  ASSUME NEW S, NEW list \in Seq(S), Plain(list)
  PROVE  Len(list) = Cardinality(ToSet(list))
<1>1. DOMAIN list = 1..Len(list) /\ Len(list) \in Nat
  OBVIOUS
<1>2. IsFiniteSet(1..Len(list)) /\ Cardinality(1..Len(list)) = Len(list)
  BY <1>1, FS_Interval
<1> DEFINE place == [i \in 1..Len(list) |-> list[i]]
<1>3. place \in Bijection(1..Len(list), ToSet(list))
  <2>1. place \in [1..Len(list) -> ToSet(list)]
    BY <1>1 DEF ToSet
  <2>2. \A i, k \in 1..Len(list) : place[i] = place[k] => i = k
    BY <1>1 DEF Plain
  <2>3. \A e \in ToSet(list) : \E i \in 1..Len(list) : place[i] = e
    BY <1>1 DEF ToSet
  <2> HIDE DEF place
  <2> QED BY <2>1, <2>2, <2>3 DEF Bijection, Injection, Surjection, IsInjective
<1> QED BY <1>2, <1>3, FS_Bijection DEF ExistsBijection

LEMMA KeptWord == BookInv => DemoKeepsWord
<1> SUFFICES ASSUME BookInv, ~crossed PROVE DemoKeepsWord
  BY DEF DemoKeepsWord
<1>1. Positions /\ Starred
  BY DEF BookInv, Undisturbed
<1>2. Last(stars) \in Seq(Symbols)
  BY Bound DEF BookInv, BookTypes
<1>3. Len(Last(stars)) = Cardinality(starred)
  BY <1>1, <1>2, PlainLength DEF Starred
<1> QED BY <1>1, <1>3 DEF DemoKeepsWord, Positions, PositionsOf, Starred, Known

(* Without cloud credentials, too, the positions and the watchlist are     *)
(* what the answers said, unless one of the named meetings of two requests *)
(* took place; for any number of threads, positions and tickers.           *)
THEOREM WordKept == BookSpec => []DemoKeepsWord
<1>1. BookInit => BookInv
  BY BookStart
<1>2. BookInv /\ [BookNext]_bookVars => BookInv'
  BY BookStep
<1>3. BookInv => DemoKeepsWord
  BY KeptWord
<1> QED BY <1>1, <1>2, <1>3, PTL DEF BookSpec
=============================================================================
