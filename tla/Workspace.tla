----------------------------- MODULE Workspace -----------------------------
(***************************************************************************)
(* The cloud workspace of one profile.  Every workspace route, reads       *)
(* included, is one database transaction at READ COMMITTED that starts     *)
(* with ensure_workspace: it reads the profile and its preferences, and    *)
(* only then locks the row of the default portfolio until it ends.  What   *)
(* it reads after that is current and stays so; what it read before may    *)
(* be stale.                                                               *)
(*                                                                         *)
(* Portfolios, watchlists and their items, stock holdings, the JSON column *)
(* of the preferences and the picture of the profile are modelled.  Shares *)
(* are whole, prices count units of the last stored decimal.               *)
(***************************************************************************)
EXTENDS Integers, FiniteSets, Sequences, SequencesExt

CONSTANTS
  Requests,
  Portfolios, MainPortfolio,    \* ids of portfolios, that of the default one
  Watchlists, MainWatchlist,
  Names, Lower, NoName,         \* what SQL's lower() makes of a name
  MainName,                     \* the name ensure_workspace gives the defaults
  Tickers,
  Quantities, Prices,           \* what a trade may ask for
  Keys, Options, Unset,         \* of the preferences' JSON column
  NoRequest,
  MaxWrites                     \* bound: transactions that write

Folders == Portfolios \cup Watchlists
Unlisted == -1    \* the position of a ticker that is not in a watchlist
Untouched == -2   \* the position of a row that a transaction does not update

ASSUME WorkspaceAssumption ==
  /\ MainPortfolio \in Portfolios /\ MainWatchlist \in Watchlists
  /\ Portfolios \cap Watchlists = {}
  /\ MainName \in Names /\ NoName \notin Names
  /\ DOMAIN Lower = Names /\ IsFiniteSet(Tickers)
  /\ Quantities \subseteq Nat \ {0} /\ Prices \subseteq Nat
  /\ Unset \notin Options /\ NoRequest \notin Requests
  /\ MaxWrites \in Nat

VARIABLES
  provisioned,  \* the profile and its defaults exist; name holds theirs from the start
  name,         \* names of the folders that exist
  archived,     \* portfolios whose archived_at is set
  holding,      \* the stock holding per portfolio, of one ticker
  items,        \* the sort_order of the tickers in a watchlist
  settings,     \* the JSON column of the preferences
  picture,      \* avatar_url: none, the provider's, or one the user chose
  holder,       \* the request that holds the lock
  tx,           \* what the requests are doing
  books,        \* history: what the recorded trades add up to, per portfolio
  writes        \* bound: number of writing transactions

rows == <<provisioned, name, archived, holding, items, settings, picture, books, writes>>
vars == <<rows, holder, tx>>

Picture == {"none", "provider", "chosen"}
Settings == [Keys -> Options \cup {Unset}]
Holding == [shares : Int, average : Int, realized : Int]
NoHolding == [shares |-> 0, average |-> 0, realized |-> 0]

(* What a transaction will have changed when it commits.                   *)
Nothing == [kind |-> "nothing"]
Write ==
  {Nothing, [kind |-> "picture"]}
    \cup [kind : {"trade"}, portfolio : Portfolios, holding : Holding, delta : Int, cash : Int]
    \cup [kind : {"name"}, folder : Folders, name : Names]
    \cup [kind : {"archive"}, portfolio : Portfolios]
    \cup [kind : {"delete"}, watchlist : Watchlists]
    \cup [kind : {"settings"}, settings : Settings, asked : SUBSET Keys]
    \cup [kind : {"order"}, watchlist : Watchlists,
          order : [Tickers -> Nat \cup {Unlisted, Untouched}]]

IdleTx ==
  [pc |-> "idle", settings |-> [k \in Keys |-> Unset], picture |-> "none",
   write |-> Nothing, missed |-> {}]

Init ==
  /\ provisioned = FALSE
  /\ name = [f \in Folders |-> IF f \in {MainPortfolio, MainWatchlist} THEN MainName ELSE NoName]
  /\ archived = {}
  /\ holding = [p \in Portfolios |-> NoHolding]
  /\ items = [w \in Watchlists |-> [t \in Tickers |-> Unlisted]]
  /\ settings = [k \in Keys |-> Unset]
  /\ picture = "none"
  /\ holder = NoRequest
  /\ tx = [r \in Requests |-> IdleTx]
  /\ books = [p \in Portfolios |-> [shares |-> 0, cash |-> 0, slack |-> 0]]
  /\ writes = 0

-----------------------------------------------------------------------------
(***************************************************************************)
(* ensure_workspace.                                                       *)
(***************************************************************************)
(* The profile and its preferences are read, without a lock.               *)
Snapshot(pc) ==
  [IdleTx EXCEPT !.pc = pc, !.settings = settings, !.picture = picture]

Begin(r) ==
  /\ tx[r].pc = "idle"
  /\ tx' = [tx EXCEPT ![r] = Snapshot(IF provisioned THEN "waiting" ELSE "inserting")]
  /\ UNCHANGED <<rows, holder>>

(* The insertion of the profile waits for the transaction of another tab   *)
(* that inserted it; when that one commits, it fails and reads again.      *)
Reread(r) ==
  /\ tx[r].pc = "inserting" /\ provisioned
  /\ tx' = [tx EXCEPT ![r] = Snapshot("waiting")]
  /\ UNCHANGED <<rows, holder>>

(* SELECT ... FOR UPDATE, or the insertion of the profile, goes through    *)
(* when the transaction before has ended.                                  *)
LocksUnlocked(r) ==   \* mutation: SELECT without FOR UPDATE
  tx[r].pc = "waiting" \/ (tx[r].pc = "inserting" /\ ~provisioned)

Locks(r) ==
  /\ holder = NoRequest
  /\ tx[r].pc = "waiting" \/ (tx[r].pc = "inserting" /\ ~provisioned)

(* The rest of the route runs and its changes are flushed.                 *)
Works(r, write) ==
  /\ Locks(r)
  /\ write # Nothing => writes < MaxWrites
  /\ holder' = r
  /\ tx' = [tx EXCEPT ![r] = [@ EXCEPT !.pc = "working", !.write = write]]
  /\ UNCHANGED rows

(* A validation error, an error of the database, the end of the process:   *)
(* session_scope or PostgreSQL rolls everything back.                      *)
Rollback(r) ==
  /\ tx[r].pc # "idle"
  /\ holder' = IF holder = r THEN NoRequest ELSE holder
  /\ tx' = [tx EXCEPT ![r] = IdleTx]
  /\ UNCHANGED rows

-----------------------------------------------------------------------------
(***************************************************************************)
(* Portfolios and watchlists.                                              *)
(***************************************************************************)
(* A route that only reads.                                                *)
Read(r) == Works(r, Nothing)

Siblings(f) == IF f \in Portfolios THEN Portfolios ELSE Watchlists

TakenExactly(f, n) ==   \* mutation: only the unique constraint is left
  \E g \in Siblings(f) \ {f} : name[g] = n

(* A name is compared without its case, also with archived portfolios.     *)
Taken(f, n) ==
  \E g \in Siblings(f) \ {f} : name[g] # NoName /\ Lower[name[g]] = Lower[n]

Named(r, f, n) ==
  /\ ~Taken(f, n)
  /\ Works(r, [kind |-> "name", folder |-> f, name |-> n])

CreatePortfolio(r, p, n) == name[p] = NoName /\ Named(r, p, n)

RenamePortfolio(r, p, n) ==
  /\ name[p] # NoName /\ p \notin archived
  /\ Named(r, p, n)

CreateWatchlist(r, w, n) == name[w] = NoName /\ Named(r, w, n)

UpdateWatchlist(r, w, n) == name[w] # NoName /\ Named(r, w, n)

Archive(r, p) ==
  /\ name[p] # NoName /\ p \notin archived /\ p # MainPortfolio
  /\ Works(r, [kind |-> "archive", portfolio |-> p])

Delete(r, w) ==
  /\ name[w] # NoName /\ w # MainWatchlist
  /\ Works(r, [kind |-> "delete", watchlist |-> w])

-----------------------------------------------------------------------------
(***************************************************************************)
(* The items of a watchlist.                                               *)
(***************************************************************************)
Listed(w) == {t \in Tickers : items[w][t] # Unlisted}

(* The index of a ticker among those of S, in their order.                 *)
Rank(w, S, t) == Cardinality({u \in S : items[w][u] < items[w][t]})

(* The rows an update of the sort orders touches: those that change.       *)
Changes(w, order) ==
  [t \in Tickers |-> IF t \notin DOMAIN order \/ order[t] = items[w][t]
                     THEN Untouched ELSE order[t]]

(* _resequence_watchlist_items: items take their index in the list.        *)
Resequenced(seq) == [t \in ToSet(seq) |-> (CHOOSE i \in DOMAIN seq : seq[i] = t) - 1]

SetsOrder(r, w, order) ==
  LET changes == Changes(w, order)
  IN Works(r, IF Range(changes) = {Untouched} THEN Nothing
              ELSE [kind |-> "order", watchlist |-> w, order |-> changes])

(* A ticker that is listed already keeps its place: nothing is written.    *)
AddItem(r, w, t, i) ==
  /\ name[w] # NoName
  /\ t \notin Listed(w)
  /\ i \in 0 .. Cardinality(Listed(w))
  /\ LET at(u) == Rank(w, Listed(w), u)
     IN SetsOrder(r, w, [u \in Listed(w) \cup {t} |->
                           IF u = t THEN i ELSE IF at(u) < i THEN at(u) ELSE at(u) + 1])

RemoveItem(r, w, t) ==
  /\ name[w] # NoName
  /\ t \in Listed(w)
  /\ SetsOrder(r, w, [u \in Listed(w) |->
                       IF u = t THEN Unlisted ELSE Rank(w, Listed(w) \ {t}, u)])

(* The list must name every item exactly once.                             *)
Reorder(r, w, seq) ==
  /\ name[w] # NoName
  /\ ToSet(seq) = Listed(w) /\ Len(seq) = Cardinality(Listed(w))
  /\ SetsOrder(r, w, Resequenced(seq))

(* The routes for the default watchlist: behind the last item, or at 1;    *)
(* removing leaves a gap.                                                  *)
AddTicker(r, t) ==
  LET w == MainWatchlist
      last == IF Listed(w) = {} THEN 0
              ELSE CHOOSE n \in {items[w][u] : u \in Listed(w)} :
                     \A u \in Listed(w) : items[w][u] <= n
  IN /\ t \notin Listed(w)
     /\ SetsOrder(r, w, [u \in {t} |-> last + 1])

RemoveTicker(r, t) ==
  /\ t \in Listed(MainWatchlist)
  /\ SetsOrder(r, MainWatchlist, [u \in {t} |-> Unlisted])

-----------------------------------------------------------------------------
(***************************************************************************)
(* Stock trades.                                                           *)
(***************************************************************************)
(* NUMERIC(24, 8) rounds half away from zero.                              *)
Rounded(total, shares) == (2 * total + shares) \div (2 * shares)

Trade(r, p, h, delta, price) ==
  /\ name[p] # NoName /\ p \notin archived
  /\ Works(r, [kind |-> "trade", portfolio |-> p, holding |-> h,
               delta |-> delta, cash |-> -(delta * price)])

Buy(r, p, shares, price) ==
  LET h == holding[p]
      held == h.shares + shares
      average == Rounded(h.shares * h.average + shares * price, held)
  IN Trade(r, p, [h EXCEPT !.shares = held, !.average = average], shares, price)

Sell(r, p, shares, price) ==
  LET h == holding[p]
      gain == (price - h.average) * shares
  IN /\ shares <= h.shares
     /\ Trade(r, p, [h EXCEPT !.shares = h.shares - shares, !.realized = h.realized + gain],
              -shares, price)

-----------------------------------------------------------------------------
(***************************************************************************)
(* Preferences and the profile.                                            *)
(***************************************************************************)
MergedAnew(r, asked, choice) ==   \* mutation: starts from {} instead of the column
  [k \in Keys |-> IF k \in asked THEN choice ELSE Unset]

(* The payload is merged into the settings that were read before the lock. *)
Merged(r, asked, choice) ==
  [k \in Keys |-> IF k \in asked THEN choice ELSE tx[r].settings[k]]

(* An unchanged attribute is not written.                                  *)
SetPreferences(r, asked, choice) ==
  LET merged == Merged(r, asked, choice)
  IN Works(r, IF merged = tx[r].settings THEN Nothing
              ELSE [kind |-> "settings", settings |-> merged, asked |-> asked])

ChoosePicture(r) == Works(r, [kind |-> "picture"])

-----------------------------------------------------------------------------
(* The picture after the commit: chosen now, or, when none was there at    *)
(* the first read, the one the provider has.                               *)
NextPicture(r) ==
  IF tx[r].write.kind = "picture" THEN {"chosen"}
  ELSE IF tx[r].picture = "none" THEN {picture, "provider"} ELSE {picture}

(* What the others, under way, have not seen of this commit.               *)
Missing(r) ==
  {k \in Keys : settings'[k] # settings[k]} \cup (IF picture' # picture THEN {"picture"} ELSE {})

NextBook(book, write) ==
  LET held == book.shares + write.delta
  IN [shares |-> held,
      cash |-> book.cash + write.cash,
      slack |-> book.slack + (IF write.delta > 0 THEN held ELSE 0)]

Commit(r) ==
  LET write == tx[r].write
      is(kind) == write.kind = kind
  IN /\ tx[r].pc = "working"
     /\ provisioned' = TRUE
     /\ name' = CASE is("name") -> [name EXCEPT ![write.folder] = write.name]
                  [] is("delete") -> [name EXCEPT ![write.watchlist] = NoName]
                  [] OTHER -> name
     /\ archived' = IF is("archive") THEN archived \cup {write.portfolio} ELSE archived
     /\ holding' = IF is("trade") THEN [holding EXCEPT ![write.portfolio] = write.holding]
                   ELSE holding
     /\ items' = CASE is("order") ->
                        [items EXCEPT ![write.watchlist] =
                           [t \in Tickers |-> IF write.order[t] = Untouched
                                              THEN items[write.watchlist][t]
                                              ELSE write.order[t]]]
                   [] is("delete") ->
                        [items EXCEPT ![write.watchlist] = [t \in Tickers |-> Unlisted]]
                   [] OTHER -> items
     /\ settings' = IF is("settings") THEN write.settings ELSE settings
     /\ picture' \in NextPicture(r)
     /\ books' = IF is("trade")
                 THEN [books EXCEPT ![write.portfolio] = NextBook(books[write.portfolio], write)]
                 ELSE books
     /\ writes' = IF is("nothing") THEN writes ELSE writes + 1
     /\ holder' = IF holder = r THEN NoRequest ELSE holder
     /\ tx' = [q \in Requests |->
                 CASE q = r -> IdleTx
                   [] q # r /\ tx[q].pc = "idle" -> tx[q]
                   [] OTHER -> [tx[q] EXCEPT !.missed = @ \cup Missing(r)]]

Next ==
  \E r \in Requests :
    \/ Begin(r) \/ Reread(r) \/ Rollback(r) \/ Commit(r) \/ Read(r)
    \/ \E p \in Portfolios, n \in Names : CreatePortfolio(r, p, n) \/ RenamePortfolio(r, p, n)
    \/ \E w \in Watchlists, n \in Names : CreateWatchlist(r, w, n) \/ UpdateWatchlist(r, w, n)
    \/ \E p \in Portfolios : Archive(r, p)
    \/ \E w \in Watchlists : Delete(r, w)
    \/ \E w \in Watchlists, t \in Tickers :
         \/ \E i \in 0 .. Cardinality(Tickers) : AddItem(r, w, t, i)
         \/ RemoveItem(r, w, t)
    \/ \E w \in Watchlists : \E seq \in SetToSeqs(Listed(w)) : Reorder(r, w, seq)
    \/ \E t \in Tickers : AddTicker(r, t) \/ RemoveTicker(r, t)
    \/ \E p \in Portfolios, shares \in Quantities, price \in Prices :
         Buy(r, p, shares, price) \/ Sell(r, p, shares, price)
    \/ \E asked \in SUBSET Keys, choice \in Options : SetPreferences(r, asked, choice)
    \/ ChoosePicture(r)

Spec == Init /\ [][Next]_vars

-----------------------------------------------------------------------------
(* Types; holdings are never short and never cost less than nothing.       *)
TypeOK ==
  /\ provisioned \in BOOLEAN
  /\ name \in [Folders -> Names \cup {NoName}]
  /\ archived \subseteq Portfolios \ {MainPortfolio}
  /\ holding \in [Portfolios -> [shares : Nat, average : Nat, realized : Int]]
  /\ items \in [Watchlists -> [Tickers -> Nat \cup {Unlisted}]]
  /\ settings \in Settings
  /\ picture \in Picture
  /\ holder \in Requests \cup {NoRequest}
  /\ tx \in [Requests -> [pc : {"idle", "inserting", "waiting", "working"},
                          settings : Settings, picture : Picture, write : Write,
                          missed : SUBSET (Keys \cup {"picture"})]]
  /\ books \in [Portfolios -> [shares : Int, cash : Int, slack : Nat]]
  /\ writes \in 0 .. MaxWrites

(* "Record a buy/sell and atomically update its holding projection": the   *)
(* holding has the shares that were bought and not sold, and the realized  *)
(* profit is what was received less what was paid, the shares still held   *)
(* at their average cost, up to half a unit per share for each rounding    *)
(* of the average.                                                         *)
HoldingMatchesLedger ==
  /\ TypeOK
  /\ \A p \in Portfolios :
       LET h == holding[p]
           drift == h.realized - (books[p].cash + h.shares * h.average)
       IN /\ h.shares = books[p].shares
          /\ 2 * drift <= books[p].slack /\ -(2 * drift) <= books[p].slack

(* Names differ in more than their case, also from those of archived       *)
(* portfolios, and no two items share a place: what an operation checked   *)
(* is still so when it commits, whatever other tabs do.  RoutesAreAtomic   *)
(* below says more, and is what the runs check.                            *)
KeysDistinct ==
  /\ \A f \in Folders : \A g \in Siblings(f) \ {f} :
       name[f] # NoName /\ name[g] # NoName => Lower[name[f]] # Lower[name[g]]
  /\ \A w \in Watchlists : \A t, u \in Listed(w) :
       t # u => items[w][t] # items[w][u]

(* A preference or a picture that the user chose is replaced only by a     *)
(* request that chooses it, or that was under way when it was chosen.      *)
ChoicesKept ==
  [][\A r \in Requests :
       tx[r].pc = "working" /\ tx'[r].pc = "idle" =>
         LET write == tx[r].write
         IN /\ \A k \in Keys \ tx[r].missed :
                 settings'[k] # settings[k] => write.kind = "settings" /\ k \in write.asked
            /\ picture' # picture /\ picture = "chosen" => "picture" \in tx[r].missed]_vars

(* The tickers of a watchlist that come before t.                          *)
Before(w, t) ==
  IF t \in Listed(w) THEN {u \in Listed(w) : items[w][u] < items[w][t]} ELSE {}

Atomic == INSTANCE AtomicWorkspace WITH
  folder <- name,
  closed <- archived,
  shares <- [p \in Portfolios |-> holding[p].shares],
  listed <- [w \in Watchlists |-> Listed(w)],
  ahead <- [w \in Watchlists |-> [t \in Tickers |-> Before(w, t)]]

(* Every commit is one change of the abstract workspace, or none, to the   *)
(* rows as they are then: what a route read, checked and computed in       *)
(* several statements takes effect as if it had run alone.                 *)
RoutesAreAtomic == Atomic!Spec
=============================================================================
