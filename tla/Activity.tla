------------------------------ MODULE Activity ------------------------------
(***************************************************************************)
(* What else a profile records: option contracts, notes on holdings,       *)
(* favourites, saved simulations, and how often a ticker was searched or   *)
(* viewed.  Its routes are transactions like those of Workspace and begin  *)
(* with the same ensure_workspace; none of them locks the rows it reads,   *)
(* checks and rewrites.                                                    *)
(*                                                                         *)
(* A transaction keeps what it will write in a draft; the steps of         *)
(* Workspace give it its lock and end it.                                  *)
(***************************************************************************)
EXTENDS Workspace

CONSTANTS
  Contracts,  \* ids of option positions
  Terms,      \* what a contract may say: strike, premium, quantity
  Entries,    \* ids of saved simulations
  MaxEntries  \* bound: transactions that write

Tables == {"search", "view"}   \* search_history, recent_viewed

Absent == [portfolio |-> NoName, open |-> FALSE, terms |-> 0]

VARIABLES
  position, \* the option contracts
  note,     \* the notes on a portfolio's holding
  kept,     \* favourites and saved simulations
  count,    \* search_count and view_count of a ticker; 0: no row
  draft,    \* what a transaction will have written when it commits
  asked,    \* history: how often a count was to be raised
  entries   \* bound: number of writing transactions

activity == <<position, note, kept, count, asked, entries>>
activityVars == <<activity, draft>>

ActivityInit ==
  /\ position = [c \in Contracts |-> Absent]
  /\ note = [p \in Portfolios |-> 0]
  /\ kept = {}
  /\ count = [table \in Tables |-> [t \in Tickers |-> 0]]
  /\ draft = [r \in Requests |-> Nothing]
  /\ asked = count
  /\ entries = 0

(* The route behind the lock, up to its flush.                             *)
Drafts(r, write) ==
  /\ Works(r, Nothing)
  /\ write # Nothing => entries < MaxEntries
  /\ draft' = [draft EXCEPT ![r] = write]
  /\ UNCHANGED activity

-----------------------------------------------------------------------------
(* Option contracts.  A price is fetched before the transaction begins.    *)
OpenAnywhere(r, c, p, terms) ==   \* mutation: archived_at is not checked
  /\ position[c] = Absent /\ name[p] # NoName
  /\ Drafts(r, [kind |-> "open", contract |-> c, portfolio |-> p, terms |-> terms])

OpenContract(r, c, p, terms) ==
  /\ position[c] = Absent
  /\ name[p] # NoName /\ p \notin archived
  /\ Drafts(r, [kind |-> "open", contract |-> c, portfolio |-> p, terms |-> terms])

(* Only an open contract is found; that its portfolio was archived since   *)
(* is no obstacle.                                                         *)
EditContract(r, c, terms) ==
  /\ position[c].open
  /\ Drafts(r, [kind |-> "terms", contract |-> c, terms |-> terms])

CloseContract(r, c) ==
  /\ position[c].open
  /\ Drafts(r, [kind |-> "close", contract |-> c])

(* update_stock_holding_notes *)
SetNote(r, p, text) ==
  /\ holding[p] # NoHolding /\ p \notin archived
  /\ Drafts(r, [kind |-> "note", portfolio |-> p, text |-> text])

-----------------------------------------------------------------------------
(* Favourites and simulations.                                             *)
AddFavorite(r, t) ==
  Drafts(r, IF <<"favorite", t>> \in kept THEN Nothing
            ELSE [kind |-> "keep", row |-> <<"favorite", t>>])

RemoveFavorite(r, t) ==
  Drafts(r, IF <<"favorite", t>> \in kept THEN [kind |-> "drop", row |-> <<"favorite", t>>]
            ELSE Nothing)

SaveSimulation(r, e) ==
  /\ <<"simulation", e>> \notin kept
  /\ Drafts(r, [kind |-> "keep", row |-> <<"simulation", e>>])

DropSimulation(r, e) ==
  /\ <<"simulation", e>> \in kept
  /\ Drafts(r, [kind |-> "drop", row |-> <<"simulation", e>>])

(* The row is inserted with 1, or rewritten with the count that was read   *)
(* and one more.                                                           *)
Touch(r, table, t) ==
  Drafts(r, [kind |-> "count", table |-> table, ticker |-> t, count |-> count[table][t] + 1])

(* The overview and the lists of contracts, holdings, favourites and       *)
(* histories write nothing; they read in several statements.               *)
Overview(r) == Drafts(r, Nothing)

Search(r, t) == Touch(r, "search", t)

View(r, t) == Touch(r, "view", t)

-----------------------------------------------------------------------------
CommitDraft(r) ==
  LET write == draft[r]
      is(kind) == write.kind = kind
  IN /\ Commit(r)
     /\ position' =
          CASE is("open") ->
                 [position EXCEPT ![write.contract] =
                    [portfolio |-> write.portfolio, open |-> TRUE, terms |-> write.terms]]
            [] is("terms") -> [position EXCEPT ![write.contract].terms = write.terms]
            [] is("close") -> [position EXCEPT ![write.contract].open = FALSE]
            [] OTHER -> position
     /\ note' = IF is("note") THEN [note EXCEPT ![write.portfolio] = write.text] ELSE note
     /\ kept' = CASE is("keep") -> kept \cup {write.row}
                  [] is("drop") -> kept \ {write.row}
                  [] OTHER -> kept
     /\ count' = IF is("count") THEN [count EXCEPT ![write.table][write.ticker] = write.count]
                 ELSE count
     /\ asked' = IF is("count") THEN [asked EXCEPT ![write.table][write.ticker] = @ + 1]
                 ELSE asked
     /\ entries' = IF is("nothing") THEN entries ELSE entries + 1
     /\ draft' = [draft EXCEPT ![r] = Nothing]

RollbackDraft(r) ==
  /\ Rollback(r)
  /\ draft' = [draft EXCEPT ![r] = Nothing]
  /\ UNCHANGED activity

(* The routes of Workspace that matter here: portfolios come, hold a stock *)
(* and are archived; their names and what was paid make no difference.     *)
AnyOf(S) == CHOOSE x \in S : TRUE

Around(r) ==
  /\ \/ Begin(r) \/ Reread(r)
     \/ \E p \in Portfolios : CreatePortfolio(r, p, AnyOf(Names \ {MainName})) \/ Archive(r, p)
     \/ \E p \in Portfolios : /\ holding[p] = NoHolding
                             /\ Buy(r, p, AnyOf(Quantities), AnyOf(Prices))
  /\ UNCHANGED activityVars

ActivityNext ==
  \E r \in Requests :
    \/ Around(r) \/ Overview(r) \/ CommitDraft(r) \/ RollbackDraft(r)
    \/ \E c \in Contracts, p \in Portfolios, terms \in Terms : OpenContract(r, c, p, terms)
    \/ \E c \in Contracts, terms \in Terms : EditContract(r, c, terms)
    \/ \E c \in Contracts : CloseContract(r, c)
    \/ \E p \in Portfolios, text \in Terms : SetNote(r, p, text)
    \/ \E t \in Tickers : AddFavorite(r, t) \/ RemoveFavorite(r, t) \/ Search(r, t) \/ View(r, t)
    \/ \E e \in Entries : SaveSimulation(r, e) \/ DropSimulation(r, e)

ActivitySpec == Init /\ ActivityInit /\ [][ActivityNext]_<<vars, activityVars>>

-----------------------------------------------------------------------------
(* Two tabs search at once: every search that was answered is counted, and *)
(* no two of them insert the row.  The count is read, raised and written   *)
(* back without a lock on its row.                                         *)
CountsComplete == count = asked

(* A closed contract and an archived portfolio are final ("archived        *)
(* portfolios cannot be renamed", "cannot trade in an archived             *)
(* portfolio"), although a route reads the contract or the portfolio first *)
(* and writes later.                                                       *)
ClosedIsFinal ==
  [][/\ \A c \in Contracts :
          /\ position[c] # Absent /\ ~position[c].open => position'[c] = position[c]
          /\ position[c] = Absent /\ position'[c] # Absent => position'[c].portfolio \notin archived
     /\ \A p \in archived :
          note'[p] = note[p] /\ holding'[p] = holding[p] /\ name'[p] = name[p]
    ]_<<vars, activityVars>>
=============================================================================
