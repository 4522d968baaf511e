----------------------------- MODULE LegacyBook -----------------------------
(***************************************************************************)
(* Without cloud credentials (main.py, get_cloud_user_or_legacy) the       *)
(* positions and the watchlist are two lists of the process, and every     *)
(* route runs in a thread of its own with no lock.  An append mutates the  *)
(* list; a removal binds the name to a filtered copy, so a thread may go   *)
(* on with a list that is no longer the bound one.  Between bytecodes that *)
(* call or loop another thread may run: a membership test with its append  *)
(* is one step, a comprehension that filters is two.                       *)
(*                                                                         *)
(* A position is a Python object; of its fields the model keeps the id and *)
(* the contract (what PositionUpdateModel edits).  The marks that          *)
(* enrich_option_position adds are recomputed by every reader.             *)
(***************************************************************************)
EXTENDS Integers, FiniteSets, Sequences, SequencesExt

CONSTANTS
  Tasks,     \* threads that serve requests
  Objects,   \* position objects, each used once
  Ids,
  Details,   \* what a position may say: the fields that an edit replaces
  Symbols,
  Seed,      \* the watchlist the process starts with
  NoObject,
  Closed,    \* told of a position: it is closed
  Budget     \* bound: requests that are served

ASSUME BookAssumption ==
  /\ Seed \in Seq(Symbols)
  /\ \A i, k \in DOMAIN Seed : Seed[i] = Seed[k] => i = k
  /\ NoObject \notin Details /\ Closed \notin Details \cup {NoObject}

VARIABLES
  field,     \* id and terms of each position object
  lists,     \* list objects `logged_positions` was bound to; the last one is
  stars,     \* the same of `watchlist`
  task,
  budget,
  told,      \* history: what the answers said of a position
  starred,   \* history: and of the tickers on the watchlist
  crossed    \* history: requests met in one of the ways that lose an update

bookVars == <<field, lists, stars, task, budget, told, starred, crossed>>

Idle == [pc |-> "idle", id |-> 0, object |-> NoObject, list |-> 0,
         copies |-> <<>>, written |-> 0, symbol |-> NoObject]

Book == Last(lists)
Known(o) == o \in ToSet(Book)

BookInit ==
  /\ field = [o \in Objects |-> [id |-> 0, terms |-> NoObject]]
  /\ lists = <<<<>>>>
  /\ stars = <<Seed>> /\ starred = ToSet(Seed)
  /\ task = [t \in Tasks |-> Idle]
  /\ budget = Budget
  /\ told = [o \in Objects |-> NoObject]
  /\ crossed = FALSE

(* A comprehension that filters: what is left of a list, in its order.     *)
Without(list, gone) ==
  LET places == {i \in DOMAIN list : list[i] \notin gone}
      Before(i) == Cardinality({j \in places : j < i})
  IN [n \in 1..Cardinality(places) |-> list[CHOOSE i \in places : Before(i) = n - 1]]

(* A request is served by a free thread.                                   *)
Serves(t) == task[t].pc = "idle" /\ budget > 0 /\ budget' = budget - 1

(* What a listing has copied and not written back yet.                     *)
Pending(t) ==
  {task[t].copies[i] : i \in (task[t].written + 1)..Len(task[t].copies)}

(* POST /api/positions; the entry price was fetched before.  The id is     *)
(* random, and nobody looks whether it is taken.                           *)
OpenedWith(t, book) ==
  /\ Serves(t)
  /\ \E o \in Objects, id \in Ids, c \in Details :
       /\ told[o] = NoObject
       /\ field' = [field EXCEPT ![o] = [id |-> id, terms |-> c]]
       /\ lists' = [lists EXCEPT ![Len(lists)] = book[o]]
       /\ told' = [told EXCEPT ![o] = c]
       /\ crossed' = (crossed \/ (\E p \in Objects : Known(p) /\ field[p].id = id)
                              \/ \E u \in Tasks : task[u].pc # "idle" /\ task[u].id = id)
  /\ UNCHANGED <<stars, task, starred>>

OpenFirst(t) ==   \* mutation: the newest position is listed first
  OpenedWith(t, [o \in Objects |-> <<o>> \o Book])

Open(t) == OpenedWith(t, [o \in Objects |-> Append(Book, o)])

(* PATCH and DELETE /api/positions/{id}: the first position with that id.  *)
Find(t, next) ==
  /\ Serves(t)
  /\ \E i \in DOMAIN Book :
       /\ \A k \in 1..(i - 1) : field[Book[k]].id # field[Book[i]].id
       /\ task' = [task EXCEPT ![t] =
                     [Idle EXCEPT !.pc = next, !.id = field[Book[i]].id, !.object = Book[i]]]
  /\ UNCHANGED <<field, lists, stars, told, starred, crossed>>

(* The object is updated in place, also when it left the list meanwhile; a *)
(* listing that has copied it will write the old terms back.               *)
Edit(t) ==
  LET o == task[t].object
  IN /\ task[t].pc = "editing"
     /\ \E c \in Details :
          /\ field' = [field EXCEPT ![o].terms = c]
          /\ told' = [told EXCEPT ![o] = IF told[o] = Closed THEN @ ELSE c]
     /\ task' = [task EXCEPT ![t] = Idle]
     /\ crossed' = (crossed \/ \E u \in Tasks : \E c \in Pending(u) : c.of = o)
     /\ UNCHANGED <<lists, stars, budget, starred>>

(* The closing mark was fetched; the filter begins to read the list.       *)
CloseReads(t) ==
  /\ task[t].pc = "closing"
  /\ task' = [task EXCEPT ![t] = [@ EXCEPT !.pc = "filtering", !.list = Len(lists)]]
  /\ UNCHANGED <<field, lists, stars, budget, told, starred, crossed>>

(* The name is bound to the filtered copy, which has what was appended to  *)
(* the list meanwhile but not what another request did to a newer one.     *)
CloseRebinds(t) ==
  /\ task[t].pc = "filtering"
  /\ lists' = Append(lists, Without(lists[task[t].list],
                                    {o \in Objects : field[o].id = task[t].id}))
  /\ told' = [told EXCEPT ![task[t].object] = Closed]
  /\ task' = [task EXCEPT ![t] = Idle]
  /\ crossed' = (crossed \/ task[t].list # Len(lists)
                         \/ \E u \in Tasks : task[u].pc = "listing")
  /\ UNCHANGED <<field, stars, budget, starred>>

(* GET /api/positions: each position is copied and marked, at the pace of  *)
(* the provider, ...                                                       *)
List(t) ==
  /\ Serves(t)
  /\ task' = [task EXCEPT ![t] = [Idle EXCEPT !.pc = "listing", !.list = Len(lists)]]
  /\ UNCHANGED <<field, lists, stars, told, starred, crossed>>

Copied(o) == [of |-> o, id |-> field[o].id, terms |-> field[o].terms]

Mark(t) ==
  LET next == Len(task[t].copies) + 1
      items == lists[task[t].list]
  IN /\ task[t].pc = "listing" /\ next <= Len(items)
     /\ task' = [task EXCEPT ![t].copies = Append(@, Copied(items[next]))]
     /\ UNCHANGED <<field, lists, stars, budget, told, starred, crossed>>

(* ... then the copies are paired with what is in the list by now,         *)
Pair(t) ==
  /\ task[t].pc = "listing" /\ Len(task[t].copies) = Len(lists[task[t].list])
  /\ task' = [task EXCEPT ![t] = [@ EXCEPT !.pc = "writing", !.list = Len(lists)]]
  /\ UNCHANGED <<field, lists, stars, budget, told, starred, crossed>>

(* and every field of a copy, its id included, is written to its partner.  *)
WriteBack(t) ==
  LET i == task[t].written + 1
      items == lists[task[t].list]
      done == i > Len(task[t].copies) \/ i > Len(items)
  IN /\ task[t].pc = "writing"
     /\ IF done THEN task' = [task EXCEPT ![t] = Idle] /\ UNCHANGED field
        ELSE /\ field' = [field EXCEPT ![items[i]] =
                            [id |-> task[t].copies[i].id, terms |-> task[t].copies[i].terms]]
             /\ task' = [task EXCEPT ![t].written = i]
     /\ UNCHANGED <<lists, stars, budget, told, starred, crossed>>

(* The watchlist: an append of what is not there yet, a filtered copy.     *)
Star(t, s) ==
  /\ Serves(t)
  /\ stars' = [stars EXCEPT ![Len(stars)] = IF s \in ToSet(@) THEN @ ELSE Append(@, s)]
  /\ starred' = starred \cup {s}
  /\ UNCHANGED <<field, lists, task, told, crossed>>

RemoveReads(t, s) ==
  /\ Serves(t)
  /\ task' = [task EXCEPT ![t] =
                [Idle EXCEPT !.pc = "unstarring", !.symbol = s, !.list = Len(stars)]]
  /\ UNCHANGED <<field, lists, stars, told, starred, crossed>>

RemoveRebinds(t) ==
  /\ task[t].pc = "unstarring"
  /\ stars' = Append(stars, Without(stars[task[t].list], {task[t].symbol}))
  /\ starred' = starred \ {task[t].symbol}
  /\ task' = [task EXCEPT ![t] = Idle]
  /\ crossed' = (crossed \/ task[t].list # Len(stars))
  /\ UNCHANGED <<field, lists, budget, told>>

Step(t) ==
  \/ Open(t) \/ Find(t, "editing") \/ Edit(t)
  \/ Find(t, "closing") \/ CloseReads(t) \/ CloseRebinds(t)
  \/ List(t) \/ Mark(t) \/ Pair(t) \/ WriteBack(t)
  \/ \E s \in Symbols : Star(t, s) \/ RemoveReads(t, s)
  \/ RemoveRebinds(t)

BookNext == \E t \in Tasks : Step(t)

BookSpec == BookInit /\ [][BookNext]_bookVars

-----------------------------------------------------------------------------
(* The demo keeps what it answered: the list holds the positions that were *)
(* opened and not closed, each with an id of its own and the contract it   *)
(* was opened or last edited with, and the watchlist the starred tickers,  *)
(* each once -- unless two removals overlapped, a removal or an edit met a *)
(* listing that had read before it and wrote after it, or an id was drawn  *)
(* twice.  Listings beside each other and beside new positions never       *)
(* disturb anything, nor does a ticker that is added while one is removed. *)
DemoKeepsWord ==
  ~crossed =>
    /\ \A o \in Objects :
         /\ Known(o) <=> told[o] \in Details
         /\ Known(o) => field[o].terms = told[o]
    /\ \A i, k \in DOMAIN Book : field[Book[i]].id = field[Book[k]].id => i = k
    /\ ToSet(Last(stars)) = starred
    /\ Len(Last(stars)) = Cardinality(starred)
=============================================================================
