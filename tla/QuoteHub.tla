------------------------------ MODULE QuoteHub ------------------------------
(***************************************************************************)
(* LiveQuoteHub (quote_hub.py) together with the /ws/price endpoint that   *)
(* drives it (main.py).  Everything runs on one asyncio event loop, and no *)
(* body of an `async with self._lock` block suspends, so the lock is never *)
(* contended: the atomic steps below are the stretches of code between two *)
(* real suspension points (accept, fetch, gather, sleep, receive, joining  *)
(* a cancelled task).                                                      *)
(*                                                                         *)
(* A payload is reduced to its price, `sent_at` to a coarse clock `now`,   *)
(* and a frame handed to a socket to its sequence number.                  *)
(***************************************************************************)
EXTENDS Integers, FiniteSets

CONSTANTS
  Tickers,      \* symbols a client may watch
  Sockets,      \* slots for browser connections, reused after a disconnect
  Workers,      \* identities of poll tasks; their number bounds live tasks
  Prices,       \* prices the provider may return
  NoPrice,      \* `price: None`
  NoTicker,
  NoWorker,
  NoSnapshot,
  MaxActive,    \* max_active_tickers
  MaxSubs,      \* max_subscribers
  MaxSnaps,     \* max_snapshots, raised to MaxActive by the constructor
  TTL,          \* snapshot_ttl_seconds, in clock ticks
  MaxSeq,       \* bound: sequence number at which polling stops
  MaxTime       \* bound: last tick of the clock

ASSUME HubAssumption ==
  /\ IsFiniteSet(Tickers) /\ IsFiniteSet(Sockets) /\ IsFiniteSet(Workers)
  /\ MaxActive \in Nat \ {0} /\ MaxSubs \in Nat \ {0}
  /\ MaxSnaps \in Nat /\ MaxSnaps >= MaxActive
  /\ TTL \in Nat /\ MaxSeq \in Nat /\ MaxTime \in Nat
  /\ NoPrice \notin Prices /\ NoTicker \notin Tickers
  /\ NoWorker \notin Workers
  /\ NoSnapshot \notin [price : Prices \cup {NoPrice}, seq : Nat, sentAt : Nat]

VARIABLES
  subscribers,  \* _subscribers; the empty set is an absent key
  tasks,        \* _tasks; NoWorker is an absent key
  snapshots,    \* _snapshots
  sequences,    \* _sequences; 0 is an absent key
  worker,       \* the coroutines running _run_ticker
  sock,         \* the coroutines running websocket_endpoint
  now,          \* wall clock
  phase         \* "running", "stopping", "closed"

vars == <<subscribers, tasks, snapshots, sequences, worker, sock, now, phase>>

Snapshot == [price : Prices \cup {NoPrice}, seq : Nat, sentAt : Nat]

(* A poll task: `pending` sockets whose send the gather still awaits,      *)
(* `failed` ones whose send raised, `joining` the task it cancelled.       *)
WorkerState ==
  [pc : {"idle", "new", "fetching", "sending", "sleeping", "joining", "cancelled"},
   ticker : Tickers \cup {NoTicker},
   pending : SUBSET Sockets, failed : SUBSET Sockets,
   joining : Workers \cup {NoWorker}]

(* A connection: `last` is the newest sequence number handed to it.        *)
SockState ==
  [pc : {"idle", "accepting", "greeting", "receiving", "rejected", "joining"},
   ticker : Tickers \cup {NoTicker}, broken : BOOLEAN, last : Nat,
   joining : Workers \cup {NoWorker}]

IdleWorker == [pc |-> "idle", ticker |-> NoTicker, pending |-> {},
               failed |-> {}, joining |-> NoWorker]
IdleSock == [pc |-> "idle", ticker |-> NoTicker, broken |-> FALSE,
             last |-> 0, joining |-> NoWorker]

Connected == {"accepting", "greeting", "receiving"}

Active(subs) == {t \in Tickers : subs[t] # {}}
Held(snaps) == {t \in Tickers : snaps[t] # NoSnapshot}
Subscribed(subs) == {s \in Sockets : \E t \in Tickers : s \in subs[t]}

(***************************************************************************)
(* _prune_snapshots_locked: expired inactive snapshots go first, then the  *)
(* oldest inactive ones while the map is over its limit.  The set of sets  *)
(* of tickers it may drop (several when `sent_at` ties).                   *)
(***************************************************************************)
ExpiredAnywhere(snaps, subs) ==   \* mutation: watched tickers expire too
  {t \in Held(snaps) : now - snaps[t].sentAt > TTL}

Expired(snaps, subs) ==
  {t \in Held(snaps) \ Active(subs) : now - snaps[t].sentAt > TTL}

Excess(kept) ==
  IF Cardinality(kept) > MaxSnaps THEN Cardinality(kept) - MaxSnaps ELSE 0

Evictions(snaps, subs) ==
  LET kept == Held(snaps) \ Expired(snaps, subs)
      inactive == kept \ Active(subs)
  IN {D \in SUBSET inactive :
        /\ \A d \in D, x \in inactive \ D : snaps[d].sentAt <= snaps[x].sentAt
        /\ \/ Cardinality(D) = Excess(kept)
           \/ D = inactive /\ Cardinality(D) < Excess(kept)}

(* The maps after pruning `snaps` and `seqs` for the subscriptions `subs`. *)
Prune(snaps, seqs, subs) ==
  \E D \in Evictions(snaps, subs) :
    LET gone == D \cup Expired(snaps, subs)
    IN /\ snapshots' = [t \in Tickers |-> IF t \in gone THEN NoSnapshot ELSE snaps[t]]
       /\ sequences' = [t \in Tickers |-> IF t \in gone THEN 0 ELSE seqs[t]]

-----------------------------------------------------------------------------
Init ==
  /\ subscribers = [t \in Tickers |-> {}]
  /\ tasks = [t \in Tickers |-> NoWorker]
  /\ snapshots = [t \in Tickers |-> NoSnapshot]
  /\ sequences = [t \in Tickers |-> 0]
  /\ worker = [w \in Workers |-> IdleWorker]
  /\ sock = [s \in Sockets |-> IdleSock]
  /\ now = 0
  /\ phase = "running"

(***************************************************************************)
(* The endpoint.                                                           *)
(***************************************************************************)
(* A slot stands for a new WebSocket object: it is reused only when no     *)
(* broadcast refers to the previous one.                                   *)
Connect(s, t) ==
  /\ phase = "running"
  /\ sock[s] = IdleSock
  /\ \A w \in Workers : s \notin worker[w].pending \cup worker[w].failed
  /\ sock' = [sock EXCEPT ![s] = [IdleSock EXCEPT !.pc = "accepting", !.ticker = t]]
  /\ UNCHANGED <<subscribers, tasks, snapshots, sequences, worker, now, phase>>

(* The client goes away; the server has not noticed yet.                   *)
Drop(s) ==
  /\ sock[s].pc \in Connected /\ ~sock[s].broken
  /\ sock' = [sock EXCEPT ![s].broken = TRUE]
  /\ UNCHANGED <<subscribers, tasks, snapshots, sequences, worker, now, phase>>

AtCapacity(t) ==
  \/ subscribers[t] = {} /\ Cardinality(Active(subscribers)) >= MaxActive
  \/ Cardinality(Subscribed(subscribers)) >= MaxSubs

(* subscribe(), after accept(), refused: the endpoint then awaits close(). *)
Reject(s) ==
  /\ sock[s].pc = "accepting"
  /\ AtCapacity(sock[s].ticker)
  /\ Prune(snapshots, sequences, subscribers)
  /\ sock' = [sock EXCEPT ![s].pc = "rejected"]
  /\ UNCHANGED <<subscribers, tasks, worker, now, phase>>

RegisteredSilently(s, snapshot) ==   \* mutation: no retained snapshot is sent
  [sock[s] EXCEPT !.pc = "receiving"]

(* The endpoint once registered: it sends the retained snapshot, if any.   *)
Registered(s, snapshot) ==
  IF snapshot = NoSnapshot THEN [sock[s] EXCEPT !.pc = "receiving"]
  ELSE [sock[s] EXCEPT !.pc = "greeting", !.last = snapshot.seq]

(* subscribe(), after accept(): register, start the ticker's worker when   *)
(* _tasks has none, and start sending the retained snapshot.               *)
Subscribe(s) ==
  LET t == sock[s].ticker
  IN /\ sock[s].pc = "accepting"
     /\ ~AtCapacity(t)
     /\ Prune(snapshots, sequences, subscribers)
     /\ subscribers' = [subscribers EXCEPT ![t] = @ \cup {s}]
     /\ IF tasks[t] = NoWorker
        THEN \E w \in Workers :
               /\ worker[w] = IdleWorker
               /\ tasks' = [tasks EXCEPT ![t] = w]
               /\ worker' = [worker EXCEPT ![w] =
                               [IdleWorker EXCEPT !.pc = "new", !.ticker = t]]
        ELSE UNCHANGED <<tasks, worker>>
     /\ sock' = [sock EXCEPT ![s] = Registered(s, snapshots'[t])]
     /\ UNCHANGED <<now, phase>>

(* The send of the retained snapshot completes.                            *)
Greeted(s) ==
  /\ sock[s].pc = "greeting"
  /\ sock' = [sock EXCEPT ![s].pc = "receiving"]
  /\ UNCHANGED <<subscribers, tasks, snapshots, sequences, worker, now, phase>>

(* Ways into the endpoint's finally clause: accept() or the greeting send  *)
(* raised, receive() reported the disconnect, or close(1013) returned.     *)
Ending(s) ==
  \/ sock[s].pc \in Connected /\ sock[s].broken
  \/ sock[s].pc = "rejected"

CancelledUnlessFetching(task) ==   \* mutation: the fetch swallows the cancel
  IF task.pc = "fetching" THEN task
  ELSE [task EXCEPT !.pc = "cancelled", !.pending = {}, !.failed = {}]

(* A cancelled task runs nothing but its finally clause.                   *)
Cancelled(task) == [task EXCEPT !.pc = "cancelled", !.pending = {}, !.failed = {}]

LeaveRegistered(s) ==   \* mutation: the endpoint ends without unsubscribing
  /\ Ending(s)
  /\ sock' = [sock EXCEPT ![s] = IdleSock]
  /\ UNCHANGED <<subscribers, tasks, snapshots, sequences, worker, now, phase>>

(* unsubscribe() from the finally clause.  When the socket was the last    *)
(* listener it pops the task, cancels it and awaits its end; popping and   *)
(* cancel() have no suspension between them.                               *)
Leave(s) ==
  LET t == sock[s].ticker
      subs == [subscribers EXCEPT ![t] = @ \ {s}]
  IN /\ Ending(s)
     /\ subscribers' = subs
     /\ IF subscribers[t] # {} /\ subs[t] = {}
        THEN /\ tasks' = [tasks EXCEPT ![t] = NoWorker]
             /\ Prune(snapshots, sequences, subs)
             /\ IF tasks[t] # NoWorker
                THEN /\ worker' = [worker EXCEPT ![tasks[t]] = Cancelled(@)]
                     /\ sock' = [sock EXCEPT ![s] =
                                   [@ EXCEPT !.pc = "joining", !.joining = tasks[t]]]
                ELSE /\ sock' = [sock EXCEPT ![s] = IdleSock]
                     /\ UNCHANGED worker
        ELSE /\ sock' = [sock EXCEPT ![s] = IdleSock]
             /\ UNCHANGED <<tasks, snapshots, sequences, worker>>
     /\ UNCHANGED <<now, phase>>

(***************************************************************************)
(* The poll task, _run_ticker.                                             *)
(***************************************************************************)
FinishAny(w) ==   \* mutation: the finally clause pops a newer task
  LET t == worker[w].ticker
  IN /\ tasks' = [tasks EXCEPT ![t] = NoWorker]
     /\ worker' = [v \in Workers |->
                     IF v = w THEN IdleWorker
                     ELSE IF worker[v].joining = w
                     THEN [worker[v] EXCEPT !.pc = "sleeping", !.joining = NoWorker]
                     ELSE worker[v]]
     /\ sock' = [s \in Sockets |->
                   IF sock[s].joining = w THEN IdleSock ELSE sock[s]]
     /\ UNCHANGED <<subscribers, snapshots, sequences, now, phase>>

(* The finally clause, and the return of whoever awaits the task: an       *)
(* endpoint is then done, a poll task that cancelled it goes to sleep.     *)
Finish(w) ==
  LET t == worker[w].ticker
  IN /\ tasks' = IF tasks[t] = w THEN [tasks EXCEPT ![t] = NoWorker] ELSE tasks
     /\ worker' = [v \in Workers |->
                     IF v = w THEN IdleWorker
                     ELSE IF worker[v].joining = w
                     THEN [worker[v] EXCEPT !.pc = "sleeping", !.joining = NoWorker]
                     ELSE worker[v]]
     /\ sock' = [s \in Sockets |->
                   IF sock[s].joining = w THEN IdleSock ELSE sock[s]]
     /\ UNCHANGED <<subscribers, snapshots, sequences, now, phase>>

Unwind(w) == worker[w].pc = "cancelled" /\ Finish(w)

RetireAlways(w) ==   \* mutation: the loop ends although somebody listens
  worker[w].pc \in {"new", "sleeping"} /\ Finish(w)

(* Top of the loop, on the first run and after each sleep: nobody left.    *)
Retire(w) ==
  /\ worker[w].pc \in {"new", "sleeping"}
  /\ subscribers[worker[w].ticker] = {}
  /\ Finish(w)

(* Top of the loop: start the next poll.                                   *)
StartFetch(w) ==
  LET t == worker[w].ticker
  IN /\ worker[w].pc \in {"new", "sleeping"}
     /\ subscribers[t] # {}
     /\ sequences[t] < MaxSeq
     /\ worker' = [worker EXCEPT ![w].pc = "fetching"]
     /\ UNCHANGED <<subscribers, tasks, snapshots, sequences, sock, now, phase>>

(* _decorate_snapshot, the map update with its prune, and the start of     *)
(* _broadcast: every subscriber of that moment is handed the frame, and    *)
(* the gather awaits their sends.  With nobody to send to, sleep.          *)
Publish(w, price) ==
  LET t == worker[w].ticker
      seq == sequences[t] + 1
      snapshot == [price |-> price, seq |-> seq, sentAt |-> now]
  IN /\ Prune([snapshots EXCEPT ![t] = snapshot], [sequences EXCEPT ![t] = seq],
              subscribers)
     /\ sock' = [s \in Sockets |->
                   IF s \in subscribers[t] THEN [sock[s] EXCEPT !.last = seq] ELSE sock[s]]
     /\ worker' = [worker EXCEPT ![w] =
                     [@ EXCEPT !.pc = IF subscribers[t] = {} THEN "sleeping" ELSE "sending",
                               !.pending = subscribers[t]]]
     /\ UNCHANGED <<subscribers, tasks, now, phase>>

(* The provider answered, with a price or with `price: None`.              *)
FetchReturns(w) ==
  /\ worker[w].pc = "fetching"
  /\ \E price \in Prices \cup {NoPrice} : Publish(w, price)

(* The provider raised: _record_failure keeps the previous price.          *)
FetchFails(w) ==
  LET t == worker[w].ticker
  IN /\ worker[w].pc = "fetching"
     /\ Publish(w, IF snapshots[t] = NoSnapshot THEN NoPrice ELSE snapshots[t].price)

(* One send of the gather completes; it may raise on a broken connection.  *)
SendSettles(w, s) ==
  LET waiting == worker[w].pending \ {s}
      raised == worker[w].failed \cup {s}
  IN /\ worker[w].pc = "sending" /\ s \in worker[w].pending
     /\ \/ worker' = [worker EXCEPT ![w] = [@ EXCEPT !.pending = waiting]]
        \/ /\ sock[s].broken \/ sock[s].pc = "idle"
           /\ worker' = [worker EXCEPT ![w] =
                          [@ EXCEPT !.pending = waiting, !.failed = raised]]
     /\ UNCHANGED <<subscribers, tasks, snapshots, sequences, sock, now, phase>>

(* The gather is over: unsubscribe the sockets whose send failed.  Removing *)
(* the last listener pops the registered task: the caller itself, which    *)
(* then just sleeps on, or another task, which it cancels and awaits.      *)
EndBroadcast(w) ==
  LET t == worker[w].ticker
      subs == [subscribers EXCEPT ![t] = @ \ worker[w].failed]
      asleep == [worker[w] EXCEPT !.pc = "sleeping", !.failed = {}]
  IN /\ worker[w].pc = "sending" /\ worker[w].pending = {}
     /\ subscribers' = subs
     /\ IF subscribers[t] # {} /\ subs[t] = {}
        THEN /\ tasks' = [tasks EXCEPT ![t] = NoWorker]
             /\ Prune(snapshots, sequences, subs)
             /\ worker' = IF tasks[t] \in {w, NoWorker}
                          THEN [worker EXCEPT ![w] = asleep]
                          ELSE [worker EXCEPT
                                  ![w] = [asleep EXCEPT !.pc = "joining", !.joining = tasks[t]],
                                  ![tasks[t]] = Cancelled(@)]
        ELSE /\ worker' = [worker EXCEPT ![w] = asleep]
             /\ UNCHANGED <<tasks, snapshots, sequences>>
     /\ UNCHANGED <<sock, now, phase>>

-----------------------------------------------------------------------------
(* latest(): reading a snapshot for /api/quote prunes first.               *)
Latest ==
  /\ phase = "running"
  /\ Prune(snapshots, sequences, subscribers)
  /\ UNCHANGED <<subscribers, tasks, worker, sock, now, phase>>

Tick ==
  /\ now < MaxTime
  /\ now' = now + 1
  /\ UNCHANGED <<subscribers, tasks, snapshots, sequences, worker, sock, phase>>

(* The server stops accepting and closes every connection ...              *)
Stop ==
  /\ phase = "running"
  /\ phase' = "stopping"
  /\ sock' = [s \in Sockets |-> IF sock[s].pc \in Connected
                                THEN [sock[s] EXCEPT !.broken = TRUE] ELSE sock[s]]
  /\ UNCHANGED <<subscribers, tasks, snapshots, sequences, worker, now>>

(* ... and runs the shutdown handler, close(), once the endpoints ended.   *)
Close ==
  /\ phase = "stopping"
  /\ \A s \in Sockets : sock[s].pc = "idle"
  /\ phase' = "closed"
  /\ subscribers' = [t \in Tickers |-> {}]
  /\ tasks' = [t \in Tickers |-> NoWorker]
  /\ snapshots' = [t \in Tickers |-> NoSnapshot]
  /\ sequences' = [t \in Tickers |-> 0]
  /\ worker' = [w \in Workers |->
                  IF \E t \in Tickers : tasks[t] = w
                  THEN Cancelled(worker[w]) ELSE worker[w]]
  /\ UNCHANGED <<sock, now>>

Endpoint(s) ==
  \/ Reject(s) \/ Subscribe(s) \/ Greeted(s) \/ Leave(s)

Poll(w) ==
  \/ Unwind(w) \/ Retire(w) \/ StartFetch(w) \/ FetchReturns(w) \/ FetchFails(w)
  \/ (\E s \in Sockets : SendSettles(w, s)) \/ EndBroadcast(w)

Next ==
  \/ \E s \in Sockets, t \in Tickers : Connect(s, t)
  \/ \E s \in Sockets : Drop(s) \/ Endpoint(s)
  \/ \E w \in Workers : Poll(w)
  \/ Latest \/ Tick \/ Stop \/ Close

Spec == Init /\ [][Next]_vars

(* The event loop runs every ready coroutine, asyncio.sleep and the        *)
(* provider's timeout end, and a send to a client that stopped reading     *)
(* fails at the latest when the WebSocket ping times out.  Fairness of the *)
(* endpoint is strong only because the bound on Workers can disable        *)
(* Subscribe for a while; create_task never waits.                         *)
FairSpec ==
  /\ Spec
  /\ \A s \in Sockets : SF_vars(Endpoint(s))
  /\ \A w \in Workers : WF_vars(Poll(w))

-----------------------------------------------------------------------------
(***************************************************************************)
(* Properties.                                                             *)
(***************************************************************************)
(* Types of the hub's maps, of its tasks and of the connections.           *)
TypeOK ==
  /\ subscribers \in [Tickers -> SUBSET Sockets]
  /\ tasks \in [Tickers -> Workers \cup {NoWorker}]
  /\ snapshots \in [Tickers -> Snapshot \cup {NoSnapshot}]
  /\ sequences \in [Tickers -> Nat]
  /\ worker \in [Workers -> WorkerState]
  /\ sock \in [Sockets -> SockState]
  /\ now \in Nat
  /\ phase \in {"running", "stopping", "closed"}

(* A ticker has a registered task exactly while somebody watches it, and   *)
(* that task is alive and polls that ticker: no watcher is left without a  *)
(* poller, whoever discovers that a connection is gone.                    *)
WatchedIsPolled ==
  \A t \in Tickers :
    /\ subscribers[t] # {} <=> tasks[t] # NoWorker
    /\ tasks[t] # NoWorker =>
         /\ worker[tasks[t]].ticker = t
         /\ worker[tasks[t]].pc \in {"new", "fetching", "sending", "sleeping"}

(* Only a connection whose endpoint is still running is registered, and    *)
(* only for its own ticker: no failed accept, greeting or broadcast leaks  *)
(* a socket that nobody will unsubscribe.                                  *)
NoLeakedSubscriber ==
  \A t \in Tickers : \A s \in subscribers[t] :
    sock[s].ticker = t /\ sock[s].pc \in {"greeting", "receiving"}

(* A sequence counter is kept exactly as long as its snapshot: a ticker    *)
(* that was forgotten and comes back starts afresh for everybody.          *)
SequenceWithSnapshot ==
  \A t \in Tickers :
    IF snapshots[t] = NoSnapshot THEN sequences[t] = 0
    ELSE sequences[t] = snapshots[t].seq /\ sequences[t] > 0

(* Every registered connection has been handed the newest frame of its     *)
(* ticker, whatever mix of greeting, broadcast and second poller sent it.  *)
EveryWatcherCurrent ==
  \A t \in Tickers : \A s \in subscribers[t] : sock[s].last = sequences[t]

(* The README's "one WebSocket quote poll per ticker per application       *)
(* process".                                                               *)
OnePollPerTicker ==
  \A t \in Tickers :
    Cardinality({w \in Workers : worker[w].ticker = t /\ worker[w].pc = "fetching"}) <= 1

(* A connection only ever receives growing sequence numbers.               *)
FramesInOrder ==
  [][\A s \in Sockets : sock'[s].last # sock[s].last =>
       sock'[s].last > sock[s].last \/ sock'[s].pc = "idle"]_vars

(* What a watched ticker last showed survives provider failures and        *)
(* pruning: it changes only when the provider answers.                     *)
WatchedPriceKept ==
  [][\A t \in Tickers :
       /\ snapshots[t] # NoSnapshot
       /\ subscribers[t] # {} /\ subscribers'[t] # {}
       /\ ~ \E w \in Workers : worker[w].ticker = t /\ FetchReturns(w)
       => snapshots'[t] # NoSnapshot /\ snapshots'[t].price = snapshots[t].price]_vars

(* A client that stays connected and is not refused receives a frame.      *)
Served ==
  \A s \in Sockets :
    sock[s].pc = "accepting" ~>
      sock[s].last > 0 \/ sock[s].broken \/ sock[s].pc \in {"rejected", "idle"}

(* Polling of a ticker nobody watches any more comes to an end.            *)
PollingEnds ==
  \A t \in Tickers :
    subscribers[t] = {} ~>
      \/ subscribers[t] # {}
      \/ \A w \in Workers : worker[w].ticker # t

(* Every lost connection is cleaned up: no endpoint waits for ever for a   *)
(* task, and no two tasks or endpoints wait for each other.                *)
LeaveCompletes ==
  \A s \in Sockets : sock[s].broken ~> sock[s].pc = "idle"

(* Both ends of a departure complete: the ticker's polling and the         *)
(* connection's endpoint, which cancel and join each other.                *)
CleanedUp == PollingEnds /\ LeaveCompletes

(* What the feed knows of a connection: the ticker it is registered for.   *)
Watching(s) ==
  IF \E t \in Tickers : s \in subscribers[t]
  THEN CHOOSE t \in Tickers : s \in subscribers[t] ELSE NoTicker

Feed == INSTANCE QuoteFeed WITH
  watching <- [s \in Sockets |-> Watching(s)],
  published <- sequences,
  seen <- [s \in Sockets |-> IF Watching(s) = NoTicker THEN 0 ELSE sock[s].last]

(* The hub implements the feed: whatever its tasks do, including a second  *)
(* poller, each step is one join, departure or publication of the feed.    *)
ImplementsFeed == Feed!Spec
=============================================================================
