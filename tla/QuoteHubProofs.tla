--------------------------- MODULE QuoteHubProofs ---------------------------
(***************************************************************************)
(* QuoteHub for any number of tickers, connections and tasks and any       *)
(* limits: its types and safety invariants, what a step may never do, and  *)
(* that the hub with its locks and tasks implements QuoteFeed.             *)
(***************************************************************************)
EXTENDS QuoteHub, FiniteSetTheorems, TLAPS

(* What the invariants need besides each other: who is away from idle has  *)
(* a ticker, only those in "joining" wait for a task, and a                *)
(* connection has been handed nothing before subscribe().                  *)
Bookkeeping ==
  /\ \A w \in Workers :
       /\ worker[w].pc # "idle" => worker[w].ticker \in Tickers
       /\ worker[w].joining # NoWorker => worker[w].pc = "joining"
  /\ \A s \in Sockets :
       /\ sock[s].pc # "idle" => sock[s].ticker \in Tickers
       /\ sock[s].joining # NoWorker => sock[s].pc = "joining"
       /\ sock[s].pc = "accepting" => sock[s].last = 0

(* The invariants about who is registered where.                           *)
Registration ==
  TypeOK /\ Bookkeeping /\ WatchedIsPolled /\ NoLeakedSubscriber

SnapshotMap == [Tickers -> Snapshot \cup {NoSnapshot}]
SubscriberMap == [Tickers -> SUBSET Sockets]

-----------------------------------------------------------------------------
(* _prune_snapshots_locked leaves watched tickers alone and forgets the    *)
(* snapshot and the counter of a ticker together.                          *)
LEMMA PruneEffect ==
  ASSUME NEW snaps \in SnapshotMap, NEW seqs \in [Tickers -> Nat],
         NEW subs \in SubscriberMap, Prune(snaps, seqs, subs)
  PROVE  /\ snapshots' \in SnapshotMap
         /\ sequences' \in [Tickers -> Nat]
         /\ \A t \in Tickers :
              \/ snapshots'[t] = snaps[t] /\ sequences'[t] = seqs[t]
              \/ snapshots'[t] = NoSnapshot /\ sequences'[t] = 0
         /\ \A t \in Tickers : subs[t] # {} =>
              snapshots'[t] = snaps[t] /\ sequences'[t] = seqs[t]
<1>1. PICK D \in Evictions(snaps, subs) :
        LET gone == D \cup Expired(snaps, subs)
        IN /\ snapshots' = [t \in Tickers |-> IF t \in gone THEN NoSnapshot ELSE snaps[t]]
           /\ sequences' = [t \in Tickers |-> IF t \in gone THEN 0 ELSE seqs[t]]
  BY DEF Prune
<1>2. \A t \in D \cup Expired(snaps, subs) : subs[t] = {}
  BY DEF Evictions, Expired, Active, Held
<1>3. QED
  BY <1>1, <1>2 DEF SnapshotMap

(* A loop-top return or an unwinding task changes nothing about who is     *)
(* registered: the task was already popped.                                *)
LEMMA FinishTasks ==
  ASSUME Registration, NEW w \in Workers, Finish(w),
         \/ worker[w].pc = "cancelled"
         \/ worker[w].pc \in {"new", "sleeping"} /\ subscribers[worker[w].ticker] = {}
  PROVE  /\ tasks' = tasks
         /\ \A t \in Tickers : tasks[t] # w
<1>1. worker[w].ticker \in Tickers
  BY DEF Registration, Bookkeeping
<1>2. \A t \in Tickers : tasks[t] # w
  BY HubAssumption DEF Registration, WatchedIsPolled
<1>3. QED
  BY <1>1, <1>2 DEF Finish

(* Field updates keep the records of tasks and endpoints well formed.      *)
LEMMA TaskRecords ==
  /\ IdleWorker \in WorkerState
  /\ \A task \in WorkerState :
       /\ Cancelled(task) \in WorkerState
       /\ [task EXCEPT !.pc = "fetching"] \in WorkerState
       /\ [task EXCEPT !.pc = "sleeping", !.failed = {}] \in WorkerState
       /\ \A pc \in {"sleeping", "joining"}, w \in Workers \cup {NoWorker} :
            [task EXCEPT !.pc = pc, !.joining = w] \in WorkerState
       /\ \A pc \in {"sleeping", "sending"}, S \in SUBSET Sockets :
            [task EXCEPT !.pc = pc, !.pending = S] \in WorkerState
       /\ \A s \in Sockets :
            /\ [task EXCEPT !.pending = @ \ {s}] \in WorkerState
            /\ [task EXCEPT !.pending = @ \ {s}, !.failed = @ \cup {s}] \in WorkerState
  /\ \A t \in Tickers : [IdleWorker EXCEPT !.pc = "new", !.ticker = t] \in WorkerState
<1>1. IdleWorker \in WorkerState
  BY DEF IdleWorker, WorkerState
<1>2. ASSUME NEW task \in WorkerState PROVE Cancelled(task) \in WorkerState
  BY <1>2 DEF Cancelled, WorkerState
<1>3. ASSUME NEW task \in WorkerState
      PROVE  [task EXCEPT !.pc = "fetching"] \in WorkerState
  BY <1>3 DEF WorkerState
<1>4. ASSUME NEW task \in WorkerState
      PROVE  [task EXCEPT !.pc = "sleeping", !.failed = {}] \in WorkerState
  BY <1>4 DEF WorkerState
<1>5. ASSUME NEW task \in WorkerState, NEW pc \in {"sleeping", "joining"},
             NEW w \in Workers \cup {NoWorker}
      PROVE  [task EXCEPT !.pc = pc, !.joining = w] \in WorkerState
  BY <1>5 DEF WorkerState
<1>6. ASSUME NEW task \in WorkerState, NEW pc \in {"sleeping", "sending"},
             NEW S \in SUBSET Sockets
      PROVE  [task EXCEPT !.pc = pc, !.pending = S] \in WorkerState
  BY <1>6 DEF WorkerState
<1>7. ASSUME NEW task \in WorkerState, NEW s \in Sockets
      PROVE  [task EXCEPT !.pending = @ \ {s}] \in WorkerState
  BY <1>7 DEF WorkerState
<1>8. ASSUME NEW task \in WorkerState, NEW s \in Sockets
      PROVE  [task EXCEPT !.pending = @ \ {s}, !.failed = @ \cup {s}] \in WorkerState
  BY <1>8 DEF WorkerState
<1>9. ASSUME NEW t \in Tickers
      PROVE  [IdleWorker EXCEPT !.pc = "new", !.ticker = t] \in WorkerState
  BY DEF IdleWorker, WorkerState
<1>10. QED
  BY <1>1, <1>2, <1>3, <1>4, <1>5, <1>6, <1>7, <1>8, <1>9

LEMMA EndpointRecords ==
  /\ IdleSock \in SockState
  /\ \A t \in Tickers : [IdleSock EXCEPT !.pc = "accepting", !.ticker = t] \in SockState
  /\ \A c \in SockState :
       /\ \A pc \in {"rejected", "receiving"} : [c EXCEPT !.pc = pc] \in SockState
       /\ [c EXCEPT !.broken = TRUE] \in SockState
       /\ \A n \in Nat : [c EXCEPT !.last = n] \in SockState
       /\ \A n \in Nat : [c EXCEPT !.pc = "greeting", !.last = n] \in SockState
       /\ \A w \in Workers : [c EXCEPT !.pc = "joining", !.joining = w] \in SockState
<1>1. IdleSock \in SockState
  BY DEF IdleSock, SockState
<1>2. ASSUME NEW t \in Tickers
      PROVE  [IdleSock EXCEPT !.pc = "accepting", !.ticker = t] \in SockState
  BY DEF IdleSock, SockState
<1>3. ASSUME NEW c \in SockState, NEW pc \in {"rejected", "receiving"}
      PROVE  [c EXCEPT !.pc = pc] \in SockState
  BY <1>3 DEF SockState
<1>4. ASSUME NEW c \in SockState PROVE [c EXCEPT !.broken = TRUE] \in SockState
  BY <1>4 DEF SockState
<1>5. ASSUME NEW c \in SockState, NEW n \in Nat PROVE [c EXCEPT !.last = n] \in SockState
  BY <1>5 DEF SockState
<1>6. ASSUME NEW c \in SockState, NEW n \in Nat
      PROVE  [c EXCEPT !.pc = "greeting", !.last = n] \in SockState
  BY <1>6 DEF SockState
<1>7. ASSUME NEW c \in SockState, NEW w \in Workers
      PROVE  [c EXCEPT !.pc = "joining", !.joining = w] \in SockState
  BY <1>7 DEF SockState
<1>8. QED
  BY <1>1, <1>2, <1>3, <1>4, <1>5, <1>6, <1>7

(* A cancelled or woken task stays with its ticker.                        *)
LEMMA TaskFields ==
  ASSUME NEW task \in WorkerState
  PROVE  /\ Cancelled(task).ticker = task.ticker
         /\ Cancelled(task).pc = "cancelled"
         /\ Cancelled(task).joining = task.joining
         /\ \A pc, w : LET woken == [task EXCEPT !.pc = pc, !.joining = w]
                      IN woken.ticker = task.ticker /\ woken.pc = pc /\ woken.joining = w
         /\ LET asleep == [task EXCEPT !.pc = "sleeping", !.failed = {}]
            IN /\ asleep.ticker = task.ticker /\ asleep.pc = "sleeping"
               /\ asleep.joining = task.joining
         /\ \A pc, S : LET sending == [task EXCEPT !.pc = pc, !.pending = S]
                      IN /\ sending.ticker = task.ticker /\ sending.pc = pc
                         /\ sending.joining = task.joining
  BY DEF Cancelled, WorkerState

LEMMA TypeStep == Registration /\ [Next]_vars => TypeOK'
<1> SUFFICES ASSUME Registration, [Next]_vars PROVE TypeOK'
  OBVIOUS
<1> USE DEF Registration, TypeOK, SnapshotMap, SubscriberMap
<1>1. ASSUME NEW s \in Sockets, NEW t \in Tickers, Connect(s, t) PROVE TypeOK'
  BY <1>1, EndpointRecords DEF Connect
<1>2. ASSUME NEW s \in Sockets, Drop(s) PROVE TypeOK'
  BY <1>2, EndpointRecords DEF Drop
<1>3. ASSUME NEW s \in Sockets, Reject(s) PROVE TypeOK'
  BY <1>3, PruneEffect, EndpointRecords DEF Reject
<1>4. ASSUME NEW s \in Sockets, Subscribe(s) PROVE TypeOK'
  <2>1. sock[s].ticker \in Tickers
    BY <1>4 DEF Subscribe, Bookkeeping
  <2>2. snapshots' \in SnapshotMap /\ sequences' \in [Tickers -> Nat]
    BY <1>4, PruneEffect DEF Subscribe
  <2>3. subscribers' \in SubscriberMap /\ now' \in Nat /\ phase' = phase
    BY <1>4, <2>1 DEF Subscribe
  <2>4. tasks' \in [Tickers -> Workers \cup {NoWorker}] /\ worker' \in [Workers -> WorkerState]
    <3>1. CASE tasks[sock[s].ticker] = NoWorker
      <4>1. PICK w \in Workers :
              /\ tasks' = [tasks EXCEPT ![sock[s].ticker] = w]
              /\ worker' = [worker EXCEPT ![w] =
                              [IdleWorker EXCEPT !.pc = "new", !.ticker = sock[s].ticker]]
        BY <1>4, <3>1 DEF Subscribe
      <4>2. [IdleWorker EXCEPT !.pc = "new", !.ticker = sock[s].ticker] \in WorkerState
        BY <2>1, TaskRecords
      <4>3. QED
        BY <2>1, <4>1, <4>2
    <3>2. CASE tasks[sock[s].ticker] # NoWorker
      BY <1>4, <3>2 DEF Subscribe
    <3>3. QED
      BY <3>1, <3>2
  <2>5. Registered(s, snapshots'[sock[s].ticker]) \in SockState
    BY <2>1, <2>2, EndpointRecords DEF Registered, Snapshot
  <2>6. sock' \in [Sockets -> SockState]
    BY <1>4, <2>5 DEF Subscribe
  <2>7. QED
    BY <2>2, <2>3, <2>4, <2>6
<1>5. ASSUME NEW s \in Sockets, Greeted(s) PROVE TypeOK'
  BY <1>5, EndpointRecords DEF Greeted
<1>6. ASSUME NEW s \in Sockets, Leave(s) PROVE TypeOK'
  <2> DEFINE t == sock[s].ticker
             subs == [subscribers EXCEPT ![t] = @ \ {s}]
  <2>1. t \in Tickers /\ subs \in SubscriberMap
    BY <1>6 DEF Leave, Ending, Connected, Bookkeeping
  <2>2. CASE subscribers[t] # {} /\ subs[t] = {} /\ tasks[t] # NoWorker
    <3>1. snapshots' \in SnapshotMap /\ sequences' \in [Tickers -> Nat]
      BY <1>6, <2>1, <2>2, PruneEffect DEF Leave
    <3>2. worker' \in [Workers -> WorkerState]
      <4>1. worker' = [worker EXCEPT ![tasks[t]] = Cancelled(worker[tasks[t]])]
        BY <1>6, <2>2 DEF Leave
      <4>2. tasks[t] \in Workers /\ Cancelled(worker[tasks[t]]) \in WorkerState
        BY <2>1, <2>2, TaskRecords
      <4>3. QED
        BY <4>1, <4>2
    <3>3. sock' \in [Sockets -> SockState]
      <4>1. sock' = [sock EXCEPT ![s] = [sock[s] EXCEPT !.pc = "joining", !.joining = tasks[t]]]
        BY <1>6, <2>2 DEF Leave
      <4>2. [sock[s] EXCEPT !.pc = "joining", !.joining = tasks[t]] \in SockState
        BY <2>1, <2>2, EndpointRecords
      <4>3. QED
        BY <4>1, <4>2
    <3>4. QED
      BY <1>6, <2>1, <2>2, <3>1, <3>2, <3>3 DEF Leave
  <2>3. CASE subscribers[t] # {} /\ subs[t] = {} /\ tasks[t] = NoWorker
    <3>1. snapshots' \in SnapshotMap /\ sequences' \in [Tickers -> Nat]
      BY <1>6, <2>1, <2>3, PruneEffect DEF Leave
    <3>2. sock' = [sock EXCEPT ![s] = IdleSock] /\ worker' = worker
      BY <1>6, <2>3 DEF Leave
    <3>3. sock' \in [Sockets -> SockState]
      BY <3>2, EndpointRecords
    <3>4. QED
      BY <1>6, <2>1, <2>3, <3>1, <3>2, <3>3 DEF Leave
  <2>4. CASE ~(subscribers[t] # {} /\ subs[t] = {})
    <3>1. sock' = [sock EXCEPT ![s] = IdleSock] /\ worker' = worker
      BY <1>6, <2>4 DEF Leave
    <3>2. sock' \in [Sockets -> SockState]
      BY <3>1, EndpointRecords
    <3>3. UNCHANGED <<tasks, snapshots, sequences, now, phase>> /\ subscribers' \in SubscriberMap
      BY <1>6, <2>1, <2>4 DEF Leave
    <3>4. QED
      BY <3>1, <3>2, <3>3
  <2>5. QED
    BY <2>2, <2>3, <2>4
<1>7. ASSUME NEW w \in Workers, Finish(w) PROVE TypeOK'
  BY <1>7, TaskRecords, EndpointRecords DEF Finish
<1>8. ASSUME NEW w \in Workers, StartFetch(w) PROVE TypeOK'
  BY <1>8, TaskRecords DEF StartFetch
<1>9. ASSUME NEW w \in Workers, NEW price \in Prices \cup {NoPrice},
             worker[w].pc = "fetching", Publish(w, price)
      PROVE TypeOK'
  <2> DEFINE t == worker[w].ticker
             seq == sequences[t] + 1
             snapshot == [price |-> price, seq |-> seq, sentAt |-> now]
  <2>1. t \in Tickers /\ seq \in Nat /\ snapshot \in Snapshot
    BY <1>9 DEF Bookkeeping, Snapshot
  <2>2. /\ [snapshots EXCEPT ![t] = snapshot] \in SnapshotMap
        /\ [sequences EXCEPT ![t] = seq] \in [Tickers -> Nat]
    BY <2>1
  <2>3. snapshots' \in SnapshotMap /\ sequences' \in [Tickers -> Nat]
    BY <1>9, <2>2, PruneEffect DEF Publish
  <2>4. sock' \in [Sockets -> SockState] /\ worker' \in [Workers -> WorkerState]
    BY <1>9, <2>1, TaskRecords, EndpointRecords DEF Publish
  <2>5. QED
    BY <1>9, <2>3, <2>4 DEF Publish
<1>10. ASSUME NEW w \in Workers, FetchReturns(w) PROVE TypeOK'
  BY <1>9, <1>10 DEF FetchReturns
<1>11. ASSUME NEW w \in Workers, FetchFails(w) PROVE TypeOK'
  <2> DEFINE t == worker[w].ticker
             price == IF snapshots[t] = NoSnapshot THEN NoPrice ELSE snapshots[t].price
  <2>1. price \in Prices \cup {NoPrice}
    BY <1>11 DEF FetchFails, Bookkeeping, Snapshot
  <2>2. QED
    BY <1>9, <1>11, <2>1 DEF FetchFails
<1>12. ASSUME NEW w \in Workers, NEW s \in Sockets, SendSettles(w, s) PROVE TypeOK'
  <2> DEFINE waiting == worker[w].pending \ {s}
             raised == worker[w].failed \cup {s}
             sent == [worker[w] EXCEPT !.pending = waiting]
             lost == [worker[w] EXCEPT !.pending = waiting, !.failed = raised]
  <2>1. worker[w] \in WorkerState
    OBVIOUS
  <2>2. sent \in WorkerState /\ lost \in WorkerState
    BY <2>1, TaskRecords
  <2>3. worker' = [worker EXCEPT ![w] = sent] \/ worker' = [worker EXCEPT ![w] = lost]
    BY <1>12 DEF SendSettles
  <2>4. worker' \in [Workers -> WorkerState]
    <3> HIDE DEF sent, lost
    <3> QED
      BY <2>2, <2>3
  <2>5. QED
    BY <1>12, <2>4 DEF SendSettles
<1>13. ASSUME NEW w \in Workers, EndBroadcast(w) PROVE TypeOK'
  <2> DEFINE t == worker[w].ticker
             subs == [subscribers EXCEPT ![t] = @ \ worker[w].failed]
             asleep == [worker[w] EXCEPT !.pc = "sleeping", !.failed = {}]
  <2>1. /\ t \in Tickers /\ subs \in SubscriberMap
        /\ asleep \in WorkerState
    BY <1>13, TaskRecords DEF EndBroadcast, Bookkeeping
  <2>2. CASE subscribers[t] # {} /\ subs[t] = {}
    <3>1. snapshots' \in SnapshotMap /\ sequences' \in [Tickers -> Nat]
      BY <1>13, <2>1, <2>2, PruneEffect DEF EndBroadcast
    <3>2. worker' \in [Workers -> WorkerState]
      <4>1. CASE tasks[t] \in {w, NoWorker}
        BY <1>13, <2>1, <2>2, <4>1 DEF EndBroadcast
      <4>2. CASE tasks[t] \notin {w, NoWorker}
        <5> DEFINE v == tasks[t]
                   waiting == [asleep EXCEPT !.pc = "joining", !.joining = v]
        <5>1. worker' = [worker EXCEPT ![w] = waiting, ![v] = Cancelled(@)]
          BY <1>13, <2>2, <4>2 DEF EndBroadcast
        <5>2. v \in Workers /\ waiting \in WorkerState /\ Cancelled(worker[v]) \in WorkerState
          BY <2>1, <4>2, TaskRecords
        <5>3. QED
          BY <4>2, <5>1, <5>2
      <4>3. QED
        BY <4>1, <4>2
    <3>3. QED
      BY <1>13, <2>1, <2>2, <3>1, <3>2 DEF EndBroadcast
  <2>3. CASE ~(subscribers[t] # {} /\ subs[t] = {})
    BY <1>13, <2>1, <2>3 DEF EndBroadcast
  <2>4. QED
    BY <2>2, <2>3
<1>14. CASE Latest
  BY <1>14, PruneEffect DEF Latest
<1>15. CASE Tick
  BY <1>15 DEF Tick
<1>16. CASE Stop
  BY <1>16, EndpointRecords DEF Stop
<1>17. CASE Close
  BY <1>17, TaskRecords DEF Close
<1>18. CASE UNCHANGED vars
  BY <1>18 DEF vars
<1>19. QED
  BY <1>1, <1>2, <1>3, <1>4, <1>5, <1>6, <1>7, <1>8, <1>10, <1>11, <1>12, <1>13,
     <1>14, <1>15, <1>16, <1>17, <1>18
  DEF Next, Endpoint, Poll, Unwind, Retire

(* Every action keeps the bookkeeping and the registration invariants.     *)
LEMMA RegistrationStep == Registration /\ [Next]_vars => Registration'
<1> SUFFICES ASSUME Registration, [Next]_vars
             PROVE  Bookkeeping' /\ WatchedIsPolled' /\ NoLeakedSubscriber'
  BY TypeStep DEF Registration
<1> DEFINE Good == Bookkeeping' /\ WatchedIsPolled' /\ NoLeakedSubscriber'
<1> USE HubAssumption DEF Registration, TypeOK, Bookkeeping, WatchedIsPolled,
        NoLeakedSubscriber
<1>0. TypeOK'
  BY TypeStep
<1>1. ASSUME NEW s \in Sockets, NEW t \in Tickers, Connect(s, t) PROVE Good
  BY <1>1 DEF Connect, IdleSock
<1>2. ASSUME NEW s \in Sockets, Drop(s) PROVE Good
  BY <1>2 DEF Drop
<1>3. ASSUME NEW s \in Sockets, Reject(s) PROVE Good
  BY <1>3 DEF Reject
<1>4. ASSUME NEW s \in Sockets, Subscribe(s) PROVE Good
  <2> DEFINE t == sock[s].ticker
  <2>1. t \in Tickers
    BY <1>4 DEF Subscribe
  <2>2. /\ Registered(s, snapshots'[t]).ticker = t
        /\ Registered(s, snapshots'[t]).pc \in {"greeting", "receiving"}
        /\ Registered(s, snapshots'[t]).joining = NoWorker
    BY <1>4 DEF Registered, Subscribe, SockState
  <2>3. sock' = [sock EXCEPT ![s] = Registered(s, snapshots'[t])]
    BY <1>4 DEF Subscribe
  <2>4. subscribers' = [subscribers EXCEPT ![t] = @ \cup {s}]
    BY <1>4 DEF Subscribe
  <2>5. NoLeakedSubscriber'
    BY <2>1, <2>2, <2>3, <2>4
  <2>6. CASE tasks[t] = NoWorker
    <3>1. PICK w \in Workers :
            /\ worker[w] = IdleWorker
            /\ tasks' = [tasks EXCEPT ![t] = w]
            /\ worker' = [worker EXCEPT ![w] =
                            [IdleWorker EXCEPT !.pc = "new", !.ticker = t]]
      BY <1>4, <2>6 DEF Subscribe
    <3>2. worker'[w].pc = "new" /\ worker'[w].ticker = t /\ worker'[w].joining = NoWorker
      BY <3>1 DEF IdleWorker
    <3>3. \A u \in Tickers : tasks[u] # w
      BY <3>1 DEF IdleWorker
    <3>4. Bookkeeping'
      BY <2>1, <2>2, <2>3, <3>1, <3>2
    <3>5. WatchedIsPolled'
      BY <2>1, <2>4, <2>6, <3>1, <3>2, <3>3
    <3>6. QED
      BY ONLY <2>5, <3>4, <3>5
  <2>7. CASE tasks[t] # NoWorker
    <3>1. tasks' = tasks /\ worker' = worker
      BY <1>4, <2>7 DEF Subscribe
    <3>2. QED
      BY <2>1, <2>2, <2>3, <2>4, <2>5, <2>7, <3>1
  <2>8. QED
    BY <2>6, <2>7
<1>5. ASSUME NEW s \in Sockets, Greeted(s) PROVE Good
  BY <1>5 DEF Greeted
<1>6. ASSUME NEW s \in Sockets, Leave(s) PROVE Good
  <2> DEFINE t == sock[s].ticker
             subs == [subscribers EXCEPT ![t] = @ \ {s}]
  <2>1. t \in Tickers /\ sock[s].joining = NoWorker
    BY <1>6 DEF Leave, Ending, Connected
  <2>2. subscribers' = subs /\ \A u \in Tickers : s \notin subs[u]
    BY <1>6, <2>1 DEF Leave
  <2>3. CASE subscribers[t] # {} /\ subs[t] = {}
    <3> DEFINE v == tasks[t]
    <3>1. v \in Workers /\ worker[v].ticker = t /\ v # NoWorker
      BY <2>1, <2>3
    <3>2. /\ tasks' = [tasks EXCEPT ![t] = NoWorker]
          /\ worker' = [worker EXCEPT ![v] = Cancelled(worker[v])]
          /\ sock' = [sock EXCEPT ![s] = [sock[s] EXCEPT !.pc = "joining", !.joining = v]]
      BY <1>6, <2>3, <3>1 DEF Leave
    <3>3. /\ Cancelled(worker[v]).ticker = t /\ Cancelled(worker[v]).joining = NoWorker
          /\ \A u \in Tickers : u # t => tasks[u] # v
      BY <2>1, <3>1, TaskFields
    <3>4. /\ sock'[s].ticker = t /\ sock'[s].pc = "joining"
          /\ \A r \in Sockets : r # s => sock'[r] = sock[r]
      BY <3>2 DEF SockState
    <3>5. Bookkeeping'
      <4>1. ASSUME NEW w \in Workers
            PROVE  /\ worker'[w].pc # "idle" => worker'[w].ticker \in Tickers
                   /\ worker'[w].joining # NoWorker => worker'[w].pc = "joining"
        BY <2>1, <3>1, <3>2, <3>3, <4>1
      <4>2. ASSUME NEW r \in Sockets
            PROVE  /\ sock'[r].pc # "idle" => sock'[r].ticker \in Tickers
                   /\ sock'[r].joining # NoWorker => sock'[r].pc = "joining"
                   /\ sock'[r].pc = "accepting" => sock'[r].last = 0
        BY <2>1, <3>4, <4>2
      <4>3. QED
        BY <4>1, <4>2
    <3>6. WatchedIsPolled'
      <4>1. subscribers'[t] = {} /\ tasks'[t] = NoWorker
        BY <2>1, <2>2, <2>3, <3>2
      <4>2. ASSUME NEW u \in Tickers, u # t
            PROVE  /\ subscribers'[u] = subscribers[u] /\ tasks'[u] = tasks[u]
                   /\ tasks[u] # NoWorker => worker'[tasks[u]] = worker[tasks[u]]
        BY <2>1, <2>2, <3>2, <3>3, <4>2
      <4>3. QED
        BY <4>1, <4>2
    <3>7. NoLeakedSubscriber'
      BY <2>1, <2>2, <3>4
    <3>8. QED
      BY <3>5, <3>6, <3>7
  <2>4. CASE ~(subscribers[t] # {} /\ subs[t] = {})
    <3>1. tasks' = tasks /\ worker' = worker /\ sock' = [sock EXCEPT ![s] = IdleSock]
      BY <1>6, <2>4 DEF Leave
    <3>2. QED
      BY <2>1, <2>2, <2>4, <3>1 DEF IdleSock
  <2>5. QED
    BY <2>3, <2>4
<1>7. ASSUME NEW w \in Workers, Finish(w),
             \/ worker[w].pc = "cancelled"
             \/ worker[w].pc \in {"new", "sleeping"} /\ subscribers[worker[w].ticker] = {}
      PROVE  Good
  <2>1. tasks' = tasks /\ \A t \in Tickers : tasks[t] # w
    BY <1>7, FinishTasks
  <2>2. \A s \in Sockets : (sock'[s] = IdleSock /\ sock[s].joining = w) \/ sock'[s] = sock[s]
    BY <1>7 DEF Finish
  <2>3. subscribers' = subscribers
    BY <1>7 DEF Finish
  <2>4. ASSUME NEW v \in Workers
        PROVE  \/ worker'[v] = IdleWorker /\ v = w
               \/ worker'[v] = worker[v]
               \/ /\ worker'[v].pc = "sleeping" /\ worker'[v].ticker = worker[v].ticker
                  /\ worker'[v].joining = NoWorker /\ worker[v].joining = w
    <3> DEFINE woken == [worker[v] EXCEPT !.pc = "sleeping", !.joining = NoWorker]
    <3>1. \/ worker'[v] = IdleWorker /\ v = w
          \/ worker'[v] = worker[v]
          \/ worker[v].joining = w /\ worker'[v] = woken
      BY <1>7 DEF Finish
    <3>2. woken.pc = "sleeping" /\ woken.ticker = worker[v].ticker /\ woken.joining = NoWorker
      BY TaskFields
    <3> HIDE DEF woken
    <3>3. QED
      BY <3>1, <3>2
  <2>5. WatchedIsPolled'
    BY <2>1, <2>3, <2>4
  <2>6. \A v \in Workers :
          /\ worker'[v].pc # "idle" => worker'[v].ticker \in Tickers
          /\ worker'[v].joining # NoWorker => worker'[v].pc = "joining"
    BY <2>4 DEF IdleWorker
  <2>7. NoLeakedSubscriber' /\ Bookkeeping'
    BY <2>2, <2>3, <2>6 DEF IdleSock
  <2>8. QED
    BY <2>5, <2>7
<1>8. ASSUME NEW w \in Workers, StartFetch(w) PROVE Good
  BY <1>8 DEF StartFetch
<1>9. ASSUME NEW w \in Workers, NEW price, worker[w].pc = "fetching", Publish(w, price)
      PROVE Good
  <2>1. /\ worker'[w].pc \in {"sleeping", "sending"} /\ worker'[w].ticker = worker[w].ticker
        /\ worker'[w].joining = worker[w].joining
        /\ \A v \in Workers : v # w => worker'[v] = worker[v]
    BY <1>9, TaskFields DEF Publish
  <2>2. \A s \in Sockets : /\ sock'[s].pc = sock[s].pc
                           /\ sock'[s].ticker = sock[s].ticker
                           /\ sock'[s].joining = sock[s].joining
                           /\ sock[s].pc = "accepting" => sock'[s].last = sock[s].last
    BY <1>9 DEF Publish, SockState
  <2>3. subscribers' = subscribers /\ tasks' = tasks
    BY <1>9 DEF Publish
  <2>4. QED
    BY <1>9, <2>1, <2>2, <2>3
<1>10. ASSUME NEW w \in Workers, FetchReturns(w) PROVE Good
  BY <1>9, <1>10 DEF FetchReturns
<1>11. ASSUME NEW w \in Workers, FetchFails(w) PROVE Good
  BY <1>9, <1>11 DEF FetchFails
<1>12. ASSUME NEW w \in Workers, NEW s \in Sockets, SendSettles(w, s) PROVE Good
  <2>1. \A v \in Workers : /\ worker'[v].pc = worker[v].pc
                           /\ worker'[v].ticker = worker[v].ticker
                           /\ worker'[v].joining = worker[v].joining
    <3> DEFINE waiting == worker[w].pending \ {s}
               raised == worker[w].failed \cup {s}
               sent == [worker[w] EXCEPT !.pending = waiting]
               lost == [worker[w] EXCEPT !.pending = waiting, !.failed = raised]
    <3>1. worker' = [worker EXCEPT ![w] = sent] \/ worker' = [worker EXCEPT ![w] = lost]
      BY <1>12 DEF SendSettles
    <3>2. /\ sent.pc = worker[w].pc /\ sent.ticker = worker[w].ticker
          /\ lost.pc = worker[w].pc /\ lost.ticker = worker[w].ticker
          /\ sent.joining = worker[w].joining /\ lost.joining = worker[w].joining
      BY DEF WorkerState
    <3> HIDE DEF sent, lost
    <3>3. QED
      BY <3>1, <3>2
  <2>2. subscribers' = subscribers /\ tasks' = tasks /\ sock' = sock
    BY <1>12 DEF SendSettles
  <2>3. QED
    BY <2>1, <2>2
<1>13. ASSUME NEW w \in Workers, EndBroadcast(w) PROVE Good
  <2> DEFINE t == worker[w].ticker
             subs == [subscribers EXCEPT ![t] = @ \ worker[w].failed]
             asleep == [worker[w] EXCEPT !.pc = "sleeping", !.failed = {}]
  <2>1. /\ t \in Tickers /\ asleep.ticker = t /\ asleep.pc = "sleeping"
        /\ asleep.joining = NoWorker /\ asleep \in WorkerState
    <3>1. t \in Tickers /\ worker[w].joining = NoWorker
      BY <1>13 DEF EndBroadcast
    <3>2. asleep \in WorkerState
      BY TaskRecords
    <3>3. asleep.ticker = t /\ asleep.pc = "sleeping" /\ asleep.joining = worker[w].joining
      BY TaskFields
    <3>4. QED
      BY <3>1, <3>2, <3>3
  <2>2. subscribers' = subs /\ sock' = sock /\ \A u \in Tickers : subs[u] \subseteq subscribers[u]
    BY <1>13, <2>1 DEF EndBroadcast
  <2>3. CASE subscribers[t] # {} /\ subs[t] = {}
    <3> DEFINE v == tasks[t]
               waiting == [asleep EXCEPT !.pc = "joining", !.joining = v]
    <3>1. v \in Workers /\ v # NoWorker /\ worker[v].ticker = t
      BY <2>1, <2>3
    <3>2. tasks' = [tasks EXCEPT ![t] = NoWorker] /\ \A u \in Tickers : u # t => tasks[u] # v
      BY <1>13, <2>1, <2>3, <3>1 DEF EndBroadcast
    <3>3. \/ v = w /\ worker' = [worker EXCEPT ![w] = asleep]
          \/ v # w /\ worker' = [worker EXCEPT ![w] = waiting, ![v] = Cancelled(worker[v])]
      BY <1>13, <2>3, <3>1 DEF EndBroadcast
    <3>4. /\ waiting.ticker = t /\ waiting.pc = "joining"
          /\ Cancelled(worker[v]).ticker = t /\ Cancelled(worker[v]).joining = NoWorker
      BY <2>1, <3>1, TaskFields
    <3>5. \A u \in Workers : /\ worker'[u].ticker = worker[u].ticker
                             /\ worker'[u].joining # NoWorker => worker'[u].pc = "joining"
                             /\ u \notin {v, w} => worker'[u] = worker[u]
      <4> HIDE DEF waiting, asleep
      <4>1. QED
        BY <2>1, <3>1, <3>3, <3>4
    <3>6. \A u \in Tickers : u # t => tasks[u] # w
      BY <2>1
    <3>7. QED
      BY <1>13, <2>1, <2>2, <2>3, <3>1, <3>2, <3>5, <3>6 DEF EndBroadcast
  <2>4. CASE ~(subscribers[t] # {} /\ subs[t] = {})
    <3>1. tasks' = tasks /\ worker' = [worker EXCEPT ![w] = asleep]
      BY <1>13, <2>4 DEF EndBroadcast
    <3>2. QED
      BY <2>1, <2>2, <2>4, <3>1
  <2>5. QED
    BY <2>3, <2>4
<1>14. CASE Latest
  BY <1>14 DEF Latest
<1>15. CASE Tick
  BY <1>15 DEF Tick
<1>16. CASE Stop
  BY <1>16 DEF Stop
<1>17. CASE Close
  <2>1. \A t \in Tickers : subscribers[t] = {} /\ tasks[t] = NoWorker
    BY <1>17 DEF Close
  <2>2. worker' = worker /\ tasks' = tasks /\ subscribers' = subscribers /\ sock' = sock
    BY <1>17, <2>1 DEF Close
  <2>3. QED
    BY <2>2
<1>18. CASE UNCHANGED vars
  BY <1>18 DEF vars
<1>19. QED
  BY <1>1, <1>2, <1>3, <1>4, <1>5, <1>6, <1>7, <1>8, <1>10, <1>11, <1>12, <1>13,
     <1>14, <1>15, <1>16, <1>17, <1>18
  DEF Next, Endpoint, Poll, Unwind, Retire

-----------------------------------------------------------------------------
(* Frames: counters and snapshots agree, watchers have the newest frame,   *)
(* and a connection is only ever handed larger sequence numbers.           *)
FrameInvariant == SequenceWithSnapshot /\ EveryWatcherCurrent

LastGrows ==
  \A s \in Sockets : sock'[s].last # sock[s].last =>
    sock'[s].last > sock[s].last \/ sock'[s].pc = "idle"

LEMMA FrameStep ==
  ASSUME Registration, Registration', FrameInvariant, [Next]_vars
  PROVE  FrameInvariant' /\ LastGrows
<1> DEFINE Good == SequenceWithSnapshot' /\ EveryWatcherCurrent' /\ LastGrows
<1> USE HubAssumption DEF Registration, TypeOK, Bookkeeping, NoLeakedSubscriber,
        SequenceWithSnapshot, EveryWatcherCurrent, LastGrows, FrameInvariant,
        SnapshotMap, SubscriberMap
(* Pruning what is there, with nobody newly registered.                    *)
<1>0. ASSUME NEW subs \in SubscriberMap, Prune(snapshots, sequences, subs)
      PROVE  /\ SequenceWithSnapshot'
             /\ \A t \in Tickers : subs[t] # {} => sequences'[t] = sequences[t]
  <2>1. /\ \A t \in Tickers :
             \/ snapshots'[t] = snapshots[t] /\ sequences'[t] = sequences[t]
             \/ snapshots'[t] = NoSnapshot /\ sequences'[t] = 0
        /\ \A t \in Tickers : subs[t] # {} => sequences'[t] = sequences[t]
    BY ONLY <1>0, PruneEffect, TypeOK DEF TypeOK, SnapshotMap
  <2>2. QED
    BY <2>1
<1>1. ASSUME NEW s \in Sockets, NEW t \in Tickers, Connect(s, t) PROVE Good
  BY <1>1 DEF Connect, IdleSock
<1>2. ASSUME NEW s \in Sockets, Drop(s) PROVE Good
  BY <1>2 DEF Drop, SockState
<1>3. ASSUME NEW s \in Sockets, Reject(s) PROVE Good
  <2>1. /\ SequenceWithSnapshot'
        /\ \A t \in Tickers : subscribers[t] # {} => sequences'[t] = sequences[t]
    BY <1>0, <1>3 DEF Reject
  <2>2. \A r \in Sockets : sock'[r].last = sock[r].last
    BY <1>3 DEF Reject, SockState
  <2>3. QED
    BY <1>3, <2>1, <2>2 DEF Reject
<1>4. ASSUME NEW s \in Sockets, Subscribe(s) PROVE Good
  <2> DEFINE t == sock[s].ticker
             entry == Registered(s, snapshots'[t])
  <2>1. t \in Tickers /\ sock[s].last = 0 /\ \A u \in Tickers : s \notin subscribers[u]
    BY <1>4 DEF Subscribe
  <2>2. /\ SequenceWithSnapshot'
        /\ \A u \in Tickers : subscribers[u] # {} => sequences'[u] = sequences[u]
    BY <1>0, <1>4 DEF Subscribe
  <2>3. entry.last = sequences'[t]
    BY <2>1, <2>2 DEF Registered, SockState
  <2>4. /\ sock' = [sock EXCEPT ![s] = entry]
        /\ subscribers' = [subscribers EXCEPT ![t] = @ \cup {s}]
    BY <1>4 DEF Subscribe
  <2>5. sequences'[t] \in Nat
    BY <2>1
  <2> HIDE DEF entry
  <2>6. EveryWatcherCurrent'
    BY <2>1, <2>2, <2>3, <2>4
  <2>7. LastGrows
    BY <2>1, <2>3, <2>4, <2>5
  <2>8. QED
    BY <2>2, <2>6, <2>7
<1>5. ASSUME NEW s \in Sockets, Greeted(s) PROVE Good
  BY <1>5 DEF Greeted, SockState
<1>6. ASSUME NEW s \in Sockets, Leave(s) PROVE Good
  <2> DEFINE t == sock[s].ticker
             subs == [subscribers EXCEPT ![t] = @ \ {s}]
  <2>1. /\ t \in Tickers /\ subs \in SubscriberMap
        /\ subscribers' = subs /\ \A u \in Tickers : s \notin subs[u]
    BY <1>6 DEF Leave, Ending, Connected
  <2>2. /\ \A r \in Sockets : r # s => sock'[r] = sock[r]
        /\ sock'[s].last = sock[s].last \/ sock'[s].pc = "idle"
    <3> DEFINE joined == [sock[s] EXCEPT !.pc = "joining", !.joining = tasks[t]]
    <3>1. sock' = [sock EXCEPT ![s] = joined] \/ sock' = [sock EXCEPT ![s] = IdleSock]
      BY <1>6 DEF Leave
    <3>2. joined.last = sock[s].last
      BY DEF SockState
    <3> HIDE DEF joined
    <3>3. QED
      BY <3>1, <3>2 DEF IdleSock
  <2>3. SequenceWithSnapshot' /\ \A u \in Tickers : subs[u] # {} => sequences'[u] = sequences[u]
    <3>1. Prune(snapshots, sequences, subs) \/ UNCHANGED <<snapshots, sequences>>
      BY <1>6 DEF Leave
    <3>2. subs \in SubscriberMap
      BY <2>1
    <3> HIDE DEF subs
    <3>3. CASE Prune(snapshots, sequences, subs)
      BY ONLY <1>0, <3>2, <3>3
    <3>4. CASE UNCHANGED <<snapshots, sequences>>
      BY <3>4
    <3>5. QED
      BY <3>1, <3>3, <3>4
  <2>4. QED
    BY <2>1, <2>2, <2>3
<1>7. ASSUME NEW w \in Workers, Finish(w) PROVE Good
  <2>1. \A s \in Sockets : (sock'[s] = IdleSock /\ sock[s].pc = "joining") \/ sock'[s] = sock[s]
    <3>1. \A s \in Sockets : sock'[s] = IF sock[s].joining = w THEN IdleSock ELSE sock[s]
      BY <1>7 DEF Finish
    <3>2. w # NoWorker
      OBVIOUS
    <3>3. QED
      BY <3>1, <3>2
  <2>2. UNCHANGED <<subscribers, snapshots, sequences>>
    BY <1>7 DEF Finish
  <2>3. QED
    BY <2>1, <2>2 DEF IdleSock
<1>8. ASSUME NEW w \in Workers, StartFetch(w) PROVE Good
  BY <1>8 DEF StartFetch
<1>9. ASSUME NEW w \in Workers, NEW price \in Prices \cup {NoPrice},
             worker[w].pc = "fetching", Publish(w, price)
      PROVE  Good
  <2> DEFINE t == worker[w].ticker
             seq == sequences[t] + 1
             snapshot == [price |-> price, seq |-> seq, sentAt |-> now]
             snaps == [snapshots EXCEPT ![t] = snapshot]
             seqs == [sequences EXCEPT ![t] = seq]
  <2>1. t \in Tickers /\ seq \in Nat /\ seq > 0 /\ snapshot \in Snapshot
    BY <1>9 DEF Snapshot
  <2>2. snaps \in SnapshotMap /\ seqs \in [Tickers -> Nat]
    BY <2>1
  <2>3. Prune(snaps, seqs, subscribers)
    BY <1>9 DEF Publish
  <2>4. /\ \A u \in Tickers : \/ snapshots'[u] = snaps[u] /\ sequences'[u] = seqs[u]
                              \/ snapshots'[u] = NoSnapshot /\ sequences'[u] = 0
        /\ \A u \in Tickers : subscribers[u] # {} => sequences'[u] = seqs[u]
    <3> HIDE DEF snaps, seqs
    <3>1. QED
      BY ONLY <2>2, <2>3, TypeOK, PruneEffect DEF TypeOK, SubscriberMap
  <2>5. snapshot # NoSnapshot /\ snapshot.seq = seq
    BY <2>1 DEF Snapshot
  <2>6. SequenceWithSnapshot'
    BY <2>1, <2>4, <2>5
  <2>7. \A s \in Sockets :
          sock'[s].last = IF s \in subscribers[t] THEN seq ELSE sock[s].last
    BY <1>9 DEF Publish, SockState
  <2>8. subscribers' = subscribers
    BY <1>9 DEF Publish
  <2>9. EveryWatcherCurrent'
    BY <2>1, <2>4, <2>7, <2>8
  <2>10. LastGrows
    BY <2>1, <2>7
  <2>11. QED
    BY <2>6, <2>9, <2>10
<1>10. ASSUME NEW w \in Workers, FetchReturns(w) PROVE Good
  BY <1>9, <1>10 DEF FetchReturns
<1>11. ASSUME NEW w \in Workers, FetchFails(w) PROVE Good
  <2> DEFINE t == worker[w].ticker
             price == IF snapshots[t] = NoSnapshot THEN NoPrice ELSE snapshots[t].price
  <2>1. price \in Prices \cup {NoPrice}
    BY <1>11 DEF FetchFails, Snapshot
  <2>2. QED
    BY <1>9, <1>11, <2>1 DEF FetchFails
<1>12. ASSUME NEW w \in Workers, NEW s \in Sockets, SendSettles(w, s) PROVE Good
  BY <1>12 DEF SendSettles
<1>13. ASSUME NEW w \in Workers, EndBroadcast(w) PROVE Good
  <2> DEFINE t == worker[w].ticker
             subs == [subscribers EXCEPT ![t] = @ \ worker[w].failed]
  <2>1. /\ t \in Tickers /\ subs \in SubscriberMap /\ subscribers' = subs /\ sock' = sock
        /\ \A u \in Tickers : subs[u] \subseteq subscribers[u]
    BY <1>13 DEF EndBroadcast
  <2>2. SequenceWithSnapshot' /\ \A u \in Tickers : subs[u] # {} => sequences'[u] = sequences[u]
    <3>1. Prune(snapshots, sequences, subs) \/ UNCHANGED <<snapshots, sequences>>
      BY <1>13 DEF EndBroadcast
    <3>2. subs \in SubscriberMap
      BY <2>1
    <3> HIDE DEF subs
    <3>3. CASE Prune(snapshots, sequences, subs)
      BY ONLY <1>0, <3>2, <3>3
    <3>4. CASE UNCHANGED <<snapshots, sequences>>
      BY <3>4
    <3>5. QED
      BY <3>1, <3>3, <3>4
  <2>3. QED
    BY <2>1, <2>2
<1>14. CASE Latest
  <2>1. /\ SequenceWithSnapshot'
        /\ \A t \in Tickers : subscribers[t] # {} => sequences'[t] = sequences[t]
    BY <1>0, <1>14 DEF Latest
  <2>2. QED
    BY <1>14, <2>1 DEF Latest
<1>15. CASE Tick
  BY <1>15 DEF Tick
<1>16. CASE Stop
  BY <1>16 DEF Stop, SockState
<1>17. CASE Close
  BY <1>17 DEF Close
<1>18. CASE UNCHANGED vars
  BY <1>18 DEF vars
<1>19. QED
  BY <1>1, <1>2, <1>3, <1>4, <1>5, <1>6, <1>7, <1>8, <1>10, <1>11, <1>12, <1>13,
     <1>14, <1>15, <1>16, <1>17, <1>18
  DEF Next, Endpoint, Poll, Unwind, Retire

-----------------------------------------------------------------------------
LEMMA InitRegistration == Init => Registration /\ FrameInvariant
<1>1. NoWorker \notin Workers
  BY HubAssumption
<1>2. Init => TypeOK
  <2>1. IdleWorker \in WorkerState /\ IdleSock \in SockState
    BY TaskRecords, EndpointRecords
  <2>2. QED
    BY <2>1 DEF Init, TypeOK
<1>3. Init => Bookkeeping /\ WatchedIsPolled /\ NoLeakedSubscriber
  BY DEF Init, Bookkeeping, WatchedIsPolled, NoLeakedSubscriber, IdleWorker, IdleSock
<1>4. Init => FrameInvariant
  BY DEF Init, FrameInvariant, SequenceWithSnapshot, EveryWatcherCurrent
<1>5. QED
  BY <1>2, <1>3, <1>4 DEF Registration

(* The hub's state is well typed in every reachable state, for any number  *)
(* of tickers, connections, tasks and any limits.                          *)
THEOREM TypeCorrect == Spec => []TypeOK
<1>1. Init => Registration
  BY InitRegistration
<1>2. Registration /\ [Next]_vars => Registration'
  BY RegistrationStep
<1>3. Registration => TypeOK
  BY DEF Registration
<1>4. QED
  BY <1>1, <1>2, <1>3, PTL DEF Spec

(* A watched ticker always has a live registered task, whoever notices a   *)
(* lost connection and in whatever order tasks unwind.                     *)
THEOREM AlwaysPolled == Spec => []WatchedIsPolled
<1>1. Init => Registration
  BY InitRegistration
<1>2. Registration /\ [Next]_vars => Registration'
  BY RegistrationStep
<1>3. Registration => WatchedIsPolled
  BY DEF Registration
<1>4. QED
  BY <1>1, <1>2, <1>3, PTL DEF Spec

(* No finished connection stays registered.                                *)
THEOREM NeverLeaks == Spec => []NoLeakedSubscriber
<1>1. Init => Registration
  BY InitRegistration
<1>2. Registration /\ [Next]_vars => Registration'
  BY RegistrationStep
<1>3. Registration => NoLeakedSubscriber
  BY DEF Registration
<1>4. QED
  BY <1>1, <1>2, <1>3, PTL DEF Spec

(* Counters live exactly as long as snapshots, every watcher has the       *)
(* newest frame of its ticker.                                             *)
THEOREM WatchersCurrent == Spec => [](SequenceWithSnapshot /\ EveryWatcherCurrent)
<1>1. Init => Registration /\ FrameInvariant
  BY InitRegistration
<1>2. Registration /\ FrameInvariant /\ [Next]_vars => Registration' /\ FrameInvariant'
  BY RegistrationStep, FrameStep
<1>3. FrameInvariant => SequenceWithSnapshot /\ EveryWatcherCurrent
  BY DEF FrameInvariant
<1>4. QED
  BY <1>1, <1>2, <1>3, PTL DEF Spec

(* A connection never receives an older or repeated frame.                 *)
THEOREM OrderedFrames == Spec => FramesInOrder
<1>1. Init => Registration /\ FrameInvariant
  BY InitRegistration
<1>2. Registration /\ FrameInvariant /\ [Next]_vars => Registration' /\ FrameInvariant'
  BY RegistrationStep, FrameStep
<1>3. Registration /\ FrameInvariant /\ [Next]_vars => [LastGrows]_vars
  BY RegistrationStep, FrameStep
<1>4. QED
  BY <1>1, <1>2, <1>3, PTL DEF Spec, FramesInOrder, LastGrows

-----------------------------------------------------------------------------
(* The feed's view of the hub: a connection watches the one ticker it is   *)
(* registered for, and has seen that ticker's newest frame.                *)
WatchingWell ==
  \A s \in Sockets :
    /\ Watching(s) \in Tickers \cup {NoTicker}
    /\ \A t \in Tickers : s \in subscribers[t] <=> Watching(s) = t

SeenIsNewest ==
  \A s \in Sockets : Watching(s) # NoTicker => sock[s].last = sequences[Watching(s)]

LEMMA FeedView ==
  Registration /\ FrameInvariant => WatchingWell /\ SeenIsNewest
<1> SUFFICES ASSUME Registration, FrameInvariant, NEW s \in Sockets
             PROVE  /\ Watching(s) \in Tickers \cup {NoTicker}
                    /\ \A t \in Tickers : s \in subscribers[t] <=> Watching(s) = t
                    /\ Watching(s) # NoTicker => sock[s].last = sequences[Watching(s)]
  BY DEF WatchingWell, SeenIsNewest
<1>1. \A t, u \in Tickers : s \in subscribers[t] /\ s \in subscribers[u] => t = u
  BY DEF Registration, NoLeakedSubscriber
<1>2. CASE \E t \in Tickers : s \in subscribers[t]
  <2>1. Watching(s) \in Tickers /\ s \in subscribers[Watching(s)]
    BY <1>2 DEF Watching
  <2>2. QED
    BY <1>1, <2>1, HubAssumption DEF FrameInvariant, EveryWatcherCurrent
<1>3. CASE ~ \E t \in Tickers : s \in subscribers[t]
  BY <1>3, HubAssumption DEF Watching
<1>4. QED
  BY <1>2, <1>3

(* Counters only the idle tickers of which were dropped, as the feed says. *)
LEMMA FeedForgets ==
  ASSUME NEW counts \in [Tickers -> Nat], NEW idle,
         sequences' \in [Tickers -> Nat],
         \A t \in Tickers : \/ sequences'[t] = counts[t]
                            \/ t \in idle /\ sequences'[t] = 0
  PROVE  Feed!Forgetting(counts, idle)
<1> DEFINE D == {t \in Tickers : t \in idle /\ sequences'[t] = 0}
<1>1. D \in SUBSET idle
  OBVIOUS
<1>2. sequences' = [t \in Tickers |-> IF t \in D THEN 0 ELSE counts[t]]
  OBVIOUS
<1>3. QED
  BY <1>1, <1>2 DEF Feed!Forgetting

(* Everything that registers nobody and publishes nothing is a departure   *)
(* of the feed, of nobody perhaps.                                         *)
LEMMA FeedParts ==
  ASSUME WatchingWell, WatchingWell', SeenIsNewest, SeenIsNewest',
         sequences \in [Tickers -> Nat], sequences' \in [Tickers -> Nat],
         NEW gone \in SUBSET Sockets,
         \A t \in Tickers : subscribers'[t] = subscribers[t] \ gone,
         \A t \in Tickers : \/ sequences'[t] = sequences[t]
                            \/ subscribers'[t] = {} /\ sequences'[t] = 0
  PROVE  Feed!Next
<1> DEFINE watching == [s \in Sockets |-> Watching(s)]
           seen == [s \in Sockets |-> IF Watching(s) = NoTicker THEN 0 ELSE sock[s].last]
<1>1. \A s \in Sockets : Watching(s)' = IF s \in gone THEN NoTicker ELSE Watching(s)
  BY HubAssumption DEF WatchingWell
<1>2. watching' = [s \in Sockets |-> IF s \in gone THEN NoTicker ELSE watching[s]]
  BY <1>1
<1>3. \A s \in Sockets :
        s \notin gone /\ Watching(s) # NoTicker => sock'[s].last = sock[s].last
  <2> SUFFICES ASSUME NEW s \in Sockets, s \notin gone, Watching(s) # NoTicker
               PROVE  sock'[s].last = sock[s].last
    OBVIOUS
  <2>1. /\ Watching(s)' = Watching(s) /\ Watching(s) \in Tickers
        /\ s \in subscribers'[Watching(s)]
    BY <1>1 DEF WatchingWell
  <2>2. sequences'[Watching(s)] = sequences[Watching(s)]
    BY <2>1
  <2>3. QED
    BY <2>1, <2>2 DEF SeenIsNewest
<1>4. seen' = [s \in Sockets |-> IF s \in gone THEN 0 ELSE seen[s]]
  BY <1>1, <1>3
<1>5. \A t \in Tickers : subscribers'[t] = {} => t \in Feed!Unwatched'
  BY DEF Feed!Unwatched, Feed!Watchers, WatchingWell
<1>6. Feed!Forgetting(sequences, Feed!Unwatched')
  BY <1>5, FeedForgets
<1>7. Feed!Part(gone)
  BY <1>2, <1>4, <1>6 DEF Feed!Part
<1>8. QED
  BY <1>7 DEF Feed!Next

(* A registration is a join of the feed.                                   *)
LEMMA FeedJoins ==
  ASSUME WatchingWell, WatchingWell', SeenIsNewest, SeenIsNewest',
         sequences \in [Tickers -> Nat], sequences' \in [Tickers -> Nat],
         NEW s \in Sockets, NEW t \in Tickers, Watching(s) = NoTicker,
         subscribers' = [subscribers EXCEPT ![t] = @ \cup {s}],
         subscribers \in SubscriberMap,
         \A u \in Tickers : \/ sequences'[u] = sequences[u]
                            \/ subscribers[u] = {} /\ sequences'[u] = 0
  PROVE  Feed!Next
<1> DEFINE watching == [r \in Sockets |-> Watching(r)]
           seen == [r \in Sockets |-> IF Watching(r) = NoTicker THEN 0 ELSE sock[r].last]
<1>1. \A r \in Sockets : Watching(r)' = IF r = s THEN t ELSE Watching(r)
  <2>1. \A r \in Sockets, u \in Tickers :
          r \in subscribers'[u] <=> r \in subscribers[u] \/ (r = s /\ u = t)
    BY DEF SubscriberMap
  <2>2. QED
    BY <2>1, HubAssumption DEF WatchingWell
<1>2. watching' = [watching EXCEPT ![s] = t]
  BY <1>1
<1>3. \A r \in Sockets :
        r # s /\ Watching(r) # NoTicker => sock'[r].last = sock[r].last
  <2> SUFFICES ASSUME NEW r \in Sockets, r # s, Watching(r) # NoTicker
               PROVE  sock'[r].last = sock[r].last
    OBVIOUS
  <2>1. /\ Watching(r)' = Watching(r) /\ Watching(r) \in Tickers
        /\ r \in subscribers[Watching(r)]
    BY <1>1 DEF WatchingWell
  <2>2. sequences'[Watching(r)] = sequences[Watching(r)]
    BY <2>1
  <2>3. QED
    BY <2>1, <2>2 DEF SeenIsNewest
<1>4. seen' = [seen EXCEPT ![s] = sequences'[t]]
  <2>1. sock'[s].last = sequences'[t]
    BY <1>1, HubAssumption DEF SeenIsNewest
  <2>2. QED
    BY <1>1, <1>3, <2>1, HubAssumption
<1>5. \A u \in Tickers : subscribers[u] = {} => u \in Feed!Unwatched
  BY DEF Feed!Unwatched, Feed!Watchers, WatchingWell
<1>6. Feed!Forgetting(sequences, Feed!Unwatched)
  BY <1>5, FeedForgets
<1>7. Feed!Join(s, t)
  BY <1>2, <1>4, <1>6 DEF Feed!Join
<1>8. QED
  BY <1>7 DEF Feed!Next

(* A poll's result is a publication of the feed.                           *)
LEMMA FeedPublishes ==
  ASSUME WatchingWell, WatchingWell', SeenIsNewest, SeenIsNewest',
         sequences \in [Tickers -> Nat], sequences' \in [Tickers -> Nat],
         NEW t \in Tickers, subscribers' = subscribers,
         LET seqs == [sequences EXCEPT ![t] = @ + 1]
         IN \A u \in Tickers : \/ sequences'[u] = seqs[u]
                               \/ subscribers[u] = {} /\ sequences'[u] = 0
  PROVE  Feed!Next
<1> DEFINE watching == [r \in Sockets |-> Watching(r)]
           seen == [r \in Sockets |-> IF Watching(r) = NoTicker THEN 0 ELSE sock[r].last]
           seqs == [sequences EXCEPT ![t] = @ + 1]
<1>1. \A r \in Sockets : Watching(r)' = Watching(r)
  BY DEF WatchingWell
<1>2. watching' = watching
  BY <1>1
<1>3. \A r \in Sockets :
        Watching(r) # NoTicker =>
          sock'[r].last = IF Watching(r) = t THEN sequences[t] + 1 ELSE sock[r].last
  <2> SUFFICES ASSUME NEW r \in Sockets, Watching(r) # NoTicker
               PROVE  sock'[r].last = IF Watching(r) = t THEN sequences[t] + 1 ELSE sock[r].last
    OBVIOUS
  <2>1. /\ Watching(r)' = Watching(r) /\ Watching(r) \in Tickers
        /\ r \in subscribers[Watching(r)]
    BY <1>1 DEF WatchingWell
  <2>2. sequences'[Watching(r)] = seqs[Watching(r)]
    BY <2>1
  <2>3. QED
    BY <2>1, <2>2 DEF SeenIsNewest
<1>4. seen' = [r \in Sockets |-> IF watching[r] = t THEN sequences[t] + 1 ELSE seen[r]]
  BY <1>1, <1>3, HubAssumption
<1>5. \A u \in Tickers : subscribers[u] = {} => u \in Feed!Unwatched
  BY DEF Feed!Unwatched, Feed!Watchers, WatchingWell
<1>6. Feed!Forgetting(seqs, Feed!Unwatched)
  <2>1. seqs \in [Tickers -> Nat]
    OBVIOUS
  <2>2. \A u \in Tickers : \/ sequences'[u] = seqs[u]
                           \/ u \in Feed!Unwatched /\ sequences'[u] = 0
    BY <1>5
  <2> HIDE DEF seqs
  <2>3. QED
    BY <2>1, <2>2, FeedForgets
<1>7. Feed!Publish(t)
  BY <1>2, <1>4, <1>6 DEF Feed!Publish
<1>8. QED
  BY <1>7 DEF Feed!Next

(* Every step of the hub is a step of the feed.                            *)
LEMMA FeedStep ==
  ASSUME Registration, Registration', FrameInvariant, FrameInvariant', [Next]_vars
  PROVE  Feed!Next
<1> DEFINE Quiet(gone) ==
             /\ \A t \in Tickers : subscribers'[t] = subscribers[t] \ gone
             /\ \A t \in Tickers : \/ sequences'[t] = sequences[t]
                                   \/ subscribers'[t] = {} /\ sequences'[t] = 0
<1>a. WatchingWell /\ SeenIsNewest
  BY FeedView
<1>b. WatchingWell' /\ SeenIsNewest'
  BY FeedView, PTL
<1>c. /\ sequences \in [Tickers -> Nat] /\ sequences' \in [Tickers -> Nat]
      /\ subscribers \in SubscriberMap /\ snapshots \in SnapshotMap
  BY DEF Registration, TypeOK, SubscriberMap, SnapshotMap
<1>d. ASSUME NEW gone \in SUBSET Sockets, Quiet(gone) PROVE Feed!Next
  BY ONLY <1>a, <1>b, <1>c, <1>d, FeedParts
<1>e. ASSUME Prune(snapshots, sequences, subscribers'), subscribers' \in SubscriberMap
      PROVE  \A t \in Tickers : \/ sequences'[t] = sequences[t]
                                \/ subscribers'[t] = {} /\ sequences'[t] = 0
  BY ONLY <1>c, <1>e, PruneEffect
<1>f. subscribers' \in SubscriberMap
  BY DEF Registration, TypeOK, SubscriberMap
<1>g. ASSUME subscribers' = subscribers, sequences' = sequences PROVE Quiet({})
  BY <1>g
<1>h. ASSUME subscribers' = subscribers, Prune(snapshots, sequences, subscribers)
      PROVE  Quiet({})
  BY <1>e, <1>f, <1>h
<1>i. {} \in SUBSET Sockets
  OBVIOUS
<1> HIDE DEF Quiet
<1>1. ASSUME NEW s \in Sockets, NEW t \in Tickers, Connect(s, t) PROVE Feed!Next
  BY <1>1, <1>d, <1>g, <1>i DEF Connect
<1>2. ASSUME NEW s \in Sockets, Drop(s) PROVE Feed!Next
  BY <1>2, <1>d, <1>g, <1>i DEF Drop
<1>3. ASSUME NEW s \in Sockets, Reject(s) PROVE Feed!Next
  BY <1>3, <1>d, <1>h, <1>i DEF Reject
<1>4. ASSUME NEW s \in Sockets, Subscribe(s) PROVE Feed!Next
  <2> DEFINE t == sock[s].ticker
  <2>1. t \in Tickers /\ Watching(s) = NoTicker
    <3>1. sock[s].pc = "accepting"
      BY <1>4 DEF Subscribe
    <3>2. t \in Tickers /\ \A u \in Tickers : s \notin subscribers[u]
      BY <3>1 DEF Registration, Bookkeeping, NoLeakedSubscriber
    <3>3. QED
      BY <1>a, <3>2 DEF WatchingWell
  <2>2. subscribers' = [subscribers EXCEPT ![t] = @ \cup {s}]
    BY <1>4 DEF Subscribe
  <2>3. Prune(snapshots, sequences, subscribers)
    BY <1>4 DEF Subscribe
  <2>4. \A u \in Tickers : \/ sequences'[u] = sequences[u]
                           \/ subscribers[u] = {} /\ sequences'[u] = 0
    BY ONLY <1>c, <2>3, PruneEffect
  <2> HIDE DEF t
  <2>5. QED
    BY ONLY <1>a, <1>b, <1>c, <2>1, <2>2, <2>4, FeedJoins
<1>5. ASSUME NEW s \in Sockets, Greeted(s) PROVE Feed!Next
  BY <1>5, <1>d, <1>g, <1>i DEF Greeted
<1>6. ASSUME NEW s \in Sockets, Leave(s) PROVE Feed!Next
  <2>1. /\ subscribers' = [subscribers EXCEPT ![sock[s].ticker] = @ \ {s}]
        /\ \/ Prune(snapshots, sequences, subscribers')
           \/ sequences' = sequences
    BY <1>6 DEF Leave
  <2>2. \A t \in Tickers : t # sock[s].ticker => s \notin subscribers[t]
    BY DEF Registration, NoLeakedSubscriber
  <2>3. \A t \in Tickers : subscribers'[t] = subscribers[t] \ {s}
    BY <1>c, <2>1, <2>2 DEF SubscriberMap
  <2>4. Quiet({s})
    BY <1>e, <1>f, <2>1, <2>3 DEF Quiet
  <2>5. QED
    BY <1>d, <2>4
<1>7. ASSUME NEW w \in Workers, Finish(w) PROVE Feed!Next
  <2>1. UNCHANGED <<subscribers, sequences>>
    BY ONLY <1>7, Zenon DEF Finish
  <2>2. QED
    BY <2>1, <1>d, <1>g, <1>i
<1>8. ASSUME NEW w \in Workers, StartFetch(w) PROVE Feed!Next
  BY <1>8, <1>d, <1>g, <1>i DEF StartFetch
<1>9. ASSUME NEW w \in Workers, NEW price \in Prices \cup {NoPrice},
             worker[w].pc = "fetching", Publish(w, price)
      PROVE  Feed!Next
  <2> DEFINE t == worker[w].ticker
             seqs == [sequences EXCEPT ![t] = @ + 1]
             snapshot == [price |-> price, seq |-> sequences[t] + 1, sentAt |-> now]
             snaps == [snapshots EXCEPT ![t] = snapshot]
  <2>1. t \in Tickers /\ now \in Nat
    BY <1>9 DEF Registration, Bookkeeping, TypeOK
  <2>2. seqs \in [Tickers -> Nat] /\ snaps \in SnapshotMap
    BY <1>c, <2>1 DEF SnapshotMap, Snapshot
  <2>3. Prune(snaps, seqs, subscribers) /\ subscribers' = subscribers
    BY <1>9 DEF Publish
  <2> HIDE DEF snaps, seqs, t
  <2>4. \A u \in Tickers : \/ sequences'[u] = seqs[u]
                           \/ subscribers[u] = {} /\ sequences'[u] = 0
    BY ONLY <1>c, <2>2, <2>3, PruneEffect
  <2>5. QED
    BY ONLY <1>a, <1>b, <1>c, <2>1, <2>3, <2>4, FeedPublishes DEF seqs
<1>10. ASSUME NEW w \in Workers, FetchReturns(w) PROVE Feed!Next
  BY <1>9, <1>10 DEF FetchReturns
<1>11. ASSUME NEW w \in Workers, FetchFails(w) PROVE Feed!Next
  <2> DEFINE t == worker[w].ticker
             price == IF snapshots[t] = NoSnapshot THEN NoPrice ELSE snapshots[t].price
  <2>1. price \in Prices \cup {NoPrice}
    BY <1>11 DEF FetchFails, Registration, TypeOK, Bookkeeping, Snapshot
  <2>2. QED
    BY <1>9, <1>11, <2>1 DEF FetchFails
<1>12. ASSUME NEW w \in Workers, NEW s \in Sockets, SendSettles(w, s) PROVE Feed!Next
  BY <1>12, <1>d, <1>g, <1>i DEF SendSettles
<1>13. ASSUME NEW w \in Workers, EndBroadcast(w) PROVE Feed!Next
  <2> DEFINE t == worker[w].ticker
             gone == worker[w].failed \cap subscribers[t]
  <2>1. /\ subscribers' = [subscribers EXCEPT ![t] = @ \ worker[w].failed]
        /\ \/ Prune(snapshots, sequences, subscribers')
           \/ sequences' = sequences
    BY <1>13 DEF EndBroadcast
  <2>2. t \in Tickers
    BY <1>13 DEF EndBroadcast, Registration, Bookkeeping
  <2>3. gone \in SUBSET Sockets /\ \A u \in Tickers : u # t => gone \cap subscribers[u] = {}
    BY <1>c, <2>2 DEF SubscriberMap, Registration, NoLeakedSubscriber
  <2>4. \A u \in Tickers : subscribers'[u] = subscribers[u] \ gone
    BY <1>c, <2>1, <2>2, <2>3 DEF SubscriberMap
  <2> HIDE DEF gone
  <2>5. Quiet(gone)
    BY <1>e, <1>f, <2>1, <2>4 DEF Quiet
  <2>6. QED
    BY <1>d, <2>3, <2>5
<1>14. CASE Latest
  BY <1>14, <1>d, <1>h, <1>i DEF Latest
<1>15. CASE Tick
  BY <1>15, <1>d, <1>g, <1>i DEF Tick
<1>16. CASE Stop
  BY <1>16, <1>d, <1>g, <1>i DEF Stop
<1>17. CASE Close
  <2>1. \A t \in Tickers : subscribers[t] = {}
    BY <1>c, <1>17 DEF Close, Registration, NoLeakedSubscriber, SubscriberMap
  <2>2. Quiet({})
    BY <1>17, <2>1 DEF Close, Quiet
  <2>3. QED
    BY <1>d, <1>i, <2>2
<1>18. CASE UNCHANGED vars
  BY <1>18, <1>d, <1>g, <1>i DEF vars
<1>19. QED
  BY <1>1, <1>2, <1>3, <1>4, <1>5, <1>6, <1>7, <1>8, <1>10, <1>11, <1>12, <1>13,
     <1>14, <1>15, <1>16, <1>17, <1>18
  DEF Next, Endpoint, Poll, Unwind, Retire

(* The hub with its tasks, timers, cancellations and caches implements the *)
(* feed: each of its steps is one join, departure or publication.          *)
THEOREM HubImplementsFeed == Spec => ImplementsFeed
<1>1. Init => Registration /\ FrameInvariant
  BY InitRegistration
<1>2. Registration /\ FrameInvariant /\ [Next]_vars => Registration' /\ FrameInvariant'
  BY RegistrationStep, FrameStep
<1>3. Init => Feed!Init
  <2> SUFFICES ASSUME Init PROVE Feed!Init
    OBVIOUS
  <2>1. \A s \in Sockets : Watching(s) = NoTicker
    BY DEF Init, Watching
  <2>2. QED
    BY <2>1 DEF Init, Feed!Init
<1>4. Registration /\ FrameInvariant /\ [Next]_vars => [Feed!Next]_Feed!feedVars
  BY <1>2, FeedStep
<1>5. QED
  BY <1>1, <1>2, <1>3, <1>4, PTL DEF Spec, ImplementsFeed, Feed!Spec

-----------------------------------------------------------------------------
(* The price of a ticker that has watchers before and after a step changes *)
(* only when the provider answers one of its polls.                        *)
PriceKept ==
  \A t \in Tickers :
    /\ snapshots[t] # NoSnapshot
    /\ subscribers[t] # {} /\ subscribers'[t] # {}
    /\ ~ \E w \in Workers : worker[w].ticker = t /\ FetchReturns(w)
    => snapshots'[t] # NoSnapshot /\ snapshots'[t].price = snapshots[t].price

LEMMA PriceStep ==
  ASSUME Registration, Registration', [Next]_vars
  PROVE  PriceKept
<1>a. /\ sequences \in [Tickers -> Nat] /\ snapshots \in SnapshotMap
      /\ subscribers \in SubscriberMap /\ subscribers' \in SubscriberMap
  BY DEF Registration, TypeOK, SubscriberMap, SnapshotMap
<1>b. ASSUME \/ snapshots' = snapshots
             \/ Prune(snapshots, sequences, subscribers)
             \/ Prune(snapshots, sequences, subscribers')
      PROVE  PriceKept
  <2>1. CASE snapshots' = snapshots
    BY <2>1 DEF PriceKept
  <2>2. CASE Prune(snapshots, sequences, subscribers)
    <3>1. \A t \in Tickers : subscribers[t] # {} => snapshots'[t] = snapshots[t]
      BY ONLY <1>a, <2>2, PruneEffect
    <3>2. QED
      BY <3>1 DEF PriceKept
  <2>3. CASE Prune(snapshots, sequences, subscribers')
    <3>1. \A t \in Tickers : subscribers'[t] # {} => snapshots'[t] = snapshots[t]
      BY ONLY <1>a, <2>3, PruneEffect
    <3>2. QED
      BY <3>1 DEF PriceKept
  <2>4. QED
    BY <1>b, <2>1, <2>2, <2>3
(* Recording a poll's result touches the poll's own ticker only.           *)
<1>c. ASSUME NEW w \in Workers, NEW price \in Prices \cup {NoPrice},
             worker[w].pc = "fetching", Publish(w, price)
      PROVE  /\ worker[w].ticker \in Tickers
             /\ \A t \in Tickers : subscribers[t] # {} =>
                  IF t = worker[w].ticker
                  THEN snapshots'[t] \in Snapshot /\ snapshots'[t].price = price
                  ELSE snapshots'[t] = snapshots[t]
  <2> DEFINE t == worker[w].ticker
             seqs == [sequences EXCEPT ![t] = @ + 1]
             snapshot == [price |-> price, seq |-> sequences[t] + 1, sentAt |-> now]
             snaps == [snapshots EXCEPT ![t] = snapshot]
  <2>1. t \in Tickers /\ now \in Nat
    BY <1>c DEF Registration, Bookkeeping, TypeOK
  <2>2. seqs \in [Tickers -> Nat] /\ snaps \in SnapshotMap /\ snapshot \in Snapshot
    BY <1>a, <2>1 DEF SnapshotMap, Snapshot
  <2>3. Prune(snaps, seqs, subscribers)
    BY <1>c DEF Publish
  <2>4. \A u \in Tickers : subscribers[u] # {} => snapshots'[u] = snaps[u]
    <3> HIDE DEF snaps, seqs, t
    <3>1. QED
      BY ONLY <1>a, <2>2, <2>3, PruneEffect
  <2>5. snapshot.price = price
    OBVIOUS
  <2>6. QED
    BY <1>a, <2>1, <2>2, <2>4, <2>5 DEF SnapshotMap
<1>1. ASSUME NEW w \in Workers, FetchReturns(w) PROVE PriceKept
  <2>1. PICK price \in Prices \cup {NoPrice} : Publish(w, price)
    BY <1>1 DEF FetchReturns
  <2>2. \A t \in Tickers :
          t # worker[w].ticker /\ subscribers[t] # {} => snapshots'[t] = snapshots[t]
    BY <1>1, <1>c, <2>1 DEF FetchReturns
  <2>3. QED
    BY <1>1, <2>2 DEF PriceKept
<1>2. ASSUME NEW w \in Workers, FetchFails(w) PROVE PriceKept
  <2> DEFINE t == worker[w].ticker
             price == IF snapshots[t] = NoSnapshot THEN NoPrice ELSE snapshots[t].price
  <2>1. price \in Prices \cup {NoPrice} /\ Publish(w, price) /\ worker[w].pc = "fetching"
    BY <1>2 DEF FetchFails, Registration, TypeOK, Bookkeeping, Snapshot
  <2>2. \A u \in Tickers : subscribers[u] # {} =>
          IF u = t THEN snapshots'[u] \in Snapshot /\ snapshots'[u].price = price
          ELSE snapshots'[u] = snapshots[u]
    <3> HIDE DEF price
    <3>1. QED
      BY <1>c, <2>1
  <2>3. NoSnapshot \notin Snapshot
    BY HubAssumption DEF Snapshot
  <2>4. QED
    BY <2>2, <2>3 DEF PriceKept
<1>3. CASE Close
  <2>1. \A t \in Tickers : subscribers[t] = {}
    BY <1>a, <1>3 DEF Close, Registration, NoLeakedSubscriber, SubscriberMap
  <2>2. QED
    BY <2>1 DEF PriceKept
<1>4. ASSUME NEW s \in Sockets, Reject(s) \/ Subscribe(s) \/ Greeted(s) \/ Leave(s)
      PROVE  PriceKept
  <2>1. CASE Reject(s)
    BY <1>b, <2>1 DEF Reject
  <2>2. CASE Subscribe(s)
    BY <1>b, <2>2 DEF Subscribe
  <2>3. CASE Greeted(s)
    BY <1>b, <2>3 DEF Greeted
  <2>4. CASE Leave(s)
    BY <1>b, <2>4 DEF Leave
  <2>5. QED
    BY <1>4, <2>1, <2>2, <2>3, <2>4
<1>5. ASSUME NEW w \in Workers, Poll(w) PROVE PriceKept
  <2>1. CASE Unwind(w) \/ Retire(w) \/ StartFetch(w) \/ \E s \in Sockets : SendSettles(w, s)
    <3>1. Finish(w) \/ StartFetch(w) \/ \E s \in Sockets : SendSettles(w, s)
      BY <2>1 DEF Unwind, Retire
    <3>2. Finish(w) => snapshots' = snapshots
      BY ONLY Zenon DEF Finish
    <3>3. StartFetch(w) => snapshots' = snapshots
      BY DEF StartFetch
    <3>4. ASSUME NEW s \in Sockets, SendSettles(w, s) PROVE snapshots' = snapshots
      BY ONLY <3>4, Zenon DEF SendSettles
    <3>5. snapshots' = snapshots
      BY <3>1, <3>2, <3>3, <3>4
    <3>6. QED
      BY <1>b, <3>5
  <2>2. CASE EndBroadcast(w)
    BY <1>b, <2>2 DEF EndBroadcast
  <2>3. QED
    BY <1>1, <1>2, <1>5, <2>1, <2>2 DEF Poll
<1>6. CASE Latest \/ Tick \/ Stop \/ UNCHANGED vars
  <2>1. snapshots' = snapshots \/ Prune(snapshots, sequences, subscribers)
    BY <1>6 DEF Latest, Tick, Stop, vars
  <2>2. QED
    BY <1>b, <2>1
<1>7. ASSUME NEW s \in Sockets, Drop(s) \/ \E t \in Tickers : Connect(s, t)
      PROVE  PriceKept
  <2>1. snapshots' = snapshots
    BY ONLY <1>7, Zenon DEF Drop, Connect
  <2>2. QED
    BY <1>b, <2>1
<1>8. QED
  BY <1>3, <1>4, <1>5, <1>6, <1>7 DEF Next, Endpoint

(* A watched ticker's last price survives provider failures and pruning,   *)
(* for any map limit and any retention time.                               *)
THEOREM PriceSurvives == Spec => WatchedPriceKept
<1>1. Init => Registration
  BY InitRegistration
<1>2. Registration /\ [Next]_vars => Registration'
  BY RegistrationStep
<1>3. Registration /\ [Next]_vars => [PriceKept]_vars
  BY <1>2, PriceStep
<1>4. QED
  BY <1>1, <1>2, <1>3, PTL DEF Spec, WatchedPriceKept, PriceKept
=============================================================================
