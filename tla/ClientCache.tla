------------------------------ MODULE ClientCache ------------------------------
(* The browser's API cache (src/frontend/api/cache.js) below its retry layer   *)
(* (src/frontend/api/resilience.js), in several tabs of one browser: the       *)
(* answers one category of one account keeps in memory, the copy the tabs      *)
(* share in localStorage, the messages they send each other, and the server    *)
(* data behind them, of which only the version is kept.  The scripts of a tab  *)
(* run to their next await without interruption, so one action is one such     *)
(* piece of a script.                                                          *)
EXTENDS Naturals, FiniteSets, SequencesExt

CONSTANTS
    Tabs,        \* the open tabs of one browser, signed in to one account
    Keys,        \* the urls of one category
    TTL,         \* a record up to this old is served without a refresh
    StaleFor,    \* a record up to this old is served while it is refreshed
    Limit,       \* how many records of the category are kept
    Attempts,    \* how often the retry layer tries a read
    NoRecord, NoRead, NoChange,
    Used,        \* bound: the tabs whose views read and change data
    MaxVersion,  \* bound: changes of the server's data
    MaxQueue     \* bound: messages on their way to one tab

ASSUME CacheAssumption ==
    /\ TTL \in Nat /\ StaleFor \in Nat /\ TTL <= StaleFor
    /\ Limit \in Nat \ {0} /\ Attempts \in Nat \ {0}
    /\ Used \subseteq Tabs /\ MaxVersion \in Nat /\ MaxQueue \in Nat

VARIABLES
    server,    \* version of the data the server answers with
    storage,   \* key -> record in localStorage, shared by the tabs
    memory,    \* tab -> key -> record in the tab's memory
    hydrated,  \* tabs that have read localStorage
    pending,   \* tabs with a write to localStorage scheduled
    requests,  \* tab -> key -> requests on the network
    inFlight,  \* tab -> keys registered as being fetched
    read,      \* tab -> key -> the read in progress that callers share
    change,    \* tab -> the version its mutation made, until it learns of it
    queue,     \* tab -> messages the other tabs sent it
    seen       \* history: tab -> newest version it was told to forget others for

cacheVars == <<server, storage, memory, hydrated, pending, requests, inFlight, read,
          change, queue, seen>>

Versions == 0 .. MaxVersion
Unanswered == MaxVersion + 1

Record == [version : Versions, age : 0 .. StaleFor + 1]

\* "current" says that the category's generation is still the one the request
\* began with; "answer" is the version the server answered with.
Request == [current : BOOLEAN, answer : Versions \cup {Unanswered}]
Read == [attempt : 1 .. Attempts, at : {"wait", "delay"}]
TabMessage == [type : {"invalidate", "sync"}, version : Versions]

Empty == [k \in Keys |-> NoRecord]

CacheInit ==
    /\ server = 0
    /\ storage = Empty
    /\ memory = [t \in Tabs |-> Empty]
    /\ hydrated = {}
    /\ pending = {}
    /\ requests = [t \in Tabs |-> [k \in Keys |-> <<>>]]
    /\ inFlight = [t \in Tabs |-> {}]
    /\ read = [t \in Tabs |-> [k \in Keys |-> NoRead]]
    /\ change = [t \in Tabs |-> NoChange]
    /\ queue = [t \in Tabs |-> <<>>]
    /\ seen = [t \in Tabs |-> 0]

-----------------------------------------------------------------------------
(* Records *)

isExpired(r) == r.age > StaleFor

Present(m) == {k \in Keys : m[k] # NoRecord}
Expired(m) == {k \in Present(m) : isExpired(m[k])}
Only(m, kept) == [k \in Keys |-> IF k \in kept THEN m[k] ELSE NoRecord]

\* Variant, for a mutant: passing through localStorage makes a record new.
Restamped(m) ==
    [k \in Keys |-> IF m[k] = NoRecord \/ isExpired(m[k]) THEN NoRecord
                    ELSE [m[k] EXCEPT !.age = 0]]

Unexpired(m) == Only(m, Present(m) \ Expired(m))

\* The least recently used records beyond the limit go; which ones those are is
\* left open, except that the record just stored is the last one used.
enforceLimit(m, stored) ==
    LET size == IF Cardinality(Present(m)) > Limit THEN Limit
                ELSE Cardinality(Present(m))
    IN  {Only(m, kept) : kept \in {s \in kSubset(size, Present(m)) : stored \subseteq s}}

\* The memory of a tab that reads localStorage: what is kept of it in place of
\* the records the tab had.
Stored == enforceLimit(Unexpired(storage), {})

\* A tab reads localStorage the first time it uses the category.
hydrateCategory(t) == IF t \in hydrated THEN {memory[t]} ELSE Stored
FindsExpired(t) == t \notin hydrated /\ Expired(storage) # {}

schedulePersist(t, due) == pending' = IF due THEN pending \cup {t} ELSE pending

Reachable(t) == \A u \in Tabs \ {t} : Len(queue[u]) < MaxQueue

broadcast(t, message) ==
    queue' = [u \in Tabs |-> IF u = t THEN queue[u] ELSE Append(queue[u], message)]

-----------------------------------------------------------------------------
(* Reads *)

\* Whether a record may be served, and whether it is due for a refresh.
Servable(r) == r # NoRecord /\ ~isExpired(r)
Due(r) == Servable(r) /\ r.age > TTL

\* Requests for the keys that have none registered.
fetchRecord(t, ks) ==
    LET new == ks \ inFlight[t]
    IN  /\ requests' = [requests EXCEPT ![t] = [k \in Keys |->
              IF k \in new
              THEN Append(requests[t][k], [current |-> TRUE, answer |-> Unanswered])
              ELSE requests[t][k]]]
        /\ inFlight' = [inFlight EXCEPT ![t] = @ \cup new]

\* Stale records are refreshed in the background, unless the page is hidden or
\* offline.
refresh(t, ks) == fetchRecord(t, ks) \/ UNCHANGED <<requests, inFlight>>

\* A servable record ends the read.  Its use is marked, which schedules a write
\* once a minute.  Without one the read waits for the key's request, a new one
\* or the one in flight, and an expired record is dropped.
cachedFetch(t, k, attempt) ==
    \E m \in hydrateCategory(t) :
        /\ hydrated' = hydrated \cup {t}
        /\ \/ /\ Servable(m[k])
              /\ refresh(t, {k} \cap {l \in Keys : Due(m[l])})
              /\ \E marked \in BOOLEAN : schedulePersist(t, marked \/ FindsExpired(t))
              /\ memory' = [memory EXCEPT ![t] = m]
              /\ read' = [read EXCEPT ![t][k] = NoRead]
           \/ /\ ~Servable(m[k])
              /\ fetchRecord(t, {k})
              /\ schedulePersist(t, m[k] # NoRecord \/ FindsExpired(t))
              /\ memory' = [memory EXCEPT ![t] = [m EXCEPT ![k] = NoRecord]]
              /\ read' = [read EXCEPT ![t][k] = [attempt |-> attempt, at |-> "wait"]]
        /\ UNCHANGED <<server, storage, change, queue, seen>>

\* A view reads a url.  While a read of it is in progress the view joins that
\* one, which changes nothing.
StartRead(t, k) ==
    /\ t \in Used /\ read[t][k] = NoRead
    /\ cachedFetch(t, k, 1)

\* The retry layer's delay is over.
Retry(t, k) ==
    /\ read[t][k] # NoRead /\ read[t][k].at = "delay"
    /\ cachedFetch(t, k, read[t][k].attempt + 1)

\* Variants, for mutants: one attempt too many; attempts that are not counted.
FailedUncounted(r) ==
    IF r # NoRead /\ r.at = "wait" THEN [attempt |-> 0, at |-> "delay"] ELSE r

\* What becomes of a read when its attempt fails: a delay before the next one,
\* or the error.
Failed(r) ==
    IF r = NoRead \/ r.at = "delay" THEN r
    ELSE IF r.attempt < Attempts THEN [r EXCEPT !.at = "delay"]
    ELSE NoRead

\* What becomes of it when the answer comes or no retry is worth it.
Ended(r) == IF r # NoRead /\ r.at = "wait" THEN NoRead ELSE r

\* The attempt's timer goes off.  That ends the attempt and not the request,
\* which was sent without the attempt's abort signal.
TimeOut(t, k) ==
    /\ read[t][k] # NoRead /\ read[t][k].at = "wait"
    /\ read' = [read EXCEPT ![t][k] = Failed(@)]
    /\ UNCHANGED <<server, storage, memory, hydrated, pending, requests, inFlight,
                   change, queue, seen>>

\* The window gets the focus, becomes visible or comes online.
refreshStaleEntries(t) ==
    \E m \in hydrateCategory(t) :
        /\ hydrated' = hydrated \cup {t}
        /\ memory' = [memory EXCEPT ![t] = m]
        /\ fetchRecord(t, {k \in Keys : Due(m[k])})
        /\ schedulePersist(t, FindsExpired(t))
        /\ UNCHANGED <<server, storage, read, change, queue, seen>>

-----------------------------------------------------------------------------
(* Requests *)

\* The server answers the i-th request of the key; the answer is on its way.
Answer(t, k, i) ==
    /\ i \in DOMAIN requests[t][k] /\ requests[t][k][i].answer = Unanswered
    /\ requests' = [requests EXCEPT ![t][k][i].answer = server]
    /\ UNCHANGED <<server, storage, memory, hydrated, pending, inFlight, read,
                   change, queue, seen>>

Unregister(t, k, i) ==
    /\ requests' = [requests EXCEPT ![t][k] = RemoveAt(@, i)]
    /\ inFlight' = [inFlight EXCEPT ![t] = @ \ {k}]

\* An answer arrives.  It is kept unless the category was invalidated since the
\* request began, or the answer is not JSON or too large.
Settle(t, k, i) ==
    /\ i \in DOMAIN requests[t][k] /\ requests[t][k][i].answer # Unanswered
    /\ LET request == requests[t][k][i]
           record == [version |-> request.answer, age |-> 0]
       IN  \/ /\ request.current
              /\ \E m \in enforceLimit([memory[t] EXCEPT ![k] = record], {k}) :
                     memory' = [memory EXCEPT ![t] = m]
              /\ schedulePersist(t, TRUE)
           \/ UNCHANGED <<memory, pending>>
    /\ read' = [read EXCEPT ![t][k] = Ended(@)]
    /\ Unregister(t, k, i)
    /\ UNCHANGED <<server, storage, hydrated, change, queue, seen>>

\* The request fails: no connection, or an error status the retry layer may or
\* may not retry.
FailRequest(t, k, i) ==
    /\ i \in DOMAIN requests[t][k]
    /\ \E after \in {Failed(read[t][k]), Ended(read[t][k])} :
           read' = [read EXCEPT ![t][k] = after]
    /\ Unregister(t, k, i)
    /\ UNCHANGED <<server, storage, memory, hydrated, pending, change, queue, seen>>

-----------------------------------------------------------------------------
(* Mutations and the other tabs *)

\* Variants, for mutants: the table of requests is cleared as well; the
\* generation stays.
invalidateRequests(t, version) ==
    /\ memory' = [memory EXCEPT ![t] = Empty]
    /\ storage' = Empty
    /\ pending' = pending \ {t}
    /\ inFlight' = [inFlight EXCEPT ![t] = {}]
    /\ requests' = [requests EXCEPT ![t] =
           [k \in Keys |-> [i \in DOMAIN requests[t][k] |->
               [requests[t][k][i] EXCEPT !.current = FALSE]]]]
    /\ seen' = [seen EXCEPT ![t] = IF version > @ THEN version ELSE @]
    /\ UNCHANGED hydrated

invalidateRecords(t, version) ==
    /\ memory' = [memory EXCEPT ![t] = Empty]
    /\ storage' = Empty
    /\ pending' = pending \ {t}
    /\ seen' = [seen EXCEPT ![t] = IF version > @ THEN version ELSE @]
    /\ UNCHANGED <<hydrated, requests, inFlight>>

\* Everything the tab holds of the category is forgotten, also by the answers
\* and the write that are still to come.  "version" is the one it makes room
\* for.
invalidate(t, version) ==
    /\ memory' = [memory EXCEPT ![t] = Empty]
    /\ storage' = Empty
    /\ pending' = pending \ {t}
    /\ requests' = [requests EXCEPT ![t] =
           [k \in Keys |-> [i \in DOMAIN requests[t][k] |->
               [requests[t][k][i] EXCEPT !.current = FALSE]]]]
    /\ seen' = [seen EXCEPT ![t] = IF version > @ THEN version ELSE @]
    /\ UNCHANGED <<hydrated, inFlight>>

\* The server carries out a mutation the tab sent; the answer is on its way.
ApplyChange(t) ==
    /\ t \in Used /\ change[t] = NoChange
    /\ server < MaxVersion
    /\ server' = server + 1
    /\ change' = [change EXCEPT ![t] = server']
    /\ UNCHANGED <<storage, memory, hydrated, pending, requests, inFlight, read,
                   queue, seen>>

\* The answer to the mutation arrives: the tab forgets, and tells the others.
ChangeAnswers(t) ==
    /\ change[t] # NoChange
    /\ Reachable(t)
    /\ invalidate(t, change[t])
    /\ broadcast(t, [type |-> "invalidate", version |-> change[t]])
    /\ change' = [change EXCEPT ![t] = NoChange]
    /\ UNCHANGED <<server, read>>

\* The answer is lost: nothing is forgotten.  A mutation that the server refuses
\* changes nothing anywhere.
ChangeFails(t) ==
    /\ change[t] # NoChange
    /\ change' = [change EXCEPT ![t] = NoChange]
    /\ UNCHANGED <<server, storage, memory, hydrated, pending, requests, inFlight,
                   read, queue, seen>>

\* The scheduled write, when the browser is idle.  The quota may refuse it.
persistCategory(t) ==
    /\ t \in pending
    /\ pending' = pending \ {t}
    /\ \/ /\ Reachable(t)
          /\ storage' = Unexpired(memory[t])
          /\ broadcast(t, [type |-> "sync", version |-> 0])
       \/ UNCHANGED <<storage, queue>>
    /\ UNCHANGED <<server, memory, hydrated, requests, inFlight, read, change, seen>>

\* The next message of another tab.
Receive(t) ==
    /\ queue[t] # <<>>
    /\ LET message == Head(queue[t])
       IN  \/ /\ message.type = "invalidate"
              /\ invalidate(t, message.version)
           \/ /\ message.type = "sync"
              /\ hydrated' = hydrated \cup {t}
              /\ \E m \in Stored : memory' = [memory EXCEPT ![t] = m]
              /\ schedulePersist(t, Expired(storage) # {})
              /\ UNCHANGED <<storage, requests, inFlight, seen>>
    /\ queue' = [queue EXCEPT ![t] = Tail(@)]
    /\ UNCHANGED <<server, read, change>>

\* The cleanup of the tab's memory and of localStorage, which may refuse the
\* write.  A copy that cannot be read ends it before the memory is cleaned,
\* which changes nothing.  CacheCleanup says when it runs; here it may or may
\* not.
cleanupStorageCategory(t) ==
    /\ memory' = [memory EXCEPT ![t] = Unexpired(@)]
    /\ \/ \E kept \in Stored : storage' = kept
       \/ UNCHANGED storage
    /\ UNCHANGED <<server, hydrated, pending, requests, inFlight, read, change,
                   queue, seen>>

-----------------------------------------------------------------------------
(* Environment *)

\* The data changes from another device.
ChangeElsewhere ==
    /\ server < MaxVersion
    /\ server' = server + 1
    /\ UNCHANGED <<storage, memory, hydrated, pending, requests, inFlight, read,
                   change, queue, seen>>

\* The page is loaded anew.
Reload(t) ==
    /\ memory' = [memory EXCEPT ![t] = Empty]
    /\ hydrated' = hydrated \ {t}
    /\ pending' = pending \ {t}
    /\ requests' = [requests EXCEPT ![t] = [k \in Keys |-> <<>>]]
    /\ inFlight' = [inFlight EXCEPT ![t] = {}]
    /\ read' = [read EXCEPT ![t] = [k \in Keys |-> NoRead]]
    /\ change' = [change EXCEPT ![t] = NoChange]
    /\ queue' = [queue EXCEPT ![t] = <<>>]
    /\ seen' = [seen EXCEPT ![t] = 0]
    /\ UNCHANGED <<server, storage>>

Older(m) ==
    [k \in Keys |-> IF m[k] = NoRecord \/ isExpired(m[k]) THEN m[k]
                    ELSE [m[k] EXCEPT !.age = @ + 1]]

\* Time passes; ages beyond expiry need not be told apart.
Tick ==
    /\ memory' = [t \in Tabs |-> Older(memory[t])]
    /\ storage' = Older(storage)
    /\ UNCHANGED <<server, hydrated, pending, requests, inFlight, read, change,
                   queue, seen>>

CacheNext ==
    \/ \E t \in Tabs :
          \/ \E k \in Keys :
                \/ StartRead(t, k) \/ Retry(t, k) \/ TimeOut(t, k)
                \/ \E i \in DOMAIN requests[t][k] :
                      Answer(t, k, i) \/ Settle(t, k, i) \/ FailRequest(t, k, i)
          \/ refreshStaleEntries(t)
          \/ ApplyChange(t) \/ ChangeAnswers(t) \/ ChangeFails(t)
          \/ persistCategory(t) \/ Receive(t) \/ cleanupStorageCategory(t)
          \/ Reload(t)
    \/ ChangeElsewhere
    \/ Tick

CacheSpec == CacheInit /\ [][CacheNext]_cacheVars

\* Time passes and the timers of the retry layer go off: those of the attempts
\* and of the delays between them.  Nothing is assumed of the network, where a
\* request may stay unanswered, nor of idle time, messages and the cleanup.
CacheFairness ==
    /\ WF_cacheVars(Tick)
    /\ \A t \in Used, k \in Keys : WF_cacheVars(TimeOut(t, k) \/ Retry(t, k))

CacheFairSpec == CacheSpec /\ CacheFairness

-----------------------------------------------------------------------------
(* Properties *)

\* The cache holds what its variables are for: no tab keeps more records than
\* the limit, and each message names a change the server has made
\* (cache.js:147-155, 196-203).
CacheTypeOK ==
    /\ server \in Versions
    /\ storage \in [Keys -> Record \cup {NoRecord}]
    /\ memory \in [Tabs -> [Keys -> Record \cup {NoRecord}]]
    /\ hydrated \subseteq Tabs /\ pending \subseteq Tabs
    /\ requests \in [Tabs -> [Keys -> Seq(Request)]]
    /\ inFlight \in [Tabs -> SUBSET Keys]
    /\ read \in [Tabs -> [Keys -> Read \cup {NoRead}]]
    /\ change \in [Tabs -> Versions \cup {NoChange}]
    /\ queue \in [Tabs -> Seq(TabMessage)]
    /\ seen \in [Tabs -> 0 .. server]
    /\ \A t \in Tabs : Cardinality(Present(memory[t])) <= Limit

\* A tab never has two requests for one key on the network, and its table of
\* requests names exactly those that are there, whatever reads, refreshes,
\* time-outs, retries and invalidations do in between (cache.js:322-355).
OneFetchPerKey ==
    /\ CacheTypeOK
    /\ \A t \in Tabs, k \in Keys :
          Len(requests[t][k]) = IF k \in inFlight[t] THEN 1 ELSE 0

\* An answer that was asked for before a mutation and arrives after the tab
\* learned of the mutation does not bring the old data back: whatever enters a
\* tab's memory is as new as the newest change the tab knows of, unless it is
\* read from localStorage (cache.js:324, 346).
NoOldAnswerKept ==
    [][\A t \in Tabs, k \in Keys :
          LET new == memory'[t][k]
          IN  new # NoRecord /\ new # storage[k]
                /\ (memory[t][k] = NoRecord \/ memory[t][k].version # new.version)
              => new.version >= seen[t]]_cacheVars

\* Every read ends with an answer or an error, also when the network never
\* answers its request (resilience.js:117-160).
ReadsEnd ==
    \A t \in Used, k \in Keys : read[t][k] # NoRead ~> read[t][k] = NoRead

\* Once the server's data stays as it is, whatever the cache still serves comes
\* to be of that data, although the news of a change may be lost, answers from
\* before it may be late, and the tabs pass each other old records through
\* localStorage: a copy is as old as its original.  Neither requests that are
\* answered nor the cleanup are needed for it (cache.js:134-145, 441-457).
Heals ==
    <>[](\A t \in Tabs, k \in Keys :
            Servable(memory[t][k]) => memory[t][k].version = server)

=============================================================================
