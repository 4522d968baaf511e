-------------------------- MODULE ClientCacheProofs --------------------------
(***************************************************************************)
(* ClientCache for any number of tabs and urls, any ages, limit, attempts  *)
(* and messages: the table of requests is right about the network, and an  *)
(* answer from before a change never comes back after it.                  *)
(***************************************************************************)
EXTENDS ClientCache, FiniteSetTheorems, SequenceTheorems, TLAPS

(* What a tab or localStorage may hold, and what a tab may hold.           *)
Kept(m) == m \in [Keys -> Record \cup {NoRecord}] /\ IsFiniteSet(Present(m))
InLimit(m) == Kept(m) /\ Cardinality(Present(m)) <= Limit

Stores ==
  /\ Kept(storage)
  /\ memory \in [Tabs -> [Keys -> Record \cup {NoRecord}]] /\ \A t \in Tabs : InLimit(memory[t])
  /\ hydrated \subseteq Tabs /\ pending \subseteq Tabs

(* A request of which the generation is current is answered with data that *)
(* is as new as the tab knows of; what is not answered yet will be.        *)
Asked(q, since) == q \in Request /\ (q.current => q.answer >= since)

(* The table of requests is right about every key.                         *)
Slots(slot, registered, since) ==
  \A k \in Keys :
    IF k \in registered THEN \E q \in Request : Asked(q, since) /\ slot[k] = <<q>>
                        ELSE slot[k] = <<>>

Fetches ==
  /\ requests \in [Tabs -> [Keys -> Seq(Request)]] /\ inFlight \in [Tabs -> SUBSET Keys]
  /\ seen \in [Tabs -> 0 .. server]
  /\ \A t \in Tabs : Slots(requests[t], inFlight[t], seen[t])

(* A read that waits for its next attempt has one left.                    *)
Trying(r) == r = NoRead \/ (r \in Read /\ (r.at = "delay" => r.attempt < Attempts))

Reads ==
  /\ read \in [Tabs -> [Keys -> Read \cup {NoRead}]]
  /\ \A t \in Tabs, k \in Keys : Trying(read[t][k])

(* Nobody hears of a change before the server has made it.                 *)
News == [type : {"invalidate", "sync"}, version : 0 .. server]

Told ==
  /\ server \in Versions
  /\ change \in [Tabs -> (0 .. server) \cup {NoChange}]
  /\ queue \in [Tabs -> Seq(News)]

CacheInv == Stores /\ Fetches /\ Reads /\ Told

-----------------------------------------------------------------------------
(* Sequences with at most one entry.                                       *)
LEMMA OneEntry ==
  ASSUME NEW q
  PROVE  /\ Append(<<>>, q) = <<q>> /\ DOMAIN <<q>> = {1} /\ <<q>>[1] = q /\ Len(<<q>>) = 1
         /\ Len(<<>>) = 0 /\ DOMAIN <<>> = {}
         /\ RemoveAt(<<q>>, 1) = <<>>
<1>1. SubSeq(<<q>>, 1, 0) = <<>> /\ SubSeq(<<q>>, 2, 1) = <<>>
  BY SubSeqEmpty
<1>2. Len(<<q>>) = 1 /\ <<>> \o <<>> = <<>>
  OBVIOUS
<1>3. RemoveAt(<<q>>, 1) = <<>>
  BY <1>1, <1>2 DEF RemoveAt
<1> QED BY <1>3

LEMMA NoEntry ==
  ASSUME NEW s, s = <<>>
  PROVE  [i \in DOMAIN s |-> [s[i] EXCEPT !.current = FALSE]] = <<>>
<1>1. DOMAIN s = {}
  OBVIOUS
<1> QED BY <1>1

LEMMA OldEntry ==
  ASSUME NEW q, NEW s, s = <<q>>
  PROVE  [i \in DOMAIN s |-> [s[i] EXCEPT !.current = FALSE]] = <<[q EXCEPT !.current = FALSE]>>
<1> DEFINE r == [q EXCEPT !.current = FALSE]
<1>1. DOMAIN s = {1} /\ s[1] = q
  OBVIOUS
<1>2. [i \in DOMAIN s |-> [s[i] EXCEPT !.current = FALSE]] = [i \in {1} |-> r]
  BY <1>1
<1> HIDE DEF r
<1>3. [i \in {1} |-> r] = <<r>>
  OBVIOUS
<1> QED BY <1>2, <1>3 DEF r

(* The records that are kept of some.                                      *)
LEMMA OnlyIs ==
  ASSUME NEW m, Kept(m), NEW kept \in SUBSET Present(m)
  PROVE  /\ Kept(Only(m, kept)) /\ Present(Only(m, kept)) = kept
         /\ Cardinality(kept) <= Cardinality(Present(m))
         /\ \A k \in Keys : Only(m, kept)[k] \in {m[k], NoRecord}
<1>1. IsFiniteSet(kept) /\ Cardinality(kept) <= Cardinality(Present(m))
  BY FS_Subset DEF Kept
<1>2. Only(m, kept) \in [Keys -> Record \cup {NoRecord}]
  BY DEF Only, Kept
<1>3. Present(Only(m, kept)) = kept
  BY DEF Only, Present
<1> QED BY <1>1, <1>2, <1>3 DEF Kept, Only

LEMMA UnexpiredIs ==
  ASSUME NEW m, Kept(m)
  PROVE  /\ Kept(Unexpired(m)) /\ Cardinality(Present(Unexpired(m))) <= Cardinality(Present(m))
         /\ \A k \in Keys : Unexpired(m)[k] \in {m[k], NoRecord}
BY OnlyIs DEF Unexpired

LEMMA LimitIs ==
  ASSUME NEW m, Kept(m), NEW stored, NEW x \in enforceLimit(m, stored)
  PROVE  InLimit(x) /\ \A k \in Keys : x[k] \in {m[k], NoRecord}
<1>1. PICK size, kept :
        /\ size = (IF Cardinality(Present(m)) > Limit THEN Limit ELSE Cardinality(Present(m)))
        /\ kept \in SUBSET Present(m) /\ Cardinality(kept) = size /\ x = Only(m, kept)
  BY DEF enforceLimit, kSubset
<1>2. Cardinality(Present(m)) \in Nat /\ Limit \in Nat
  BY FS_CardinalityType, CacheAssumption DEF Kept
<1>3. size <= Limit
  BY <1>1, <1>2
<1> QED BY <1>1, <1>3, OnlyIs DEF InLimit

(* What a tab finds when it reads localStorage, if it does.                *)
LEMMA StoredIs ==
  ASSUME Stores, NEW x \in Stored
  PROVE  InLimit(x) /\ \A k \in Keys : x[k] \in {storage[k], NoRecord}
<1>1. /\ Kept(Unexpired(storage))
      /\ \A k \in Keys : Unexpired(storage)[k] \in {storage[k], NoRecord}
  BY UnexpiredIs DEF Stores
<1>2. InLimit(x) /\ \A k \in Keys : x[k] \in {Unexpired(storage)[k], NoRecord}
  BY <1>1, LimitIs DEF Stored
<1> QED BY <1>1, <1>2

LEMMA HydratedIs ==
  ASSUME Stores, NEW t \in Tabs, NEW x \in hydrateCategory(t)
  PROVE  InLimit(x) /\ \A k \in Keys : x[k] \in {memory[t][k], storage[k], NoRecord}
<1>1. CASE t \in hydrated
  BY <1>1 DEF hydrateCategory, Stores
<1>2. CASE t \notin hydrated
  BY <1>2, StoredIs DEF hydrateCategory
<1> QED BY <1>1, <1>2

LEMMA OlderIs ==
  ASSUME NEW m, Kept(m)
  PROVE  /\ Kept(Older(m)) /\ Cardinality(Present(Older(m))) <= Cardinality(Present(m))
         /\ \A k \in Keys : \/ Older(m)[k] = NoRecord
                            \/ m[k] # NoRecord /\ Older(m)[k].version = m[k].version
<1>1. ASSUME NEW k \in Keys
      PROVE  /\ Older(m)[k] \in Record \cup {NoRecord}
             /\ m[k] = NoRecord => Older(m)[k] = NoRecord
             /\ m[k] # NoRecord => Older(m)[k].version = m[k].version
  <2>1. CASE m[k] = NoRecord \/ isExpired(m[k])
    BY <2>1 DEF Older, Kept
  <2>2. CASE ~(m[k] = NoRecord \/ isExpired(m[k]))
    <3>1. m[k] \in Record /\ m[k].age <= StaleFor
      BY <2>2, CacheAssumption DEF Kept, Record, isExpired
    <3>2. Older(m)[k] = [m[k] EXCEPT !.age = m[k].age + 1]
      BY <2>2 DEF Older
    <3>3. m[k].age + 1 \in 0 .. StaleFor + 1
      BY <3>1, CacheAssumption DEF Record
    <3> QED BY <2>2, <3>1, <3>2, <3>3 DEF Record
  <2> QED BY <2>1, <2>2
<1>2. Older(m) \in [Keys -> Record \cup {NoRecord}]
  BY <1>1 DEF Older
<1>3. Present(Older(m)) \subseteq Present(m)
  BY <1>1 DEF Present
<1>4. IsFiniteSet(Present(Older(m))) /\ Cardinality(Present(Older(m))) <= Cardinality(Present(m))
  BY <1>3, FS_Subset DEF Kept
<1> QED BY <1>1, <1>2, <1>4 DEF Kept

LEMMA EmptyIs == InLimit(Empty) /\ \A k \in Keys : Empty[k] = NoRecord
<1>1. Present(Empty) = {}
  BY DEF Present, Empty
<1>2. Cardinality({}) = 0 /\ IsFiniteSet({})
  BY FS_EmptySet
<1> QED BY <1>1, <1>2, CacheAssumption DEF InLimit, Kept, Empty

-----------------------------------------------------------------------------
LEMMA CacheStart ==
  ASSUME CacheInit
  PROVE  CacheInv
<1>1. Stores
  BY EmptyIs DEF CacheInit, Stores, InLimit, Empty
<1>2. Fetches
  <2>1. requests \in [Tabs -> [Keys -> Seq(Request)]]
    BY DEF CacheInit
  <2> QED BY <2>1 DEF CacheInit, Fetches, Slots
<1>3. Reads /\ Told
  BY CacheAssumption DEF CacheInit, Reads, Trying, Told, Versions, News
<1> QED BY <1>1, <1>2, <1>3 DEF CacheInv

(* A tab has other records, and localStorage too.                          *)
LEMMA StoresSet ==
  ASSUME Stores, NEW t \in Tabs, NEW m, InLimit(m), memory' = [memory EXCEPT ![t] = m],
         Kept(storage'), hydrated' \subseteq Tabs, pending' \subseteq Tabs
  PROVE  Stores'
<1>1. memory' \in [Tabs -> [Keys -> Record \cup {NoRecord}]]
  BY DEF Stores, InLimit, Kept
<1>2. \A u \in Tabs : memory'[u] = IF u = t THEN m ELSE memory[u]
  BY DEF Stores
<1> QED BY <1>1, <1>2 DEF Stores, InLimit, Kept, Present

LEMMA StoresStay ==
  ASSUME Stores, memory' = memory, Kept(storage'), hydrated' \subseteq Tabs, pending' \subseteq Tabs
  PROVE  Stores'
BY DEF Stores, InLimit, Kept, Present

LEMMA ReadSet ==
  ASSUME Reads, NEW t \in Tabs, NEW k \in Keys, NEW r, r \in Read \cup {NoRead}, Trying(r),
         read' = [read EXCEPT ![t][k] = r]
  PROVE  Reads'
<1>1. read' \in [Tabs -> [Keys -> Read \cup {NoRead}]]
  BY DEF Reads
<1>2. \A u \in Tabs, l \in Keys : read'[u][l] = IF u = t /\ l = k THEN r ELSE read[u][l]
  BY DEF Reads
<1> QED BY <1>1, <1>2 DEF Reads, Trying

LEMMA FetchesStay ==
  ASSUME Fetches, requests' = requests, inFlight' = inFlight, seen' = seen,
         server \in Nat, server' \in Nat, server <= server'
  PROVE  Fetches'
<1>1. seen' \in [Tabs -> 0 .. server']
  BY DEF Fetches
<1> QED BY <1>1 DEF Fetches, Slots, Asked

LEMMA FetchSet ==
  ASSUME Fetches, server \in Versions, NEW t \in Tabs, NEW ks \in SUBSET Keys, fetchRecord(t, ks),
         seen' = seen, server' = server
  PROVE  Fetches'
<1> DEFINE q == [current |-> TRUE, answer |-> Unanswered]
           new == ks \ inFlight[t]
           slot == [k \in Keys |-> IF k \in new THEN Append(requests[t][k], q) ELSE requests[t][k]]
<1>1. q \in Request /\ Asked(q, seen[t])
  BY CacheAssumption DEF Request, Asked, Unanswered, Versions, Fetches
<1>2. /\ requests' = [requests EXCEPT ![t] = slot]
      /\ inFlight' = [inFlight EXCEPT ![t] = inFlight[t] \cup new]
  BY DEF fetchRecord
<1>3. Slots(requests[t], inFlight[t], seen[t])
  BY DEF Fetches
<1> HIDE DEF q
<1>4. ASSUME NEW k \in Keys
      PROVE  /\ slot[k] \in Seq(Request)
             /\ IF k \in inFlight[t] \cup new
                THEN \E r \in Request : Asked(r, seen[t]) /\ slot[k] = <<r>> ELSE slot[k] = <<>>
  <2>1. CASE k \in new
    <3>1. requests[t][k] = <<>>
      BY <1>3, <2>1 DEF Slots
    <3>2. slot[k] = <<q>>
      BY <2>1, <3>1, OneEntry
    <3>3. <<q>> \in Seq(Request)
      BY <1>1
    <3> HIDE DEF slot, new
    <3> QED BY <1>1, <2>1, <3>2, <3>3
  <2>2. CASE k \notin new
    <3>1. slot[k] = requests[t][k]
      BY <2>2
    <3> HIDE DEF slot
    <3> QED BY <1>3, <2>2, <3>1 DEF Slots, Fetches
  <2> QED BY <2>1, <2>2
<1>5. slot \in [Keys -> Seq(Request)] /\ inFlight[t] \cup new \in SUBSET Keys
  BY <1>4 DEF Fetches
<1>6. Slots(slot, inFlight[t] \cup new, seen[t])
  BY <1>4 DEF Slots
<1> HIDE DEF slot, new
<1>7. /\ requests' \in [Tabs -> [Keys -> Seq(Request)]] /\ inFlight' \in [Tabs -> SUBSET Keys]
      /\ requests'[t] = slot /\ inFlight'[t] = inFlight[t] \cup new
      /\ \A u \in Tabs \ {t} : requests'[u] = requests[u] /\ inFlight'[u] = inFlight[u]
  BY <1>2, <1>5 DEF Fetches
<1>8. \A u \in Tabs : Slots(requests'[u], inFlight'[u], seen[u])
  BY <1>6, <1>7 DEF Fetches
<1> QED BY <1>7, <1>8 DEF Fetches, Slots, Asked

(* A key that has a request has one.                                       *)
LEMMA TheRequest ==
  ASSUME Fetches, NEW t \in Tabs, NEW k \in Keys, NEW i \in DOMAIN requests[t][k]
  PROVE  /\ i = 1 /\ k \in inFlight[t] /\ requests[t][k][1] \in Request
         /\ Asked(requests[t][k][1], seen[t])
         /\ requests[t][k] = <<requests[t][k][1]>>
<1>1. Slots(requests[t], inFlight[t], seen[t])
  BY DEF Fetches
<1>2. k \in inFlight[t]
  <2>1. DOMAIN <<>> = {}
    OBVIOUS
  <2> QED BY <1>1, <2>1 DEF Slots
<1>3. PICK q \in Request : Asked(q, seen[t]) /\ requests[t][k] = <<q>>
  BY <1>1, <1>2 DEF Slots
<1>4. DOMAIN <<q>> = {1} /\ <<q>>[1] = q
  OBVIOUS
<1> QED BY <1>2, <1>3, <1>4
LEMMA SlotSet ==
  ASSUME Fetches, NEW t \in Tabs, NEW k \in Keys, NEW slot \in Seq(Request),
         NEW registered \in SUBSET Keys,
         \A l \in Keys \ {k} : l \in registered <=> l \in inFlight[t],
         IF k \in registered THEN \E r \in Request : Asked(r, seen[t]) /\ slot = <<r>>
                             ELSE slot = <<>>,
         requests' = [requests EXCEPT ![t] = [requests[t] EXCEPT ![k] = slot]],
         inFlight' = [inFlight EXCEPT ![t] = registered],
         seen' = seen, server' = server
  PROVE  Fetches'
<1>1. /\ requests' \in [Tabs -> [Keys -> Seq(Request)]] /\ inFlight' \in [Tabs -> SUBSET Keys]
      /\ inFlight'[t] = registered /\ requests'[t][k] = slot
      /\ \A l \in Keys \ {k} : requests'[t][l] = requests[t][l]
      /\ \A u \in Tabs \ {t} : requests'[u] = requests[u] /\ inFlight'[u] = inFlight[u]
  BY DEF Fetches
<1>2. ASSUME NEW u \in Tabs PROVE Slots(requests'[u], inFlight'[u], seen[u])
  <2>1. Slots(requests[u], inFlight[u], seen[u])
    BY DEF Fetches
  <2>2. CASE u = t
    BY <1>1, <2>1, <2>2 DEF Slots
  <2>3. CASE u # t
    BY <1>1, <2>1, <2>3
  <2> QED BY <2>2, <2>3
<1> QED BY <1>1, <1>2 DEF Fetches, Slots, Asked

LEMMA UnregisterKeeps ==
  ASSUME Fetches, NEW t \in Tabs, NEW k \in Keys, NEW i \in DOMAIN requests[t][k],
         Unregister(t, k, i), seen' = seen, server' = server
  PROVE  Fetches'
<1>1. i = 1 /\ requests[t][k] = <<requests[t][k][1]>>
  BY TheRequest
<1>2. RemoveAt(requests[t][k], i) = <<>>
  BY <1>1, OneEntry
<1>3. requests' = [requests EXCEPT ![t] = [requests[t] EXCEPT ![k] = <<>>]]
  BY <1>2 DEF Unregister
<1>4. inFlight' = [inFlight EXCEPT ![t] = inFlight[t] \ {k}] /\ inFlight[t] \ {k} \in SUBSET Keys
  BY DEF Unregister, Fetches
<1>5. <<>> \in Seq(Request)
  OBVIOUS
<1> QED BY <1>3, <1>4, <1>5, SlotSet

(* What enters the memory of a tab is not older than what it knows of.     *)
Enters(t, k) ==
  LET new == memory'[t][k]
  IN  new # NoRecord /\ new # storage[k]
        /\ (memory[t][k] = NoRecord \/ memory[t][k].version # new.version)
      => new.version >= seen[t]

EntersAll == \A t \in Tabs, k \in Keys : Enters(t, k)

LEMMA EntersSet ==
  ASSUME Stores, NEW t \in Tabs, NEW m, memory' = [memory EXCEPT ![t] = m],
         \A k \in Keys : m[k] \in {memory[t][k], storage[k], NoRecord}
  PROVE  EntersAll
<1>1. \A u \in Tabs : memory'[u] = IF u = t THEN m ELSE memory[u]
  BY DEF Stores
<1> QED BY <1>1 DEF EntersAll, Enters

LEMMA EntersStay == memory' = memory => EntersAll
BY DEF EntersAll, Enters

LEMMA ToldStay ==
  ASSUME Told, server' = server, change' = change, queue' = queue
  PROVE  Told'
BY DEF Told, News

LEMMA PersistIs ==
  ASSUME Stores, NEW t \in Tabs, NEW due, schedulePersist(t, due)
  PROVE  pending' \subseteq Tabs
BY DEF schedulePersist, Stores

LEMMA DroppedIs ==
  ASSUME NEW m, InLimit(m), NEW k \in Keys
  PROVE  /\ InLimit([m EXCEPT ![k] = NoRecord])
         /\ \A l \in Keys : [m EXCEPT ![k] = NoRecord][l] \in {m[l], NoRecord}
<1> DEFINE x == [m EXCEPT ![k] = NoRecord]
<1>1. x \in [Keys -> Record \cup {NoRecord}] /\ \A l \in Keys : x[l] \in {m[l], NoRecord}
  BY DEF InLimit, Kept
<1> HIDE DEF x
<1>2. Present(x) \subseteq Present(m)
  BY <1>1 DEF Present
<1>3. /\ IsFiniteSet(Present(x)) /\ Cardinality(Present(x)) <= Cardinality(Present(m))
      /\ Cardinality(Present(x)) \in Nat /\ Cardinality(Present(m)) \in Nat
  BY <1>2, FS_Subset, FS_CardinalityType DEF InLimit, Kept
<1>4. InLimit(x)
  BY <1>1, <1>3, CacheAssumption DEF InLimit, Kept
<1> QED BY <1>1, <1>4 DEF x

-----------------------------------------------------------------------------
(* Reads.                                                                  *)
LEMMA CachedFetchKeeps ==
  ASSUME CacheInv, NEW t \in Tabs, NEW k \in Keys, NEW attempt \in 1 .. Attempts,
         cachedFetch(t, k, attempt)
  PROVE  CacheInv' /\ EntersAll
<1>1. PICK m \in hydrateCategory(t) :
        /\ hydrated' = hydrated \cup {t}
        /\ \/ /\ refresh(t, {k} \cap {l \in Keys : Due(m[l])})
              /\ \E marked \in BOOLEAN : schedulePersist(t, marked \/ FindsExpired(t))
              /\ memory' = [memory EXCEPT ![t] = m]
              /\ read' = [read EXCEPT ![t][k] = NoRead]
           \/ /\ fetchRecord(t, {k})
              /\ schedulePersist(t, m[k] # NoRecord \/ FindsExpired(t))
              /\ memory' = [memory EXCEPT ![t] = [m EXCEPT ![k] = NoRecord]]
              /\ read' = [read EXCEPT ![t][k] = [attempt |-> attempt, at |-> "wait"]]
        /\ UNCHANGED <<server, storage, change, queue, seen>>
  BY DEF cachedFetch
<1>2. Stores /\ Fetches /\ Reads /\ Told /\ server \in Versions
  BY DEF CacheInv, Told
<1>3. InLimit(m) /\ \A l \in Keys : m[l] \in {memory[t][l], storage[l], NoRecord}
  BY <1>2, HydratedIs
<1>4. PICK x : /\ x \in {m, [m EXCEPT ![k] = NoRecord]} /\ memory' = [memory EXCEPT ![t] = x]
  BY <1>1
<1>5. InLimit(x) /\ \A l \in Keys : x[l] \in {memory[t][l], storage[l], NoRecord}
  <2>1. /\ InLimit([m EXCEPT ![k] = NoRecord])
        /\ \A l \in Keys : [m EXCEPT ![k] = NoRecord][l] \in {m[l], NoRecord}
    BY <1>3, DroppedIs
  <2> QED BY <1>3, <1>4, <2>1
<1>6. PICK ks \in SUBSET Keys : fetchRecord(t, ks) \/ UNCHANGED <<requests, inFlight>>
  <2>1. {k} \cap {l \in Keys : Due(m[l])} \in SUBSET Keys /\ {k} \in SUBSET Keys
    OBVIOUS
  <2> QED BY <1>1, <2>1 DEF refresh
<1>7. pending' \subseteq Tabs
  BY <1>1, <1>2, PersistIs
<1>8. Stores'
  <2>1. Kept(storage') /\ hydrated' \subseteq Tabs
    BY <1>1, <1>2 DEF Stores, Kept, Present
  <2> QED BY <1>2, <1>4, <1>5, <1>7, <2>1, StoresSet
<1>9. Fetches'
  <2>1. server \in Nat /\ server <= server
    BY <1>2, CacheAssumption DEF Versions
  <2> QED BY <1>1, <1>2, <1>6, <2>1, FetchSet, FetchesStay
<1>10. Reads'
  <2>1. /\ [attempt |-> attempt, at |-> "wait"] \in Read
        /\ Trying([attempt |-> attempt, at |-> "wait"])
    BY DEF Read, Trying
  <2>2. Trying(NoRead)
    BY DEF Trying
  <2> QED BY <1>1, <1>2, <2>1, <2>2, ReadSet
<1>11. Told'
  BY <1>1, <1>2, ToldStay
<1>12. EntersAll
  BY <1>2, <1>4, <1>5, EntersSet
<1> QED BY <1>8, <1>9, <1>10, <1>11, <1>12 DEF CacheInv

LEMMA ReadingKeeps ==
  ASSUME CacheInv, NEW t \in Tabs, NEW k \in Keys, StartRead(t, k) \/ Retry(t, k)
  PROVE  CacheInv' /\ EntersAll
<1>1. PICK attempt \in 1 .. Attempts : cachedFetch(t, k, attempt)
  <2>1. CASE StartRead(t, k)
    BY <2>1, CacheAssumption DEF StartRead
  <2>2. CASE Retry(t, k)
    <3>1. read[t][k] \in Read /\ read[t][k].attempt < Attempts
      BY <2>2 DEF Retry, CacheInv, Reads, Trying
    <3>2. read[t][k].attempt + 1 \in 1 .. Attempts
      BY <3>1, CacheAssumption DEF Read
    <3> QED BY <2>2, <3>2 DEF Retry
  <2> QED BY <2>1, <2>2
<1> QED BY <1>1, CachedFetchKeeps

LEMMA AfterwardsIs ==
  ASSUME NEW r, Trying(r)
  PROVE  /\ Failed(r) \in Read \cup {NoRead} /\ Trying(Failed(r))
         /\ Ended(r) \in Read \cup {NoRead} /\ Trying(Ended(r))
<1>1. CASE r = NoRead
  BY <1>1 DEF Failed, Ended, Trying
<1>2. CASE r # NoRead
  <2>1. r \in Read /\ (r.at = "delay" => r.attempt < Attempts)
    BY <1>2 DEF Trying
  <2>2. Ended(r) \in {r, NoRead}
    BY DEF Ended
  <2>3. CASE r.at # "delay" /\ r.attempt < Attempts
    <3>1. Failed(r) = [r EXCEPT !.at = "delay"]
      BY <1>2, <2>3 DEF Failed
    <3>2. /\ [r EXCEPT !.at = "delay"] \in Read
          /\ [r EXCEPT !.at = "delay"].attempt = r.attempt
      BY <2>1 DEF Read
    <3> QED BY <2>1, <2>2, <2>3, <3>1, <3>2 DEF Trying
  <2>4. CASE ~(r.at # "delay" /\ r.attempt < Attempts)
    <3>1. Failed(r) \in {r, NoRead}
      BY <1>2, <2>4 DEF Failed
    <3> QED BY <2>1, <2>2, <3>1 DEF Trying
  <2> QED BY <2>3, <2>4
<1> QED BY <1>1, <1>2

(* A step that touches neither records nor requests.                       *)
LEMMA ServerTime == Told => server \in Nat /\ server <= server
BY CacheAssumption DEF Told, Versions

LEMMA TimeOutKeeps ==
  ASSUME CacheInv, NEW t \in Tabs, NEW k \in Keys, TimeOut(t, k)
  PROVE  CacheInv' /\ EntersAll
<1>1. Trying(read[t][k])
  BY DEF CacheInv, Reads
<1>2. /\ read' = [read EXCEPT ![t][k] = Failed(read[t][k])]
      /\ UNCHANGED <<server, storage, memory, hydrated, pending, requests, inFlight, change,
                     queue, seen>>
  BY DEF TimeOut
<1>3. Reads'
  BY <1>1, <1>2, AfterwardsIs, ReadSet DEF CacheInv
<1>4. Stores' /\ Fetches' /\ Told'
  <2>1. Kept(storage') /\ hydrated' \subseteq Tabs /\ pending' \subseteq Tabs
    BY <1>2 DEF CacheInv, Stores, Kept, Present
  <2> QED BY <1>2, <2>1, StoresStay, FetchesStay, ServerTime, ToldStay DEF CacheInv
<1> QED BY <1>2, <1>3, <1>4, EntersStay DEF CacheInv

LEMMA RefreshKeeps ==
  ASSUME CacheInv, NEW t \in Tabs, refreshStaleEntries(t)
  PROVE  CacheInv' /\ EntersAll
<1>1. PICK m \in hydrateCategory(t) :
        /\ hydrated' = hydrated \cup {t}
        /\ memory' = [memory EXCEPT ![t] = m]
        /\ fetchRecord(t, {k \in Keys : Due(m[k])})
        /\ schedulePersist(t, FindsExpired(t))
        /\ UNCHANGED <<server, storage, read, change, queue, seen>>
  BY DEF refreshStaleEntries
<1>2. Stores /\ Fetches /\ Reads /\ Told /\ server \in Versions
  BY DEF CacheInv, Told
<1>3. InLimit(m) /\ \A l \in Keys : m[l] \in {memory[t][l], storage[l], NoRecord}
  BY <1>2, HydratedIs
<1>4. Stores'
  <2>1. Kept(storage') /\ hydrated' \subseteq Tabs /\ pending' \subseteq Tabs
    BY <1>1, <1>2, PersistIs DEF Stores, Kept, Present
  <2> QED BY <1>1, <1>2, <1>3, <2>1, StoresSet
<1>5. Fetches'
  <2>1. {k \in Keys : Due(m[k])} \in SUBSET Keys
    OBVIOUS
  <2> QED BY <1>1, <1>2, <2>1, FetchSet
<1>6. Reads' /\ Told'
  BY <1>1, <1>2, ToldStay DEF Reads, Trying
<1> QED BY <1>1, <1>2, <1>3, <1>4, <1>5, <1>6, EntersSet DEF CacheInv

-----------------------------------------------------------------------------
(* Requests.                                                               *)
LEMMA AnswerKeeps ==
  ASSUME CacheInv, NEW t \in Tabs, NEW k \in Keys, NEW i \in DOMAIN requests[t][k],
         Answer(t, k, i)
  PROVE  CacheInv' /\ EntersAll
<1> DEFINE q == requests[t][k][1]
           x == [q EXCEPT !.answer = server]
<1>1. /\ requests' = [requests EXCEPT ![t][k][i].answer = server]
      /\ UNCHANGED <<server, storage, memory, hydrated, pending, inFlight, read, change, queue,
                     seen>>
  BY DEF Answer
<1>2. i = 1 /\ k \in inFlight[t] /\ q \in Request /\ requests[t][k] = <<q>> /\ Fetches
  BY TheRequest DEF CacheInv
<1>3. x \in Request /\ x.answer = server
  BY <1>2 DEF Request, CacheInv, Told
<1>4. Asked(x, seen[t])
  BY <1>2, <1>3, CacheAssumption DEF Asked, Fetches, CacheInv, Told, Versions
<1>5. requests' = [requests EXCEPT ![t] =
                     [requests[t] EXCEPT ![k] = [requests[t][k] EXCEPT ![1] = x]]]
  BY <1>1, <1>2
<1> HIDE DEF x, q
<1>6. [<<q>> EXCEPT ![1] = x] = <<x>> /\ <<x>> \in Seq(Request)
  BY <1>3
<1>7. requests' = [requests EXCEPT ![t] = [requests[t] EXCEPT ![k] = <<x>>]]
  BY <1>2, <1>5, <1>6
<1>8. inFlight' = [inFlight EXCEPT ![t] = inFlight[t]] /\ inFlight[t] \in SUBSET Keys
  BY <1>1, <1>2 DEF Fetches
<1>9. Fetches'
  <2>1. /\ IF k \in inFlight[t] THEN \E r \in Request : Asked(r, seen[t]) /\ <<x>> = <<r>>
                               ELSE <<x>> = <<>>
        /\ \A l \in Keys \ {k} : l \in inFlight[t] <=> l \in inFlight[t]
        /\ seen' = seen /\ server' = server
    BY <1>1, <1>2, <1>3, <1>4
  <2> QED BY <1>2, <1>6, <1>7, <1>8, <2>1, SlotSet
<1>10. Stores' /\ Reads' /\ Told'
  <2>1. Kept(storage') /\ hydrated' \subseteq Tabs /\ pending' \subseteq Tabs
    BY <1>1 DEF CacheInv, Stores, Kept, Present
  <2> QED BY <1>1, <2>1, StoresStay, ToldStay DEF CacheInv, Reads, Trying
<1> QED BY <1>1, <1>9, <1>10, EntersStay DEF CacheInv

LEMMA FailRequestKeeps ==
  ASSUME CacheInv, NEW t \in Tabs, NEW k \in Keys, NEW i \in DOMAIN requests[t][k],
         FailRequest(t, k, i)
  PROVE  CacheInv' /\ EntersAll
<1>1. /\ Unregister(t, k, i)
      /\ UNCHANGED <<server, storage, memory, hydrated, pending, change, queue, seen>>
  BY DEF FailRequest
<1>2. PICK after \in {Failed(read[t][k]), Ended(read[t][k])} :
        read' = [read EXCEPT ![t][k] = after]
  BY DEF FailRequest
<1>3. Trying(read[t][k])
  BY DEF CacheInv, Reads
<1>4. Reads'
  BY <1>2, <1>3, AfterwardsIs, ReadSet DEF CacheInv
<1>5. Fetches'
  BY <1>1, UnregisterKeeps DEF CacheInv
<1>6. Stores' /\ Told'
  <2>1. Kept(storage') /\ hydrated' \subseteq Tabs /\ pending' \subseteq Tabs
    BY <1>1 DEF CacheInv, Stores, Kept, Present
  <2> QED BY <1>1, <2>1, StoresStay, ToldStay DEF CacheInv
<1> QED BY <1>1, <1>4, <1>5, <1>6, EntersStay DEF CacheInv

(* Only an answer whose generation is current is kept.                     *)
LEMMA SettleKeeps ==
  ASSUME CacheInv, NEW t \in Tabs, NEW k \in Keys, NEW i \in DOMAIN requests[t][k],
         Settle(t, k, i)
  PROVE  CacheInv' /\ EntersAll
<1> DEFINE q == requests[t][k][1]
           record == [version |-> q.answer, age |-> 0]
           with == [memory[t] EXCEPT ![k] = record]
<1>1. i = 1 /\ q \in Request /\ Asked(q, seen[t]) /\ Stores /\ Fetches /\ Reads /\ Told
  BY TheRequest DEF CacheInv
<1>2. /\ q.answer # Unanswered
      /\ \/ /\ q.current
            /\ \E m \in enforceLimit(with, {k}) : memory' = [memory EXCEPT ![t] = m]
            /\ schedulePersist(t, TRUE)
         \/ UNCHANGED <<memory, pending>>
      /\ read' = [read EXCEPT ![t][k] = Ended(read[t][k])]
      /\ Unregister(t, k, i)
      /\ UNCHANGED <<server, storage, hydrated, change, queue, seen>>
  BY <1>1 DEF Settle
<1>3. record \in Record /\ record.version = q.answer
  BY <1>1, <1>2, CacheAssumption DEF Record, Request
<1>4. Fetches'
  BY <1>1, <1>2, UnregisterKeeps
<1>5. Reads' /\ Told'
  <2>1. Trying(read[t][k])
    BY <1>1 DEF Reads
  <2> QED BY <1>1, <1>2, <2>1, AfterwardsIs, ReadSet, ToldStay
<1>6. Kept(storage') /\ hydrated' \subseteq Tabs /\ pending' \subseteq Tabs
  BY <1>1, <1>2, PersistIs DEF Stores, Kept, Present
<1> HIDE DEF record
<1>7. Kept(with) /\ \A l \in Keys : with[l] = IF l = k THEN record ELSE memory[t][l]
  <2>1. memory[t] \in [Keys -> Record \cup {NoRecord}] /\ IsFiniteSet(Present(memory[t]))
    BY <1>1 DEF Stores, InLimit, Kept
  <2>2. /\ with \in [Keys -> Record \cup {NoRecord}]
        /\ \A l \in Keys : with[l] = IF l = k THEN record ELSE memory[t][l]
    BY <1>3, <2>1
  <2> HIDE DEF with
  <2>3. Present(with) \subseteq Present(memory[t]) \cup {k}
    BY <2>2 DEF Present
  <2>4. IsFiniteSet(Present(memory[t]) \cup {k})
    BY <2>1, FS_AddElement
  <2>5. IsFiniteSet(Present(with))
    BY <2>3, <2>4, FS_Subset
  <2> QED BY <2>2, <2>5 DEF Kept
<1> HIDE DEF with, q
<1>8. CASE UNCHANGED <<memory, pending>>
  BY <1>1, <1>4, <1>5, <1>6, <1>8, StoresStay, EntersStay DEF CacheInv
<1>9. ASSUME q.current, NEW m \in enforceLimit(with, {k}), memory' = [memory EXCEPT ![t] = m]
      PROVE  CacheInv' /\ EntersAll
  <2>1. InLimit(m) /\ \A l \in Keys : m[l] \in {with[l], NoRecord}
    BY <1>7, <1>9, LimitIs
  <2>2. Stores'
    BY <1>1, <1>6, <1>9, <2>1, StoresSet
  <2>3. \A l \in Keys : m[l] \in {memory[t][l], record, NoRecord}
    BY <1>7, <2>1
  <2>4. record.version >= seen[t]
    BY <1>1, <1>3, <1>9 DEF Asked
  <2>5. \A u \in Tabs : memory'[u] = IF u = t THEN m ELSE memory[u]
    BY <1>1, <1>9 DEF Stores
  <2>6. EntersAll
    BY <2>3, <2>4, <2>5 DEF EntersAll, Enters
  <2> QED BY <1>4, <1>5, <2>2, <2>6 DEF CacheInv
<1> QED BY <1>2, <1>8, <1>9
-----------------------------------------------------------------------------
(* Mutations and the other tabs.                                           *)
LEMMA InvalidateKeeps ==
  ASSUME Stores, Fetches, NEW t \in Tabs, NEW version \in 0 .. server, invalidate(t, version),
         server \in Nat, server' = server
  PROVE  Stores' /\ Fetches' /\ EntersAll
<1> DEFINE slot == [k \in Keys |-> [i \in DOMAIN requests[t][k] |->
                      [requests[t][k][i] EXCEPT !.current = FALSE]]]
           since == IF version > seen[t] THEN version ELSE seen[t]
<1>1. /\ memory' = [memory EXCEPT ![t] = Empty] /\ storage' = Empty /\ pending' = pending \ {t}
      /\ requests' = [requests EXCEPT ![t] = slot]
      /\ seen' = [seen EXCEPT ![t] = since]
      /\ hydrated' = hydrated /\ inFlight' = inFlight
  BY DEF invalidate
<1>2. Stores' /\ EntersAll
  <2>1. Kept(storage') /\ hydrated' \subseteq Tabs /\ pending' \subseteq Tabs
    BY <1>1, EmptyIs DEF Stores, InLimit, Kept, Present
  <2>2. Stores'
    BY <1>1, <2>1, EmptyIs, StoresSet
  <2>3. \A k \in Keys : Empty[k] \in {memory[t][k], storage[k], NoRecord}
    BY EmptyIs
  <2>4. EntersAll
    BY <1>1, <2>3, EntersSet
  <2> QED BY <2>2, <2>4
<1>3. ASSUME NEW k \in Keys
      PROVE  /\ slot[k] \in Seq(Request)
             /\ IF k \in inFlight[t] THEN \E r \in Request : Asked(r, since) /\ slot[k] = <<r>>
                                     ELSE slot[k] = <<>>
  <2>1. Slots(requests[t], inFlight[t], seen[t])
    BY DEF Fetches
  <2>2. CASE k \notin inFlight[t]
    <3>1. requests[t][k] = <<>>
      BY <2>1, <2>2 DEF Slots
    <3>2. slot[k] = [i \in DOMAIN requests[t][k] |->
                       [requests[t][k][i] EXCEPT !.current = FALSE]]
      OBVIOUS
    <3>3. slot[k] = <<>>
      BY ONLY <3>1, <3>2, NoEntry
    <3> HIDE DEF slot
    <3> QED BY <2>2, <3>2, <3>3
  <2>3. CASE k \in inFlight[t]
    <3>1. PICK q \in Request : requests[t][k] = <<q>>
      BY <2>1, <2>3 DEF Slots
    <3> DEFINE r == [q EXCEPT !.current = FALSE]
    <3>2. r \in Request /\ r.current = FALSE
      BY DEF Request
    <3>3. slot[k] = [i \in DOMAIN requests[t][k] |->
                       [requests[t][k][i] EXCEPT !.current = FALSE]]
      OBVIOUS
    <3>4. slot[k] = <<r>>
      BY ONLY <3>1, <3>3, OldEntry
    <3> HIDE DEF slot, r
    <3>5. Asked(r, since) /\ <<r>> \in Seq(Request)
      BY <3>2 DEF Asked
    <3> QED BY <2>3, <3>2, <3>4, <3>5
  <2> QED BY <2>2, <2>3
<1>4. slot \in [Keys -> Seq(Request)] /\ Slots(slot, inFlight[t], since)
  BY <1>3 DEF Slots
<1> HIDE DEF slot
<1>5. since \in 0 .. server
  BY DEF Fetches
<1> HIDE DEF since
<1>6. /\ requests' \in [Tabs -> [Keys -> Seq(Request)]] /\ inFlight' \in [Tabs -> SUBSET Keys]
      /\ seen' \in [Tabs -> 0 .. server']
      /\ requests'[t] = slot /\ inFlight'[t] = inFlight[t] /\ seen'[t] = since
      /\ \A u \in Tabs \ {t} : requests'[u] = requests[u] /\ inFlight'[u] = inFlight[u]
                                /\ seen'[u] = seen[u]
  BY <1>1, <1>4, <1>5 DEF Fetches
<1>7. \A u \in Tabs : Slots(requests'[u], inFlight'[u], seen'[u])
  BY <1>4, <1>6 DEF Fetches
<1>8. Fetches'
  BY <1>6, <1>7 DEF Fetches, Slots, Asked
<1> QED BY <1>2, <1>8

LEMMA BroadcastIs ==
  ASSUME Told, NEW t \in Tabs, NEW message \in News, broadcast(t, message)
  PROVE  queue' \in [Tabs -> Seq(News)]
<1>1. \A u \in Tabs : Append(queue[u], message) \in Seq(News)
  BY AppendProperties DEF Told
<1> QED BY <1>1 DEF broadcast, Told

(* A change of the server's data.                                          *)
LEMMA NewVersion ==
  ASSUME Told, server < MaxVersion, server' = server + 1, queue' = queue,
         change' \in [Tabs -> (0 .. server') \cup {NoChange}]
  PROVE  Told'
<1>1. server' \in Versions
  BY CacheAssumption DEF Told, Versions
<1>2. News \subseteq News'
  BY CacheAssumption DEF News, Told, Versions
<1>3. \A u \in Tabs : queue[u] \in Seq(News')
  BY <1>2, SeqMonotonic DEF Told
<1>4. queue' \in [Tabs -> Seq(News')]
  BY <1>3 DEF Told
<1> QED BY <1>1, <1>4 DEF Told

LEMMA ChangingKeeps ==
  ASSUME CacheInv, ChangeElsewhere \/ \E t \in Tabs : ApplyChange(t) \/ ChangeFails(t)
  PROVE  CacheInv' /\ EntersAll
<1>1. UNCHANGED <<storage, memory, hydrated, pending, requests, inFlight, read, queue, seen>>
  BY DEF ChangeElsewhere, ApplyChange, ChangeFails
<1>2. Stores' /\ Reads' /\ EntersAll
  <2>1. Kept(storage') /\ hydrated' \subseteq Tabs /\ pending' \subseteq Tabs
    BY <1>1 DEF CacheInv, Stores, Kept, Present
  <2> QED BY <1>1, <2>1, StoresStay, EntersStay DEF CacheInv, Reads, Trying
<1>3. server \in Nat
  BY ServerTime DEF CacheInv
<1>4. Told' /\ server' \in Nat /\ server <= server'
  <2>1. CASE ChangeElsewhere
    <3>1. server < MaxVersion /\ server' = server + 1 /\ change' = change
      BY <2>1 DEF ChangeElsewhere
    <3>2. change' \in [Tabs -> (0 .. server') \cup {NoChange}]
      BY <1>3, <3>1 DEF CacheInv, Told
    <3> QED BY <1>1, <1>3, <3>1, <3>2, NewVersion DEF CacheInv
  <2>2. ASSUME NEW t \in Tabs, ApplyChange(t) PROVE Told' /\ server' \in Nat /\ server <= server'
    <3>1. /\ server < MaxVersion /\ server' = server + 1
          /\ change' = [change EXCEPT ![t] = server']
      BY <2>2 DEF ApplyChange
    <3>2. change' \in [Tabs -> (0 .. server') \cup {NoChange}]
      BY <1>3, <3>1 DEF CacheInv, Told
    <3> QED BY <1>1, <1>3, <3>1, <3>2, NewVersion DEF CacheInv
  <2>3. ASSUME NEW t \in Tabs, ChangeFails(t) PROVE Told' /\ server' \in Nat /\ server <= server'
    <3>1. server' = server /\ change' = [change EXCEPT ![t] = NoChange]
      BY <2>3 DEF ChangeFails
    <3>2. change' \in [Tabs -> (0 .. server') \cup {NoChange}]
      BY <3>1 DEF CacheInv, Told
    <3>3. News' = News
      BY <3>1 DEF News
    <3> QED BY <1>1, <1>3, <3>1, <3>2, <3>3 DEF CacheInv, Told
  <2> QED BY <2>1, <2>2, <2>3
<1>5. Fetches'
  BY <1>1, <1>3, <1>4, FetchesStay DEF CacheInv
<1> QED BY <1>2, <1>4, <1>5 DEF CacheInv

LEMMA ChangeAnswersKeeps ==
  ASSUME CacheInv, NEW t \in Tabs, ChangeAnswers(t)
  PROVE  CacheInv' /\ EntersAll
<1> DEFINE message == [type |-> "invalidate", version |-> change[t]]
<1>1. /\ change[t] # NoChange /\ invalidate(t, change[t])
      /\ broadcast(t, message)
      /\ change' = [change EXCEPT ![t] = NoChange] /\ server' = server /\ read' = read
  BY DEF ChangeAnswers
<1>2. change[t] \in 0 .. server /\ server \in Nat
  BY <1>1, ServerTime DEF CacheInv, Told
<1>3. Stores' /\ Fetches' /\ EntersAll
  BY <1>1, <1>2, InvalidateKeeps DEF CacheInv
<1>4. message \in News
  BY <1>2 DEF News
<1> HIDE DEF message
<1>5. queue' \in [Tabs -> Seq(News)]
  BY <1>1, <1>4, BroadcastIs DEF CacheInv
<1>6. Told' /\ Reads'
  BY <1>1, <1>5 DEF CacheInv, Told, News, Reads, Trying
<1> QED BY <1>3, <1>6 DEF CacheInv

LEMMA PersistKeeps ==
  ASSUME CacheInv, NEW t \in Tabs, persistCategory(t)
  PROVE  CacheInv' /\ EntersAll
<1> DEFINE message == [type |-> "sync", version |-> 0]
<1>1. /\ pending' = pending \ {t}
      /\ \/ storage' = Unexpired(memory[t]) /\ broadcast(t, message)
         \/ UNCHANGED <<storage, queue>>
      /\ UNCHANGED <<server, memory, hydrated, requests, inFlight, read, change, seen>>
  BY DEF persistCategory
<1>2. server \in Nat /\ server <= server
  BY ServerTime DEF CacheInv
<1>3. message \in News
  BY <1>2 DEF News
<1> HIDE DEF message
<1>4. Kept(memory[t])
  BY DEF CacheInv, Stores, InLimit
<1>5. Kept(Unexpired(memory[t]))
  BY <1>4, UnexpiredIs
<1>6. Kept(storage') /\ hydrated' \subseteq Tabs /\ pending' \subseteq Tabs
  BY <1>1, <1>5 DEF CacheInv, Stores, Kept, Present
<1>7. Stores' /\ Fetches' /\ Reads' /\ EntersAll
  BY <1>1, <1>2, <1>6, StoresStay, FetchesStay, EntersStay DEF CacheInv, Reads, Trying
<1>8. queue' \in [Tabs -> Seq(News)]
  BY <1>1, <1>3, BroadcastIs DEF CacheInv, Told
<1>9. Told'
  BY <1>1, <1>8 DEF CacheInv, Told, News
<1> QED BY <1>7, <1>9 DEF CacheInv

LEMMA ReceiveKeeps ==
  ASSUME CacheInv, NEW t \in Tabs, Receive(t)
  PROVE  CacheInv' /\ EntersAll
<1> DEFINE message == Head(queue[t])
<1>1. /\ queue[t] # <<>> /\ queue' = [queue EXCEPT ![t] = Tail(queue[t])]
      /\ server' = server /\ read' = read /\ change' = change
      /\ \/ invalidate(t, message.version)
         \/ /\ hydrated' = hydrated \cup {t}
            /\ \E m \in Stored : memory' = [memory EXCEPT ![t] = m]
            /\ schedulePersist(t, Expired(storage) # {})
            /\ UNCHANGED <<storage, requests, inFlight, seen>>
  BY DEF Receive
<1>2. message \in News /\ Tail(queue[t]) \in Seq(News)
  BY <1>1, HeadTailProperties DEF CacheInv, Told
<1>3. message.version \in 0 .. server /\ server \in Nat /\ server <= server
  BY <1>2, ServerTime DEF News, CacheInv
<1> HIDE DEF message
<1>4. Told' /\ Reads'
  BY <1>1, <1>2 DEF CacheInv, Told, News, Reads, Trying
<1>5. CASE invalidate(t, message.version)
  BY <1>1, <1>3, <1>4, <1>5, InvalidateKeeps DEF CacheInv
<1>6. ASSUME hydrated' = hydrated \cup {t}, NEW m \in Stored, memory' = [memory EXCEPT ![t] = m],
             schedulePersist(t, Expired(storage) # {}),
             UNCHANGED <<storage, requests, inFlight, seen>>
      PROVE  CacheInv' /\ EntersAll
  <2>1. InLimit(m) /\ \A k \in Keys : m[k] \in {storage[k], NoRecord}
    BY StoredIs DEF CacheInv
  <2>2. Kept(storage') /\ hydrated' \subseteq Tabs /\ pending' \subseteq Tabs
    BY <1>6, PersistIs DEF CacheInv, Stores, Kept, Present
  <2>3. Stores'
    BY <1>6, <2>1, <2>2, StoresSet DEF CacheInv
  <2>4. Fetches'
    BY <1>1, <1>3, <1>6, FetchesStay DEF CacheInv
  <2>5. EntersAll
    <3>1. \A k \in Keys : m[k] \in {memory[t][k], storage[k], NoRecord}
      BY <2>1
    <3> QED BY <1>6, <3>1, EntersSet DEF CacheInv
  <2> QED BY <1>4, <2>3, <2>4, <2>5 DEF CacheInv
<1> QED BY <1>1, <1>5, <1>6

LEMMA CleanupKeeps ==
  ASSUME CacheInv, NEW t \in Tabs, cleanupStorageCategory(t)
  PROVE  CacheInv' /\ EntersAll
<1> DEFINE m == Unexpired(memory[t])
<1>1. /\ memory' = [memory EXCEPT ![t] = m] /\ storage' \in Stored \cup {storage}
      /\ UNCHANGED <<server, hydrated, pending, requests, inFlight, read, change, queue, seen>>
  BY DEF cleanupStorageCategory
<1>2. Kept(memory[t]) /\ Cardinality(Present(memory[t])) <= Limit
  BY DEF CacheInv, Stores, InLimit
<1>3. /\ Kept(m) /\ Cardinality(Present(m)) <= Cardinality(Present(memory[t]))
      /\ \A k \in Keys : m[k] \in {memory[t][k], NoRecord}
  BY <1>2, UnexpiredIs
<1> HIDE DEF m
<1>4. Cardinality(Present(m)) \in Nat /\ Cardinality(Present(memory[t])) \in Nat
  BY <1>2, <1>3, FS_CardinalityType DEF Kept
<1>5. InLimit(m)
  BY <1>2, <1>3, <1>4, CacheAssumption DEF InLimit
<1>6. Kept(storage') /\ hydrated' \subseteq Tabs /\ pending' \subseteq Tabs
  BY <1>1, StoredIs DEF CacheInv, Stores, InLimit
<1>7. Stores'
  BY <1>1, <1>5, <1>6, StoresSet DEF CacheInv
<1>8. Fetches' /\ Reads' /\ Told'
  BY <1>1, FetchesStay, ServerTime, ToldStay DEF CacheInv, Reads, Trying
<1>9. EntersAll
  <2>1. \A k \in Keys : m[k] \in {memory[t][k], storage[k], NoRecord}
    BY <1>3
  <2> QED BY <1>1, <2>1, EntersSet DEF CacheInv
<1> QED BY <1>7, <1>8, <1>9 DEF CacheInv

-----------------------------------------------------------------------------
(* The page is loaded anew.                                                *)
LEMMA ReloadKeeps ==
  ASSUME CacheInv, NEW t \in Tabs, Reload(t)
  PROVE  CacheInv' /\ EntersAll
<1>1. /\ memory' = [memory EXCEPT ![t] = Empty] /\ hydrated' = hydrated \ {t}
      /\ pending' = pending \ {t}
      /\ requests' = [requests EXCEPT ![t] = [k \in Keys |-> <<>>]]
      /\ inFlight' = [inFlight EXCEPT ![t] = {}]
      /\ read' = [read EXCEPT ![t] = [k \in Keys |-> NoRead]]
      /\ change' = [change EXCEPT ![t] = NoChange]
      /\ queue' = [queue EXCEPT ![t] = <<>>]
      /\ seen' = [seen EXCEPT ![t] = 0]
      /\ server' = server /\ storage' = storage
  BY DEF Reload
<1>2. Stores' /\ EntersAll
  <2>1. Kept(storage') /\ hydrated' \subseteq Tabs /\ pending' \subseteq Tabs
    BY <1>1 DEF CacheInv, Stores, Kept, Present
  <2>2. Stores'
    BY <1>1, <2>1, EmptyIs, StoresSet DEF CacheInv
  <2>3. \A k \in Keys : Empty[k] \in {memory[t][k], storage[k], NoRecord}
    BY EmptyIs
  <2>4. EntersAll
    BY <1>1, <2>3, EntersSet DEF CacheInv
  <2> QED BY <2>2, <2>4
<1>3. Fetches'
  <2>1. /\ [k \in Keys |-> <<>>] \in [Keys -> Seq(Request)] /\ 0 \in 0 .. server
        /\ Slots([k \in Keys |-> <<>>], {}, 0)
    BY ServerTime DEF Slots, CacheInv
  <2>2. /\ requests' \in [Tabs -> [Keys -> Seq(Request)]] /\ inFlight' \in [Tabs -> SUBSET Keys]
        /\ seen' \in [Tabs -> 0 .. server']
    BY <1>1, <2>1 DEF CacheInv, Fetches
  <2>3. \A u \in Tabs : Slots(requests'[u], inFlight'[u], seen'[u])
    BY <1>1, <2>1 DEF CacheInv, Fetches
  <2> QED BY <2>2, <2>3 DEF Fetches, Slots, Asked
<1>4. Reads'
  <2>1. [k \in Keys |-> NoRead] \in [Keys -> Read \cup {NoRead}]
    OBVIOUS
  <2>2. read' \in [Tabs -> [Keys -> Read \cup {NoRead}]]
    BY <1>1, <2>1 DEF CacheInv, Reads
  <2>3. \A u \in Tabs, k \in Keys : read'[u][k] \in {read[u][k], NoRead}
    BY <1>1 DEF CacheInv, Reads
  <2> QED BY <2>2, <2>3 DEF CacheInv, Reads, Trying
<1>5. Told'
  <2>1. change' \in [Tabs -> (0 .. server') \cup {NoChange}]
    BY <1>1 DEF CacheInv, Told
  <2>2. News' = News /\ <<>> \in Seq(News)
    BY <1>1 DEF News
  <2>3. queue' \in [Tabs -> Seq(News)]
    BY <1>1, <2>2 DEF CacheInv, Told
  <2> QED BY <1>1, <2>1, <2>2, <2>3 DEF CacheInv, Told
<1> QED BY <1>2, <1>3, <1>4, <1>5 DEF CacheInv

LEMMA TickKeeps ==
  ASSUME CacheInv, Tick
  PROVE  CacheInv' /\ EntersAll
<1>1. /\ memory' = [t \in Tabs |-> Older(memory[t])] /\ storage' = Older(storage)
      /\ UNCHANGED <<server, hydrated, pending, requests, inFlight, read, change, queue, seen>>
  BY DEF Tick
<1>2. ASSUME NEW t \in Tabs
      PROVE  /\ InLimit(Older(memory[t]))
             /\ \A k \in Keys :
                  \/ Older(memory[t])[k] = NoRecord
                  \/ memory[t][k] # NoRecord /\ Older(memory[t])[k].version = memory[t][k].version
  <2>1. Kept(memory[t]) /\ Cardinality(Present(memory[t])) <= Limit
    BY DEF CacheInv, Stores, InLimit
  <2>2. /\ Kept(Older(memory[t]))
        /\ Cardinality(Present(Older(memory[t]))) <= Cardinality(Present(memory[t]))
    BY <2>1, OlderIs
  <2>3. /\ Cardinality(Present(memory[t])) \in Nat
        /\ Cardinality(Present(Older(memory[t]))) \in Nat
    BY <2>1, <2>2, FS_CardinalityType DEF Kept
  <2>4. InLimit(Older(memory[t]))
    BY <2>1, <2>2, <2>3, CacheAssumption DEF InLimit
  <2> QED BY <2>1, <2>4, OlderIs
<1>3. \A t \in Tabs : memory'[t] = Older(memory[t])
  BY <1>1
<1>4. EntersAll
  BY <1>2, <1>3 DEF EntersAll, Enters
<1>5. Stores'
  <2>1. Kept(storage')
    BY <1>1, OlderIs DEF CacheInv, Stores
  <2>2. memory' \in [Tabs -> [Keys -> Record \cup {NoRecord}]]
    BY <1>1, <1>2 DEF InLimit, Kept
  <2>3. \A t \in Tabs : InLimit(memory'[t])
    BY <1>2, <1>3
  <2> QED BY <1>1, <2>1, <2>2, <2>3 DEF CacheInv, Stores, InLimit, Kept, Present
<1>6. Fetches' /\ Reads' /\ Told'
  BY <1>1, FetchesStay, ServerTime, ToldStay DEF CacheInv, Reads, Trying
<1> QED BY <1>4, <1>5, <1>6 DEF CacheInv

LEMMA CacheStep ==
  ASSUME CacheInv, [CacheNext]_cacheVars
  PROVE  CacheInv' /\ EntersAll
<1>1. ASSUME NEW t \in Tabs, NEW k \in Keys,
             \/ StartRead(t, k) \/ Retry(t, k) \/ TimeOut(t, k)
             \/ \E i \in DOMAIN requests[t][k] :
                  Answer(t, k, i) \/ Settle(t, k, i) \/ FailRequest(t, k, i)
      PROVE  CacheInv' /\ EntersAll
  BY <1>1, ReadingKeeps, TimeOutKeeps, AnswerKeeps, SettleKeeps, FailRequestKeeps
<1>2. ASSUME NEW t \in Tabs,
             \/ refreshStaleEntries(t) \/ ChangeAnswers(t) \/ persistCategory(t)
             \/ Receive(t) \/ cleanupStorageCategory(t) \/ Reload(t)
      PROVE  CacheInv' /\ EntersAll
  BY <1>2, RefreshKeeps, ChangeAnswersKeeps, PersistKeeps, ReceiveKeeps, CleanupKeeps,
     ReloadKeeps
<1>3. CASE ChangeElsewhere \/ \E t \in Tabs : ApplyChange(t) \/ ChangeFails(t)
  BY <1>3, ChangingKeeps
<1>4. CASE Tick
  BY <1>4, TickKeeps
<1>5. CASE UNCHANGED cacheVars
  <2>1. UNCHANGED <<server, storage, memory, hydrated, pending, requests, inFlight, read, change,
                    queue, seen>>
    BY <1>5 DEF cacheVars
  <2>2. Kept(storage') /\ hydrated' \subseteq Tabs /\ pending' \subseteq Tabs
    BY <2>1 DEF CacheInv, Stores, Kept, Present
  <2> QED BY <2>1, <2>2, StoresStay, FetchesStay, ServerTime, ToldStay, EntersStay
          DEF CacheInv, Reads, Trying
<1> QED BY <1>1, <1>2, <1>3, <1>4, <1>5 DEF CacheNext

LEMMA CacheInvariant == CacheSpec => []CacheInv
<1>1. CacheInit => CacheInv
  BY CacheStart
<1>2. CacheInv /\ [CacheNext]_cacheVars => CacheInv'
  BY CacheStep
<1> QED BY <1>1, <1>2, PTL DEF CacheSpec

(* cachedFetch and fetchRecord: for any number of urls and tabs, a tab has *)
(* one request for a key on the network exactly when its table says so,    *)
(* keeps no more than the limit, and hears of no change before it is made. *)
THEOREM TableIsRight == CacheSpec => []OneFetchPerKey
<1>1. CacheInv => OneFetchPerKey
  <2> SUFFICES ASSUME CacheInv PROVE OneFetchPerKey
    OBVIOUS
  <2>1. CacheTypeOK
    <3>1. News \subseteq TabMessage /\ (0 .. server) \subseteq Versions
      BY CacheAssumption DEF CacheInv, Told, News, TabMessage, Versions
    <3>2. queue \in [Tabs -> Seq(TabMessage)]
      <4>1. \A t \in Tabs : queue[t] \in Seq(TabMessage)
        BY <3>1, SeqMonotonic DEF CacheInv, Told
      <4> QED BY <4>1 DEF CacheInv, Told
    <3>3. change \in [Tabs -> Versions \cup {NoChange}]
      BY <3>1 DEF CacheInv, Told
    <3> QED BY <3>2, <3>3 DEF CacheInv, Stores, Fetches, Reads, Told, InLimit, Kept, CacheTypeOK
  <2>2. ASSUME NEW t \in Tabs, NEW k \in Keys
        PROVE  Len(requests[t][k]) = IF k \in inFlight[t] THEN 1 ELSE 0
    <3>1. Slots(requests[t], inFlight[t], seen[t])
      BY DEF CacheInv, Fetches
    <3> QED BY <3>1, OneEntry DEF Slots
  <2> QED BY <2>1, <2>2 DEF OneFetchPerKey
<1> QED BY <1>1, CacheInvariant, PTL

(* fetchRecord's generation check: an answer from before a change that the *)
(* tab knows of never enters its memory after it, in any order of answers, *)
(* mutations and messages.                                                 *)
THEOREM NothingOldReturns == CacheSpec => NoOldAnswerKept
<1>1. CacheInv /\ [CacheNext]_cacheVars =>
        [\A t \in Tabs, k \in Keys :
          LET new == memory'[t][k]
          IN  new # NoRecord /\ new # storage[k]
                /\ (memory[t][k] = NoRecord \/ memory[t][k].version # new.version)
              => new.version >= seen[t]]_cacheVars
  BY CacheStep DEF EntersAll, Enters
<1> QED BY <1>1, CacheInvariant, PTL DEF CacheSpec, NoOldAnswerKept
=============================================================================
