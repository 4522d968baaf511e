----------------------------- MODULE AuthProofs -----------------------------
(***************************************************************************)
(* What is proved of authentication: the coordinator of refreshes for every *)
(* set of requests and every share period, the rate limiter for every      *)
(* limit, window and number of keys, and the session of a browser with any *)
(* number of requests.  The three share no variable.                       *)
(***************************************************************************)
EXTENDS RefreshCoordinator, RateLimiter, AuthSession, SequenceTheorems, TLAPS


-----------------------------------------------------------------------------
(***************************************************************************)
(* coordinated_refresh_session.                                            *)
(***************************************************************************)
(* A leader owns its event ...                                             *)
LeadersOwn == \A t \in Threads : thread[t].pc \in Leading => thread[t].event = t

(* ... and has it registered unless a follower gave it up.                 *)
LeadersRegistered ==
  \A t \in Threads :
    thread[t].pc \in Leading /\ t \notin abandoned => inflight = t

(* A follower waits for some leader's event.                               *)
WaitersFollow ==
  \A t \in Threads : thread[t].pc = "waiting" => thread[t].event \in Threads

RefreshInv == TypeOK /\ LeadersOwn /\ LeadersRegistered /\ WaitersFollow /\ FlightHasLeader

LEMMA RefreshStart == Init => RefreshInv
<1> SUFFICES ASSUME Init PROVE RefreshInv
  OBVIOUS
<1>1. [pc |-> "idle", event |-> NoEvent, asked |-> 0, result |-> "none"] \in Thread
  BY DEF Thread
<1>2. TypeOK
  BY <1>1 DEF Init, TypeOK
<1>3. LeadersOwn /\ LeadersRegistered /\ WaitersFollow /\ FlightHasLeader
  BY DEF Init, LeadersOwn, LeadersRegistered, WaitersFollow, FlightHasLeader, Leading
<1> QED BY <1>2, <1>3 DEF RefreshInv

(* Request t becomes `to`, and the other variables keep their types.       *)
Becomes(t, to) ==
  /\ to \in Thread
  /\ to.pc \in {"finishing", "done"} => to.result # "none"
  /\ thread' = [thread EXCEPT ![t] = to]
  /\ shared' \in Nat \cup {Never} /\ inflight' \in Threads \cup {NoEvent}
  /\ signalled' \subseteq Threads /\ abandoned' \subseteq Threads
  /\ consumed' \in BOOLEAN /\ now' \in Nat

LEMMA BecomesType ==
  ASSUME TypeOK, NEW t \in Threads, NEW to, Becomes(t, to)
  PROVE  TypeOK' /\ thread'[t] = to /\ \A u \in Threads \ {t} : thread'[u] = thread[u]
BY DEF TypeOK, Becomes

(* A request that neither takes nor gives up the lead, or leads on with    *)
(* its event, disturbs nothing while the registered event stays.           *)
LEMMA Calm ==
  ASSUME RefreshInv, NEW t \in Threads, NEW to, Becomes(t, to),
         thread[t].pc \in Leading <=> to.pc \in Leading,
         to.pc \in Leading => to.event = thread[t].event,
         to.pc = "waiting" => to.event \in Threads,
         UNCHANGED <<inflight, abandoned>>
  PROVE  RefreshInv'
<1>1. /\ TypeOK' /\ thread'[t] = to
      /\ \A u \in Threads \ {t} : thread'[u] = thread[u]
  BY BecomesType DEF RefreshInv
<1>2. LeadersOwn'
  BY <1>1 DEF RefreshInv, LeadersOwn
<1>3. LeadersRegistered'
  BY <1>1 DEF RefreshInv, LeadersRegistered
<1>4. FlightHasLeader'
  BY <1>1 DEF RefreshInv, FlightHasLeader
<1>5. WaitersFollow'
  BY <1>1 DEF RefreshInv, WaitersFollow, Becomes
<1> QED BY <1>1, <1>2, <1>3, <1>4, <1>5 DEF RefreshInv

(* The records the steps write.                                            *)
LEMMA RequestRecords ==
  ASSUME NEW r \in Thread
  PROVE  /\ \A time \in Nat :
              /\ [r EXCEPT !.pc = "entering", !.asked = time] \in Thread
              /\ [r EXCEPT !.pc = "entering", !.asked = time].pc = "entering"
         /\ \A pc \in {"calling", "waiting"} : \A event \in Threads :
              /\ [r EXCEPT !.pc = pc, !.event = event] \in Thread
              /\ [r EXCEPT !.pc = pc, !.event = event].pc = pc
              /\ [r EXCEPT !.pc = pc, !.event = event].event = event
BY DEF Thread, Leading

LEMMA Field == ASSUME TypeOK, NEW t \in Threads
               PROVE  /\ thread[t] \in Thread /\ thread \in [Threads -> Thread]
                      /\ thread[t].event \in Threads \cup {NoEvent}
                      /\ thread[t].result \in {"none", "session", "error"}
BY DEF TypeOK, Thread

(* A move that keeps the registered event.                                 *)
LEMMA MoveInv ==
  ASSUME RefreshInv, NEW t \in Threads,
         NEW pc \in {"entering", "done"} \cup Leading,
         NEW result \in {"none", "session", "error"}, Move(t, pc, result),
         thread[t].pc \in Leading <=> pc \in Leading,
         pc \in {"finishing", "done"} => result # "none",
         shared' \in Nat \cup {Never}, consumed' \in BOOLEAN,
         UNCHANGED <<inflight, signalled, abandoned, now>>
  PROVE  RefreshInv'
<1> DEFINE to == [thread[t] EXCEPT !.pc = pc, !.result = result]
<1>1. /\ thread[t] \in Thread /\ result \in {"none", "session", "error"}
      /\ pc \in {"entering", "done"} \cup Leading
  BY Field DEF RefreshInv
<1>2. to \in Thread /\ to.pc = pc /\ to.result = result /\ to.event = thread[t].event
  BY ONLY <1>1 DEF Thread, Leading
<1>3. thread' = [thread EXCEPT ![t] = to]
  BY DEF Move
<1> HIDE DEF to
<1>4. Becomes(t, to)
  BY <1>2, <1>3 DEF Becomes, RefreshInv, TypeOK
<1>5. pc # "waiting"
  BY DEF Leading
<1> QED BY <1>2, <1>4, <1>5, Calm

(* A request that does not lead reads the clock and enters.                *)
LEMMA ReenterBecomes ==
  ASSUME RefreshInv, NEW t \in Threads, Reenter(t),
         inflight' \in Threads \cup {NoEvent}, abandoned' \subseteq Threads,
         UNCHANGED <<shared, signalled, consumed, now>>
  PROVE  \E to \in Thread : Becomes(t, to) /\ to.pc = "entering"
<1> DEFINE to == [thread[t] EXCEPT !.pc = "entering", !.asked = now]
<1>1. thread[t] \in Thread /\ now \in Nat
  BY Field DEF RefreshInv, TypeOK
<1>2. to \in Thread /\ to.pc = "entering"
  BY <1>1, RequestRecords
<1>3. thread' = [thread EXCEPT ![t] = to]
  BY DEF Reenter
<1> HIDE DEF to
<1>4. Becomes(t, to)
  BY <1>2, <1>3 DEF Becomes, RefreshInv, TypeOK
<1> QED BY <1>2, <1>4

(* A waiting request comes back.                                           *)
LEMMA ResumeInv ==
  ASSUME RefreshInv, NEW t \in Threads, thread[t].pc = "waiting", Resume(t),
         UNCHANGED <<shared, signalled, consumed, now>>
  PROVE  RefreshInv'
<1>1. CASE SharedNow
  <2>1. Move(t, "done", "session") /\ UNCHANGED <<inflight, abandoned>>
    BY <1>1 DEF Resume
  <2>2. shared' \in Nat \cup {Never} /\ consumed' \in BOOLEAN
    BY DEF RefreshInv, TypeOK
  <2> QED BY <2>1, <2>2, MoveInv DEF Leading
<1>2. CASE ~SharedNow
  <2>1. CASE inflight # thread[t].event
    <3>1. Reenter(t) /\ UNCHANGED <<inflight, abandoned>>
      BY <1>2, <2>1 DEF Resume
    <3>2. PICK to \in Thread : Becomes(t, to) /\ to.pc = "entering"
      BY <3>1, ReenterBecomes DEF RefreshInv, TypeOK
    <3> QED BY <3>1, <3>2, Calm DEF Leading
  <2>2. CASE inflight = thread[t].event
    <3>1. /\ Reenter(t) /\ inflight' = NoEvent
          /\ abandoned' = abandoned \cup {inflight} /\ inflight \in Threads
      BY <1>2, <2>2 DEF Resume, RefreshInv, WaitersFollow
    <3>2. PICK to \in Thread : Becomes(t, to) /\ to.pc = "entering"
      BY <3>1, ReenterBecomes DEF RefreshInv, TypeOK
    <3>3. /\ TypeOK' /\ thread'[t] = to
          /\ \A u \in Threads \ {t} : thread'[u] = thread[u]
      BY <3>2, BecomesType DEF RefreshInv
    <3>4. LeadersOwn' /\ WaitersFollow'
      BY <3>2, <3>3 DEF RefreshInv, LeadersOwn, WaitersFollow, Leading
    <3>5. LeadersRegistered'
      BY <3>1, <3>2, <3>3 DEF RefreshInv, LeadersRegistered, Leading
    <3>6. FlightHasLeader'
      BY <3>1 DEF FlightHasLeader
    <3> QED BY <3>3, <3>4, <3>5, <3>6 DEF RefreshInv
  <2> QED BY <2>1, <2>2
<1> QED BY <1>1, <1>2

(* A request takes the lead when no event is registered.                   *)
LEMMA LeadInv == ASSUME RefreshInv, NEW t \in Threads, Lead(t) PROVE RefreshInv'
<1> DEFINE to == [thread[t] EXCEPT !.pc = "calling", !.event = t]
<1>1. thread[t] \in Thread
  BY Field DEF RefreshInv
<1>2. to \in Thread /\ to.pc = "calling" /\ to.event = t
  BY <1>1, RequestRecords
<1>3. /\ thread' = [thread EXCEPT ![t] = to] /\ inflight = NoEvent /\ inflight' = t
      /\ shared' = Never /\ UNCHANGED <<signalled, consumed, abandoned, now>>
  BY DEF Lead
<1> HIDE DEF to
<1>4. Becomes(t, to)
  BY <1>2, <1>3 DEF Becomes, RefreshInv, TypeOK
<1>5. /\ TypeOK' /\ thread'[t] = to
      /\ \A u \in Threads \ {t} : thread'[u] = thread[u]
  BY <1>4, BecomesType DEF RefreshInv
<1>6. LeadersOwn' /\ WaitersFollow'
  BY <1>2, <1>5 DEF RefreshInv, LeadersOwn, WaitersFollow
<1>7. LeadersRegistered'
  BY <1>2, <1>3, <1>5, RefreshAssumption DEF RefreshInv, LeadersRegistered
<1>8. FlightHasLeader'
  BY <1>2, <1>3, <1>5 DEF FlightHasLeader, Leading
<1> QED BY <1>5, <1>6, <1>7, <1>8 DEF RefreshInv

(* A request follows the leader whose event is registered.                 *)
LEMMA FollowInv == ASSUME RefreshInv, NEW t \in Threads, Follow(t) PROVE RefreshInv'
<1> DEFINE to == [thread[t] EXCEPT !.pc = "waiting", !.event = inflight]
<1>1. thread[t] \in Thread /\ inflight \in Threads /\ thread[t].pc = "entering"
  BY Field DEF RefreshInv, Follow, TypeOK
<1>2. to \in Thread /\ to.pc = "waiting" /\ to.event = inflight
  BY <1>1, RequestRecords
<1>3. /\ thread' = [thread EXCEPT ![t] = to] /\ shared' = Never
      /\ UNCHANGED <<inflight, signalled, consumed, abandoned, now>>
  BY DEF Follow
<1> HIDE DEF to
<1>4. Becomes(t, to)
  BY <1>2, <1>3 DEF Becomes, RefreshInv, TypeOK
<1> QED BY <1>1, <1>2, <1>3, <1>4, Calm DEF Leading

(* A leader ends: its event goes, if it is the registered one.             *)
LEMMA FinishInv == ASSUME RefreshInv, NEW t \in Threads, Finish(t) PROVE RefreshInv'
<1> DEFINE to == [thread[t] EXCEPT !.pc = "done", !.result = thread[t].result]
<1>1. thread[t] \in Thread /\ thread[t].result \in {"none", "session", "error"}
  BY Field DEF RefreshInv
<1>2. to \in Thread /\ to.pc = "done" /\ to.result = thread[t].result
  BY ONLY <1>1 DEF Thread, Leading
<1>3. /\ thread' = [thread EXCEPT ![t] = to] /\ thread[t].pc = "finishing"
      /\ UNCHANGED <<shared, consumed, abandoned, now>>
      /\ \/ inflight = t /\ inflight' = NoEvent /\ signalled' = signalled \cup {t}
         \/ inflight # t /\ UNCHANGED <<inflight, signalled>>
  BY DEF Finish, Move, RefreshInv, LeadersOwn, Leading
<1>4. thread[t].result # "none"
  BY <1>3 DEF RefreshInv, TypeOK
<1> HIDE DEF to
<1>5. Becomes(t, to)
  BY <1>2, <1>3, <1>4 DEF Becomes, RefreshInv, TypeOK
<1>6. /\ TypeOK' /\ thread'[t] = to
      /\ \A u \in Threads \ {t} : thread'[u] = thread[u]
  BY <1>5, BecomesType DEF RefreshInv
<1>7. LeadersOwn' /\ WaitersFollow'
  BY <1>2, <1>6 DEF RefreshInv, LeadersOwn, WaitersFollow, Leading
<1>8. LeadersRegistered'
  BY <1>2, <1>3, <1>6 DEF RefreshInv, LeadersRegistered, Leading
<1>9. FlightHasLeader'
  BY <1>3, <1>6 DEF RefreshInv, FlightHasLeader
<1> QED BY <1>6, <1>7, <1>8, <1>9 DEF RefreshInv

LEMMA RefreshStep == RefreshInv /\ [Next]_vars => RefreshInv'
<1> SUFFICES ASSUME RefreshInv, [Next]_vars PROVE RefreshInv'
  OBVIOUS
<1>1. ASSUME NEW t \in Threads, Enter(t) PROVE RefreshInv'
  <2>1. PICK to \in Thread : Becomes(t, to) /\ to.pc = "entering"
    BY <1>1, ReenterBecomes DEF Enter, RefreshInv, TypeOK
  <2> QED BY <1>1, <2>1, Calm DEF Enter, Leading
<1>2. ASSUME NEW t \in Threads, TakeShared(t) PROVE RefreshInv'
  BY <1>2, MoveInv DEF TakeShared, Leading, RefreshInv, TypeOK
<1>3. ASSUME NEW t \in Threads, Wake(t) PROVE RefreshInv'
  BY <1>3, ResumeInv DEF Wake
<1>4. ASSUME NEW t \in Threads, TimeOut(t) PROVE RefreshInv'
  BY <1>4, ResumeInv DEF TimeOut
<1>5. ASSUME NEW t \in Threads, Rotate(t) PROVE RefreshInv'
  BY <1>5, MoveInv DEF Rotate, Leading, RefreshInv, TypeOK
<1>6. ASSUME NEW t \in Threads, Fail(t) PROVE RefreshInv'
  BY <1>6, MoveInv DEF Fail, Leading, RefreshInv, TypeOK
<1>7. ASSUME NEW t \in Threads, Succeed(t) PROVE RefreshInv'
  <2>1. shared' \in Nat \cup {Never} /\ consumed' \in BOOLEAN
    BY <1>7, RefreshAssumption DEF Succeed, RefreshInv, TypeOK
  <2> QED BY <1>7, <2>1, MoveInv DEF Succeed, Leading
<1>8. ASSUME NEW t \in Threads, Recover(t) PROVE RefreshInv'
  <2>1. shared' \in Nat \cup {Never} /\ consumed' \in BOOLEAN
    BY <1>8 DEF Recover, RefreshInv, TypeOK
  <2>2. CASE SharedNow
    BY <1>8, <2>1, <2>2, MoveInv DEF Recover, Leading
  <2>3. CASE ~SharedNow
    BY <1>8, <2>1, <2>3, MoveInv DEF Recover, Leading
  <2> QED BY <2>2, <2>3
<1>9. ASSUME Tick PROVE RefreshInv'
  BY <1>9 DEF Tick, RefreshInv, TypeOK, LeadersOwn, LeadersRegistered, WaitersFollow,
     FlightHasLeader
<1>10. ASSUME UNCHANGED vars PROVE RefreshInv'
  BY <1>10 DEF vars, RefreshInv, TypeOK, LeadersOwn, LeadersRegistered, WaitersFollow,
     FlightHasLeader
<1> QED
  BY <1>1, <1>2, <1>3, <1>4, <1>5, <1>6, <1>7, <1>8, <1>9, <1>10, LeadInv, FollowInv,
     FinishInv
  DEF Next, Coordinate, Provider

LEMMA RefreshInvariant == Spec => []RefreshInv
  BY RefreshStart, RefreshStep, PTL DEF Spec

(* The types of the coordinator's maps and of the requests hold for any    *)
(* number of requests; each returns a session or raises.                   *)
THEOREM TypeCorrect == Spec => []TypeOK
<1>1. RefreshInv => TypeOK
  BY DEF RefreshInv
<1> QED BY RefreshInvariant, <1>1, PTL

(* No stale event blocks the token: whatever is registered belongs to a    *)
(* request that still leads (the comment at app/auth.py:407).              *)
THEOREM NoStaleEvent == Spec => []FlightHasLeader
<1>1. RefreshInv => FlightHasLeader
  BY DEF RefreshInv
<1> QED BY RefreshInvariant, <1>1, PTL

(* One rotation at a time, save for leaders that a follower gave up.       *)
THEOREM SingleRefresh == Spec => []OneRefresh
<1>1. RefreshInv => OneRefresh
  BY DEF RefreshInv, LeadersRegistered, OneRefresh
<1> QED BY RefreshInvariant, <1>1, PTL

-----------------------------------------------------------------------------
(***************************************************************************)
(* The rate limiter.                                                       *)
(***************************************************************************)
(* One client at time t: its deque is the end of its admissions, and what  *)
(* is not in the deque any more has left every window that is still open.  *)
(* The two later clauses are WindowHolds and the ground of RetryHonest.    *)
Suffix(times, all) ==
  /\ times \in Seq(Nat) /\ all \in Seq(Nat) /\ Len(times) <= Len(all)
  /\ \A i \in 1..Len(times) : times[i] = all[Len(all) - Len(times) + i]

Spaced(all) ==
  \A i \in 1..Len(all) : i + Limit <= Len(all) => all[i + Limit] >= all[i] + Window

Past(times, all, t) == \A i \in 1..(Len(all) - Len(times)) : all[i] + Window <= t

Due(times, due) == due \in Nat /\ (due # 0 => times # <<>> /\ times[1] + Window < due)

Sound(times, all, due, t) ==
  /\ Suffix(times, all) /\ Len(times) <= Limit
  /\ Past(times, all, t) /\ Spaced(all) /\ Due(times, due)

RecordsSound == \A c \in Clients : Sound(recent[c], log[c], promise[c], clock)

Domains ==
  /\ DOMAIN recent = Clients /\ DOMAIN log = Clients /\ DOMAIN promise = Clients
  /\ recent = [c \in Clients |-> recent[c]]
  /\ log = [c \in Clients |-> log[c]]
  /\ promise = [c \in Clients |-> promise[c]]
  /\ order \in Seq(Clients) /\ clock \in Nat

LimiterInv == Domains /\ RecordsSound

(* A client without admissions.                                            *)
LEMMA SoundEmpty ==
  ASSUME NEW t \in Nat
  PROVE  Sound(<<>>, <<>>, 0, t)
<1>1. <<>> \in Seq(Nat) /\ Len(<<>>) = 0
  OBVIOUS
<1> QED
  BY <1>1, LimiterAssumption DEF Sound, Suffix, Past, Spaced, Due

(* Time only makes more admissions old.                                    *)
LEMMA SoundLater ==
  ASSUME NEW times, NEW all, NEW due, NEW t \in Nat, NEW u \in Nat, t <= u,
         Sound(times, all, due, t)
  PROVE  Sound(times, all, due, u)
<1>1. \A i \in 1..(Len(all) - Len(times)) : all[i] \in Nat
  BY DEF Sound, Suffix
<1>2. Past(times, all, u)
  BY <1>1, LimiterAssumption DEF Sound, Past
<1> QED
  BY <1>2 DEF Sound

(* What stays in the deque after the stale front has gone.                 *)
LEMMA WithoutFront ==
  ASSUME NEW times \in Seq(Nat), NEW n \in 0..Len(times)
  PROVE  /\ Without(times, n) \in Seq(Nat)
         /\ Len(Without(times, n)) = Len(times) - n
         /\ \A i \in 1..(Len(times) - n) : Without(times, n)[i] = times[n + i]
<1>1. \A i \in (n + 1)..Len(times) : times[i] \in Nat
  OBVIOUS
<1>2. /\ SubSeq(times, n + 1, Len(times)) \in Seq(Nat)
      /\ Len(SubSeq(times, n + 1, Len(times))) =
           IF n + 1 <= Len(times) THEN Len(times) - (n + 1) + 1 ELSE 0
      /\ \A i \in 1 .. Len(times) - (n + 1) + 1 :
           SubSeq(times, n + 1, Len(times))[i] = times[(n + 1) + i - 1]
  BY <1>1, SubSeqProperties
<1>3. \A i \in 1..(Len(times) - n) : (n + 1) + i - 1 = n + i /\ i \in 1..Len(times) - (n + 1) + 1
  OBVIOUS
<1> QED
  BY <1>2, <1>3 DEF Without

(* An admission: the deque loses its stale front and gets the time of now. *)
(* The admission Limit places before the new one is not in the deque.      *)
LEMMA SoundAdmitted ==
  ASSUME NEW times, NEW all, NEW due, clock \in Nat,
         Sound(times, all, due, clock),
         NEW n \in 0..Len(times), Stale(times, n), Len(times) - n < Limit
  PROVE  Sound(Append(Without(times, n), clock), Append(all, clock), 0, clock)
<1> DEFINE kept == Without(times, n)
           new == Append(kept, clock)
           longer == Append(all, clock)
           gone == Len(all) - Len(times)
<1>1. times \in Seq(Nat) /\ all \in Seq(Nat) /\ gone \in Nat
  BY DEF Sound, Suffix
<1>2. /\ kept \in Seq(Nat) /\ Len(kept) = Len(times) - n
      /\ \A i \in 1..(Len(times) - n) : kept[i] = times[n + i]
  BY <1>1, WithoutFront
<1>3. /\ new \in Seq(Nat) /\ Len(new) = Len(kept) + 1
      /\ \A i \in 1..Len(kept) : new[i] = kept[i]
      /\ new[Len(kept) + 1] = clock
  BY <1>2, AppendProperties
<1>4. /\ longer \in Seq(Nat) /\ Len(longer) = Len(all) + 1
      /\ \A i \in 1..Len(all) : longer[i] = all[i]
      /\ longer[Len(all) + 1] = clock
  BY <1>1, AppendProperties
<1> HIDE DEF kept, new, longer
<1>5. \A i \in 1..Len(times) : times[i] = all[gone + i]
  BY DEF Sound, Suffix
<1>6. /\ Len(all) \in Nat /\ Len(times) \in Nat /\ gone = Len(all) - Len(times)
      /\ Len(kept) = Len(times) - n /\ Len(new) = Len(times) - n + 1
      /\ Len(longer) = Len(all) + 1 /\ Len(longer) - Len(new) = gone + n
      /\ Len(new) <= Len(longer) /\ Limit \in Nat \ {0} /\ n \in Nat
  <2>1. /\ Len(all) \in Nat /\ Len(times) \in Nat /\ n \in Nat /\ n <= Len(times)
        /\ Len(times) <= Len(all)
    BY <1>1 DEF Sound, Suffix
  <2>2. Len(kept) = Len(times) - n /\ Len(new) = Len(kept) + 1 /\ Len(longer) = Len(all) + 1
    BY <1>2, <1>3, <1>4
  <2> QED BY <2>1, <2>2, LimiterAssumption
<1>7. Suffix(new, longer)
  <2>1. \A i \in 1..Len(new) : new[i] = longer[gone + n + i]
    <3> SUFFICES ASSUME NEW i \in 1..Len(new) PROVE new[i] = longer[gone + n + i]
      OBVIOUS
    <3>1. CASE i = Len(new)
      <4>1. i = Len(kept) + 1 /\ gone + n + i = Len(all) + 1
        BY <3>1, <1>6
      <4> QED BY <4>1, <1>3, <1>4
    <3>2. CASE i # Len(new)
      <4>1. i \in 1..(Len(times) - n)
        BY <3>2, <1>6
      <4>2. n + i \in 1..Len(times) /\ gone + n + i \in 1..Len(all) /\ gone + (n + i) = gone + n + i
        <5>1. /\ Len(times) \in Nat /\ Len(all) \in Nat /\ gone \in Nat /\ n \in Nat
              /\ gone = Len(all) - Len(times)
          BY <1>1, <1>6
        <5> HIDE DEF gone
        <5> QED BY ONLY <4>1, <5>1
      <4>3. i \in 1..Len(kept)
        BY <4>1, <1>6
      <4>4. new[i] = times[n + i]
        BY <4>1, <4>3, <1>2, <1>3
      <4>5. times[n + i] = all[gone + (n + i)]
        BY <4>2, <1>5
      <4>6. longer[gone + n + i] = all[gone + n + i]
        BY <4>2, <1>4
      <4> QED BY <4>2, <4>4, <4>5, <4>6
    <3> QED BY <3>1, <3>2
  <2>2. \A i \in 1..Len(new) : new[i] = longer[Len(longer) - Len(new) + i]
    BY <2>1, <1>6
  <2> QED BY <2>2, <1>3, <1>4, <1>6 DEF Suffix
<1>8. \A i \in 1..(gone + n) : all[i] + Window <= clock
  <2> SUFFICES ASSUME NEW i \in 1..(gone + n) PROVE all[i] + Window <= clock
    OBVIOUS
  <2>1. CASE i <= gone
    BY <2>1, <1>1 DEF Sound, Past
  <2>2. CASE i > gone
    <3>1. i - gone \in 1..n /\ i - gone \in 1..Len(times) /\ gone + (i - gone) = i
      BY <2>2, <1>1
    <3>2. times[i - gone] = all[i]
      BY <3>1, <1>5
    <3>3. times[i - gone] + Window <= clock
      BY <3>1 DEF Stale
    <3> QED BY <3>2, <3>3
  <2> QED BY <2>1, <2>2, <1>1
<1>9. Past(new, longer, clock)
  <2>1. \A i \in 1..(gone + n) : i \in 1..Len(all)
    BY <1>1
  <2> QED BY <2>1, <1>4, <1>6, <1>8 DEF Past
<1>10. Spaced(longer)
  <2> SUFFICES ASSUME NEW i \in 1..Len(longer), i + Limit <= Len(longer)
               PROVE  longer[i + Limit] >= longer[i] + Window
    BY DEF Spaced
  <2>1. i \in 1..Len(all) /\ i \in Nat
    BY <1>6
  <2>2. CASE i + Limit = Len(longer)
    <3>1. i \in 1..(gone + n)
      BY <2>1, <2>2, <1>6
    <3>2. longer[i + Limit] = clock /\ longer[i] = all[i]
      BY <2>1, <2>2, <1>4, <1>6
    <3>3. all[i] + Window <= clock /\ all[i] \in Nat
      BY <3>1, <2>1, <1>1, <1>8
    <3> QED BY <3>2, <3>3, LimiterAssumption
  <2>3. CASE i + Limit # Len(longer)
    <3>1. i + Limit \in 1..Len(all)
      <4>1. /\ Len(all) \in Nat /\ Limit \in Nat \ {0} /\ i + Limit <= Len(longer)
            /\ Len(longer) = Len(all) + 1
        BY <1>6
      <4> QED BY ONLY <2>1, <2>3, <4>1
    <3>2. longer[i + Limit] = all[i + Limit] /\ longer[i] = all[i]
      BY <2>1, <3>1, <1>4
    <3>3. all[i + Limit] >= all[i] + Window
      BY <3>1, <2>1, <1>6 DEF Sound, Spaced
    <3> QED BY <3>2, <3>3
  <2> QED BY <2>2, <2>3
<1>11. Len(new) <= Limit
  BY <1>6
<1>12. Due(new, 0)
  BY DEF Due
<1>13. Sound(new, longer, 0, clock)
  BY <1>7, <1>9, <1>10, <1>11, <1>12 DEF Sound
<1> QED BY <1>13 DEF kept, new, longer

(* A refusal: the deque was full, so nothing was stale.                    *)
LEMMA SoundRefused ==
  ASSUME NEW times, NEW all, NEW due, clock \in Nat,
         Sound(times, all, due, clock),
         NEW n \in 0..Len(times), Len(times) - n >= Limit
  PROVE  Sound(Without(times, n), all, times[n + 1] + Window + 1, clock)
<1>1. times \in Seq(Nat) /\ Len(times) <= Limit
  BY DEF Sound, Suffix
<1>2. n = 0 /\ 1 \in 1..Len(times) /\ times # <<>>
  BY <1>1, LimiterAssumption
<1>3. SubSeq(times, 1, Len(times)) = times
  BY <1>1, SubSeqFull
<1>4. Without(times, n) = times
  BY <1>2, <1>3 DEF Without
<1>5. times[1] \in Nat
  BY <1>1, <1>2
<1>6. Due(times, times[1] + Window + 1)
  BY <1>2, <1>5, LimiterAssumption DEF Due
<1>7. Sound(times, all, times[1] + Window + 1, clock)
  BY <1>6 DEF Sound
<1>8. n + 1 = 1
  BY <1>2
<1> QED BY <1>4, <1>7, <1>8

LEMMA LimiterStart == LimiterInit => LimiterInv
<1> SUFFICES ASSUME LimiterInit PROVE LimiterInv
  OBVIOUS
<1>1. Domains
  BY DEF LimiterInit, Domains
<1>2. RecordsSound
  BY SoundEmpty DEF LimiterInit, RecordsSound
<1> QED BY <1>1, <1>2 DEF LimiterInv

LEMMA IdentityIsClient ==
  ASSUME NEW peer \in Clients, NEW hops \in Forwarded
  PROVE  Identity(peer, hops) \in Clients
BY DEF Identity

(* What a step on client c leaves behind for the clients.                  *)
LEMMA AdmitKeeps ==
  ASSUME LimiterInv, NEW c \in Clients, Admit(c)
  PROVE  LimiterInv'
<1>1. PICK n \in 0..Len(recent[c]) :
        /\ Stale(recent[c], n)
        /\ Len(recent[c]) - n < Limit
        /\ recent' = [Evicted(c, recent, <<>>) EXCEPT
                        ![c] = Append(Without(recent[c], n), clock)]
        /\ log' = [Evicted(c, log, <<>>) EXCEPT ![c] = Append(log[c], clock)]
        /\ promise' = [Evicted(c, promise, 0) EXCEPT ![c] = 0]
        /\ order' = IF Known(c) THEN order
                    ELSE Append(IF Evicts(c) THEN Tail(order) ELSE order, c)
        /\ clock' = clock
  BY DEF Admit
<1>2. order' \in Seq(Clients)
  <2>1. order \in Seq(Clients)
    BY DEF LimiterInv, Domains
  <2>2. CASE Known(c)
    BY <1>1, <2>1, <2>2
  <2>3. CASE ~Known(c) /\ ~Evicts(c)
    <3>1. order' = Append(order, c)
      BY <1>1, <2>3
    <3> QED BY <3>1, <2>1, AppendProperties
  <2>4. CASE ~Known(c) /\ Evicts(c)
    <3>1. order' = Append(Tail(order), c)
      BY <1>1, <2>4
    <3>2. order # <<>>
      BY <2>1, <2>4, LimiterAssumption DEF Evicts
    <3>3. Tail(order) \in Seq(Clients)
      BY <2>1, <3>2, HeadTailProperties
    <3> QED BY <3>1, <3>3, AppendProperties
  <2> QED BY <2>2, <2>3, <2>4
<1>3. Domains'
  BY <1>1, <1>2 DEF LimiterInv, Domains, Evicted
<1>4. Sound(recent[c], log[c], promise[c], clock) /\ clock \in Nat
  BY DEF LimiterInv, RecordsSound, Domains
<1>5. Sound(Append(Without(recent[c], n), clock), Append(log[c], clock), 0, clock)
  BY <1>1, <1>4, SoundAdmitted
<1>6. ASSUME NEW k \in Clients
      PROVE  Sound(recent'[k], log'[k], promise'[k], clock')
  <2>1. CASE k = c
    <3>1. /\ recent'[k] = Append(Without(recent[c], n), clock)
          /\ log'[k] = Append(log[c], clock)
          /\ promise'[k] = 0 /\ clock' = clock
      BY <2>1, <1>1 DEF Evicted
    <3> QED BY <3>1, <1>5
  <2>2. CASE k # c /\ Evicts(c) /\ k = order[1]
    <3>1. recent'[k] = <<>> /\ log'[k] = <<>> /\ promise'[k] = 0 /\ clock' = clock
      BY <2>2, <1>1 DEF Evicted
    <3> QED BY <3>1, <1>4, SoundEmpty
  <2>3. CASE k # c /\ ~(Evicts(c) /\ k = order[1])
    <3>1. /\ recent'[k] = recent[k] /\ log'[k] = log[k]
          /\ promise'[k] = promise[k] /\ clock' = clock
      BY <2>3, <1>1 DEF Evicted
    <3> QED BY <3>1 DEF LimiterInv, RecordsSound
  <2> QED BY <2>1, <2>2, <2>3
<1> QED BY <1>3, <1>6 DEF LimiterInv, RecordsSound

LEMMA RefuseKeeps ==
  ASSUME LimiterInv, NEW c \in Clients, Refuse(c)
  PROVE  LimiterInv'
<1>1. PICK n \in 0..Len(recent[c]) :
        /\ Len(recent[c]) - n >= Limit
        /\ recent' = [recent EXCEPT ![c] = Without(recent[c], n)]
        /\ promise' = [promise EXCEPT ![c] = recent[c][n + 1] + Window + 1]
        /\ order' = order /\ log' = log /\ clock' = clock
  BY DEF Refuse
<1>2. Domains'
  BY <1>1 DEF LimiterInv, Domains
<1>3. Sound(recent[c], log[c], promise[c], clock) /\ clock \in Nat
  BY DEF LimiterInv, RecordsSound, Domains
<1>4. Sound(Without(recent[c], n), log[c], recent[c][n + 1] + Window + 1, clock)
  BY <1>1, <1>3, SoundRefused
<1>5. ASSUME NEW k \in Clients
      PROVE  Sound(recent'[k], log'[k], promise'[k], clock')
  <2>1. CASE k = c
    <3>1. /\ recent'[k] = Without(recent[c], n) /\ log'[k] = log[c]
          /\ promise'[k] = recent[c][n + 1] + Window + 1 /\ clock' = clock
      BY <2>1, <1>1 DEF LimiterInv, Domains
    <3> QED BY <3>1, <1>4
  <2>2. CASE k # c
    <3>1. /\ recent'[k] = recent[k] /\ log'[k] = log[k]
          /\ promise'[k] = promise[k] /\ clock' = clock
      BY <2>2, <1>1 DEF LimiterInv, Domains
    <3> QED BY <3>1 DEF LimiterInv, RecordsSound
  <2> QED BY <2>1, <2>2
<1> QED BY <1>2, <1>5 DEF LimiterInv, RecordsSound

LEMMA LimiterStep == LimiterInv /\ [LimiterNext]_limiterVars => LimiterInv'
<1> SUFFICES ASSUME LimiterInv, [LimiterNext]_limiterVars PROVE LimiterInv'
  OBVIOUS
<1>1. ASSUME NEW peer \in Clients, NEW hops \in Forwarded, Request(peer, hops)
      PROVE  LimiterInv'
  BY <1>1, IdentityIsClient, AdmitKeeps, RefuseKeeps DEF Request
<1>2. CASE LimiterTick
  <2>1. /\ recent' = recent /\ order' = order /\ log' = log /\ promise' = promise
        /\ clock \in Nat /\ clock' = clock + 1
    BY <1>2 DEF LimiterTick, LimiterInv, Domains
  <2>2. Domains'
    BY <2>1 DEF LimiterInv, Domains
  <2>3. ASSUME NEW k \in Clients PROVE Sound(recent[k], log[k], promise[k], clock + 1)
    <3>1. Sound(recent[k], log[k], promise[k], clock) /\ clock <= clock + 1 /\ clock + 1 \in Nat
      BY <2>1 DEF LimiterInv, RecordsSound
    <3> QED BY <3>1, <2>1, SoundLater
  <2> QED BY <2>1, <2>2, <2>3 DEF LimiterInv, RecordsSound
<1>3. CASE UNCHANGED limiterVars
  BY <1>3 DEF limiterVars, LimiterInv, Domains, RecordsSound
<1> QED BY <1>1, <1>2, <1>3 DEF LimiterNext

LEMMA LimiterInvariant == LimiterSpec => []LimiterInv
BY LimiterStart, LimiterStep, PTL DEF LimiterSpec

(* No window holds more than Limit admissions of a client whose record     *)
(* lasts, for every limit, window and number of keys (rate_limit.py).      *)
THEOREM NeverMoreThanLimit == LimiterSpec => []WindowHolds
<1>1. LimiterInv => WindowHolds
  BY DEF LimiterInv, RecordsSound, Sound, Spaced, WindowHolds
<1> QED BY <1>1, LimiterInvariant, PTL

(* Retry-After is honest for every limit, window and number of keys.       *)
THEOREM HonestRetry == LimiterSpec => []RetryHonest
<1>1. LimiterInv => RetryHonest
  <2> SUFFICES ASSUME LimiterInv, NEW c \in Clients, promise[c] # 0, clock >= promise[c],
                      NEW n \in 0..Len(recent[c]), Stale(recent[c], n)
               PROVE  Len(recent[c]) - n < Limit
    BY DEF RetryHonest
  <2>1. /\ recent[c] \in Seq(Nat) /\ Len(recent[c]) <= Limit /\ clock \in Nat
        /\ promise[c] \in Nat /\ recent[c] # <<>> /\ recent[c][1] + Window < promise[c]
    BY DEF LimiterInv, RecordsSound, Domains, Sound, Suffix, Due
  <2>2. Len(recent[c]) \in Nat /\ 0 < Len(recent[c]) /\ recent[c][1] \in Nat
    BY <2>1
  <2>3. recent[c][1] + Window <= clock
    BY <2>1, <2>2, LimiterAssumption
  <2>4. n # 0
    BY <2>2, <2>3, <2>1, LimiterAssumption DEF Stale
  <2> QED BY <2>1, <2>2, <2>4, LimiterAssumption
<1> QED BY <1>1, LimiterInvariant, PTL

-----------------------------------------------------------------------------
(***************************************************************************)
(* The session of a browser.  SessInv says where a refresh token may be and *)
(* what it is worth: the browser or a request that has yet to show it, an  *)
(* answer on its way, the provider.                                        *)
(***************************************************************************)
(* The requests that have yet to show their refresh token.                 *)
Busy == {"checking", "handling", "refreshing"}

Renews == {"me", "read", "write", "refresh"}

(* The tokens a browser or a request may present, or has presented.        *)
Present == ({jar.refresh} \cup {sent(q).refresh : q \in Requests} \cup rotated) \ {None}

Unspent(t) ==
  \/ t \notin rotated \/ t \in share
  \/ \E q \in Requests : At(q, "rotated") /\ sent(q).refresh = t

(* Tokens and marker are set and cleared together, and belong together.    *)
Bundle(c) ==
  /\ c["refresh"] = None => c["access"] = None
  /\ c["refresh"] # None => c["refresh"] \in Token
  /\ c["refresh"] # None /\ c["refresh"].kept # None => c["remember"] = c["refresh"].kept

JarsWhole ==
  /\ DOMAIN jar = Cookies /\ Bundle(jar)
  /\ \A q \in Requests : DOMAIN sent(q) = Cookies /\ Bundle(sent(q))
  /\ rotated \subseteq Token

(* The answer renews the session the request came with, ...                *)
Carries(q) ==
  LET sets == request[q].sets
  IN /\ {"access", "refresh", "remember"} \subseteq DOMAIN sets /\ Bundle(sets)
     /\ sent(q).refresh # None /\ sets["refresh"] = Successor(sent(q).refresh)

(* ... ends it, because its login was signed out or a fault cost it, ...   *)
Clears(q) ==
  /\ request[q].sets = Cleared /\ sent(q).refresh # None
  /\ failed \/ crossed \/ sent(q).refresh.login \in revoked

(* ... begins one, ...                                                     *)
Begins(q) ==
  LET sets == request[q].sets
  IN /\ {"access", "refresh", "remember"} \subseteq DOMAIN sets /\ Bundle(sets)
     /\ sets["refresh"] # None /\ sets["refresh"].login = q

(* ... or does not touch it.                                               *)
Passes(q) == DOMAIN request[q].sets \in {{}, {"csrf"}, {"txn"}}

Phase(q) ==
  LET pc == request[q].pc
  IN /\ DOMAIN request[q] = {"kind", "pc", "sent", "arg", "sets"}
     /\ DOMAIN request[q].sets \subseteq Cookies
     /\ pc = "handling" /\ kind(q) = "sign-in" => request[q].arg \in {"0", "1"}
     /\ pc \in {"unsent", "done"} => sent(q) = EmptyJar
     /\ pc \in {"checking", "refreshing", "rotated", "looking", "routing"} => kind(q) \in Renews
     /\ pc = "rotated" => sent(q).refresh # None /\ sent(q).refresh \in rotated
     /\ pc \in Busy \cup {"rotated"} => request[q].sets = NoCookies
     /\ pc = "looking" => Carries(q)
     /\ pc = "routing" => Carries(q) \/ request[q].sets = NoCookies
     /\ pc = "answered" =>
          CASE kind(q) \in Opens -> Begins(q) \/ Passes(q)
            [] kind(q) = "sign-out" -> request[q].sets = Cleared
            [] OTHER -> Carries(q) \/ Clears(q) \/ Passes(q)

(* A login is used once its answer has arrived, and not before.            *)
Fresh == \A t \in Present : \A q \in Requests : t.login = q => At(q, "done")

(* The tokens of a login were all given at one choice.                     *)
OneChoice == \A t, u \in Present : t.login = u.login => t.kept = u.kept

(* The browser has the newest token of its login.                          *)
Newest ==
  ~crossed => \A t \in Present :
    jar.refresh # None /\ t.login = jar.refresh.login => t.gen <= jar.refresh.gen

(* What the browser or a request has yet to show is not spent for nothing. *)
Usable(t) == t # None /\ t.login \notin revoked => Unspent(t)

AllUsable ==
  ~failed /\ ~crossed =>
    Usable(jar.refresh) /\ \A q \in Requests : request[q].pc \in Busy => Usable(sent(q).refresh)

Expected ==
  /\ ~crossed /\ jar.refresh # None => jar.refresh.login = held
  /\ ~failed /\ ~crossed /\ held # None /\ held \notin revoked => jar.refresh # None

SessInv ==
  /\ JarsWhole /\ DOMAIN request = Requests /\ \A q \in Requests : Phase(q)
  /\ Fresh /\ OneChoice /\ Newest /\ AllUsable /\ Expected

-----------------------------------------------------------------------------
LEMMA SessionStart ==
  ASSUME SessionAssumption, SessionInit
  PROVE  SessInv
<1>1. jar = EmptyJar \/ \E remember \in Markers : jar = FirstJar(remember)
  BY DEF SessionInit
<1>2. DOMAIN jar = Cookies /\ Bundle(jar)
  <2>1. CASE jar = EmptyJar
    BY <2>1 DEF EmptyJar, Cookies, Bundle
  <2>2. ASSUME NEW remember \in Markers, jar = FirstJar(remember)
        PROVE  DOMAIN jar = Cookies /\ Bundle(jar)
    BY <2>2 DEF FirstJar, Cookies, Bundle, Token, SessionAssumption
  <2> QED BY <1>1, <2>1, <2>2
<1>3. /\ DOMAIN request = Requests
      /\ \A q \in Requests : request[q] = Unsent
  BY DEF SessionInit
<1>4. /\ Unsent.pc = "unsent" /\ Unsent.sent = EmptyJar /\ Unsent.kind = "me"
      /\ Unsent.sets = NoCookies /\ DOMAIN Unsent = {"kind", "pc", "sent", "arg", "sets"}
  BY DEF Unsent
<1>5. JarsWhole
  BY <1>2, <1>3, <1>4 DEF JarsWhole, sent, EmptyJar, Cookies, Bundle, SessionInit
<1>6. \A q \in Requests : Phase(q)
  BY <1>3, <1>4 DEF Phase, sent, kind, Busy, NoCookies
<1>7. jar.refresh = None \/ (jar.refresh \in Token /\ jar.refresh.login = 0)
  <2>1. CASE jar = EmptyJar
    BY <2>1 DEF EmptyJar, Cookies
  <2>2. ASSUME NEW remember \in Markers, jar = FirstJar(remember)
        PROVE  jar.refresh \in Token /\ jar.refresh.login = 0
    BY <2>2 DEF FirstJar, Token, SessionAssumption
  <2> QED BY <1>1, <2>1, <2>2
<1>8. Present = {jar.refresh} \ {None}
  <2>1. \A q \in Requests : sent(q).refresh = None
    BY <1>3, <1>4 DEF sent, EmptyJar, Cookies
  <2> QED BY <2>1 DEF Present, SessionInit
<1>9. Fresh /\ OneChoice /\ Newest
  BY <1>7, <1>8 DEF Fresh, OneChoice, Newest, Requests, Token
<1>10. AllUsable
  BY <1>3, <1>4 DEF AllUsable, Usable, Unspent, Busy, SessionInit
<1>11. Expected
  BY <1>7 DEF Expected, SessionInit
<1> QED BY <1>3, <1>5, <1>6, <1>9, <1>10, <1>11 DEF SessInv

(* A request keeps its phase while only others move.                       *)
LEMMA PhaseStays ==
  ASSUME NEW q, Phase(q), request'[q] = request[q], rotated \subseteq rotated',
         failed => failed', crossed => crossed', revoked \subseteq revoked'
  PROVE  Phase(q)'
<1>1. /\ Carries(q) => Carries(q)'
      /\ Clears(q) => Clears(q)'
      /\ Begins(q) => Begins(q)'
      /\ Passes(q) => Passes(q)'
  BY DEF Carries, Clears, Begins, Passes, sent, Bundle
<1> QED BY <1>1 DEF Phase, sent, kind

(* A request moves on, without a change of the browser.                    *)
LEMMA Moves ==
  ASSUME SessInv, NEW r \in Requests,
         DOMAIN request' = Requests, \A q \in Requests : q # r => request'[q] = request[q],
         jar' = jar, held' = held, crossed' = crossed, failed => failed',
         rotated' = rotated, share \subseteq share', revoked \subseteq revoked',
         request'[r].sent \in {request[r].sent, jar, EmptyJar},
         request'[r].pc \in Busy =>
           request'[r].sent = jar \/ (request[r].pc \in Busy /\ request'[r].sent = request[r].sent),
         request[r].pc = "rotated" =>
           \/ request'[r].pc = "rotated" /\ request'[r].sent = request[r].sent
           \/ failed' \/ request[r].sent.refresh \in share',
         request[r].pc # "done",
         Phase(r)'
  PROVE  SessInv'
<1>1. \A q \in Requests : Phase(q)'
  BY PhaseStays DEF SessInv
<1>2. JarsWhole'
  <2>1. DOMAIN EmptyJar = Cookies /\ Bundle(EmptyJar)
    BY DEF EmptyJar, Cookies, Bundle
  <2>2. DOMAIN jar' = Cookies /\ Bundle(jar)'
    BY DEF SessInv, JarsWhole, Bundle
  <2>3. ASSUME NEW q \in Requests PROVE DOMAIN sent(q)' = Cookies /\ Bundle(sent(q))'
    BY <2>1 DEF SessInv, JarsWhole, Bundle, sent
  <2> QED BY <2>2, <2>3 DEF SessInv, JarsWhole
<1>3. Present' \subseteq Present
  <2>1. EmptyJar.refresh = None
    BY DEF EmptyJar, Cookies
  <2>2. ASSUME NEW q \in Requests, sent(q)'.refresh # None PROVE sent(q)'.refresh \in Present
    BY <2>1, <2>2 DEF Present, sent
  <2> QED BY <2>2 DEF Present
<1>4. Fresh' /\ OneChoice' /\ Newest'
  BY <1>3 DEF SessInv, Fresh, OneChoice, Newest, At
<1>5. AllUsable'
  <2> SUFFICES ASSUME ~failed', ~crossed'
               PROVE  /\ Usable(jar.refresh)'
                      /\ \A q \in Requests : request'[q].pc \in Busy => Usable(sent(q).refresh)'
    BY DEF AllUsable
  <2>1. ASSUME NEW x, Usable(x) PROVE x # None /\ x.login \notin revoked' =>
          \/ x \notin rotated' \/ x \in share'
          \/ \E q \in Requests : request'[q].pc = "rotated" /\ request'[q].sent.refresh = x
    BY <2>1 DEF Usable, Unspent, At, sent
  <2>2. Usable(jar.refresh) /\ \A q \in Requests : request[q].pc \in Busy => Usable(sent(q).refresh)
    BY DEF SessInv, AllUsable
  <2>3. Usable(jar.refresh)'
    BY <2>1, <2>2 DEF Usable, Unspent, At, sent
  <2>4. ASSUME NEW q \in Requests, request'[q].pc \in Busy PROVE Usable(sent(q).refresh)'
    <3>1. request'[q].sent = jar \/ (request[q].pc \in Busy /\ request'[q].sent = request[q].sent)
      BY <2>4
    <3>2. Usable(request'[q].sent.refresh)
      BY <2>2, <3>1 DEF sent
    <3> QED BY <2>1, <3>2 DEF Usable, Unspent, At, sent
  <2> QED BY <2>3, <2>4
<1>6. Expected'
  BY DEF SessInv, Expected
<1> QED BY <1>1, <1>2, <1>4, <1>5, <1>6 DEF SessInv

(* What each kind of step makes of a request.                              *)
LEMMA EndsIs ==
  ASSUME DOMAIN request = Requests, NEW r \in Requests, Ends(r)
  PROVE  /\ DOMAIN request' = Requests
         /\ \A q \in Requests : q # r => request'[q] = request[q]
         /\ request'[r].pc = "done" /\ request'[r].sent = EmptyJar
         /\ Phase(r)'
<1> DEFINE x == [Unsent EXCEPT !.pc = "done", !.kind = IF kind(r) = "start" THEN "start" ELSE @]
<1>1. request' = [request EXCEPT ![r] = x]
  BY DEF Ends
<1>2. /\ x.pc = "done" /\ x.sent = EmptyJar /\ x.sets = NoCookies
      /\ DOMAIN x = {"kind", "pc", "sent", "arg", "sets"} /\ x.kind \in {"me", "start"}
  BY DEF Unsent
<1> HIDE DEF x
<1>3. request'[r] = x
  BY <1>1
<1>4. DOMAIN NoCookies = {}
  BY DEF NoCookies
<1>5. Phase(r)'
  BY <1>2, <1>3, <1>4 DEF Phase, Busy, sent, kind
<1> QED BY <1>1, <1>2, <1>3, <1>5

LEMMA AnswerIs ==
  ASSUME DOMAIN request = Requests, NEW r \in Requests, Phase(r), NEW sets, Answer(r, sets)
  PROVE  /\ DOMAIN request' = Requests
         /\ \A q \in Requests : q # r => request'[q] = request[q]
         /\ request'[r].pc \in {"answered", "done"}
         /\ request'[r].sent \in {request[r].sent, EmptyJar}
         /\ \/ Phase(r)'
            \/ /\ request'[r].pc = "answered" /\ request'[r].sets = sets /\ sets # NoCookies
               /\ request'[r].sent = request[r].sent /\ request'[r].kind = request[r].kind
               /\ DOMAIN request'[r] = {"kind", "pc", "sent", "arg", "sets"}
<1>1. CASE sets = NoCookies
  <2>1. Ends(r)
    BY <1>1 DEF Answer
  <2> QED BY <2>1, EndsIs
<1>2. CASE sets # NoCookies
  <2>1. request' = [request EXCEPT ![r] =
                     [[request[r] EXCEPT !.pc = "answered"] EXCEPT !.sets = sets]]
    BY <1>2 DEF Answer
  <2>2. DOMAIN request[r] = {"kind", "pc", "sent", "arg", "sets"}
    BY DEF Phase
  <2> QED BY <1>2, <2>1, <2>2
<1> QED BY <1>1, <1>2

LEMMA GotoIs ==
  ASSUME DOMAIN request = Requests, NEW r \in Requests, Phase(r), NEW pc, Goto(r, pc)
  PROVE  /\ DOMAIN request' = Requests
         /\ \A q \in Requests : q # r => request'[q] = request[q]
         /\ request'[r] = [request[r] EXCEPT !.pc = pc]
         /\ request'[r].pc = pc /\ request'[r].sent = request[r].sent
         /\ request'[r].kind = request[r].kind /\ request'[r].sets = request[r].sets
         /\ DOMAIN request'[r] = {"kind", "pc", "sent", "arg", "sets"}
<1>1. request' = [request EXCEPT ![r] = [request[r] EXCEPT !.pc = pc]]
  BY DEF Goto
<1>2. DOMAIN request[r] = {"kind", "pc", "sent", "arg", "sets"}
  BY DEF Phase
<1> QED BY <1>1, <1>2

(* A step that answers and touches no cookie, with what it answers.        *)
LEMMA Answered ==
  ASSUME SessInv, NEW r \in Requests, NEW sets, Answer(r, sets),
         jar' = jar, held' = held, crossed' = crossed, failed => failed',
         rotated' = rotated, share \subseteq share', revoked \subseteq revoked',
         request[r].pc \notin {"done", "rotated"} \/ (request[r].pc = "rotated" /\ failed'),
         sets # NoCookies /\ request'[r].sets = sets /\ request'[r].sent = request[r].sent =>
           /\ DOMAIN sets \subseteq Cookies
           /\ CASE kind(r) \in Opens -> Begins(r)' \/ Passes(r)'
                [] kind(r) = "sign-out" -> sets = Cleared
                [] OTHER -> Carries(r)' \/ Clears(r)' \/ Passes(r)'
  PROVE  SessInv'
<1>1. DOMAIN request = Requests /\ Phase(r)
  BY DEF SessInv
<1>2. /\ DOMAIN request' = Requests
      /\ \A q \in Requests : q # r => request'[q] = request[q]
      /\ request'[r].pc \in {"answered", "done"}
      /\ request'[r].sent \in {request[r].sent, EmptyJar}
      /\ \/ Phase(r)'
         \/ /\ request'[r].pc = "answered" /\ request'[r].sets = sets /\ sets # NoCookies
            /\ request'[r].sent = request[r].sent /\ request'[r].kind = request[r].kind
            /\ DOMAIN request'[r] = {"kind", "pc", "sent", "arg", "sets"}
  BY <1>1, AnswerIs
<1>3. Phase(r)'
  BY <1>2 DEF Phase, kind, Busy
<1>4. request'[r].pc \notin Busy
  BY <1>2 DEF Busy
<1> QED BY <1>2, <1>3, <1>4, Moves

(* An error answer changes nothing, unless a rotated token is lost.        *)
LEMMA Raised ==
  ASSUME SessInv, NEW r \in Requests, Raise(r) \/ Answer(r, NoCookies),
         jar' = jar, held' = held, crossed' = crossed, failed => failed',
         rotated' = rotated, share \subseteq share', revoked \subseteq revoked',
         request[r].pc \notin {"done", "rotated"} \/ (request[r].pc = "rotated" /\ failed')
  PROVE  SessInv'
<1>1. Answer(r, NoCookies)
  BY DEF Raise
<1> QED BY <1>1, Answered

LEMMA QuietIs ==
  ASSUME Quiet
  PROVE  /\ jar' = jar /\ held' = held /\ crossed' = crossed /\ (failed => failed')
         /\ rotated' = rotated /\ share \subseteq share' /\ revoked \subseteq revoked'
         /\ failed' = failed /\ share' = share
BY DEF Quiet, provider

-----------------------------------------------------------------------------
LEMMA SendKeeps ==
  ASSUME SessInv, NEW r \in Requests, SendSome(r)
  PROVE  SessInv'
<1>1. PICK k, arg : Send(r, k, arg) /\ (k = "sign-in" => arg \in {"0", "1"})
  BY DEF SendSome
<1> DEFINE pc == IF k \in {"me", "read", "write"} THEN "checking" ELSE "handling"
           x == [kind |-> k, pc |-> pc, sent |-> jar, arg |-> arg, sets |-> NoCookies]
<1>2. request[r].pc = "unsent" /\ request' = [request EXCEPT ![r] = x] /\ Quiet
  BY <1>1 DEF Send, At
<1>3. /\ x.kind = k /\ x.pc = pc /\ x.sent = jar /\ x.arg = arg /\ x.sets = NoCookies
      /\ DOMAIN x = {"kind", "pc", "sent", "arg", "sets"}
  OBVIOUS
<1> HIDE DEF x
<1>4. /\ DOMAIN request' = Requests /\ \A q \in Requests : q # r => request'[q] = request[q]
      /\ request'[r] = x
  BY <1>2 DEF SessInv
<1>5. DOMAIN NoCookies = {}
  BY DEF NoCookies
<1>6. Phase(r)'
  BY <1>1, <1>3, <1>4, <1>5 DEF Phase, Renews, Busy, sent, kind
<1> QED BY <1>2, <1>3, <1>4, <1>6, QuietIs, Moves DEF SessInv

LEMMA CheckKeeps ==
  ASSUME SessInv, NEW r \in Requests, Recognised(r) \/ NotRecognised(r)
  PROVE  SessInv'
<1>1. PICK pc \in {"routing", "refreshing"} : Goto(r, pc)
  BY DEF Recognised, NotRecognised
<1>2. request[r].pc = "checking" /\ Quiet
  BY DEF Recognised, NotRecognised, At
<1>3. Phase(r) /\ DOMAIN request = Requests
  BY DEF SessInv
<1>4. /\ DOMAIN request' = Requests
      /\ \A q \in Requests : q # r => request'[q] = request[q]
      /\ request'[r].pc = pc /\ request'[r].sent = request[r].sent
      /\ request'[r].kind = request[r].kind /\ request'[r].sets = request[r].sets
      /\ DOMAIN request'[r] = {"kind", "pc", "sent", "arg", "sets"}
  BY <1>1, <1>3, GotoIs
<1>5. Phase(r)'
  BY <1>2, <1>3, <1>4 DEF Phase, Busy, sent, kind
<1> QED BY <1>2, <1>4, <1>5, QuietIs, Moves DEF SessInv, Busy

(* Without a refresh token there is no access token either.                *)
LEMMA NoUserKeeps ==
  ASSUME SessInv, NEW r \in Requests, CheckFails(r) \/ NoRefreshToken(r)
  PROVE  SessInv'
<1>1. NoUser(r, NoCookies) /\ Quiet /\ request[r].pc \in {"checking", "refreshing"}
  <2>1. CASE CheckFails(r)
    BY <2>1 DEF CheckFails, At
  <2>2. CASE NoRefreshToken(r)
    <3>1. sent(r).access = None
      BY <2>2 DEF NoRefreshToken, SessInv, JarsWhole, Bundle
    <3> QED BY <2>2, <3>1 DEF NoRefreshToken, At
  <2> QED BY <2>1, <2>2
<1>2. Raise(r) \/ Answer(r, NoCookies)
  BY <1>1 DEF NoUser
<1> QED BY <1>1, <1>2, QuietIs, Raised DEF SessInv

(* The successor goes with the marker of its login.                        *)
LEMMA RenewIs ==
  ASSUME SessInv, SessionAssumption, NEW r \in Requests, Renew(r), sent(r).refresh # None,
         kind(r) \in Renews
  PROVE  /\ DOMAIN request' = Requests
         /\ \A q \in Requests : q # r => request'[q] = request[q]
         /\ request'[r].pc = "looking" /\ request'[r].sent = request[r].sent
         /\ Phase(r)'
<1> DEFINE token == Successor(sent(r).refresh)
           sets == Renewed(r, token)
<1>1. DOMAIN request = Requests /\ Phase(r) /\ Bundle(sent(r))
  BY DEF SessInv, JarsWhole
<1>2. request' = [request EXCEPT ![r] = [[request[r] EXCEPT !.pc = "looking"] EXCEPT !.sets = sets]]
  BY DEF Renew
<1>3. /\ DOMAIN request' = Requests
      /\ \A q \in Requests : q # r => request'[q] = request[q]
      /\ request'[r].pc = "looking" /\ request'[r].sent = request[r].sent
      /\ request'[r].kind = request[r].kind /\ request'[r].sets = sets
      /\ DOMAIN request'[r] = {"kind", "pc", "sent", "arg", "sets"}
  <2> HIDE DEF sets
  <2> QED BY <1>1, <1>2 DEF Phase
<1>4. /\ token \in Token /\ token # None /\ token.kept = sent(r).refresh.kept
      /\ token.kept \in {"0", "1", None}
  BY <1>1 DEF Bundle, Successor, Token, SessionAssumption
<1>5. /\ DOMAIN sets = {"access", "refresh", "remember", "csrf"}
      /\ sets["refresh"] = token /\ sets["access"] = token
      /\ sets["remember"] = IF kind(r) = "refresh"
                           THEN IF sent(r).remember = "0" THEN "0" ELSE "1"
                           ELSE IF sent(r).remember = "1" THEN "1" ELSE "0"
  BY DEF Renewed
<1> HIDE DEF sets, token
<1>6. token.kept # None => sent(r).remember = token.kept
  BY <1>1, <1>4 DEF Bundle
<1>7. sets["refresh"].kept # None => sets["remember"] = sets["refresh"].kept
  BY <1>4, <1>5, <1>6
<1>8. Bundle(sets)
  BY <1>4, <1>5, <1>7 DEF Bundle
<1>9. Carries(r)'
  BY <1>3, <1>5, <1>8 DEF Carries, sent, token, Bundle
<1>10. Phase(r)'
  BY <1>3, <1>5, <1>9 DEF Phase, sent, kind, Cookies, Busy
<1> QED BY <1>3, <1>10

LEMMA RenewalKeeps ==
  ASSUME SessInv, SessionAssumption, NEW r \in Requests, UseShared(r) \/ Share(r)
  PROVE  SessInv'
<1>1. /\ Renew(r) /\ sent(r).refresh # None /\ kind(r) \in Renews
      /\ request[r].pc \in {"refreshing", "rotated"}
  BY DEF UseShared, Share, Refreshing, At, SessInv, Phase
<1>2. /\ DOMAIN request' = Requests
      /\ \A q \in Requests : q # r => request'[q] = request[q]
      /\ request'[r].pc = "looking" /\ request'[r].sent = request[r].sent
      /\ Phase(r)'
  BY <1>1, RenewIs
<1>3. /\ jar' = jar /\ held' = held /\ crossed' = crossed /\ (failed => failed')
      /\ rotated' = rotated /\ share \subseteq share' /\ revoked \subseteq revoked'
     
  <2>1. CASE UseShared(r)
    BY <2>1, QuietIs DEF UseShared, SessInv
  <2>2. CASE Share(r)
    BY <2>2 DEF Share, Handler, SessInv
  <2> QED BY <2>1, <2>2
<1>4. request[r].pc = "rotated" => request[r].sent.refresh \in share'
  BY DEF UseShared, Share, Refreshing, At, sent
<1> QED BY <1>1, <1>2, <1>3, <1>4, Moves DEF Busy

(* A token that is rotated was presented before, and its rotator is known. *)
LEMMA RotationKeeps ==
  ASSUME SessInv, NEW r \in Requests, RotateToken(r)
  PROVE  SessInv'
<1> DEFINE token == sent(r).refresh
<1>1. /\ request[r].pc = "refreshing" /\ token # None /\ Goto(r, "rotated")
      /\ rotated' = rotated \cup {token}
      /\ share' = share /\ revoked' = revoked /\ failed' = failed
      /\ jar' = jar /\ held' = held /\ crossed' = crossed
  BY DEF RotateToken, Refreshing, At, Handler
<1>2. DOMAIN request = Requests /\ Phase(r)
  BY DEF SessInv
<1>3. /\ DOMAIN request' = Requests
      /\ \A q \in Requests : q # r => request'[q] = request[q]
      /\ request'[r].pc = "rotated" /\ request'[r].sent = request[r].sent
      /\ request'[r].kind = request[r].kind /\ request'[r].sets = request[r].sets
      /\ DOMAIN request'[r] = {"kind", "pc", "sent", "arg", "sets"}
  BY <1>1, <1>2, GotoIs
<1>4. Phase(r)'
  BY <1>1, <1>2, <1>3 DEF Phase, sent, kind, Busy
<1>5. \A q \in Requests : Phase(q)'
  BY <1>1, <1>3, <1>4, PhaseStays DEF SessInv
<1>6. \A q \in Requests : request'[q].sent = request[q].sent
  BY <1>3
<1>7. JarsWhole'
  BY <1>1, <1>6 DEF SessInv, JarsWhole, Bundle, sent
<1>8. Present' \subseteq Present
  BY <1>1, <1>6 DEF Present, sent
<1>9. Fresh' /\ OneChoice' /\ Newest'
  BY <1>1, <1>3, <1>8 DEF SessInv, Fresh, OneChoice, Newest, At
<1>10. ASSUME NEW x, Usable(x) PROVE x # None /\ x.login \notin revoked' =>
          \/ x \notin rotated' \/ x \in share'
          \/ \E q \in Requests : request'[q].pc = "rotated" /\ request'[q].sent.refresh = x
  <2>1. request'[r].sent.refresh = token
    BY <1>3 DEF sent
  <2> QED BY <1>1, <1>3, <1>10, <2>1 DEF Usable, Unspent, At, sent
<1>11. AllUsable'
  <2> SUFFICES ASSUME ~failed', ~crossed'
               PROVE  /\ Usable(jar.refresh)'
                      /\ \A q \in Requests : request'[q].pc \in Busy => Usable(sent(q).refresh)'
    BY DEF AllUsable
  <2>2. Usable(jar.refresh) /\ \A q \in Requests : request[q].pc \in Busy => Usable(sent(q).refresh)
    BY <1>1 DEF SessInv, AllUsable
  <2>3. Usable(jar.refresh)'
    BY <1>1, <1>10, <2>2 DEF Usable, Unspent, At, sent
  <2>4. ASSUME NEW q \in Requests, request'[q].pc \in Busy PROVE Usable(sent(q).refresh)'
    <3>1. request[q].pc \in Busy /\ request'[q].sent = request[q].sent
      BY <1>3, <2>4 DEF Busy
    <3>2. Usable(request'[q].sent.refresh)
      BY <2>2, <3>1 DEF sent
    <3> QED BY <1>10, <3>2 DEF Usable, Unspent, At, sent
  <2> QED BY <2>3, <2>4
<1>12. Expected'
  BY <1>1 DEF SessInv, Expected
<1> QED BY <1>3, <1>5, <1>7, <1>9, <1>11, <1>12 DEF SessInv

LEMMA ClearedIs ==
  /\ DOMAIN Cleared = Cookies /\ Bundle(Cleared) /\ Cleared # NoCookies
  /\ \A c \in Cookies : Cleared[c] = None
<1>1. DOMAIN Cleared = Cookies /\ "access" \in Cookies /\ DOMAIN NoCookies = {}
  BY DEF Cleared, Cookies, NoCookies
<1>2. \A c \in Cookies : Cleared[c] = None
  BY DEF Cleared
<1> QED BY <1>1, <1>2 DEF Bundle, Cookies

(* The session is cleared when a fault or a sign-out has cost it.          *)
LEMMA ClearingKeeps ==
  ASSUME SessInv, NEW r \in Requests, Refused(r) \/ RefreshFails(r) \/ LookupFails(r)
  PROVE  SessInv'
<1>1. /\ NoUser(r, Cleared) /\ sent(r).refresh # None /\ kind(r) \in Renews
      /\ request[r].pc \in {"refreshing", "rotated", "looking"}
      /\ request[r].pc = "rotated" => failed'
      /\ rotated' = rotated /\ share' = share /\ revoked' = revoked
      /\ jar' = jar /\ held' = held /\ crossed' = crossed
      /\ failed => failed'
  BY DEF Refused, RefreshFails, LookupFails, Refreshing, At, Handler, provider, SessInv, Phase,
         Carries
<1>2. kind(r) = "me" => failed' \/ crossed' \/ sent(r).refresh.login \in revoked'
  <2>1. CASE Refused(r)
    <3>1. /\ sent(r).refresh \in rotated \/ sent(r).refresh.login \in revoked
          /\ sent(r).refresh \notin share
          /\ failed' = (failed \/ \E q \in Requests : /\ At(q, "rotated")
                                                     /\ sent(q).refresh = sent(r).refresh)
          /\ request[r].pc \in Busy
      BY <2>1 DEF Refused, Refreshing, At, Busy
    <3>2. ~failed /\ ~crossed => Usable(sent(r).refresh)
      BY <3>1 DEF SessInv, AllUsable
    <3> QED BY <1>1, <3>1, <3>2 DEF Usable, Unspent
  <2>2. CASE RefreshFails(r) \/ LookupFails(r)
    BY <2>2 DEF RefreshFails, LookupFails
  <2> QED BY <2>1, <2>2
<1>4. CASE kind(r) = "me"
  <2>1. Answer(r, Cleared)
    BY <1>1, <1>4 DEF NoUser
  <2>2. ASSUME request'[r].sets = Cleared, request'[r].sent = request[r].sent PROVE Clears(r)'
    BY <1>1, <1>2, <1>4, <2>2 DEF Clears, sent
  <2>3. kind(r) \notin Opens /\ kind(r) # "sign-out"
    BY <1>4 DEF Opens
  <2> QED BY <1>1, <2>1, <2>2, <2>3, ClearedIs, Answered
<1>5. CASE kind(r) # "me"
  <2>1. Raise(r)
    BY <1>1, <1>5 DEF NoUser
  <2> QED BY <1>1, <2>1, Raised
<1> QED BY <1>4, <1>5

LEMMA FoundKeeps ==
  ASSUME SessInv, NEW r \in Requests, Found(r)
  PROVE  SessInv'
<1>1. request[r].pc = "looking" /\ Quiet
  BY DEF Found, At
<1>2. DOMAIN request = Requests /\ Phase(r) /\ Carries(r) /\ kind(r) \in Renews
  BY <1>1 DEF SessInv, Phase
<1>3. CASE kind(r) = "refresh"
  <2>1. Answer(r, request[r].sets)
    BY <1>3 DEF Found
  <2>2. ASSUME request'[r].sets = request[r].sets, request'[r].sent = request[r].sent
        PROVE  Carries(r)'
    BY <1>2, <2>2 DEF Carries, sent, Bundle
  <2>3. kind(r) \notin Opens /\ kind(r) # "sign-out" /\ DOMAIN request[r].sets \subseteq Cookies
    BY <1>2, <1>3 DEF Opens, Phase
  <2> QED BY <1>1, <2>1, <2>2, <2>3, QuietIs, Answered DEF SessInv
<1>4. CASE kind(r) # "refresh"
  <2>1. Goto(r, "routing")
    BY <1>4 DEF Found
  <2>2. /\ DOMAIN request' = Requests
        /\ \A q \in Requests : q # r => request'[q] = request[q]
        /\ request'[r].pc = "routing" /\ request'[r].sent = request[r].sent
        /\ request'[r].kind = request[r].kind /\ request'[r].sets = request[r].sets
        /\ DOMAIN request'[r] = {"kind", "pc", "sent", "arg", "sets"}
    BY <1>2, <2>1, GotoIs
  <2>3. Carries(r)'
    BY <1>2, <2>2 DEF Carries, sent, Bundle
  <2>4. Phase(r)'
    BY <1>2, <2>2, <2>3 DEF Phase, sent, kind, Busy
  <2> QED BY <1>1, <2>2, <2>4, QuietIs, Moves DEF SessInv, Busy
<1> QED BY <1>3, <1>4
-----------------------------------------------------------------------------
(* The routes that go on from a user that was found.                       *)
LEMMA MeKeeps ==
  ASSUME SessInv, SessionAssumption, NEW r \in Requests, Me(r)
  PROVE  SessInv'
<1> DEFINE sets == WithCsrf(r)
<1>1. request[r].pc = "routing" /\ Quiet /\ kind(r) = "me" /\ Answer(r, sets)
  BY DEF Me, At
<1>2. Phase(r) /\ (Carries(r) \/ request[r].sets = NoCookies)
  BY <1>1 DEF SessInv, Phase
<1>3. sets = request[r].sets \/ DOMAIN sets = {"csrf"}
  BY DEF WithCsrf
<1> HIDE DEF sets
<1>4. kind(r) \notin Opens /\ kind(r) # "sign-out" /\ DOMAIN sets \subseteq Cookies
  BY <1>1, <1>2, <1>3 DEF Opens, Phase, Cookies
<1>5. ASSUME request'[r].sets = sets, request'[r].sent = request[r].sent, sets # NoCookies
      PROVE  Carries(r)' \/ Passes(r)'
  BY <1>2, <1>3, <1>5 DEF Carries, Passes, sent, Bundle
<1> QED BY <1>1, <1>4, <1>5, QuietIs, Answered DEF SessInv

LEMMA CloudKeeps ==
  ASSUME SessInv, NEW r \in Requests, Cloud(r) \/ ChangePassword(r)
  PROVE  SessInv'
<1>1. /\ request[r].pc = "routing" /\ Quiet /\ kind(r) \in {"read", "write"}
      /\ Answer(r, request[r].sets) \/ Raise(r)
  BY DEF Cloud, ChangePassword, At
<1>2. Phase(r) /\ (Carries(r) \/ request[r].sets = NoCookies)
  BY <1>1 DEF SessInv, Phase
<1>3. CASE Raise(r)
  BY <1>1, <1>3, QuietIs, Raised DEF SessInv
<1>4. CASE Answer(r, request[r].sets)
  <2>1. kind(r) \notin Opens /\ kind(r) # "sign-out" /\ DOMAIN request[r].sets \subseteq Cookies
    BY <1>1, <1>2 DEF Opens, Phase
  <2>2. ASSUME request'[r].sets = request[r].sets, request'[r].sent = request[r].sent,
               request[r].sets # NoCookies
        PROVE  Carries(r)'
    BY <1>2, <2>2 DEF Carries, sent, Bundle
  <2> QED BY <1>1, <1>4, <2>1, <2>2, QuietIs, Answered DEF SessInv
<1> QED BY <1>1, <1>3, <1>4

LEMMA RefreshRouteKeeps ==
  ASSUME SessInv, NEW r \in Requests, RefreshRoute(r)
  PROVE  SessInv'
<1>1. request[r].pc = "handling" /\ kind(r) = "refresh" /\ Quiet
  BY DEF RefreshRoute, At
<1>2. DOMAIN request = Requests /\ Phase(r)
  BY DEF SessInv
<1>3. CASE Raise(r)
  BY <1>1, <1>3, QuietIs, Raised DEF SessInv
<1>4. CASE Goto(r, "refreshing")
  <2>1. /\ DOMAIN request' = Requests
        /\ \A q \in Requests : q # r => request'[q] = request[q]
        /\ request'[r].pc = "refreshing" /\ request'[r].sent = request[r].sent
        /\ request'[r].kind = request[r].kind /\ request'[r].sets = request[r].sets
        /\ DOMAIN request'[r] = {"kind", "pc", "sent", "arg", "sets"}
    BY <1>2, <1>4, GotoIs
  <2>2. Phase(r)'
    BY <1>1, <1>2, <2>1 DEF Phase, Busy, Renews, sent, kind
  <2> QED BY <1>1, <2>1, <2>2, QuietIs, Moves DEF SessInv, Busy
<1> QED BY <1>3, <1>4 DEF RefreshRoute

-----------------------------------------------------------------------------
(* What a login sets.                                                      *)
LEMMA NewSessionIs ==
  ASSUME SessionAssumption, NEW r \in Requests, NEW remember \in {"0", "1"}
  PROVE  LET sets == NewSession(r, remember)
         IN  /\ DOMAIN sets = {"access", "refresh", "remember", "csrf"} /\ Bundle(sets)
             /\ sets["refresh"] # None /\ sets["refresh"].login = r
<1> DEFINE token == [login |-> r, gen |-> 0, kept |-> remember]
           sets == NewSession(r, remember)
<1>1. /\ DOMAIN sets = {"access", "refresh", "remember", "csrf"}
      /\ sets["refresh"] = token /\ sets["access"] = token /\ sets["remember"] = remember
  BY DEF NewSession
<1>2. token \in Token /\ token.login = r /\ token.kept = remember
  BY DEF Token, Requests, SessionAssumption
<1>3. token # None
  BY <1>2 DEF SessionAssumption
<1> HIDE DEF sets, token
<1> QED BY <1>1, <1>2, <1>3 DEF Bundle, sets

LEMMA LetInKeeps ==
  ASSUME SessInv, SessionAssumption, NEW r \in Requests, NEW remember \in {"0", "1"},
         request[r].pc = "handling", kind(r) = "sign-in", LetIn(r, remember)
  PROVE  SessInv'
<1> DEFINE sets == NewSession(r, remember)
<1>1. /\ DOMAIN sets = {"access", "refresh", "remember", "csrf"} /\ Bundle(sets)
      /\ sets["refresh"] # None /\ sets["refresh"].login = r
  BY NewSessionIs
<1>2. /\ Answer(r, sets)
      /\ jar' = jar /\ held' = held /\ crossed' = crossed /\ failed' = failed
      /\ rotated' = rotated /\ share' = share /\ revoked' = revoked
  BY DEF LetIn, Opened, Handler
<1> HIDE DEF sets
<1>3. kind(r) \in Opens /\ DOMAIN sets \subseteq Cookies
  BY <1>1 DEF Opens, Cookies
<1>4. ASSUME request'[r].sets = sets PROVE Begins(r)'
  BY <1>1, <1>4 DEF Begins, Bundle
<1> QED BY <1>2, <1>3, <1>4, Answered

LEMMA EnteringKeeps ==
  ASSUME SessInv, SessionAssumption, NEW r \in Requests,
         SignIn(r) \/ SignUp(r) \/ ExchangeSession(r)
  PROVE  SessInv'
<1>1. request[r].pc = "handling" /\ kind(r) = "sign-in"
  BY DEF SignIn, SignUp, ExchangeSession, Entering, At
<1>2. request[r].arg \in {"0", "1"}
  BY <1>1 DEF SessInv, Phase
<1>3. \/ LetIn(r, request[r].arg) \/ LetIn(r, "1")
      \/ (Raise(r) \/ Answer(r, NoCookies)) /\ Quiet
  BY DEF SignIn, SignUp, ExchangeSession
<1>4. CASE LetIn(r, request[r].arg) \/ LetIn(r, "1")
  BY <1>1, <1>2, <1>4, LetInKeeps
<1>5. CASE (Raise(r) \/ Answer(r, NoCookies)) /\ Quiet
  BY <1>1, <1>5, QuietIs, Raised DEF SessInv
<1> QED BY <1>3, <1>4, <1>5

LEMMA FlowKeeps ==
  ASSUME SessInv, NEW r \in Requests, StartGoogle(r) \/ GoogleFailed(r)
  PROVE  SessInv'
<1>1. PICK sets \in {Transaction(r), TransactionCleared} :
        /\ Answer(r, sets) /\ Quiet
        /\ request[r].pc = "handling" /\ kind(r) \in {"start", "callback"}
  BY DEF StartGoogle, GoogleFailed, At
<1>2. DOMAIN sets = {"txn"}
  BY DEF Transaction, TransactionCleared
<1>3. DOMAIN sets \subseteq Cookies /\ kind(r) # "sign-out"
  BY <1>1, <1>2 DEF Cookies
<1>4. ASSUME request'[r].sets = sets PROVE Passes(r)'
  BY <1>2, <1>4 DEF Passes
<1> QED BY <1>1, <1>3, <1>4, QuietIs, Answered DEF SessInv

LEMMA GoogleKeeps ==
  ASSUME SessInv, SessionAssumption, NEW r \in Requests, GoogleSignedIn(r)
  PROVE  SessInv'
<1> DEFINE new == NewSession(r, "1")
           sets == Onto(TransactionCleared, new)
<1>1. /\ DOMAIN new = {"access", "refresh", "remember", "csrf"} /\ Bundle(new)
      /\ new["refresh"] # None /\ new["refresh"].login = r
  BY NewSessionIs
<1>2. /\ Answer(r, sets) /\ request[r].pc = "handling" /\ kind(r) = "callback"
      /\ jar' = jar /\ held' = held /\ crossed' = crossed /\ failed' = failed
      /\ rotated' = rotated /\ share' = share /\ revoked' = revoked
  BY DEF GoogleSignedIn, Opened, Handler, At, Consumes
<1> HIDE DEF new
<1>3. /\ DOMAIN sets = {"access", "refresh", "remember", "csrf", "txn"}
      /\ sets["refresh"] = new["refresh"] /\ sets["access"] = new["access"]
      /\ sets["remember"] = new["remember"]
  BY <1>1 DEF Onto, TransactionCleared
<1> HIDE DEF sets
<1>4. Bundle(sets) /\ sets["refresh"] # None /\ sets["refresh"].login = r
  BY <1>1, <1>3 DEF Bundle
<1>5. kind(r) \in Opens /\ DOMAIN sets \subseteq Cookies
  BY <1>2, <1>3 DEF Opens, Cookies
<1>6. ASSUME request'[r].sets = sets PROVE Begins(r)'
  BY <1>3, <1>4, <1>6 DEF Begins, Bundle
<1> QED BY <1>2, <1>5, <1>6, Answered

LEMMA SignOutKeeps ==
  ASSUME SessInv, NEW r \in Requests, SignOut(r)
  PROVE  SessInv'
<1>1. request[r].pc = "handling" /\ kind(r) = "sign-out"
  BY DEF SignOut, At
<1>2. /\ Raise(r) \/ Answer(r, Cleared)
      /\ jar' = jar /\ held' = held /\ crossed' = crossed /\ (failed => failed')
      /\ rotated' = rotated /\ share' = share /\ revoked \subseteq revoked'
     
  BY DEF SignOut, Quiet, Handler, provider
<1>4. CASE Raise(r)
  BY <1>1, <1>2, <1>4, Raised
<1>5. CASE Answer(r, Cleared)
  <2>1. kind(r) \notin Opens
    BY <1>1 DEF Opens
  <2> QED BY <1>1, <1>2, <1>5, <2>1, ClearedIs, Answered
<1> QED BY <1>2, <1>4, <1>5

-----------------------------------------------------------------------------
LEMMA LoseAnswerKeeps ==
  ASSUME SessInv, NEW r \in Requests, LoseAnswer(r)
  PROVE  SessInv'
<1>1. Ends(r) /\ Quiet /\ request[r].pc = "answered"
  BY DEF LoseAnswer, At
<1>2. /\ DOMAIN request' = Requests
      /\ \A q \in Requests : q # r => request'[q] = request[q]
      /\ request'[r].pc = "done" /\ request'[r].sent = EmptyJar
      /\ Phase(r)'
  BY <1>1, EndsIs DEF SessInv
<1> QED BY <1>1, <1>2, QuietIs, Moves DEF SessInv, Busy

(* What the cookies of an answer must be like for the browser to take them. *)
LEMMA Delivered ==
  ASSUME SessInv, NEW r \in Requests, request[r].pc = "answered", Ends(r),
         rotated' = rotated, share' = share, revoked' = revoked,
         failed' = failed, crossed => crossed',
         DOMAIN jar' = Cookies, Bundle(jar)', Expected',
         NEW new, jar'.refresh = new,
         new # None =>
           /\ \A q \in Requests : new.login = q => q = r \/ request[q].pc = "done"
           /\ \A u \in Present : u.login = new.login => u.kept = new.kept
           /\ ~crossed' => \A u \in Present : u.login = new.login => u.gen <= new.gen
           /\ new.gen \in Nat
           /\ ~failed /\ ~crossed' => Usable(new)
  PROVE  SessInv'
<1>1. DOMAIN request = Requests
  BY DEF SessInv
<1>2. /\ DOMAIN request' = Requests
      /\ \A q \in Requests : q # r => request'[q] = request[q]
      /\ request'[r].pc = "done" /\ request'[r].sent = EmptyJar
      /\ Phase(r)'
  BY <1>1, EndsIs
<1>3. \A q \in Requests : Phase(q)'
  BY <1>2, PhaseStays DEF SessInv
<1>4. DOMAIN EmptyJar = Cookies /\ Bundle(EmptyJar) /\ EmptyJar.refresh = None
  BY DEF EmptyJar, Cookies, Bundle
<1>5. JarsWhole'
  <2>1. ASSUME NEW q \in Requests PROVE DOMAIN sent(q)' = Cookies /\ Bundle(sent(q))'
    BY <1>2, <1>4 DEF SessInv, JarsWhole, Bundle, sent
  <2> QED BY <2>1 DEF SessInv, JarsWhole
<1>6. Present' \subseteq Present \cup {new} /\ None \notin Present'
  <2>1. ASSUME NEW q \in Requests, sent(q)'.refresh # None PROVE sent(q)'.refresh \in Present
    BY <1>2, <1>4, <2>1 DEF Present, sent
  <2> QED BY <2>1 DEF Present
<1>7. \A q \in Requests : request[q].pc = "done" => request'[q].pc = "done"
  BY <1>2
<1>8. Fresh'
  BY <1>2, <1>6, <1>7 DEF SessInv, Fresh, At
<1>9. OneChoice'
  BY <1>6 DEF SessInv, OneChoice
<1>10. Newest'
  BY <1>6 DEF Newest
<1>11. \A q \in Requests : request[q].pc = "rotated" => request'[q] = request[q]
  BY <1>2
<1>12. ASSUME NEW x, Usable(x) PROVE x # None /\ x.login \notin revoked' =>
          \/ x \notin rotated' \/ x \in share'
          \/ \E q \in Requests : request'[q].pc = "rotated" /\ request'[q].sent.refresh = x
  BY <1>11, <1>12 DEF Usable, Unspent, At, sent
<1>13. AllUsable'
  <2> SUFFICES ASSUME ~failed', ~crossed'
               PROVE  /\ Usable(jar.refresh)'
                      /\ \A q \in Requests : request'[q].pc \in Busy => Usable(sent(q).refresh)'
    BY DEF AllUsable
  <2>1. Usable(jar.refresh)'
    BY <1>12 DEF Usable, Unspent, At, sent
  <2>2. ASSUME NEW q \in Requests, request'[q].pc \in Busy PROVE Usable(sent(q).refresh)'
    <3>1. request'[q] = request[q] /\ Usable(request'[q].sent.refresh)
      BY <1>2, <2>2 DEF SessInv, AllUsable, Busy, sent
    <3> QED BY <1>12, <3>1 DEF Usable, Unspent, At, sent
  <2> QED BY <2>1, <2>2
<1> QED BY <1>2, <1>3, <1>5, <1>8, <1>9, <1>10, <1>13 DEF SessInv
(* What the browser has when the answer has arrived.                       *)
LEMMA OntoIs ==
  ASSUME SessInv, NEW r \in Requests, jar' = Onto(jar, request[r].sets)
  PROVE  /\ DOMAIN jar' = Cookies
         /\ \A c \in Cookies :
              jar'[c] = IF c \in DOMAIN request[r].sets THEN request[r].sets[c] ELSE jar[c]
<1>1. DOMAIN jar = Cookies /\ DOMAIN request[r].sets \subseteq Cookies
  BY DEF SessInv, JarsWhole, Phase
<1> QED BY <1>1 DEF Onto

LEMMA DeliverIs ==
  ASSUME SessInv, NEW r \in Requests, Deliver(r)
  PROVE  /\ request[r].pc = "answered" /\ Ends(r) /\ failed' = failed /\ (crossed => crossed')
         /\ rotated' = rotated /\ share' = share /\ revoked' = revoked
         /\ DOMAIN jar' = Cookies
         /\ {"access", "refresh", "remember"} \subseteq Cookies
         /\ \A c \in Cookies :
              jar'[c] = IF c \in DOMAIN request[r].sets THEN request[r].sets[c] ELSE jar[c]
BY OntoIs DEF Deliver, At, provider, Cookies

(* The session is the one before: no token came, or none is gone.          *)
LEMMA PassesKeeps ==
  ASSUME SessInv, NEW r \in Requests, Deliver(r), Passes(r), kind(r) # "sign-out"
  PROVE  SessInv'
<1>1. /\ request[r].pc = "answered" /\ Ends(r) /\ failed' = failed /\ (crossed => crossed')
      /\ rotated' = rotated /\ share' = share /\ revoked' = revoked
      /\ DOMAIN jar' = Cookies
      /\ {"access", "refresh", "remember"} \subseteq Cookies
      /\ \A c \in Cookies :
           jar'[c] = IF c \in DOMAIN request[r].sets THEN request[r].sets[c] ELSE jar[c]
  BY DeliverIs
<1>2. \A c \in {"access", "refresh", "remember"} : c \notin DOMAIN request[r].sets
  BY DEF Passes
<1>3. /\ jar'["access"] = jar["access"] /\ jar'["refresh"] = jar["refresh"]
      /\ jar'["remember"] = jar["remember"]
  BY <1>1, <1>2
<1>4. held' = held
  BY <1>2 DEF Deliver
<1>5. Bundle(jar)' /\ Expected'
  BY <1>1, <1>3, <1>4 DEF SessInv, JarsWhole, Bundle, Expected
<1> DEFINE new == jar["refresh"]
<1>6. new # None =>
        /\ new \in Present /\ new \in Token
        /\ ~crossed' => \A u \in Present : u.login = new.login => u.gen <= new.gen
        /\ ~failed /\ ~crossed' => Usable(new)
  BY <1>1 DEF Present, SessInv, JarsWhole, Bundle, Newest, AllUsable
<1>7. new # None =>
        /\ \A q \in Requests : new.login = q => q = r \/ request[q].pc = "done"
        /\ \A u \in Present : u.login = new.login => u.kept = new.kept
        /\ new.gen \in Nat
  BY <1>6 DEF SessInv, Fresh, OneChoice, At, Token
<1> HIDE DEF new
<1>8. jar'.refresh = new
  BY <1>3 DEF new
<1> QED BY <1>1, <1>5, <1>6, <1>7, <1>8, Delivered

(* A login begins with a token that nobody has seen.                       *)
LEMMA BeginsKeeps ==
  ASSUME SessInv, NEW r \in Requests, Deliver(r), Begins(r), kind(r) \in Opens
  PROVE  SessInv'
<1>1. /\ request[r].pc = "answered" /\ Ends(r) /\ failed' = failed /\ (crossed => crossed')
      /\ rotated' = rotated /\ share' = share /\ revoked' = revoked
      /\ DOMAIN jar' = Cookies
      /\ {"access", "refresh", "remember"} \subseteq Cookies
      /\ \A c \in Cookies :
           jar'[c] = IF c \in DOMAIN request[r].sets THEN request[r].sets[c] ELSE jar[c]
  BY DeliverIs
<1> DEFINE sets == request[r].sets
           new == sets["refresh"]
<1>2. /\ {"access", "refresh", "remember"} \subseteq DOMAIN sets /\ Bundle(sets)
      /\ new # None /\ new.login = r
  BY DEF Begins
<1>3. /\ jar'["access"] = sets["access"] /\ jar'["refresh"] = new
      /\ jar'["remember"] = sets["remember"]
  BY <1>1, <1>2
<1>4. held' = r
  BY <1>2 DEF Deliver, Opens
<1>5. Bundle(jar)'
  BY <1>2, <1>3 DEF Bundle
<1>6. Expected'
  BY <1>2, <1>3, <1>4 DEF Expected
<1>7. \A u \in Present : u.login # r
  BY <1>1 DEF SessInv, Fresh, At
<1>8. new \in Token /\ new \notin rotated
  BY <1>2, <1>7 DEF Bundle, Present
<1>9. /\ \A q \in Requests : new.login = q => q = r \/ request[q].pc = "done"
      /\ \A u \in Present : u.login = new.login => u.kept = new.kept
      /\ \A u \in Present : u.login = new.login => u.gen <= new.gen
      /\ new.gen \in Nat
      /\ Usable(new)
  BY <1>2, <1>7, <1>8 DEF Usable, Unspent, Token
<1> HIDE DEF new
<1> QED BY <1>1, <1>3, <1>5, <1>6, <1>9, Delivered

(* A cleared session: signed out, or lost to a fault.                      *)
LEMMA GoneKeeps ==
  ASSUME SessInv, NEW r \in Requests, Deliver(r), request[r].sets = Cleared,
         kind(r) \notin Opens, kind(r) = "sign-out" \/ Clears(r)
  PROVE  SessInv'
<1>1. /\ request[r].pc = "answered" /\ Ends(r) /\ failed' = failed /\ (crossed => crossed')
      /\ rotated' = rotated /\ share' = share /\ revoked' = revoked
      /\ DOMAIN jar' = Cookies
      /\ {"access", "refresh", "remember"} \subseteq Cookies
      /\ \A c \in Cookies :
           jar'[c] = IF c \in DOMAIN request[r].sets THEN request[r].sets[c] ELSE jar[c]
  BY DeliverIs
<1>2. \A c \in Cookies : jar'[c] = None
  BY <1>1, ClearedIs
<1>3. Bundle(jar)' /\ jar'.refresh = None
  BY <1>1, <1>2 DEF Bundle
<1>4. Expected'
  <2>1. CASE kind(r) = "sign-out"
    <3>1. held' = None
      BY <2>1 DEF Deliver
    <3> QED BY <1>3, <3>1 DEF Expected
  <2>2. CASE kind(r) # "sign-out" /\ Clears(r)
    <3>1. held' = held
      BY <2>2 DEF Deliver
    <3>2. ~crossed' => ~Overtaken(r) /\ ~crossed
      BY DEF Deliver
    <3>3. ~crossed' => jar.refresh = None \/ jar.refresh.login = sent(r).refresh.login
      BY <1>1, <2>2, <3>2, ClearedIs DEF Overtaken
    <3>4. ~failed /\ ~crossed' => held = None \/ held \in revoked
      BY <2>2, <3>2, <3>3 DEF Clears, SessInv, Expected
    <3> QED BY <1>1, <1>3, <3>1, <3>4 DEF Expected
  <2> QED BY <2>1, <2>2
<1> QED BY <1>1, <1>3, <1>4, Delivered

(* A renewed session: the token that came is as new as any of its login.   *)
LEMMA CarriesKeeps ==
  ASSUME SessInv, SessionAssumption, NEW r \in Requests, Deliver(r), Carries(r),
         kind(r) \notin Opens, kind(r) # "sign-out"
  PROVE  SessInv'
<1>1. /\ request[r].pc = "answered" /\ Ends(r) /\ failed' = failed /\ (crossed => crossed')
      /\ rotated' = rotated /\ share' = share /\ revoked' = revoked
      /\ DOMAIN jar' = Cookies
      /\ {"access", "refresh", "remember"} \subseteq Cookies
      /\ \A c \in Cookies :
           jar'[c] = IF c \in DOMAIN request[r].sets THEN request[r].sets[c] ELSE jar[c]
  BY DeliverIs
<1> DEFINE sets == request[r].sets
           old == sent(r).refresh
           new == sets["refresh"]
<1>2. /\ {"access", "refresh", "remember"} \subseteq DOMAIN sets /\ Bundle(sets)
      /\ old # None /\ new = Successor(old)
  BY DEF Carries
<1>3. /\ jar'["access"] = sets["access"] /\ jar'["refresh"] = new
      /\ jar'["remember"] = sets["remember"]
  BY <1>1, <1>2
<1>4. old \in Present /\ old \in Token
  BY <1>2 DEF Present, SessInv, JarsWhole, Bundle
<1>5. /\ new \in Token /\ new # None /\ new.login = old.login /\ new.kept = old.kept
      /\ new.gen \in Nat
  BY <1>2, <1>4 DEF Successor, Token, SessionAssumption
<1>6. held' = held
  BY DEF Deliver
<1>7. Bundle(jar)'
  BY <1>2, <1>3 DEF Bundle
<1> HIDE DEF new, old
<1>8. ~crossed' => /\ ~crossed /\ jar.refresh # None /\ jar.refresh \in Present
                   /\ jar.refresh \in Token /\ jar.refresh.login = new.login
                   /\ jar.refresh.gen <= new.gen
  <2>1. ~crossed' => ~Overtaken(r) /\ ~crossed
    BY DEF Deliver
  <2>2. ~Overtaken(r) => /\ jar.refresh # None /\ jar.refresh.login = new.login
                         /\ ~(new.gen < jar.refresh.gen)
    BY <1>2, <1>5 DEF Overtaken, new
  <2>3. jar.refresh # None => jar.refresh \in Present /\ jar.refresh \in Token
    BY DEF Present, SessInv, JarsWhole, Bundle
  <2> QED BY <1>5, <2>1, <2>2, <2>3 DEF Token
<1>9. Expected'
  BY <1>3, <1>5, <1>6, <1>8 DEF SessInv, Expected
<1>10. \A q \in Requests : new.login = q => request[q].pc = "done"
  BY <1>4, <1>5 DEF SessInv, Fresh, At
<1>11. \A u \in Present : u.login = new.login => u.kept = new.kept
  BY <1>4, <1>5 DEF SessInv, OneChoice
<1>12. ~crossed' => \A u \in Present : u.login = new.login => u.gen <= new.gen
  <2>1. \A u \in Present : u \in Token
    BY DEF Present, SessInv, JarsWhole, Bundle
  <2>2. ~crossed' => \A u \in Present : u.login = new.login => u.gen <= jar.refresh.gen
    BY <1>8 DEF SessInv, Newest
  <2>3. ASSUME ~crossed', NEW u \in Present, u.login = new.login PROVE u.gen <= new.gen
    <3>1. /\ u.gen \in Nat /\ new.gen \in Nat /\ jar.refresh.gen \in Nat
          /\ u.gen <= jar.refresh.gen /\ jar.refresh.gen <= new.gen
      BY <1>5, <1>8, <2>1, <2>2, <2>3 DEF Token
    <3> QED BY ONLY <3>1
  <2> QED BY <2>3
<1>13. ~failed /\ ~crossed' => Usable(new)
  <2> SUFFICES ASSUME ~failed, ~crossed' PROVE Usable(new)
    OBVIOUS
  <2>1. CASE new.gen = jar.refresh.gen
    <3>1. jar.refresh.kept = new.kept
      BY <1>8, <1>11
    <3>2. jar.refresh = new
      BY <1>5, <1>8, <2>1, <3>1 DEF Token
    <3> QED BY <1>8, <3>2 DEF SessInv, AllUsable
  <2>2. CASE new.gen # jar.refresh.gen
    <3>1. new \notin Present
      BY <1>5, <1>8, <2>2 DEF SessInv, Newest, Token
    <3> QED BY <1>5, <3>1 DEF Present, Usable, Unspent
  <2> QED BY <2>1, <2>2
<1> QED BY <1>1, <1>3, <1>5, <1>7, <1>9, <1>10, <1>11, <1>12, <1>13, Delivered

LEMMA DeliverKeeps ==
  ASSUME SessInv, SessionAssumption, NEW r \in Requests, Deliver(r)
  PROVE  SessInv'
<1>1. Phase(r) /\ request[r].pc = "answered"
  BY DEF SessInv, Deliver, At
<1>2. kind(r) = "sign-out" => kind(r) \notin Opens
  BY DEF Opens
<1>3. \/ kind(r) \in Opens /\ (Begins(r) \/ Passes(r)) /\ kind(r) # "sign-out"
      \/ kind(r) = "sign-out" /\ request[r].sets = Cleared /\ kind(r) \notin Opens
      \/ /\ kind(r) \notin Opens /\ kind(r) # "sign-out"
         /\ Carries(r) \/ Clears(r) \/ Passes(r)
  BY <1>1, <1>2 DEF Phase
<1>4. Clears(r) => request[r].sets = Cleared
  BY DEF Clears
<1> QED BY <1>3, <1>4, PassesKeeps, BeginsKeeps, GoneKeeps, CarriesKeeps

-----------------------------------------------------------------------------
(* The provider and the browser let tokens and cookies expire.             *)
LEMMA ExpiryKeeps ==
  ASSUME SessInv, NEW token, AccessExpires(token) \/ ShareExpires(token)
  PROVE  SessInv'
<1>1. /\ jar' = jar /\ held' = held /\ crossed' = crossed /\ request' = request
      /\ rotated' = rotated /\ revoked' = revoked
      /\ failed => failed'
  <2>1. CASE AccessExpires(token)
    BY <2>1 DEF AccessExpires, Handler
  <2>2. CASE ShareExpires(token)
    BY <2>2 DEF ShareExpires, Handler
  <2> QED BY <2>1, <2>2
<1>2. \A q \in Requests : Phase(q)'
  BY <1>1, PhaseStays DEF SessInv
<1>3. JarsWhole' /\ Present' = Present
  BY <1>1 DEF SessInv, JarsWhole, Bundle, sent, Present
<1>4. Fresh' /\ OneChoice' /\ Newest' /\ Expected'
  BY <1>1, <1>3 DEF SessInv, Fresh, OneChoice, Newest, At, Expected
<1>5. ASSUME NEW x, Usable(x),
             share' = share \/ (share' = share \ {token} /\ x # token)
      PROVE  x # None /\ x.login \notin revoked' =>
               \/ x \notin rotated' \/ x \in share'
               \/ \E q \in Requests : request'[q].pc = "rotated" /\ request'[q].sent.refresh = x
  BY <1>1, <1>5 DEF Usable, Unspent, At, sent
<1>6. AllUsable'
  <2> SUFFICES ASSUME ~failed', ~crossed'
               PROVE  /\ Usable(jar.refresh)'
                      /\ \A q \in Requests : request'[q].pc \in Busy => Usable(sent(q).refresh)'
    BY DEF AllUsable
  <2>1. Usable(jar.refresh) /\ \A q \in Requests : request[q].pc \in Busy => Usable(sent(q).refresh)
    BY <1>1 DEF SessInv, AllUsable
  <2>2. \/ share' = share
        \/ /\ share' = share \ {token} /\ jar.refresh # token
           /\ \A q \in Requests : request[q].pc \in Busy => sent(q).refresh # token
    BY DEF AccessExpires, ShareExpires, Busy
  <2>3. Usable(jar.refresh)'
    BY <1>1, <1>5, <2>1, <2>2 DEF Usable, Unspent, At, sent
  <2>4. ASSUME NEW q \in Requests, request'[q].pc \in Busy PROVE Usable(sent(q).refresh)'
    <3>1. /\ Usable(request'[q].sent.refresh)
          /\ share' = share \/ (share' = share \ {token} /\ request'[q].sent.refresh # token)
      BY <1>1, <2>1, <2>2, <2>4 DEF sent
    <3> QED BY <1>5, <3>1 DEF Usable, Unspent, At, sent
  <2> QED BY <2>3, <2>4
<1> QED BY <1>1, <1>2, <1>3, <1>4, <1>6 DEF SessInv

LEMMA CookieExpiryKeeps ==
  ASSUME SessInv, AccessCookieExpires
  PROVE  SessInv'
<1>1. /\ request' = request /\ held' = held /\ crossed' = crossed /\ failed' = failed
      /\ rotated' = rotated /\ revoked' = revoked /\ share' = share
      /\ jar' = [jar EXCEPT !["access"] = None] /\ DOMAIN jar = Cookies
  BY DEF AccessCookieExpires, provider, SessInv, JarsWhole
<1>2. /\ DOMAIN jar' = Cookies /\ jar'["access"] = None
      /\ jar'["refresh"] = jar["refresh"] /\ jar'["remember"] = jar["remember"]
  BY <1>1 DEF Cookies
<1>3. JarsWhole'
  BY <1>1, <1>2 DEF SessInv, JarsWhole, Bundle, sent
<1>4. \A q \in Requests : Phase(q)'
  BY <1>1, PhaseStays DEF SessInv
<1>5. Present' = Present
  BY <1>1, <1>2 DEF Present, sent
<1>6. Fresh' /\ OneChoice' /\ Newest' /\ Expected'
  BY <1>1, <1>2, <1>5 DEF SessInv, Fresh, OneChoice, Newest, At, Expected
<1>7. AllUsable'
  BY <1>1, <1>2 DEF SessInv, AllUsable, Usable, Unspent, At, sent
<1> QED BY <1>1, <1>3, <1>4, <1>6, <1>7 DEF SessInv

LEMMA SessionStep ==
  ASSUME SessInv, SessionAssumption, [SessionNext]_sessionVars
  PROVE  SessInv'
<1>1. ASSUME NEW r \in Requests, SendSome(r) \/ Deliver(r) \/ LoseAnswer(r)
      PROVE  SessInv'
  BY <1>1, SendKeeps, DeliverKeeps, LoseAnswerKeeps
<1>2. ASSUME NEW r \in Requests, CurrentUser(r)
      PROVE  SessInv'
  BY <1>2, CheckKeeps, NoUserKeeps, RenewalKeeps, RotationKeeps, ClearingKeeps, FoundKeeps
     DEF CurrentUser
<1>3. ASSUME NEW r \in Requests, Routes(r)
      PROVE  SessInv'
  BY <1>3, MeKeeps, CloudKeeps, RefreshRouteKeeps, EnteringKeeps, SignOutKeeps, FlowKeeps,
     GoogleKeeps DEF Routes
<1>4. CASE \E token \in live \cup share : AccessExpires(token) \/ ShareExpires(token)
  BY <1>4, ExpiryKeeps
<1>5. CASE AccessCookieExpires
  BY <1>5, CookieExpiryKeeps
<1>6. CASE UNCHANGED sessionVars
  <2>1. /\ request' = request /\ held' = held /\ crossed' = crossed /\ failed' = failed
        /\ rotated' = rotated /\ revoked' = revoked /\ share' = share
        /\ jar' = jar
    BY <1>6 DEF sessionVars, provider
  <2>2. \A q \in Requests : Phase(q)'
    BY <2>1, PhaseStays DEF SessInv
  <2>3. JarsWhole' /\ Present' = Present
    BY <2>1 DEF SessInv, JarsWhole, Bundle, sent, Present
  <2>4. Fresh' /\ OneChoice' /\ Newest' /\ Expected'
    BY <2>1, <2>3 DEF SessInv, Fresh, OneChoice, Newest, At, Expected
  <2>5. AllUsable'
    BY <2>1 DEF SessInv, AllUsable, Usable, Unspent, At, sent
  <2> QED BY <2>1, <2>2, <2>3, <2>4, <2>5 DEF SessInv
<1> QED BY <1>1, <1>2, <1>3, <1>4, <1>5, <1>6 DEF SessionNext

LEMMA SessionInvariant == SessionSpec => []SessInv
<1>1. SessionInit => SessInv
  BY SessionStart, SessionAssumption
<1>2. SessInv /\ [SessionNext]_sessionVars => SessInv'
  BY SessionStep, SessionAssumption
<1> QED BY <1>1, <1>2, PTL DEF SessionSpec

(* However many tabs renew the session, lose answers or fail after the     *)
(* renewal, get_optional_current_user and the routes leave the browser     *)
(* with a refresh token of its user's login that is not spent for nothing. *)
THEOREM SessionNotLost == SessionSpec => []SessionKept
<1>1. SessInv => SessionKept
  BY DEF SessInv, Expected, AllUsable, Usable, Unspent, SessionKept
<1> QED BY <1>1, SessionInvariant, PTL

(* set_session_cookies keeps the remember marker that the user chose when  *)
(* the login of the tokens began, on either of the two ways to renew it.   *)
THEOREM ChoiceRemembered == SessionSpec => []MarkerMatchesLogin
<1>1. SessInv => MarkerMatchesLogin
  BY DEF SessInv, JarsWhole, Bundle, MarkerMatchesLogin
<1> QED BY <1>1, SessionInvariant, PTL
=============================================================================
