------------------------- MODULE RefreshCoordinator -------------------------
(***************************************************************************)
(* coordinated_refresh_session (app/auth.py): requests that present the    *)
(* same refresh token share one rotation of it.  Supabase accepts a token  *)
(* once, so a second call is refused, and a browser that is refused loses  *)
(* its session.                                                            *)
(*                                                                         *)
(* The two maps of the code are keyed by the hash of the token and their   *)
(* keys do not interact: this is the state of one key.  A step is a        *)
(* critical section of _refresh_share_lock, or the provider's doing.       *)
(***************************************************************************)
EXTENDS Integers

CONSTANTS
  Threads,   \* requests with this token; each one is made once
  Answering, \* the requests whose provider calls end; the others may hang
  NoEvent,
  Never,
  ShareTTL,  \* _REFRESH_SHARE_TTL_SECONDS
  MaxTime    \* bound: last tick of the clock

(* A request leads at most once: its threading.Event has its name.         *)
ASSUME RefreshAssumption ==
  /\ Answering \subseteq Threads /\ NoEvent \notin Threads /\ Never \notin Nat
  /\ ShareTTL \in Nat \ {0} /\ MaxTime \in Nat

VARIABLES
  shared,    \* _refresh_share_cache[key]: when the shared session expires
  inflight,  \* _refresh_inflight[key]
  signalled, \* the events that are set
  thread,    \* the requests
  consumed,  \* the provider has rotated the token
  abandoned, \* history: events that a follower removed before they were set
  now

vars == <<shared, inflight, signalled, thread, consumed, abandoned, now>>

(* A leader is "calling" the provider, "rotated" once the provider has     *)
(* acted, then holds a session or an error until its finally clause.       *)
Leading == {"calling", "rotated", "failed", "finishing"}

Thread == [pc : {"idle", "entering", "waiting", "done"} \cup Leading,
           event : Threads \cup {NoEvent},
           asked : Nat,   \* time.monotonic() at the last entry
           result : {"none", "session", "error"}]

Init ==
  /\ shared = Never
  /\ inflight = NoEvent
  /\ signalled = {}
  /\ thread = [t \in Threads |->
                 [pc |-> "idle", event |-> NoEvent, asked |-> 0, result |-> "none"]]
  /\ consumed = FALSE
  /\ abandoned = {}
  /\ now = 0

SharedAt(time) == shared # Never /\ shared > time

SharedNow == SharedAt(now)

Move(t, pc, result) ==
  thread' = [thread EXCEPT ![t] = [@ EXCEPT !.pc = pc, !.result = result]]

Reenter(t) ==
  thread' = [thread EXCEPT ![t] = [@ EXCEPT !.pc = "entering", !.asked = now]]

Enter(t) ==
  /\ thread[t].pc = "idle"
  /\ Reenter(t)
  /\ UNCHANGED <<shared, inflight, signalled, consumed, abandoned, now>>

(* The first critical section prunes what had expired when the clock was   *)
(* read; a session that is left answers ...                                *)
TakeShared(t) ==
  /\ thread[t].pc = "entering"
  /\ SharedAt(thread[t].asked)
  /\ Move(t, "done", "session")
  /\ UNCHANGED <<shared, inflight, signalled, consumed, abandoned, now>>

(* ... without one, the request leads when nobody else does ...            *)
Lead(t) ==
  /\ thread[t].pc = "entering"
  /\ ~SharedAt(thread[t].asked)
  /\ inflight = NoEvent
  /\ shared' = Never
  /\ inflight' = t
  /\ thread' = [thread EXCEPT ![t] = [@ EXCEPT !.pc = "calling", !.event = t]]
  /\ UNCHANGED <<signalled, consumed, abandoned, now>>

(* ... and otherwise waits for the leader's event.                         *)
Follow(t) ==
  /\ thread[t].pc = "entering"
  /\ ~SharedAt(thread[t].asked)
  /\ inflight # NoEvent
  /\ shared' = Never
  /\ thread' = [thread EXCEPT ![t] = [@ EXCEPT !.pc = "waiting", !.event = inflight]]
  /\ UNCHANGED <<inflight, signalled, consumed, abandoned, now>>

LeaveEvent(t) ==   \* mutation: a timed-out leader's event stays registered
  /\ IF SharedNow THEN Move(t, "done", "session") ELSE Reenter(t)
  /\ UNCHANGED <<inflight, abandoned>>

(* The second critical section of a follower: take what the leader shared, *)
(* or remove the event it waited for and enter again.                      *)
Resume(t) ==
  IF SharedNow
  THEN Move(t, "done", "session") /\ UNCHANGED <<inflight, abandoned>>
  ELSE /\ Reenter(t)
       /\ IF inflight = thread[t].event
          THEN inflight' = NoEvent /\ abandoned' = abandoned \cup {thread[t].event}
          ELSE UNCHANGED <<inflight, abandoned>>

Wake(t) ==
  /\ thread[t].pc = "waiting"
  /\ thread[t].event \in signalled
  /\ Resume(t)
  /\ UNCHANGED <<shared, signalled, consumed, now>>

(* The bounded wait ends first.                                            *)
TimeOut(t) ==
  /\ thread[t].pc = "waiting"
  /\ Resume(t)
  /\ UNCHANGED <<shared, signalled, consumed, now>>

(***************************************************************************)
(* The provider call of a leader.                                          *)
(***************************************************************************)
Rotate(t) ==
  /\ thread[t].pc = "calling"
  /\ ~consumed
  /\ consumed' = TRUE
  /\ Move(t, "rotated", "none")
  /\ UNCHANGED <<shared, inflight, signalled, abandoned, now>>

(* A refusal, an outage, or an answer that got lost.                       *)
Fail(t) ==
  /\ thread[t].pc \in {"calling", "rotated"}
  /\ Move(t, "failed", "none")
  /\ UNCHANGED <<shared, inflight, signalled, consumed, abandoned, now>>

(* The new session is shared for ShareTTL.                                 *)
Succeed(t) ==
  /\ thread[t].pc = "rotated"
  /\ shared' = now + ShareTTL
  /\ Move(t, "finishing", "session")
  /\ UNCHANGED <<inflight, signalled, consumed, abandoned, now>>

(* except AuthProviderError: another leader may have shared a session.     *)
Recover(t) ==
  /\ thread[t].pc = "failed"
  /\ Move(t, "finishing", IF SharedNow THEN "session" ELSE "error")
  /\ UNCHANGED <<shared, inflight, signalled, consumed, abandoned, now>>

FinishAny(t) ==   \* mutation: the finally clause removes whatever is there
  /\ thread[t].pc = "finishing"
  /\ Move(t, "done", thread[t].result)
  /\ inflight' = NoEvent
  /\ signalled' = signalled \cup {thread[t].event}
  /\ UNCHANGED <<shared, consumed, abandoned, now>>

(* The finally clause: only an event that is still registered is set.      *)
Finish(t) ==
  /\ thread[t].pc = "finishing"
  /\ Move(t, "done", thread[t].result)
  /\ IF inflight = thread[t].event
     THEN inflight' = NoEvent /\ signalled' = signalled \cup {thread[t].event}
     ELSE UNCHANGED <<inflight, signalled>>
  /\ UNCHANGED <<shared, consumed, abandoned, now>>

Tick ==
  /\ now < MaxTime
  /\ now' = now + 1
  /\ UNCHANGED <<shared, inflight, signalled, thread, consumed, abandoned>>

Coordinate(t) ==
  \/ TakeShared(t) \/ Lead(t) \/ Follow(t) \/ Wake(t) \/ TimeOut(t)
  \/ Recover(t) \/ Finish(t)

Provider(t) == Rotate(t) \/ Fail(t) \/ Succeed(t)

Next ==
  \/ \E t \in Threads : Enter(t) \/ Coordinate(t) \/ Provider(t)
  \/ Tick

Spec == Init /\ [][Next]_vars

(* Threads run and bounded waits end; nothing is assumed of the provider   *)
(* calls of the requests that are not in Answering.                        *)
FairSpec ==
  /\ Spec
  /\ \A t \in Threads : WF_vars(Coordinate(t))
  /\ \A t \in Answering : WF_vars(Provider(t))

-----------------------------------------------------------------------------
(* The types of the coordinator's maps and of the requests; a request that *)
(* is done has a session or has raised.                                    *)
TypeOK ==
  /\ shared \in Nat \cup {Never}
  /\ inflight \in Threads \cup {NoEvent}
  /\ signalled \subseteq Threads
  /\ thread \in [Threads -> Thread]
  /\ \A t \in Threads : thread[t].pc \in {"finishing", "done"} => thread[t].result # "none"
  /\ consumed \in BOOLEAN
  /\ abandoned \subseteq Threads
  /\ now \in Nat

(* No stale event is left to block the token: what is registered belongs   *)
(* to a request that leads and will remove it, however many leaders were   *)
(* given up and came back late.                                            *)
FlightHasLeader ==
  inflight # NoEvent =>
    inflight \in Threads /\ thread[inflight].pc \in Leading

(* "Share one rotating-token refresh with concurrent requests": two        *)
(* requests are at the provider only after a follower gave up on one, and  *)
(* no stale event keeps the others from renewing the token.                *)
OneRefresh ==
  /\ FlightHasLeader
  /\ \A t, u \in Threads :
       /\ thread[t].pc \in Leading /\ thread[u].pc \in Leading
       /\ t \notin abandoned /\ u \notin abandoned
       => t = u

(* "a stuck provider call cannot hold all browser tabs forever": a request *)
(* returns if its own provider calls end, whoever else hangs.              *)
Returns ==
  \A t \in Answering : thread[t].pc = "entering" ~> thread[t].pc = "done"
=============================================================================
