------------------------ MODULE MCRefreshCoordinator ------------------------
(* Three tabs with one token, whose first request the provider may never   *)
(* answer.  Behaviours of other kinds ("part") are three requests of a     *)
(* browser that keeps its session, and those of the rate limiter in front  *)
(* of the authentication routes; the three share no variable.              *)
EXTENDS RefreshCoordinator, RateLimiter, AuthSession

CONSTANTS r1, r2, r3, near, far, other

VARIABLE part

mcVars == <<part, vars, limiterVars, sessionVars>>

MCForwarded == {<<>>, <<other, far>>, <<NoAddress>>}
SessionOnlyOrOlder == {"0", None}

MCInit ==
  /\ part \in {"refresh", "limiter", "session"}
  /\ Init
  /\ LimiterInit
  /\ SessionInit
  /\ part # "session" => jar = EmptyJar

MCNext ==
  \/ part = "refresh" /\ Next /\ UNCHANGED <<part, limiterVars, sessionVars>>
  \/ part = "limiter" /\ LimiterNext /\ UNCHANGED <<part, vars, sessionVars>>
  \/ part = "session" /\ SessionNext /\ UNCHANGED <<part, vars, limiterVars>>

MCSpec == MCInit /\ [][MCNext]_mcVars

(* Threads run and bounded waits end, as in FairSpec.                      *)
Runs(A) == A /\ part = "refresh" /\ UNCHANGED <<part, limiterVars, sessionVars>>

MCFairSpec ==
  /\ MCSpec
  /\ \A t \in Threads : WF_mcVars(Runs(Coordinate(t)))
  /\ \A t \in Answering : WF_mcVars(Runs(Provider(t)))
=============================================================================
