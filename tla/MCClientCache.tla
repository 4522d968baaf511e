---------------------------- MODULE MCClientCache ----------------------------
(* Two tabs of one browser and one url; behaviours of another kind ("part")    *)
(* are the schedule of the cleanup, which shares no variable with the records. *)
EXTENDS ClientCache, CacheCleanup

VARIABLE part

mcVars == <<part, cacheVars, cleanupVars>>

MCInit ==
    /\ part \in {"records", "cleanup"}
    /\ CacheInit /\ CleanupInit
    /\ part # "cleanup" => requestIdleCallback /\ followed = 0 /\ unreadable

MCNext ==
    \/ part = "records" /\ CacheNext /\ UNCHANGED <<part, cleanupVars>>
    \/ part = "cleanup" /\ CleanupNext /\ UNCHANGED <<part, cacheVars>>

(* CacheFairness and CleanupFairness, each in its part.                        *)
InRecords(A) == part = "records" /\ A /\ UNCHANGED <<part, cleanupVars>>
InCleanup(A) == part = "cleanup" /\ A /\ UNCHANGED <<part, cacheVars>>

MCFairSpec ==
    /\ MCInit /\ [][MCNext]_mcVars
    /\ WF_mcVars(InRecords(Tick))
    /\ \A t \in Used, k \in Keys : WF_mcVars(InRecords(TimeOut(t, k) \/ Retry(t, k)))
    /\ WF_mcVars(InCleanup(run(0)))
    /\ WF_mcVars(InCleanup(\E deadline \in Deadlines \ {0} : run(deadline)))
    /\ WF_mcVars(InCleanup(cleanupTimer))
=============================================================================
