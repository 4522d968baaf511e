------------------------------ MODULE CacheCleanup ------------------------------
(* When the browser's API cache (src/frontend/api/cache.js) drops expired      *)
(* records of its own accord: a sweep cleans one category after the other in   *)
(* the idle time of the browser, and five minutes after its end a timer starts *)
(* the next one.  One category, any, is followed: whether the tab's memory     *)
(* holds an expired record of it, and whether its copy in localStorage can be  *)
(* read.  ClientCache models the records themselves.                           *)
EXTENDS Naturals

CONSTANT CategoryCount  \* the number of categories; categories[c] is c, from 0

ASSUME CleanupAssumption == CategoryCount \in Nat \ {0}

VARIABLES
    requestIdleCallback,  \* whether the browser has it
    cursor,               \* the category the sweep cleans next
    sweep,                \* what is scheduled: its next "run", or the "timer"
    followed,             \* the category the next two speak of
    expired,              \* the memory holds an expired record of it
    unreadable            \* its stored copy cannot be read

cleanupVars == <<requestIdleCallback, cursor, sweep, followed, expired, unreadable>>

Categories == 0 .. CategoryCount - 1

CleanupInit ==
    /\ requestIdleCallback \in BOOLEAN
    /\ cursor = 0 /\ sweep = "run"
    /\ followed \in Categories
    /\ expired = FALSE
    /\ unreadable \in BOOLEAN

-----------------------------------------------------------------------------
(* The sweep *)

\* The exception of a copy that cannot be read passes over the memory.
cleanupStorageCategories(cs) ==
    expired' = (expired /\ (followed \notin cs \/ unreadable))

\* How many categories fit into the idle time a run is given.  It is none when
\* the run was started by its time-out, and always without requestIdleCallback.
Deadlines == IF requestIdleCallback THEN 0 .. CategoryCount ELSE {0}

\* The first category of a sweep is cleaned without a look at the deadline.
run(deadline) ==
    /\ sweep = "run"
    /\ cursor' = (LET room == IF cursor = 0 /\ deadline = 0 THEN 1 ELSE deadline
                  IN  IF cursor + room < CategoryCount THEN cursor + room
                      ELSE CategoryCount)
    /\ cleanupStorageCategories(cursor .. cursor' - 1)
    /\ sweep' = IF cursor' < CategoryCount THEN "run" ELSE "timer"
    /\ UNCHANGED <<requestIdleCallback, followed, unreadable>>

\* Variant, for a mutant: the next sweep begins where the last one ended.
scheduleFromCursor == sweep' = "run" /\ UNCHANGED cursor

scheduleCleanup == sweep' = "run" /\ cursor' = 0

cleanupTimer ==
    /\ sweep = "timer"
    /\ scheduleCleanup
    /\ UNCHANGED <<requestIdleCallback, followed, expired, unreadable>>

-----------------------------------------------------------------------------
(* Environment *)

\* A record of the category expires; reads, answers, invalidations and the
\* messages of other tabs replace or drop what has expired.
Records ==
    /\ expired' \in BOOLEAN
    /\ UNCHANGED <<requestIdleCallback, cursor, sweep, followed, unreadable>>

\* The stored copy becomes unreadable, or is written anew.
Copy ==
    /\ unreadable' \in BOOLEAN
    /\ UNCHANGED <<requestIdleCallback, cursor, sweep, followed, expired>>

CleanupNext ==
    \/ \E deadline \in Deadlines : run(deadline)
    \/ cleanupTimer
    \/ Records \/ Copy

CleanupSpec == CleanupInit /\ [][CleanupNext]_cleanupVars

\* A run that was queued is started and the timer goes off.  A browser that has
\* idle callbacks is idle again and again while a run waits: it gives one of
\* them time for a category.
CleanupFairness ==
    /\ WF_cleanupVars(run(0))
    /\ WF_cleanupVars(\E deadline \in Deadlines \ {0} : run(deadline))
    /\ WF_cleanupVars(cleanupTimer)

CleanupFairSpec == CleanupSpec /\ CleanupFairness

-----------------------------------------------------------------------------
(* Properties *)

\* An expired record leaves the memory of the tab, though nobody asks for it
\* again, unless the stored copy of its category is unreadable when its turn
\* comes.  The code gives this only where the browser has requestIdleCallback:
\* without it timeRemaining() is 0, so that a run cleans the first category and
\* then queues itself again and again, and no timer is ever set
\* (cache.js:46-52, 249-272).
Swept == requestIdleCallback => []<>(~expired \/ unreadable)

=============================================================================
