------------------------- MODULE SingleFlightProofs -------------------------
(***************************************************************************)
(* Proofs about SingleFlight: however many threads call however many       *)
(* cached functions, each key has at most one producer, and whoever waits  *)
(* waits for a flight that is over or that a live producer will complete;  *)
(* and no call is given what had expired when it was made.                 *)
(*                                                                         *)
(* The inductive invariant ties the three maps together: a flight is       *)
(* registered for exactly one key, by exactly one thread, as long as that  *)
(* thread produces.                                                        *)
(***************************************************************************)
EXTENDS SingleFlight, TLAPS

Owns(t, k) == call[t][k].pc \in Producing

(* A producer's flight is the registered, unfinished flight of its key.    *)
OwnerRegistered ==
  \A t \in Threads, k \in Keys :
    Owns(t, k) => /\ call[t][k].flight \in Flights
                  /\ inflight[k] = call[t][k].flight
                  /\ ~flight[call[t][k].flight].done

(* A registered flight has a producer and belongs to one key only.         *)
RegisteredOwned ==
  /\ \A k \in Keys : inflight[k] # NoFlight => \E t \in Threads : Owns(t, k)
  /\ \A k, j \in Keys : inflight[k] # NoFlight /\ inflight[k] = inflight[j] => k = j

(* A value or an error is assigned before the flight is completed.         *)
AnswerAssigned ==
  \A t \in Threads, k \in Keys :
    /\ call[t][k].pc = "sharing" => call[t][k].answer # NoValue
    /\ call[t][k].pc = "completing" => flight[call[t][k].flight].answer # NoValue

WaiterCovered ==
  \A t \in Threads, k \in Keys :
    call[t][k].pc = "waiting" =>
      /\ call[t][k].flight \in Flights
      /\ IF flight[call[t][k].flight].done
         THEN flight[call[t][k].flight].answer # NoValue
         ELSE inflight[k] = call[t][k].flight

FlightInv ==
  OneProducer /\ OwnerRegistered /\ RegisteredOwned /\ AnswerAssigned /\ WaiterCovered

-----------------------------------------------------------------------------
(* What the EXCEPTs of the actions do to an activation and to a flight.    *)
PCs == {"idle", "looking", "missed", "waiting", "producing", "nested",
        "computing", "sharing", "completing", "returning"}

LEMMA PcUpdate ==
  ASSUME NEW c \in Call, NEW p \in PCs
  PROVE  LET d == [c EXCEPT !.pc = p]
         IN /\ d \in Call /\ d.pc = p /\ d.flight = c.flight
            /\ d.answer = c.answer /\ d.since = c.since
BY DEF Call, PCs

LEMMA FreshFrames ==
  ASSUME now \in Nat
  PROVE  /\ Idle \in Call /\ Idle.pc = "idle" /\ Idle.since = 0
         /\ Entered \in Call /\ Entered.pc = "looking" /\ Entered.since = now
BY DEF Idle, Entered, Call, Answer

LEMMA FlightUpdates ==
  ASSUME NEW x \in [done : BOOLEAN, answer : Answer], NEW a \in Answer
  PROVE  /\ LET y == [x EXCEPT !.answer = a]
            IN y \in [done : BOOLEAN, answer : Answer] /\ y.done = x.done /\ y.answer = a
         /\ LET y == [x EXCEPT !.done = TRUE]
            IN y \in [done : BOOLEAN, answer : Answer] /\ y.done /\ y.answer = x.answer
         /\ LET y == [done |-> FALSE, answer |-> NoValue]
            IN y \in [done : BOOLEAN, answer : Answer] /\ ~y.done
BY DEF Answer

LEMMA MoveEffect ==
  ASSUME TypeOK, NEW t \in Threads, NEW k \in Keys, NEW frame \in Call,
         Move(t, k, frame)
  PROVE  /\ call' \in [Threads -> [Keys -> Call]]
         /\ \A u \in Threads, j \in Keys :
              call'[u][j] = IF u = t /\ j = k THEN frame ELSE call[u][j]
BY DEF TypeOK, Move

LEMMA EnterNestedEffect ==
  ASSUME TypeOK, NEW t \in Threads, NEW k \in Keys, EnterNested(t, k)
  PROVE  /\ Needs[k] \in Keys /\ Needs[k] # k
         /\ call' \in [Threads -> [Keys -> Call]]
         /\ \A u \in Threads, j \in Keys :
              call'[u][j] = IF u = t /\ j = k THEN [call[t][k] EXCEPT !.pc = "nested"]
                            ELSE IF u = t /\ j = Needs[k] THEN Entered ELSE call[u][j]
<1>1. Needs[k] \in Keys /\ Needs[k] # k
  BY FlightAssumption DEF EnterNested
<1>2. call[t] \in [Keys -> Call] /\ call[t][k] \in Call
  BY DEF TypeOK
<1>3. [call[t][k] EXCEPT !.pc = "nested"] \in Call /\ Entered \in Call
  <2>1. "nested" \in PCs
    BY DEF PCs
  <2>2. [call[t][k] EXCEPT !.pc = "nested"] \in Call
    BY ONLY <1>2, <2>1, PcUpdate
  <2> QED
    BY <2>2, FreshFrames DEF TypeOK
<1> DEFINE frames == [call[t] EXCEPT ![k] = [call[t][k] EXCEPT !.pc = "nested"],
                                     ![Needs[k]] = Entered]
<1>4. call' = [call EXCEPT ![t] = frames]
  BY DEF EnterNested
<1>5. /\ frames \in [Keys -> Call]
      /\ \A j \in Keys : frames[j] = IF j = k THEN [call[t][k] EXCEPT !.pc = "nested"]
                                     ELSE IF j = Needs[k] THEN Entered ELSE call[t][j]
  BY <1>1, <1>2, <1>3
<1> HIDE DEF frames
<1> QED
  BY <1>1, <1>4, <1>5 DEF TypeOK

LEMMA ReturnEffect ==
  ASSUME TypeOK, NEW t \in Threads, NEW k \in Keys, Return(t, k)
  PROVE  /\ call' \in [Threads -> [Keys -> Call]]
         /\ \A u \in Threads, j \in Keys :
              call'[u][j] = IF u = t /\ j = k THEN Idle
                            ELSE IF u = t /\ Needs[j] = k /\ call[t][j].pc = "nested"
                            THEN [call[t][j] EXCEPT !.pc = "computing"]
                            ELSE call[u][j]
<1> DEFINE frame(j) == IF j = k THEN Idle
                       ELSE IF Needs[j] = k /\ call[t][j].pc = "nested"
                       THEN [call[t][j] EXCEPT !.pc = "computing"] ELSE call[t][j]
<1>1. call' = [call EXCEPT ![t] = [j \in Keys |-> frame(j)]]
  BY DEF Return
<1>2. \A j \in Keys : frame(j) \in Call
  <2>1. "computing" \in PCs
    BY DEF PCs
  <2>2. \A j \in Keys : call[t][j] \in Call
    BY DEF TypeOK
  <2>3. \A j \in Keys : [call[t][j] EXCEPT !.pc = "computing"] \in Call
    BY ONLY <2>1, <2>2, PcUpdate
  <2> QED
    BY <2>2, <2>3, FreshFrames DEF TypeOK
<1>3. \A j \in Keys : frame(j) = IF j = k THEN Idle
                       ELSE IF Needs[j] = k /\ call[t][j].pc = "nested"
                       THEN [call[t][j] EXCEPT !.pc = "computing"] ELSE call[t][j]
  OBVIOUS
<1> HIDE DEF frame
<1>4. call' \in [Threads -> [Keys -> Call]]
  BY <1>1, <1>2 DEF TypeOK
<1>5. \A u \in Threads, j \in Keys : call'[u][j] = IF u = t THEN frame(j) ELSE call[u][j]
  BY <1>1 DEF TypeOK
<1> QED
  BY <1>3, <1>4, <1>5

(* The activation of k in thread t goes to p with flight f and answer a,   *)
(* and keeps the time it was entered at unless it is entered now; every    *)
(* other one stays as it is.                                               *)
Becomes(t, k, p, f, a) ==
  /\ call' \in [Threads -> [Keys -> Call]]
  /\ \A u \in Threads, j \in Keys :
       /\ call'[u][j].pc = IF u = t /\ j = k THEN p ELSE call[u][j].pc
       /\ call'[u][j].flight = IF u = t /\ j = k THEN f ELSE call[u][j].flight
       /\ call'[u][j].answer = IF u = t /\ j = k THEN a ELSE call[u][j].answer
       /\ call'[u][j].since = IF u = t /\ j = k /\ p = "looking" THEN now
                              ELSE call[u][j].since

LEMMA BecomesFrame ==
  ASSUME TypeOK, NEW t \in Threads, NEW k \in Keys, NEW frame \in Call,
         Move(t, k, frame),
         frame.since = IF frame.pc = "looking" THEN now ELSE call[t][k].since
  PROVE  Becomes(t, k, frame.pc, frame.flight, frame.answer)
BY MoveEffect DEF Becomes

(* One fact per action: the activation it moves, and where to.             *)
LEMMA ActionEffects ==
  ASSUME TypeOK, NEW t \in Threads, NEW k \in Keys
  PROVE  LET c == call[t][k]
         IN /\ Enter(t, k) => Becomes(t, k, "looking", NoFlight, NoValue)
            /\ Hit(t, k) => Becomes(t, k, "returning", c.flight, store[k])
            /\ Miss(t, k) => Becomes(t, k, "missed", c.flight, c.answer)
            /\ Follow(t, k) => Becomes(t, k, "waiting", inflight[k], c.answer)
            /\ \A f \in Flights :
                 Move(t, k, [c EXCEPT !.pc = "producing", !.flight = f])
                   => Becomes(t, k, "producing", f, c.answer)
            /\ Store(t, k) => Becomes(t, k, "sharing", c.flight, now)
            /\ Share(t, k) => Becomes(t, k, "completing", c.flight, c.answer)
            /\ Fail(t, k) => Becomes(t, k, "completing", c.flight, Failed)
            /\ Complete(t, k) => Becomes(t, k, "returning", NoFlight, c.answer)
            /\ Wake(t, k) /\ c.flight \in Flights
                 => Becomes(t, k, "returning", NoFlight, flight[c.flight].answer)
<1> DEFINE c == call[t][k]
<1>1. c \in Call
  BY DEF TypeOK
<1>2. /\ now \in Answer /\ Failed \in Answer /\ inflight[k] \in Flights \cup {NoFlight}
      /\ Fresh(k) => store[k] \in Answer
      /\ c.flight \in Flights => flight[c.flight].answer \in Answer
      /\ NoFlight \in Flights \cup {NoFlight}
  BY <1>1 DEF TypeOK, Answer, Fresh
<1>3. {"returning", "missed", "waiting", "producing", "sharing", "completing"} \subseteq PCs
  BY DEF PCs
<1>4. /\ Entered \in Call /\ Entered.pc = "looking"
      /\ Entered.flight = NoFlight /\ Entered.answer = NoValue /\ Entered.since = now
  BY DEF TypeOK, Entered, Idle, Call, Answer
<1> HIDE DEF c
<1>a. ASSUME Enter(t, k) PROVE Becomes(t, k, "looking", NoFlight, NoValue)
  <2>1. Move(t, k, Entered)
    BY <1>a DEF Enter
  <2> QED
    BY <2>1, <1>4, BecomesFrame
<1>b. ASSUME Hit(t, k) PROVE Becomes(t, k, "returning", c.flight, store[k])
  <2> DEFINE d == [c EXCEPT !.pc = "returning", !.answer = store[k]]
  <2>1. Move(t, k, d) /\ Fresh(k)
    BY <1>b DEF Hit, c
  <2>2. "returning" \in PCs /\ store[k] \in Answer
    BY <1>2, <1>3, <2>1
  <2>3. /\ d \in Call /\ d.pc = "returning" /\ d.flight = c.flight
        /\ d.answer = store[k] /\ d.since = c.since
    BY ONLY <1>1, <2>2 DEF Call, PCs
  <2> QED
    BY <2>1, <2>3, BecomesFrame DEF c
<1>c. ASSUME Miss(t, k) PROVE Becomes(t, k, "missed", c.flight, c.answer)
  <2> DEFINE d == [c EXCEPT !.pc = "missed"]
  <2>1. Move(t, k, d)
    BY <1>c DEF Miss, c
  <2>2. "missed" \in PCs
    BY <1>3
  <2>3. /\ d \in Call /\ d.pc = "missed" /\ d.flight = c.flight
        /\ d.answer = c.answer /\ d.since = c.since
    BY ONLY <1>1, <2>2, PcUpdate
  <2> HIDE DEF d
  <2> QED
    BY <2>1, <2>3, BecomesFrame DEF c
<1>d. ASSUME Follow(t, k) PROVE Becomes(t, k, "waiting", inflight[k], c.answer)
  <2> DEFINE d == [c EXCEPT !.pc = "waiting", !.flight = inflight[k]]
  <2>1. Move(t, k, d)
    BY <1>d DEF Follow, c
  <2>2. "waiting" \in PCs /\ inflight[k] \in Flights \cup {NoFlight}
    BY <1>2, <1>3
  <2>3. /\ d \in Call /\ d.pc = "waiting" /\ d.flight = inflight[k]
        /\ d.answer = c.answer /\ d.since = c.since
    BY ONLY <1>1, <2>2 DEF Call, PCs
  <2> QED
    BY <2>1, <2>3, BecomesFrame DEF c
<1>e. ASSUME NEW f \in Flights, Move(t, k, [c EXCEPT !.pc = "producing", !.flight = f])
      PROVE  Becomes(t, k, "producing", f, c.answer)
  <2> DEFINE d == [c EXCEPT !.pc = "producing", !.flight = f]
  <2>1. Move(t, k, d)
    BY <1>e
  <2>2. "producing" \in PCs /\ f \in Flights \cup {NoFlight}
    BY <1>3
  <2>3. /\ d \in Call /\ d.pc = "producing" /\ d.flight = f
        /\ d.answer = c.answer /\ d.since = c.since
    BY ONLY <1>1, <2>2 DEF Call, PCs
  <2> HIDE DEF d
  <2> QED
    BY <2>1, <2>3, BecomesFrame DEF c
<1>f. ASSUME Store(t, k) PROVE Becomes(t, k, "sharing", c.flight, now)
  <2> DEFINE d == [c EXCEPT !.pc = "sharing", !.answer = now]
  <2>1. Move(t, k, d)
    BY <1>f DEF Store, c
  <2>2. "sharing" \in PCs /\ now \in Answer
    BY <1>2, <1>3
  <2>3. /\ d \in Call /\ d.pc = "sharing" /\ d.flight = c.flight
        /\ d.answer = now /\ d.since = c.since
    BY ONLY <1>1, <2>2 DEF Call, PCs
  <2> HIDE DEF d
  <2> QED
    BY <2>1, <2>3, BecomesFrame DEF c
<1>g. ASSUME Share(t, k) PROVE Becomes(t, k, "completing", c.flight, c.answer)
  <2> DEFINE d == [c EXCEPT !.pc = "completing"]
  <2>1. Move(t, k, d)
    BY <1>g DEF Share, c
  <2>2. "completing" \in PCs
    BY <1>3
  <2>3. /\ d \in Call /\ d.pc = "completing" /\ d.flight = c.flight
        /\ d.answer = c.answer /\ d.since = c.since
    BY ONLY <1>1, <2>2, PcUpdate
  <2> HIDE DEF d
  <2> QED
    BY <2>1, <2>3, BecomesFrame DEF c
<1>h. ASSUME Fail(t, k) PROVE Becomes(t, k, "completing", c.flight, Failed)
  <2> DEFINE d == [c EXCEPT !.pc = "completing", !.answer = Failed]
  <2>1. Move(t, k, d)
    BY <1>h DEF Fail, c
  <2>2. "completing" \in PCs /\ Failed \in Answer
    BY <1>2, <1>3
  <2>3. /\ d \in Call /\ d.pc = "completing" /\ d.flight = c.flight
        /\ d.answer = Failed /\ d.since = c.since
    BY ONLY <1>1, <2>2 DEF Call, PCs
  <2> HIDE DEF d
  <2> QED
    BY <2>1, <2>3, BecomesFrame DEF c
<1>i. ASSUME Complete(t, k) PROVE Becomes(t, k, "returning", NoFlight, c.answer)
  <2> DEFINE d == [c EXCEPT !.pc = "returning", !.flight = NoFlight]
  <2>1. Move(t, k, d)
    BY <1>i DEF Complete, c
  <2>2. "returning" \in PCs /\ NoFlight \in Flights \cup {NoFlight}
    BY <1>3
  <2>3. /\ d \in Call /\ d.pc = "returning" /\ d.flight = NoFlight
        /\ d.answer = c.answer /\ d.since = c.since
    BY ONLY <1>1, <2>2 DEF Call, PCs
  <2> HIDE DEF d
  <2> QED
    BY <2>1, <2>3, BecomesFrame DEF c
<1>j. ASSUME Wake(t, k), c.flight \in Flights
      PROVE  Becomes(t, k, "returning", NoFlight, flight[c.flight].answer)
  <2> DEFINE a == flight[c.flight].answer
  <2> DEFINE d == [c EXCEPT !.pc = "returning", !.flight = NoFlight, !.answer = a]
  <2>1. Move(t, k, d)
    BY <1>j DEF Wake, c
  <2>2. "returning" \in PCs /\ NoFlight \in Flights \cup {NoFlight} /\ a \in Answer
    BY <1>2, <1>3, <1>j
  <2> HIDE DEF a
  <2>3. /\ d \in Call /\ d.pc = "returning" /\ d.flight = NoFlight
        /\ d.answer = a /\ d.since = c.since
    BY ONLY <1>1, <2>2 DEF Call, PCs
  <2> HIDE DEF d
  <2>4. Becomes(t, k, "returning", NoFlight, a)
    BY <2>1, <2>3, BecomesFrame DEF c
  <2> QED
    BY <2>4 DEF a
<1> QED
  BY <1>a, <1>b, <1>c, <1>d, <1>e, <1>f, <1>g, <1>h, <1>i, <1>j DEF c

-----------------------------------------------------------------------------
LEMMA InitInv == Init => TypeOK /\ FlightInv
BY FlightAssumption, FreshFrames
   DEF Init, TypeOK, FlightInv, OneProducer, OwnerRegistered, RegisteredOwned,
       AnswerAssigned, WaiterCovered, Owns, Producing, Idle, Call, Answer

(* No action of Step touches more than its own activation, its key's entry *)
(* in the two maps, and its own flight.                                    *)
LEMMA TypeStep ==
  ASSUME TypeOK, FlightInv, [Next]_vars
  PROVE  TypeOK'
<1>1. CASE UNCHANGED vars
  BY <1>1 DEF vars, TypeOK
<1>2. ASSUME NEW t \in Threads, NEW k \in Keys, Enter(t, k) PROVE TypeOK'
  BY <1>2, ActionEffects DEF TypeOK, Enter, Becomes
<1>3. ASSUME NEW t \in Threads, NEW k \in Keys, EnterNested(t, k) PROVE TypeOK'
  BY <1>3, EnterNestedEffect DEF TypeOK, EnterNested
<1>4. ASSUME NEW t \in Threads, NEW k \in Keys, Hit(t, k) PROVE TypeOK'
  BY <1>4, ActionEffects DEF TypeOK, Hit, Becomes
<1>5. ASSUME NEW t \in Threads, NEW k \in Keys, Miss(t, k) PROVE TypeOK'
  BY <1>5, ActionEffects DEF TypeOK, Miss, Becomes
<1>6. ASSUME NEW t \in Threads, NEW k \in Keys, Follow(t, k) PROVE TypeOK'
  BY <1>6, ActionEffects DEF TypeOK, Follow, Becomes
<1>7. ASSUME NEW t \in Threads, NEW k \in Keys, Lead(t, k) PROVE TypeOK'
  <2>1. PICK f \in Flights :
          /\ inflight' = [inflight EXCEPT ![k] = f]
          /\ flight' = [flight EXCEPT ![f] = [done |-> FALSE, answer |-> NoValue]]
          /\ Move(t, k, [call[t][k] EXCEPT !.pc = "producing", !.flight = f])
    BY <1>7 DEF Lead, NewFlight
  <2>2. Becomes(t, k, "producing", f, call[t][k].answer)
    BY <2>1, ActionEffects
  <2>3. [done |-> FALSE, answer |-> NoValue] \in [done : BOOLEAN, answer : Answer]
    BY DEF Answer
  <2> QED
    BY <1>7, <2>1, <2>2, <2>3 DEF TypeOK, Lead, Becomes
<1>8. ASSUME NEW t \in Threads, NEW k \in Keys, Store(t, k) PROVE TypeOK'
  BY <1>8, ActionEffects DEF TypeOK, Store, Becomes
<1>9. ASSUME NEW t \in Threads, NEW k \in Keys, Share(t, k) PROVE TypeOK'
  <2>1. Owns(t, k) /\ call[t][k].flight \in Flights /\ call[t][k].answer \in Answer
    BY <1>9 DEF Share, Owns, Producing, FlightInv, OwnerRegistered, TypeOK, Call
  <2>2. [flight[call[t][k].flight] EXCEPT !.answer = call[t][k].answer]
          \in [done : BOOLEAN, answer : Answer]
    BY <2>1, FlightUpdates DEF TypeOK
  <2> QED
    BY <1>9, <2>1, <2>2, ActionEffects DEF TypeOK, Share, Becomes
<1>10. ASSUME NEW t \in Threads, NEW k \in Keys, Fail(t, k) PROVE TypeOK'
  <2>1. Owns(t, k) /\ call[t][k].flight \in Flights /\ Failed \in Answer
    BY <1>10 DEF Fail, Owns, Producing, FlightInv, OwnerRegistered, Answer
  <2>2. [flight[call[t][k].flight] EXCEPT !.answer = Failed]
          \in [done : BOOLEAN, answer : Answer]
    BY <2>1, FlightUpdates DEF TypeOK
  <2> QED
    BY <1>10, <2>1, <2>2, ActionEffects DEF TypeOK, Fail, Becomes
<1>11. ASSUME NEW t \in Threads, NEW k \in Keys, Complete(t, k) PROVE TypeOK'
  <2>1. Owns(t, k) /\ call[t][k].flight \in Flights
    BY <1>11 DEF Complete, Owns, Producing, FlightInv, OwnerRegistered
  <2>2. [flight[call[t][k].flight] EXCEPT !.done = TRUE] \in [done : BOOLEAN, answer : Answer]
    BY <2>1 DEF TypeOK
  <2>3. flight' \in [Flights -> [done : BOOLEAN, answer : Answer]]
    BY <1>11, <2>1, <2>2 DEF TypeOK, Complete
  <2>4. inflight' \in [Keys -> Flights \cup {NoFlight}]
    BY <1>11 DEF TypeOK, Complete
  <2> QED
    BY <1>11, <2>3, <2>4, ActionEffects DEF TypeOK, Complete, Becomes
<1>12. ASSUME NEW t \in Threads, NEW k \in Keys, Wake(t, k) PROVE TypeOK'
  <2>1. call[t][k].flight \in Flights
    BY <1>12 DEF Wake, FlightInv, WaiterCovered
  <2> QED
    BY <1>12, <2>1, ActionEffects DEF TypeOK, Wake, Becomes
<1>13. ASSUME NEW t \in Threads, NEW k \in Keys, Return(t, k) PROVE TypeOK'
  BY <1>13, ReturnEffect DEF TypeOK, Return
<1>14. CASE Clear
  BY <1>14 DEF TypeOK, Clear
<1>15. CASE Tick
  BY <1>15 DEF TypeOK, Tick
<1> QED
  BY <1>1, <1>2, <1>3, <1>4, <1>5, <1>6, <1>7, <1>8, <1>9, <1>10, <1>11, <1>12,
     <1>13, <1>14, <1>15 DEF Next, Step

(* Moves that neither start nor end a flight keep the invariant: the       *)
(* activation owns its key before and after, or neither, and waits only if *)
(* it did.                                                                 *)
LEMMA QuietMove ==
  ASSUME FlightInv, UNCHANGED <<inflight, flight>>,
         \A t \in Threads, k \in Keys :
           /\ Owns(t, k)' <=> Owns(t, k)
           /\ Owns(t, k) \/ call'[t][k].pc = "waiting"
                => call'[t][k].flight = call[t][k].flight
           /\ call'[t][k].pc = "waiting" => call[t][k].pc = "waiting"
           /\ call'[t][k].pc = "completing" => call[t][k].pc = "completing"
           /\ call'[t][k].pc = "sharing" => call'[t][k].answer # NoValue
  PROVE  FlightInv'
<1>1. OneProducer'
  BY DEF FlightInv, OneProducer, Owns
<1>2. OwnerRegistered'
  BY DEF FlightInv, OwnerRegistered
<1>3. RegisteredOwned'
  BY DEF FlightInv, RegisteredOwned
<1>4. AnswerAssigned'
  BY DEF FlightInv, AnswerAssigned, Owns, Producing
<1>5. WaiterCovered'
  BY DEF FlightInv, WaiterCovered
<1> QED
  BY <1>1, <1>2, <1>3, <1>4, <1>5 DEF FlightInv

(* The same for an action that moves one activation.                       *)
LEMMA QuietBecomes ==
  ASSUME FlightInv, UNCHANGED <<inflight, flight>>,
         NEW t \in Threads, NEW k \in Keys, NEW p, NEW f, NEW a, Becomes(t, k, p, f, a),
         p \in Producing <=> Owns(t, k), Owns(t, k) => f = call[t][k].flight,
         p # "waiting", p # "completing", p = "sharing" => a # NoValue
  PROVE  FlightInv'
<1>1. \A u \in Threads, j \in Keys : Owns(u, j)' <=> Owns(u, j)
  BY DEF Becomes, Owns
<1>2. \A u \in Threads, j \in Keys :
        /\ Owns(u, j) \/ call'[u][j].pc = "waiting"
             => call'[u][j].flight = call[u][j].flight
        /\ call'[u][j].pc = "waiting" => call[u][j].pc = "waiting"
        /\ call'[u][j].pc = "completing" => call[u][j].pc = "completing"
  BY DEF Becomes
<1>3. ASSUME NEW u \in Threads, NEW j \in Keys, call'[u][j].pc = "sharing"
      PROVE  call'[u][j].answer # NoValue
  BY <1>3 DEF Becomes, FlightInv, AnswerAssigned
<1> QED
  BY <1>1, <1>2, <1>3, QuietMove

LEMMA FlightStep ==
  ASSUME TypeOK, FlightInv, [Next]_vars
  PROVE  FlightInv'
<1>1. CASE UNCHANGED vars
  BY <1>1 DEF vars, FlightInv, OneProducer, OwnerRegistered, RegisteredOwned,
              AnswerAssigned, WaiterCovered, Owns
<1>2. ASSUME NEW t \in Threads, NEW k \in Keys, Enter(t, k) PROVE FlightInv'
  <2>1. Becomes(t, k, "looking", NoFlight, NoValue) /\ UNCHANGED <<inflight, flight>>
    BY <1>2, ActionEffects DEF Enter
  <2>2. "looking" \notin Producing /\ ~Owns(t, k)
    BY <1>2 DEF Enter, Owns, Producing
  <2> QED
    BY <2>1, <2>2, QuietBecomes
<1>3. ASSUME NEW t \in Threads, NEW k \in Keys, EnterNested(t, k) PROVE FlightInv'
  <2>1. call[t][k] \in Call /\ call[t][k].pc = "producing" /\ call[t][Needs[k]].pc = "idle"
    BY <1>3 DEF EnterNested, TypeOK
  <2>2. LET d == [call[t][k] EXCEPT !.pc = "nested"]
        IN d.pc = "nested" /\ d.flight = call[t][k].flight
    BY ONLY <2>1 DEF Call
  <2>3. Needs[k] \in Keys /\ Needs[k] # k /\ Entered.pc = "looking"
    BY <1>3, EnterNestedEffect, FreshFrames DEF TypeOK
  <2>4. \A u \in Threads, j \in Keys :
          /\ call'[u][j].pc = IF u = t /\ j = k THEN "nested"
                              ELSE IF u = t /\ j = Needs[k] THEN "looking" ELSE call[u][j].pc
          /\ ~(u = t /\ j = Needs[k]) => call'[u][j].flight = call[u][j].flight
          /\ u # t => call'[u][j] = call[u][j]
          /\ j # k /\ j # Needs[k] => call'[u][j] = call[u][j]
    <3>1. \A u \in Threads, j \in Keys :
            call'[u][j] = IF u = t /\ j = k THEN [call[t][k] EXCEPT !.pc = "nested"]
                          ELSE IF u = t /\ j = Needs[k] THEN Entered ELSE call[u][j]
      BY <1>3, EnterNestedEffect
    <3> DEFINE d == [call[t][k] EXCEPT !.pc = "nested"]
    <3>2. d.pc = "nested" /\ d.flight = call[t][k].flight
      BY <2>2
    <3>3. \A u \in Threads, j \in Keys :
            call'[u][j] = IF u = t /\ j = k THEN d
                          ELSE IF u = t /\ j = Needs[k] THEN Entered ELSE call[u][j]
      BY <3>1
    <3> HIDE DEF d
    <3> QED
      BY <2>3, <3>2, <3>3
  <2>5. \A u \in Threads, j \in Keys :
          /\ Owns(u, j)' <=> Owns(u, j)
          /\ Owns(u, j) \/ call'[u][j].pc = "waiting"
                => call'[u][j].flight = call[u][j].flight
    BY <2>1, <2>4 DEF Owns, Producing
  <2>6. \A u \in Threads, j \in Keys :
          /\ call'[u][j].pc = "waiting" => call[u][j].pc = "waiting"
          /\ call'[u][j].pc = "completing" => call[u][j].pc = "completing"
          /\ call'[u][j].pc = "sharing" => call'[u][j].answer # NoValue
    BY <2>4 DEF FlightInv, AnswerAssigned
  <2>7. UNCHANGED <<inflight, flight>>
    BY <1>3 DEF EnterNested
  <2> QED
    BY <2>5, <2>6, <2>7, QuietMove
<1>4. ASSUME NEW t \in Threads, NEW k \in Keys, Hit(t, k) PROVE FlightInv'
  <2>1. Becomes(t, k, "returning", call[t][k].flight, store[k]) /\ UNCHANGED <<inflight, flight>>
    BY <1>4, ActionEffects DEF Hit
  <2>2. "returning" \notin Producing /\ ~Owns(t, k)
    BY <1>4 DEF Hit, Owns, Producing
  <2> QED
    BY <2>1, <2>2, QuietBecomes
<1>5. ASSUME NEW t \in Threads, NEW k \in Keys, Miss(t, k) PROVE FlightInv'
  <2>1. /\ Becomes(t, k, "missed", call[t][k].flight, call[t][k].answer)
        /\ UNCHANGED <<inflight, flight>>
    BY <1>5, ActionEffects DEF Miss
  <2>2. "missed" \notin Producing /\ ~Owns(t, k)
    BY <1>5 DEF Miss, Owns, Producing
  <2> QED
    BY <2>1, <2>2, QuietBecomes
<1>6. ASSUME NEW t \in Threads, NEW k \in Keys, Follow(t, k) PROVE FlightInv'
  <2>1. Becomes(t, k, "waiting", inflight[k], call[t][k].answer)
    BY <1>6, ActionEffects
  <2>2. inflight[k] \in Flights /\ ~flight[inflight[k]].done
    BY <1>6 DEF Follow, TypeOK, FlightInv, RegisteredOwned, OwnerRegistered
  <2>3. UNCHANGED <<inflight, flight>> /\ call[t][k].pc = "missed"
    BY <1>6 DEF Follow
  <2>4. \A u \in Threads, j \in Keys : Owns(u, j)' <=> Owns(u, j)
    BY <2>1, <2>3 DEF Becomes, Owns, Producing
  <2>5. \A u \in Threads, j \in Keys :
          ~(u = t /\ j = k) => /\ call'[u][j].pc = call[u][j].pc
                               /\ call'[u][j].flight = call[u][j].flight
                               /\ call'[u][j].answer = call[u][j].answer
    BY <2>1 DEF Becomes
  <2>6. call'[t][k].pc = "waiting" /\ call'[t][k].flight = inflight[k] /\ ~Owns(t, k)
    BY <2>1, <2>3 DEF Becomes, Owns, Producing
  <2>7. OneProducer'
    BY <2>4 DEF FlightInv, OneProducer, Owns
  <2>8. OwnerRegistered'
    BY <2>3, <2>4, <2>5, <2>6 DEF FlightInv, OwnerRegistered
  <2>9. RegisteredOwned'
    BY <2>3, <2>4 DEF FlightInv, RegisteredOwned
  <2>10. AnswerAssigned'
    BY <2>3, <2>5, <2>6 DEF FlightInv, AnswerAssigned
  <2>11. WaiterCovered'
    BY <2>2, <2>3, <2>5, <2>6 DEF FlightInv, WaiterCovered
  <2> QED
    BY <2>7, <2>8, <2>9, <2>10, <2>11 DEF FlightInv
<1>7. ASSUME NEW t \in Threads, NEW k \in Keys, Lead(t, k) PROVE FlightInv'
  <2>1. PICK f \in Flights :
          /\ Unreferenced(f)
          /\ inflight' = [inflight EXCEPT ![k] = f]
          /\ flight' = [flight EXCEPT ![f] = [done |-> FALSE, answer |-> NoValue]]
          /\ Move(t, k, [call[t][k] EXCEPT !.pc = "producing", !.flight = f])
    BY <1>7 DEF Lead, NewFlight
  <2>2. Becomes(t, k, "producing", f, call[t][k].answer)
    BY <2>1, ActionEffects
  <2>3. call[t][k].pc = "missed" /\ \A u \in Threads : ~Owns(u, k)
    BY <1>7, FlightAssumption DEF Lead, FlightInv, OwnerRegistered
  <2>4. \A j \in Keys : inflight[j] # f
    BY <2>1, FlightAssumption
       DEF Unreferenced, FlightInv, OwnerRegistered, RegisteredOwned
  <2>5. \A j \in Keys : inflight'[j] = IF j = k THEN f ELSE inflight[j]
    BY <2>1 DEF TypeOK
  <2>6. /\ ~flight'[f].done
        /\ \A g \in Flights : g # f => flight'[g] = flight[g]
    BY <2>1 DEF TypeOK
  <2>7. \A u \in Threads, j \in Keys :
          ~(u = t /\ j = k) => /\ call'[u][j].pc = call[u][j].pc
                               /\ call'[u][j].flight = call[u][j].flight
                               /\ call'[u][j].answer = call[u][j].answer
                               /\ call[u][j].flight # f
    BY <2>1, <2>2 DEF Becomes, Unreferenced
  <2>8. call'[t][k].pc = "producing" /\ call'[t][k].flight = f
    BY <2>2 DEF Becomes
  <2>9. \A u \in Threads, j \in Keys :
          Owns(u, j)' <=> Owns(u, j) \/ (u = t /\ j = k)
    BY <2>7, <2>8 DEF Owns, Producing
  <2>10. OneProducer'
    BY <2>3, <2>9 DEF FlightInv, OneProducer, Owns
  <2>11. OwnerRegistered'
    BY <2>3, <2>5, <2>6, <2>7, <2>8, <2>9 DEF FlightInv, OwnerRegistered
  <2>12. RegisteredOwned'
    BY <2>4, <2>5, <2>9 DEF FlightInv, RegisteredOwned
  <2>13. AnswerAssigned'
    <3> SUFFICES ASSUME NEW u \in Threads, NEW j \in Keys
                 PROVE  AnswerAssigned!(u, j)'
      BY DEF AnswerAssigned
    <3>1. call'[u][j].pc = "completing" => Owns(u, j) /\ call[u][j].flight \in Flights
      BY <2>7, <2>8 DEF Owns, Producing, FlightInv, OwnerRegistered
    <3> QED
      BY <3>1, <2>6, <2>7, <2>8 DEF FlightInv, AnswerAssigned
  <2>14. WaiterCovered'
    <3> SUFFICES ASSUME NEW u \in Threads, NEW j \in Keys, call'[u][j].pc = "waiting"
                 PROVE  WaiterCovered!(u, j)!2'
      BY DEF WaiterCovered
    <3>1. call[u][j].pc = "waiting" /\ call'[u][j].flight = call[u][j].flight
          /\ call[u][j].flight # f
      BY <2>7, <2>8
    <3>2. call[u][j].flight \in Flights /\ flight'[call[u][j].flight] = flight[call[u][j].flight]
      BY <3>1, <2>6 DEF FlightInv, WaiterCovered
    <3>3. j = k => flight[call[u][j].flight].done
      BY <1>7, <3>1, <3>2, FlightAssumption DEF Lead, FlightInv, WaiterCovered
    <3> QED
      BY <3>1, <3>2, <3>3, <2>5 DEF FlightInv, WaiterCovered
  <2> QED
    BY <2>10, <2>11, <2>12, <2>13, <2>14 DEF FlightInv
<1>8. ASSUME NEW t \in Threads, NEW k \in Keys, Store(t, k) PROVE FlightInv'
  <2>1. /\ Becomes(t, k, "sharing", call[t][k].flight, now)
        /\ UNCHANGED <<inflight, flight>>
    BY <1>8, ActionEffects DEF Store
  <2>2. "sharing" \in Producing /\ Owns(t, k) /\ now # NoValue
    BY <1>8, FlightAssumption DEF Store, Owns, Producing, TypeOK
  <2> QED
    BY <2>1, <2>2, QuietBecomes
<1>9. ASSUME NEW t \in Threads, NEW k \in Keys, NEW a \in Answer \ {NoValue}, NEW b,
             Owns(t, k), Becomes(t, k, "completing", call[t][k].flight, b),
             flight' = [flight EXCEPT ![call[t][k].flight] = [@ EXCEPT !.answer = a]],
             UNCHANGED inflight
      PROVE  FlightInv'
  <2> DEFINE f == call[t][k].flight
  <2>1. f \in Flights /\ ~flight[f].done /\ inflight[k] = f
    BY <1>9 DEF FlightInv, OwnerRegistered
  <2>2. /\ flight'[f].done = flight[f].done /\ flight'[f].answer = a
        /\ \A g \in Flights : g # f => flight'[g] = flight[g]
    <3>1. flight[f] \in [done : BOOLEAN, answer : Answer] /\ a \in Answer
      BY <2>1 DEF TypeOK
    <3> DEFINE y == [flight[f] EXCEPT !.answer = a]
    <3>2. y.done = flight[f].done /\ y.answer = a
      BY ONLY <3>1
    <3>3. flight' = [flight EXCEPT ![f] = y]
      BY <1>9
    <3> HIDE DEF y
    <3> QED
      BY <2>1, <3>2, <3>3 DEF TypeOK
  <2>3. \A u \in Threads, j \in Keys :
          ~(u = t /\ j = k) => /\ call'[u][j].pc = call[u][j].pc
                               /\ call'[u][j].answer = call[u][j].answer
    BY <1>9 DEF Becomes
  <2>4. \A u \in Threads, j \in Keys : call'[u][j].flight = call[u][j].flight
    BY <1>9 DEF Becomes
  <2>5. call'[t][k].pc = "completing"
    BY <1>9 DEF Becomes
  <2> HIDE DEF f
  <2>6. \A u \in Threads, j \in Keys : Owns(u, j)' <=> Owns(u, j)
    BY <1>9, <2>3, <2>5 DEF Owns, Producing
  <2>7. OneProducer'
    BY <2>6 DEF FlightInv, OneProducer, Owns
  <2>8. OwnerRegistered'
    BY <1>9, <2>1, <2>2, <2>4, <2>6 DEF FlightInv, OwnerRegistered
  <2>9. RegisteredOwned'
    BY <1>9, <2>6 DEF FlightInv, RegisteredOwned
  <2>10. AnswerAssigned'
    <3> SUFFICES ASSUME NEW u \in Threads, NEW j \in Keys
                 PROVE  AnswerAssigned!(u, j)'
      BY DEF AnswerAssigned
    <3>1. CASE u = t /\ j = k
      BY <1>9, <2>2, <2>4, <2>5, <3>1 DEF f
    <3>2. CASE ~(u = t /\ j = k)
      <4>1. call'[u][j].pc = "completing" => call[u][j].flight \in Flights
        BY <2>3, <3>2 DEF FlightInv, OwnerRegistered, Owns, Producing
      <4> QED
        BY <1>9, <4>1, <2>2, <2>3, <2>4, <3>2 DEF FlightInv, AnswerAssigned
    <3> QED
      BY <3>1, <3>2
  <2>11. WaiterCovered'
    <3> SUFFICES ASSUME NEW u \in Threads, NEW j \in Keys, call'[u][j].pc = "waiting"
                 PROVE  WaiterCovered!(u, j)!2'
      BY DEF WaiterCovered
    <3>1. call[u][j].pc = "waiting" /\ call'[u][j].flight = call[u][j].flight
      BY <2>3, <2>4, <2>5
    <3>2. call[u][j].flight \in Flights
      BY <3>1 DEF FlightInv, WaiterCovered
    <3>3. /\ inflight' = inflight /\ flight'[call[u][j].flight].done = flight[call[u][j].flight].done
          /\ flight'[call[u][j].flight].answer \in {flight[call[u][j].flight].answer, a}
          /\ a # NoValue
      BY <1>9, <3>2, <2>1, <2>2
    <3>4. WaiterCovered!(u, j)!2
      BY <3>1 DEF FlightInv, WaiterCovered
    <3> QED
      BY <3>1, <3>3, <3>4
  <2> QED
    BY <2>7, <2>8, <2>9, <2>10, <2>11 DEF FlightInv
<1>10. ASSUME NEW t \in Threads, NEW k \in Keys, Share(t, k) PROVE FlightInv'
  <2>1. Owns(t, k) /\ call[t][k].answer \in Answer \ {NoValue}
    BY <1>10 DEF Share, Owns, Producing, FlightInv, AnswerAssigned, TypeOK, Call
  <2>2. Becomes(t, k, "completing", call[t][k].flight, call[t][k].answer)
    BY <1>10, ActionEffects
  <2>3. /\ flight' = [flight EXCEPT ![call[t][k].flight] = [@ EXCEPT !.answer = call[t][k].answer]]
        /\ UNCHANGED inflight
    BY <1>10 DEF Share
  <2> QED
    BY <2>1, <2>2, <2>3, <1>9
<1>11. ASSUME NEW t \in Threads, NEW k \in Keys, Fail(t, k) PROVE FlightInv'
  <2>1. Owns(t, k) /\ Failed \in Answer \ {NoValue}
    BY <1>11, FlightAssumption DEF Fail, Owns, Producing, Answer
  <2>2. Becomes(t, k, "completing", call[t][k].flight, Failed)
    BY <1>11, ActionEffects
  <2>3. /\ flight' = [flight EXCEPT ![call[t][k].flight] = [@ EXCEPT !.answer = Failed]]
        /\ UNCHANGED inflight
    BY <1>11 DEF Fail
  <2> QED
    BY <2>1, <2>2, <2>3, <1>9
<1>12. ASSUME NEW t \in Threads, NEW k \in Keys, Complete(t, k) PROVE FlightInv'
  <2> DEFINE f == call[t][k].flight
  <2>1. /\ Owns(t, k) /\ f \in Flights /\ inflight[k] = f
        /\ flight[f].answer # NoValue
    BY <1>12 DEF Complete, Owns, Producing, FlightInv, OwnerRegistered, AnswerAssigned
  <2>2. /\ flight'[f].done /\ flight'[f].answer = flight[f].answer
        /\ \A g \in Flights : g # f => flight'[g] = flight[g]
    <3>1. flight[f] \in [done : BOOLEAN, answer : Answer]
      BY <2>1 DEF TypeOK
    <3> DEFINE y == [flight[f] EXCEPT !.done = TRUE]
    <3>2. y.done /\ y.answer = flight[f].answer
      BY ONLY <3>1
    <3>3. flight' = [flight EXCEPT ![f] = y]
      BY <1>12 DEF Complete
    <3> HIDE DEF y
    <3> QED
      BY <2>1, <3>2, <3>3 DEF TypeOK
  <2>3. \A j \in Keys : inflight'[j] = IF j = k THEN NoFlight ELSE inflight[j]
    BY <1>12, <2>1 DEF Complete, TypeOK
  <2>4. Becomes(t, k, "returning", NoFlight, call[t][k].answer)
    BY <1>12, ActionEffects
  <2>5. /\ call'[t][k].pc = "returning"
        /\ \A u \in Threads, j \in Keys :
             ~(u = t /\ j = k) => /\ call'[u][j].pc = call[u][j].pc
                                  /\ call'[u][j].flight = call[u][j].flight
                                  /\ call'[u][j].answer = call[u][j].answer
    BY <2>4 DEF Becomes
  <2> HIDE DEF f
  <2>6. \A u \in Threads, j \in Keys : Owns(u, j)' <=> Owns(u, j) /\ ~(u = t /\ j = k)
    BY <2>5 DEF Owns, Producing
  <2>7. \A u \in Threads, j \in Keys :
          Owns(u, j)' => j # k /\ call[u][j].flight \in Flights /\ call[u][j].flight # f
    <3> SUFFICES ASSUME NEW u \in Threads, NEW j \in Keys, Owns(u, j)'
                 PROVE  j # k /\ call[u][j].flight \in Flights /\ call[u][j].flight # f
      OBVIOUS
    <3>1. Owns(u, j) /\ ~(u = t /\ j = k)
      BY <2>6
    <3>2. j # k
      BY <2>1, <3>1 DEF FlightInv, OneProducer, Owns
    <3>3. call[u][j].flight \in Flights /\ inflight[j] = call[u][j].flight
      BY <3>1 DEF FlightInv, OwnerRegistered
    <3>4. f # NoFlight
      BY <2>1, FlightAssumption
    <3> QED
      BY <2>1, <3>2, <3>3, <3>4 DEF FlightInv, RegisteredOwned
  <2>8. OneProducer'
    BY <2>6 DEF FlightInv, OneProducer, Owns
  <2>9. OwnerRegistered'
    BY <2>2, <2>3, <2>5, <2>6, <2>7 DEF FlightInv, OwnerRegistered
  <2>10. RegisteredOwned'
    BY <2>3, <2>6 DEF FlightInv, RegisteredOwned
  <2>11. AnswerAssigned'
    <3> SUFFICES ASSUME NEW u \in Threads, NEW j \in Keys
                 PROVE  AnswerAssigned!(u, j)'
      BY DEF AnswerAssigned
    <3>1. CASE u = t /\ j = k
      BY <2>5, <3>1
    <3>2. CASE ~(u = t /\ j = k)
      <4>1. call'[u][j].pc = "completing" => Owns(u, j)'
        BY DEF Owns, Producing
      <4> QED
        BY <4>1, <2>2, <2>5, <2>7, <3>2 DEF FlightInv, AnswerAssigned
    <3> QED
      BY <3>1, <3>2
  <2>12. WaiterCovered'
    <3> SUFFICES ASSUME NEW u \in Threads, NEW j \in Keys, call'[u][j].pc = "waiting"
                 PROVE  WaiterCovered!(u, j)!2'
      BY DEF WaiterCovered
    <3>1. call[u][j].pc = "waiting" /\ call'[u][j].flight = call[u][j].flight
      BY <2>5
    <3>2. call[u][j].flight \in Flights
      BY <3>1 DEF FlightInv, WaiterCovered
    <3>3. CASE call[u][j].flight = f
      BY <3>1, <3>2, <3>3, <2>1, <2>2
    <3>4. CASE call[u][j].flight # f
      BY <3>1, <3>2, <3>4, <2>1, <2>2, <2>3 DEF FlightInv, WaiterCovered
    <3> QED
      BY <3>3, <3>4
  <2> QED
    BY <2>8, <2>9, <2>10, <2>11, <2>12 DEF FlightInv
<1>13. ASSUME NEW t \in Threads, NEW k \in Keys, Wake(t, k) PROVE FlightInv'
  <2>1. call[t][k].flight \in Flights
    BY <1>13 DEF Wake, FlightInv, WaiterCovered
  <2>2. /\ Becomes(t, k, "returning", NoFlight, flight[call[t][k].flight].answer)
        /\ UNCHANGED <<inflight, flight>>
    BY <1>13, <2>1, ActionEffects DEF Wake
  <2>3. "returning" \notin Producing /\ ~Owns(t, k)
    BY <1>13 DEF Wake, Owns, Producing
  <2> QED
    BY <2>2, <2>3, QuietBecomes
<1>14. ASSUME NEW t \in Threads, NEW k \in Keys, Return(t, k) PROVE FlightInv'
  <2>1. UNCHANGED <<inflight, flight>> /\ call[t][k].pc = "returning"
    BY <1>14 DEF Return
  <2>2. ASSUME NEW u \in Threads, NEW j \in Keys
        PROVE  \/ u = t /\ j = k /\ call'[u][j].pc = "idle"
               \/ /\ call[u][j].pc = "nested" /\ call'[u][j].pc = "computing"
                  /\ call'[u][j].flight = call[u][j].flight
               \/ call'[u][j] = call[u][j] /\ ~(u = t /\ j = k)
    <3> DEFINE d == [call[t][j] EXCEPT !.pc = "computing"]
    <3>1. d.pc = "computing" /\ d.flight = call[t][j].flight
      <4>1. call[t][j] \in Call
        BY DEF TypeOK
      <4> QED
        BY ONLY <4>1 DEF Call
    <3>2. call'[u][j] = IF u = t /\ j = k THEN Idle
                        ELSE IF u = t /\ Needs[j] = k /\ call[t][j].pc = "nested"
                        THEN d ELSE call[u][j]
      BY <1>14, ReturnEffect
    <3>3. Idle.pc = "idle"
      BY DEF Idle
    <3> HIDE DEF d
    <3> QED
      BY <3>1, <3>2, <3>3
  <2>3. \A u \in Threads, j \in Keys :
          /\ Owns(u, j)' <=> Owns(u, j)
          /\ Owns(u, j) \/ call'[u][j].pc = "waiting"
                => call'[u][j].flight = call[u][j].flight
    BY <2>1, <2>2 DEF Owns, Producing
  <2>4. \A u \in Threads, j \in Keys :
          /\ call'[u][j].pc = "waiting" => call[u][j].pc = "waiting"
          /\ call'[u][j].pc = "completing" => call[u][j].pc = "completing"
          /\ call'[u][j].pc = "sharing" => call'[u][j].answer # NoValue
    BY <2>2 DEF FlightInv, AnswerAssigned
  <2> QED
    BY <2>1, <2>3, <2>4, QuietMove
<1>15. CASE Clear \/ Tick
  <2>1. UNCHANGED <<inflight, flight, call>>
    BY <1>15 DEF Clear, Tick
  <2> QED
    BY <2>1 DEF FlightInv, OneProducer, OwnerRegistered, RegisteredOwned,
                AnswerAssigned, WaiterCovered, Owns
<1> QED
  BY <1>1, <1>2, <1>3, <1>4, <1>5, <1>6, <1>7, <1>8, <1>10, <1>11, <1>12,
     <1>13, <1>14, <1>15 DEF Next, Step

-----------------------------------------------------------------------------
LEMMA Invariant == Spec => [](TypeOK /\ FlightInv)
<1>1. TypeOK /\ FlightInv /\ [Next]_vars => (TypeOK /\ FlightInv)'
  BY TypeStep, FlightStep
<1> QED
  BY InitInv, <1>1, PTL DEF Spec

(* Every reachable state of the cache is well typed: in particular only    *)
(* values of successful calls, never errors, are stored.                   *)
THEOREM TypeCorrect == Spec => []TypeOK
BY Invariant, PTL

(* At any time at most one thread computes a key, for any number of        *)
(* threads, keys and nested calls.                                         *)
THEOREM NoStampede == Spec => []OneProducer
<1>1. TypeOK /\ FlightInv => OneProducer
  BY DEF FlightInv
<1> QED
  BY Invariant, <1>1, PTL

(* A waiter's flight is over and carries an answer, or a live producer     *)
(* will complete it.                                                       *)
THEOREM NoLostWakeup == Spec => []WaiterHasProducer
<1>1. TypeOK /\ FlightInv => WaiterHasProducer
  <2> SUFFICES ASSUME TypeOK, FlightInv, NEW t \in Threads, NEW k \in Keys,
                      call[t][k].pc = "waiting"
               PROVE  WaiterHasProducer!(t, k)!2
    BY DEF WaiterHasProducer
  <2> DEFINE f == call[t][k].flight
  <2>1. f \in Flights /\ IF flight[f].done THEN flight[f].answer # NoValue ELSE inflight[k] = f
    BY DEF FlightInv, WaiterCovered
  <2>2. CASE flight[f].done
    BY <2>1, <2>2
  <2>3. CASE ~flight[f].done
    <3>1. inflight[k] = f /\ f # NoFlight
      BY <2>1, <2>3, FlightAssumption
    <3>2. PICK u \in Threads : Owns(u, k)
      BY <3>1 DEF FlightInv, RegisteredOwned
    <3>3. call[u][k].flight = f
      BY <3>1, <3>2 DEF FlightInv, OwnerRegistered
    <3> QED
      <4>1. call[u][k].pc \in Producing /\ call[u][k].flight = f
        BY <3>2, <3>3 DEF Owns
      <4> QED
        BY <2>3, <3>1, <4>1
  <2> QED
    BY <2>2, <2>3
<1> QED
  BY Invariant, <1>1, PTL

-----------------------------------------------------------------------------
(* Freshness: an answer that travels through a flight was stored no longer *)
(* ago than the calls waiting for it were made, because no tick passes     *)
(* between the set() and the completion of its flight.                     *)
FreshSince(answer, since) ==
  answer = Failed \/ (answer \in Nat /\ answer + TTL > since)

CallFresh(t, k) ==
  LET c == call[t][k]
  IN /\ c.since <= now
     /\ c.pc = "sharing" => c.answer = now
     /\ c.pc = "completing" => /\ c.answer \in {Failed, now}
                               /\ flight[c.flight].answer \in {Failed, now}
     /\ c.pc = "waiting" /\ flight[c.flight].done
          => FreshSince(flight[c.flight].answer, c.since)
     /\ c.pc = "returning" => FreshSince(c.answer, c.since)

Freshness == \A t \in Threads, k \in Keys : CallFresh(t, k)

LEMMA FreshInit == Init => Freshness
BY FlightAssumption DEF Init, Freshness, CallFresh, Idle

(* An activation that stays where it is, next to a flight that does too,   *)
(* or is where no answer is held, remains fresh.                           *)
LEMMA FreshKept ==
  ASSUME TypeOK, Freshness, now' = now, NEW t \in Threads, NEW k \in Keys,
         call'[t][k].since = call[t][k].since \/ call'[t][k].since = now
                                              \/ call'[t][k].since = 0,
         \/ call'[t][k].pc \notin {"sharing", "completing", "waiting", "returning"}
         \/ /\ call'[t][k].pc = call[t][k].pc
            /\ call'[t][k].flight = call[t][k].flight
            /\ call'[t][k].answer = call[t][k].answer
            /\ call'[t][k].since = call[t][k].since
            /\ call[t][k].pc \in {"completing", "waiting"}
                 => flight'[call[t][k].flight] = flight[call[t][k].flight]
  PROVE  CallFresh(t, k)'
BY DEF TypeOK, Freshness, CallFresh

(* One activation moves; the flights the others rely on stay, or gain an   *)
(* answer of now.                                                          *)
LEMMA FreshBecomes ==
  ASSUME TypeOK, FlightInv, Freshness, now' = now,
         NEW t \in Threads, NEW k \in Keys, NEW p, NEW f, NEW a, Becomes(t, k, p, f, a),
         NEW g, \A h \in Flights : h # g => flight'[h] = flight[h],
         \A u \in Threads, j \in Keys :
           ~(u = t /\ j = k) /\ call[u][j].pc \in {"completing", "waiting"}
             => \/ call[u][j].flight # g
                \/ /\ call[u][j].pc = "waiting"
                   /\ flight'[g].done => flight'[g].answer \in {Failed, now},
         p = "sharing" => a = now,
         p = "completing" => a \in {Failed, now} /\ flight'[f].answer \in {Failed, now},
         p = "waiting" => ~flight'[f].done,
         p = "returning" => FreshSince(a, call[t][k].since)
  PROVE  Freshness'
<1> SUFFICES ASSUME NEW u \in Threads, NEW j \in Keys PROVE CallFresh(u, j)'
  BY DEF Freshness
<1>1. now \in Nat /\ TTL \in Nat \ {0} /\ Failed \notin Nat
  BY FlightAssumption DEF TypeOK
<1>2. call[u][j] \in Call /\ call[u][j].since \in Nat /\ call[u][j].since <= now
  BY DEF TypeOK, Call, Freshness, CallFresh
<1>3. CASE u = t /\ j = k
  <2>1. /\ call'[t][k].pc = p /\ call'[t][k].flight = f /\ call'[t][k].answer = a
        /\ call'[t][k].since = IF p = "looking" THEN now ELSE call[t][k].since
    BY DEF Becomes
  <2>2. QED
    BY <1>1, <1>2, <1>3, <2>1 DEF CallFresh
<1>4. CASE ~(u = t /\ j = k)
  <2>1. /\ call'[u][j].pc = call[u][j].pc /\ call'[u][j].flight = call[u][j].flight
        /\ call'[u][j].answer = call[u][j].answer /\ call'[u][j].since = call[u][j].since
    BY <1>4 DEF Becomes
  <2>2. CASE call[u][j].pc \notin {"completing", "waiting"} \/ call[u][j].flight # g
    <3>1. call[u][j].pc \in {"completing", "waiting"} => call[u][j].flight \in Flights
      BY DEF FlightInv, OwnerRegistered, WaiterCovered, Owns, Producing
    <3>2. QED
      BY <2>1, <2>2, <3>1, FreshKept
  <2>3. CASE call[u][j].pc \in {"completing", "waiting"} /\ call[u][j].flight = g
    <3>1. call[u][j].pc = "waiting" /\ (flight'[g].done => flight'[g].answer \in {Failed, now})
      BY <1>4, <2>3
    <3>2. flight'[g].done => FreshSince(flight'[g].answer, call[u][j].since)
      BY <1>1, <1>2, <3>1 DEF FreshSince
    <3>3. QED
      BY <1>2, <2>1, <2>3, <3>1, <3>2 DEF CallFresh
  <2>4. QED
    BY <2>2, <2>3
<1>5. QED
  BY <1>3, <1>4

LEMMA FreshStep ==
  ASSUME TypeOK, FlightInv, Freshness, [Next]_vars
  PROVE  Freshness'
<1>a. now \in Nat /\ TTL \in Nat \ {0} /\ Failed \notin Nat /\ NoFlight \notin Flights
  BY FlightAssumption DEF TypeOK
(* Moves that leave the flights alone.                                     *)
<1>b. ASSUME NEW t \in Threads, NEW k \in Keys, NEW p, NEW f, NEW a,
             Becomes(t, k, p, f, a), UNCHANGED <<flight, now>>,
             p \notin {"completing", "waiting"}, p = "sharing" => a = now,
             p = "returning" => FreshSince(a, call[t][k].since)
      PROVE  Freshness'
  <2> SUFFICES ASSUME NEW u \in Threads, NEW j \in Keys PROVE CallFresh(u, j)'
    BY DEF Freshness
  <2>1. call[u][j] \in Call /\ call[u][j].since \in Nat /\ call[u][j].since <= now
    BY DEF TypeOK, Call, Freshness, CallFresh
  <2>2. CASE u = t /\ j = k
    <3>1. /\ call'[t][k].pc = p /\ call'[t][k].flight = f /\ call'[t][k].answer = a
          /\ call'[t][k].since = IF p = "looking" THEN now ELSE call[t][k].since
      BY <1>b DEF Becomes
    <3>2. QED
      BY <1>a, <1>b, <2>1, <2>2, <3>1 DEF CallFresh
  <2>3. CASE ~(u = t /\ j = k)
    <3>1. /\ call'[u][j].pc = call[u][j].pc /\ call'[u][j].flight = call[u][j].flight
          /\ call'[u][j].answer = call[u][j].answer /\ call'[u][j].since = call[u][j].since
      BY <1>b, <2>3 DEF Becomes
    <3>2. now' = now /\ flight' = flight
      BY <1>b
    <3>3. QED
      BY <3>1, <3>2 DEF Freshness, CallFresh
  <2>4. QED
    BY <2>2, <2>3
<1>1. CASE UNCHANGED vars
  BY <1>1 DEF vars, Freshness, CallFresh
<1>2. ASSUME NEW t \in Threads, NEW k \in Keys, Enter(t, k) PROVE Freshness'
  <2>1. Becomes(t, k, "looking", NoFlight, NoValue) /\ UNCHANGED <<flight, now>>
    BY <1>2, ActionEffects DEF Enter
  <2>2. QED
    BY <1>b, <2>1
<1>3. ASSUME NEW t \in Threads, NEW k \in Keys, EnterNested(t, k) PROVE Freshness'
  <2> DEFINE d == [call[t][k] EXCEPT !.pc = "nested"]
  <2>1. call[t][k] \in Call /\ UNCHANGED <<flight, now>>
    BY <1>3 DEF EnterNested, TypeOK
  <2>2. d.pc = "nested" /\ d.since = call[t][k].since
    BY ONLY <2>1 DEF Call
  <2>3. Entered.pc = "looking" /\ Entered.since = now
    BY <1>a, FreshFrames
  <2>4. \A u \in Threads, j \in Keys :
          call'[u][j] = IF u = t /\ j = k THEN d
                        ELSE IF u = t /\ j = Needs[k] THEN Entered ELSE call[u][j]
    BY <1>3, EnterNestedEffect
  <2> HIDE DEF d
  <2>5. ASSUME NEW u \in Threads, NEW j \in Keys PROVE CallFresh(u, j)'
    <3>1. CASE u = t /\ j = k
      BY <2>1, <2>2, <2>4, <3>1, FreshKept
    <3>2. CASE ~(u = t /\ j = k) /\ u = t /\ j = Needs[k]
      BY <2>1, <2>3, <2>4, <3>2, FreshKept
    <3>3. CASE ~(u = t /\ j = k) /\ ~(u = t /\ j = Needs[k])
      <4>1. call'[u][j] = call[u][j]
        BY <2>4, <3>3
      <4>2. QED
        BY <2>1, <4>1, FreshKept
    <3>4. QED
      BY <3>1, <3>2, <3>3
  <2>6. QED
    BY <2>5 DEF Freshness
<1>4. ASSUME NEW t \in Threads, NEW k \in Keys, Hit(t, k) PROVE Freshness'
  <2>1. Becomes(t, k, "returning", call[t][k].flight, store[k]) /\ UNCHANGED <<flight, now>>
    BY <1>4, ActionEffects DEF Hit
  <2>2. call[t][k].since \in Nat /\ call[t][k].since <= now
    BY DEF TypeOK, Call, Freshness, CallFresh
  <2>3. store[k] \in Nat /\ now < store[k] + TTL
    BY <1>4 DEF Hit, Fresh, TypeOK
  <2>4. FreshSince(store[k], call[t][k].since)
    BY <1>a, <2>2, <2>3 DEF FreshSince
  <2>5. QED
    BY <1>b, <2>1, <2>4
<1>5. ASSUME NEW t \in Threads, NEW k \in Keys, Miss(t, k) PROVE Freshness'
  <2>1. /\ Becomes(t, k, "missed", call[t][k].flight, call[t][k].answer)
        /\ UNCHANGED <<flight, now>>
    BY <1>5, ActionEffects DEF Miss
  <2>2. QED
    BY <1>b, <2>1
<1>6. ASSUME NEW t \in Threads, NEW k \in Keys, Follow(t, k) PROVE Freshness'
  <2>1. Becomes(t, k, "waiting", inflight[k], call[t][k].answer) /\ UNCHANGED <<flight, now>>
    BY <1>6, ActionEffects DEF Follow
  <2>2. ~flight'[inflight[k]].done
    BY <1>6, <2>1 DEF Follow, FlightInv, RegisteredOwned, OwnerRegistered
  <2>3. /\ \A h \in Flights : h # NoFlight => flight'[h] = flight[h]
        /\ \A u \in Threads, j \in Keys :
             call[u][j].pc \in {"completing", "waiting"} => call[u][j].flight # NoFlight
    BY <1>a, <2>1 DEF FlightInv, OwnerRegistered, WaiterCovered, Owns, Producing
  <2>4. \A u \in Threads, j \in Keys :
          ~(u = t /\ j = k) /\ call[u][j].pc \in {"completing", "waiting"}
            => \/ call[u][j].flight # NoFlight
               \/ /\ call[u][j].pc = "waiting"
                  /\ flight'[NoFlight].done => flight'[NoFlight].answer \in {Failed, now}
    BY <2>3
  <2> DEFINE f == inflight[k]
             a == call[t][k].answer
  <2>5. ~flight'[f].done /\ Becomes(t, k, "waiting", f, a) /\ now' = now
    BY <2>1, <2>2
  <2> HIDE DEF f, a
  <2>6. QED
    BY ONLY TypeOK, FlightInv, Freshness, <2>3, <2>4, <2>5, FreshBecomes
<1>7. ASSUME NEW t \in Threads, NEW k \in Keys, Lead(t, k) PROVE Freshness'
  <2>1. PICK f \in Flights :
          /\ Unreferenced(f)
          /\ flight' = [flight EXCEPT ![f] = [done |-> FALSE, answer |-> NoValue]]
          /\ Move(t, k, [call[t][k] EXCEPT !.pc = "producing", !.flight = f])
    BY <1>7 DEF Lead, NewFlight
  <2>2. Becomes(t, k, "producing", f, call[t][k].answer) /\ now' = now
    BY <1>7, <2>1, ActionEffects DEF Lead
  <2>3. \A h \in Flights : h # f => flight'[h] = flight[h]
    BY <2>1 DEF TypeOK
  <2>4. \A u \in Threads, j \in Keys : call[u][j].flight # f
    BY <2>1 DEF Unreferenced
  <2>5. QED
    BY <2>2, <2>3, <2>4, FreshBecomes
<1>8. ASSUME NEW t \in Threads, NEW k \in Keys, Store(t, k) PROVE Freshness'
  <2>1. Becomes(t, k, "sharing", call[t][k].flight, now) /\ UNCHANGED <<flight, now>>
    BY <1>8, ActionEffects DEF Store
  <2>2. QED
    BY <1>b, <2>1
(* Whoever else waits for a producer's flight, it is not over yet.         *)
<1>9. ASSUME NEW t \in Threads, NEW k \in Keys, NEW a \in {Failed, now}, NEW b,
             Owns(t, k), Becomes(t, k, "completing", call[t][k].flight, b),
             b \in {Failed, now}, a \in Answer,
             flight' = [flight EXCEPT ![call[t][k].flight] = [@ EXCEPT !.answer = a]],
             now' = now
      PROVE  Freshness'
  <2> DEFINE f == call[t][k].flight
  <2>1. f \in Flights /\ ~flight[f].done
    BY <1>9 DEF FlightInv, OwnerRegistered
  <2>2. /\ ~flight'[f].done /\ flight'[f].answer = a
        /\ \A h \in Flights : h # f => flight'[h] = flight[h]
    <3>1. flight[f] \in [done : BOOLEAN, answer : Answer]
      BY <2>1 DEF TypeOK
    <3> DEFINE y == [flight[f] EXCEPT !.answer = a]
    <3>2. ~y.done /\ y.answer = a
      BY <1>9, <2>1, <3>1, FlightUpdates
    <3>3. flight' = [flight EXCEPT ![f] = y]
      BY <1>9
    <3> HIDE DEF y
    <3> QED
      BY <2>1, <3>2, <3>3 DEF TypeOK
  <2>3. \A u \in Threads, j \in Keys :
          ~(u = t /\ j = k) /\ call[u][j].pc \in {"completing", "waiting"}
            => call[u][j].flight # f \/ call[u][j].pc = "waiting"
    <3> SUFFICES ASSUME NEW u \in Threads, NEW j \in Keys, ~(u = t /\ j = k),
                        call[u][j].pc = "completing"
                 PROVE  call[u][j].flight # f
      OBVIOUS
    <3>1. Owns(u, j)
      BY DEF Owns, Producing
    <3>2. inflight[j] = call[u][j].flight /\ inflight[k] = f
      BY <1>9, <3>1 DEF FlightInv, OwnerRegistered
    <3>3. j # k
      BY <1>9, <3>1 DEF FlightInv, OneProducer, Owns
    <3>4. QED
      BY <1>a, <2>1, <3>2, <3>3 DEF FlightInv, RegisteredOwned
  <2> HIDE DEF f
  <2>4. Becomes(t, k, "completing", f, b)
    BY <1>9 DEF f
  <2>5. \A u \in Threads, j \in Keys :
          ~(u = t /\ j = k) /\ call[u][j].pc \in {"completing", "waiting"}
            => \/ call[u][j].flight # f
               \/ call[u][j].pc = "waiting" /\ ~flight'[f].done
    BY <2>2, <2>3
  <2>6. b \in {Failed, now} /\ flight'[f].answer \in {Failed, now} /\ now' = now
    BY <1>9, <2>2
  <2>7. QED
    BY <2>2, <2>4, <2>5, <2>6, FreshBecomes
<1>10. ASSUME NEW t \in Threads, NEW k \in Keys, Share(t, k) PROVE Freshness'
  <2>1. Owns(t, k) /\ call[t][k].answer = now /\ now \in Answer
    BY <1>10, <1>a DEF Share, Owns, Producing, Freshness, CallFresh, Answer
  <2>2. Becomes(t, k, "completing", call[t][k].flight, call[t][k].answer)
    BY <1>10, ActionEffects
  <2>3. /\ flight' = [flight EXCEPT ![call[t][k].flight] = [@ EXCEPT !.answer = call[t][k].answer]]
        /\ now' = now
    BY <1>10 DEF Share
  <2>4. QED
    BY <2>1, <2>2, <2>3, <1>9
<1>11. ASSUME NEW t \in Threads, NEW k \in Keys, Fail(t, k) PROVE Freshness'
  <2>1. Owns(t, k) /\ Failed \in Answer
    BY <1>11 DEF Fail, Owns, Producing, Answer
  <2>2. Becomes(t, k, "completing", call[t][k].flight, Failed)
    BY <1>11, ActionEffects
  <2>3. /\ flight' = [flight EXCEPT ![call[t][k].flight] = [@ EXCEPT !.answer = Failed]]
        /\ now' = now
    BY <1>11 DEF Fail
  <2>4. QED
    BY <2>1, <2>2, <2>3, <1>9
<1>12. ASSUME NEW t \in Threads, NEW k \in Keys, Complete(t, k) PROVE Freshness'
  <2> DEFINE f == call[t][k].flight
  <2>1. /\ Owns(t, k) /\ f \in Flights
        /\ flight[f].answer \in {Failed, now} /\ call[t][k].answer \in {Failed, now}
    BY <1>12 DEF Complete, Owns, Producing, FlightInv, OwnerRegistered, Freshness, CallFresh
  <2>2. /\ flight'[f].answer \in {Failed, now}
        /\ \A h \in Flights : h # f => flight'[h] = flight[h]
    <3>1. flight[f] \in [done : BOOLEAN, answer : Answer]
      BY <2>1 DEF TypeOK
    <3> DEFINE y == [flight[f] EXCEPT !.done = TRUE]
    <3>2. y.answer = flight[f].answer
      BY ONLY <3>1
    <3>3. flight' = [flight EXCEPT ![f] = y]
      BY <1>12 DEF Complete
    <3> HIDE DEF y
    <3> QED
      BY <2>1, <3>2, <3>3 DEF TypeOK
  <2>3. \A u \in Threads, j \in Keys :
          ~(u = t /\ j = k) /\ call[u][j].pc \in {"completing", "waiting"}
            => call[u][j].flight # f \/ call[u][j].pc = "waiting"
    <3> SUFFICES ASSUME NEW u \in Threads, NEW j \in Keys, ~(u = t /\ j = k),
                        call[u][j].pc = "completing"
                 PROVE  call[u][j].flight # f
      OBVIOUS
    <3>1. Owns(u, j)
      BY DEF Owns, Producing
    <3>2. inflight[j] = call[u][j].flight /\ inflight[k] = f
      BY <2>1, <3>1 DEF FlightInv, OwnerRegistered
    <3>3. j # k
      BY <2>1, <3>1 DEF FlightInv, OneProducer, Owns
    <3>4. QED
      BY <1>a, <2>1, <3>2, <3>3 DEF FlightInv, RegisteredOwned
  <2>4. call[t][k].since \in Nat /\ call[t][k].since <= now
    BY DEF TypeOK, Call, Freshness, CallFresh
  <2>5. FreshSince(call[t][k].answer, call[t][k].since)
    BY <1>a, <2>1, <2>4 DEF FreshSince
  <2>6. Becomes(t, k, "returning", NoFlight, call[t][k].answer) /\ now' = now
    BY <1>12, ActionEffects DEF Complete
  <2> HIDE DEF f
  <2>7. QED
    BY <2>2, <2>3, <2>5, <2>6, FreshBecomes
<1>13. ASSUME NEW t \in Threads, NEW k \in Keys, Wake(t, k) PROVE Freshness'
  <2>1. call[t][k].flight \in Flights
    BY <1>13 DEF Wake, FlightInv, WaiterCovered
  <2>2. /\ Becomes(t, k, "returning", NoFlight, flight[call[t][k].flight].answer)
        /\ UNCHANGED <<flight, now>>
    BY <1>13, <2>1, ActionEffects DEF Wake
  <2>3. FreshSince(flight[call[t][k].flight].answer, call[t][k].since)
    BY <1>13 DEF Wake, Freshness, CallFresh
  <2>4. QED
    BY <1>b, <2>2, <2>3
<1>14. ASSUME NEW t \in Threads, NEW k \in Keys, Return(t, k) PROVE Freshness'
  <2>1. UNCHANGED <<flight, now>>
    BY <1>14 DEF Return
  <2>2. ASSUME NEW u \in Threads, NEW j \in Keys PROVE CallFresh(u, j)'
    <3> DEFINE d == [call[t][j] EXCEPT !.pc = "computing"]
    <3>1. call[t][j] \in Call
      BY DEF TypeOK
    <3>2. d.pc = "computing" /\ d.since = call[t][j].since
      BY ONLY <3>1 DEF Call
    <3>3. call'[u][j] = Idle \/ (u = t /\ call'[u][j] = d) \/ call'[u][j] = call[u][j]
      BY <1>14, ReturnEffect
    <3> HIDE DEF d
    <3>4. Idle.pc = "idle" /\ Idle.since = 0
      BY DEF Idle
    <3>5. QED
      BY <2>1, <3>2, <3>3, <3>4, FreshKept
  <2>3. QED
    BY <2>2 DEF Freshness
<1>15. CASE Clear
  BY <1>15 DEF Clear, Freshness, CallFresh
<1>16. CASE Tick
  <2> SUFFICES ASSUME NEW t \in Threads, NEW k \in Keys PROVE CallFresh(t, k)'
    BY DEF Freshness
  <2>1. /\ UNCHANGED <<flight, call>> /\ now' = now + 1
        /\ call[t][k].pc \notin {"sharing", "completing"}
    BY <1>16 DEF Tick
  <2>2. call[t][k].since \in Nat /\ CallFresh(t, k)
    BY DEF TypeOK, Call, Freshness
  <2>3. QED
    BY <1>a, <2>1, <2>2 DEF CallFresh
<1>17. QED
  BY <1>1, <1>2, <1>3, <1>4, <1>5, <1>6, <1>7, <1>8, <1>10, <1>11, <1>12, <1>13,
     <1>14, <1>15, <1>16 DEF Next, Step

(* A call returns what was stored less than the TTL before it was made, or *)
(* later, whichever thread computed it and however long the caller waited. *)
THEOREM AnswersFresh == Spec => []FreshAnswers
<1>1. Init => TypeOK /\ FlightInv /\ Freshness
  BY InitInv, FreshInit
<1>2. TypeOK /\ FlightInv /\ Freshness /\ [Next]_vars => TypeOK' /\ FlightInv' /\ Freshness'
  BY TypeStep, FlightStep, FreshStep
<1>3. Freshness => FreshAnswers
  BY DEF Freshness, CallFresh, FreshSince, FreshAnswers
<1>4. QED
  BY <1>1, <1>2, <1>3, PTL DEF Spec

-----------------------------------------------------------------------------
(* A function that called a cached one has that call open.                 *)
NestedOpen ==
  \A t \in Threads, k \in Keys :
    call[t][k].pc = "nested" => Needs[k] \in Keys /\ call[t][Needs[k]].pc # "idle"

(* One activation moves, and does not end.                                 *)
LEMMA NestedStays ==
  ASSUME NestedOpen, NEW t \in Threads, NEW k \in Keys, NEW p \in PCs \ {"idle", "nested"},
         NEW f, NEW a, Becomes(t, k, p, f, a)
  PROVE  NestedOpen'
<1>1. \A u \in Threads, j \in Keys :
        call'[u][j].pc = IF u = t /\ j = k THEN p ELSE call[u][j].pc
  BY DEF Becomes
<1> SUFFICES ASSUME NEW u \in Threads, NEW j \in Keys, call'[u][j].pc = "nested"
             PROVE  Needs[j] \in Keys /\ call'[u][Needs[j]].pc # "idle"
  BY DEF NestedOpen
<1>2. call[u][j].pc = "nested"
  BY <1>1
<1>3. Needs[j] \in Keys /\ call[u][Needs[j]].pc # "idle"
  BY <1>2 DEF NestedOpen
<1> QED BY <1>1, <1>3

LEMMA NestedStep ==
  ASSUME TypeOK, FlightInv, NestedOpen, [Next]_vars
  PROVE  NestedOpen'
<1>1. CASE UNCHANGED vars
  BY <1>1 DEF vars, NestedOpen
<1>2. ASSUME NEW t \in Threads, NEW k \in Keys, Enter(t, k) \/ Step(t, k)
      PROVE  NestedOpen'
  <2>1. {"looking", "returning", "missed", "waiting", "producing", "sharing", "completing"}
          \subseteq PCs \ {"idle", "nested"}
    BY DEF PCs
  <2>2. CASE EnterNested(t, k)
    <3>1. /\ Needs[k] \in Keys
          /\ \A u \in Threads, j \in Keys :
               call'[u][j] = IF u = t /\ j = k THEN [call[t][k] EXCEPT !.pc = "nested"]
                             ELSE IF u = t /\ j = Needs[k] THEN Entered ELSE call[u][j]
      BY <2>2, EnterNestedEffect
    <3>2. [call[t][k] EXCEPT !.pc = "nested"].pc = "nested" /\ Entered.pc = "looking"
      BY FreshFrames DEF TypeOK, Call
    <3>3. \A u \in Threads, j \in Keys : call[u][j].pc # "idle" => call'[u][j].pc # "idle"
      BY <3>1, <3>2
    <3> QED BY <2>2, <3>1, <3>2, <3>3 DEF NestedOpen, EnterNested
  <2>3. CASE Return(t, k)
    <3>1. \A u \in Threads, j \in Keys :
            call'[u][j] = IF u = t /\ j = k THEN Idle
                          ELSE IF u = t /\ Needs[j] = k /\ call[t][j].pc = "nested"
                          THEN [call[t][j] EXCEPT !.pc = "computing"] ELSE call[u][j]
      BY <2>3, ReturnEffect
    <3>2. \A j \in Keys : [call[t][j] EXCEPT !.pc = "computing"].pc = "computing"
      BY DEF TypeOK, Call
    <3>3. Idle.pc = "idle"
      BY DEF Idle
    <3> SUFFICES ASSUME NEW u \in Threads, NEW j \in Keys, call'[u][j].pc = "nested"
                 PROVE  Needs[j] \in Keys /\ call'[u][Needs[j]].pc # "idle"
      BY DEF NestedOpen
    <3>4. call[u][j].pc = "nested" /\ ~(u = t /\ Needs[j] = k)
      <4>1. ~(u = t /\ j = k)
        BY <3>1, <3>3
      <4>2. ~(u = t /\ Needs[j] = k /\ call[t][j].pc = "nested")
        BY <3>1, <3>2, <4>1
      <4>3. call'[u][j] = call[u][j]
        BY <3>1, <4>1, <4>2
      <4> QED BY <4>2, <4>3
    <3>5. Needs[j] \in Keys /\ call[u][Needs[j]].pc # "idle"
      BY <3>4 DEF NestedOpen
    <3> QED BY <3>1, <3>2, <3>4, <3>5
  <2>4. CASE Enter(t, k) \/ Hit(t, k) \/ Miss(t, k) \/ Follow(t, k) \/ Store(t, k)
             \/ Share(t, k) \/ Fail(t, k) \/ Complete(t, k)
    BY <2>1, <2>4, ActionEffects, NestedStays
  <2>5. CASE Lead(t, k)
    <3>1. PICK f \in Flights : Move(t, k, [call[t][k] EXCEPT !.pc = "producing", !.flight = f])
      BY <2>5 DEF Lead, NewFlight
    <3>2. Becomes(t, k, "producing", f, call[t][k].answer)
      BY <3>1, ActionEffects
    <3> QED BY <2>1, <3>2, NestedStays
  <2>6. CASE Wake(t, k)
    <3>1. call[t][k].flight \in Flights
      BY <2>6 DEF Wake, FlightInv, WaiterCovered
    <3>2. Becomes(t, k, "returning", NoFlight, flight[call[t][k].flight].answer)
      BY <2>6, <3>1, ActionEffects
    <3> QED BY <2>1, <3>2, NestedStays
  <2> QED BY <1>2, <2>2, <2>3, <2>4, <2>5, <2>6 DEF Step
<1>3. CASE Clear \/ Tick
  BY <1>3 DEF Clear, Tick, NestedOpen
<1> QED BY <1>1, <1>2, <1>3 DEF Next

(* In a group that waits for nobody else take a call of a function of      *)
(* which the group has none that it needs.  If it waits for a flight, the  *)
(* flight's producer is in the group; as a producer it waits in a nested   *)
(* call, and that is a call of the group after all.                        *)
LEMMA NobodyStuck == TypeOK /\ FlightInv /\ NestedOpen => NoneStuck
<1> SUFFICES ASSUME TypeOK, FlightInv, NestedOpen,
                    NEW group \in [Threads -> SUBSET Keys],
                    \A t \in Threads : \A k \in group[t] :
                      /\ Blocked(t, k)
                      /\ \A u \in Threads, j \in Keys : WaitsFor(t, k, u, j) => j \in group[u],
                    NEW w \in Threads, group[w] # {}
             PROVE  FALSE
  BY DEF NoneStuck
<1> DEFINE Called == {k \in Keys : \E t \in Threads : k \in group[t]}
<1>1. PICK k \in Called : Needs[k] \notin Called
  BY FlightAssumption
<1>2. ASSUME NEW t \in Threads, k \in group[t], call[t][k].pc = "nested" PROVE FALSE
  <2>1. Needs[k] \in Keys /\ WaitsFor(t, k, t, Needs[k])
    BY <1>2 DEF NestedOpen, WaitsFor
  <2>2. Needs[k] \in group[t]
    BY <1>2, <2>1
  <2> QED BY <1>1, <1>2, <2>1, <2>2
<1>3. PICK t \in Threads : k \in group[t]
  BY <1>1
<1>4. call[t][k].pc = "waiting" /\ ~flight[call[t][k].flight].done
  BY <1>1, <1>2, <1>3 DEF Blocked
<1>5. call[t][k].flight \in Flights /\ inflight[k] = call[t][k].flight
  BY <1>1, <1>4 DEF FlightInv, WaiterCovered
<1>6. PICK u \in Threads : Owns(u, k)
  BY <1>1, <1>5, FlightAssumption DEF FlightInv, RegisteredOwned
<1>7. call[u][k].pc \in Producing /\ call[u][k].flight = call[t][k].flight
  BY <1>1, <1>5, <1>6 DEF FlightInv, OwnerRegistered, Owns
<1>8. k \in group[u]
  BY <1>1, <1>3, <1>4, <1>7 DEF WaitsFor
<1>9. call[u][k].pc = "nested"
  BY <1>7, <1>8 DEF Blocked, Producing
<1> QED BY <1>2, <1>8, <1>9

(* No group of calls ever waits for nobody but each other, or for nobody   *)
(* at all, whatever the number of threads and the depth of the calls,      *)
(* because no cached function needs itself.                                *)
THEOREM NoDeadlock == Spec => []NoneStuck
<1>1. Init => TypeOK /\ FlightInv /\ NestedOpen
  BY InitInv DEF Init, Idle, NestedOpen
<1>2. TypeOK /\ FlightInv /\ NestedOpen /\ [Next]_vars => TypeOK' /\ FlightInv' /\ NestedOpen'
  BY TypeStep, FlightStep, NestedStep
<1>3. TypeOK /\ FlightInv /\ NestedOpen => NoneStuck
  BY NobodyStuck
<1>4. QED
  BY <1>1, <1>2, <1>3, PTL DEF Spec
=============================================================================
