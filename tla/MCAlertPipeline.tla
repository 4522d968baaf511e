--------------------------- MODULE MCAlertPipeline ---------------------------
(* Three parts with a state space of their own.  "overlap": two            *)
(* evaluations of a crossing rule and a level rule around the same target, *)
(* which their owner switches and deletes.  "rules": one evaluation at a   *)
(* time, while the owner creates, redefines and deletes rules.  "inbox":   *)
(* one evaluation at a time, while the owner reads the inbox.              *)
EXTENDS AlertDesk, TLC

CONSTANTS cross, level

VARIABLE part

mcVars == <<allVars, part>>

Rule(type, condition, target, cooldown) ==
  [type |-> type, condition |-> condition, ticker |-> Ticker, target |-> target,
   enabled |-> TRUE, cooldown |-> cooldown, expires |-> Never]

Crossing == Rule("price", "crosses_above", 2, 0)
Level == Rule("price", "above", 2, 2)
Bounce == [Rule("support_resistance", "bounce", 1, 0) EXCEPT !.expires = 1]
News == [Rule("news", "matched", NoTarget, 0) EXCEPT !.ticker = NoTicker]
Targetless == Rule("price", "below", NoTarget, 0)

MCRecovery == [target \in 1..2 |-> target]
Both == cross :> Crossing @@ level :> Level
OneRule == cross :> Level @@ level :> NoRule
MCInitials == {Both, OneRule}
MCDrafts == {[Crossing EXCEPT !.enabled = FALSE], Bounce, News, Targetless}
MCEdits == {{"enabled"}, {"condition"}, {"type", "condition", "expires"},
            {"type", "condition", "target", "ticker"}}

InPart(p, initials) ==
  part = p /\ [a \in Alerts |-> row[a].rule] \in initials

MCInit ==
  DeskInit /\ (InPart("overlap", {Both}) \/ InPart("rules", {OneRule}) \/ InPart("inbox", {Both}))

(* The switch of update_alert, as the owner's only change of a rule.       *)
Switch(a) ==
  UpdateAlert(a, [row[a].rule EXCEPT !.enabled = ~@], {"enabled"})

OneAtATime == Cardinality({e \in Evals : eval'[e].pc # "idle"}) <= 1
SameProcess == \A e \in Evals : ~eval'[e].orphan

MCNext ==
  /\ \/ part = "overlap"
        /\ \/ Next /\ UNCHANGED deskVars
           \/ \E a \in Alerts : row[a].state = "live" /\ Switch(a)
           \/ \E a \in Alerts : DeleteAlert(a)
           \/ \E ev \in events : DeleteEvent(ev)
     \/ /\ part = "rules" /\ ((Next /\ UNCHANGED deskVars) \/ Rules)
        /\ OneAtATime /\ SameProcess
     \/ /\ part = "inbox" /\ ((Next /\ UNCHANGED deskVars) \/ Inbox)
        /\ OneAtATime /\ SameProcess
  /\ UNCHANGED part

MCSpec == MCInit /\ [][MCNext]_mcVars

(* Threads run, statements return or fail, and PostgreSQL grants a row     *)
(* lock in the order of the requests (strong fairness of Select).          *)
Runs(A) == A /\ UNCHANGED <<deskVars, part>>
FairSpec == MCSpec /\ \A e \in Evals : /\ WF_mcVars(Runs(Evaluate(e)))
                                       /\ SF_mcVars(Runs(Select(e)))
=============================================================================
