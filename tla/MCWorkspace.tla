----------------------------- MODULE MCWorkspace -----------------------------
(***************************************************************************)
(* One profile: two requests of its tabs among the routes of Workspace or  *)
(* among those of Activity; or two threads of a process without cloud      *)
(* credentials.  A behaviour is of one of these kinds ("part"), which      *)
(* spares the product of their states: the legacy lists share no variable  *)
(* with the others, and Activity takes the routes of Workspace it meets    *)
(* along.                                                                  *)
(***************************************************************************)
EXTENDS Activity, LegacyBook

CONSTANTS r1, r2, t1, t2, ema, currency, nvda, amd

VARIABLE part

(* "Tech" and "tech" differ in case only.                                  *)
TwoRequests == {r1, r2}
TwoTickers == {t1, t2}
TwoKeys == {ema, currency}
MCLower == [n \in Names |-> IF n = "Tech" THEN "tech" ELSE n]
Symmetry ==
  Permutations(TwoRequests) \cup Permutations(TwoTickers) \cup Permutations(TwoKeys)

MCSymbols == {nvda, amd}
MCSeed == <<nvda>>

MCInit ==
  /\ part \in {"workspace", "activity", "legacy"}
  /\ Init
  /\ ActivityInit
  /\ BookInit

allVars == <<part, vars, activityVars, bookVars>>

WorkspaceNext ==
  part = "workspace" /\ Next /\ UNCHANGED <<part, activityVars, bookVars>>

ActivityPart ==
  part = "activity" /\ ActivityNext /\ UNCHANGED <<part, bookVars>>

LegacyNext ==
  part = "legacy" /\ BookNext /\ UNCHANGED <<part, vars, activityVars>>

(* The process was asked for the last time, and has answered.              *)
Rest ==
  /\ part = "legacy" /\ budget = 0 /\ \A t \in TwoRequests : task[t].pc = "idle"
  /\ UNCHANGED allVars

MCNext == WorkspaceNext \/ ActivityPart \/ LegacyNext \/ Rest

MCSpec == MCInit /\ [][MCNext]_allVars
=============================================================================
