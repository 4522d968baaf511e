------------------------------ MODULE AlertDesk ------------------------------
(***************************************************************************)
(* What the owner of the rules does while the pipeline runs: the routes    *)
(* under /api/alerts and /api/notifications (main.py).  Each is one        *)
(* transaction at READ COMMITTED that begins with ensure_workspace, whose  *)
(* row lock keeps the requests of one profile apart.  Evaluations take no  *)
(* such lock: an event can appear between any two statements of a route,   *)
(* and only the lock of the rule's own row orders a change of the rule     *)
(* with an evaluation of it.                                               *)
(***************************************************************************)
EXTENDS AlertPipeline, FiniteSetsExt

CONSTANTS
  Drafts,      \* definitions that are submitted, acceptable or not
  Edits,       \* the sets of fields a PATCH sends
  Limits,      \* values of the query parameter limit
  MaxEdits     \* bound: changes of rules

ASSUME DeskAssumption ==
  /\ Drafts \subseteq Definition(Tickers)
  /\ \A fields \in Edits, d \in Drafts : fields \subseteq DOMAIN d
  /\ Limits \subseteq Nat \ {0} /\ MaxEdits \in Nat

VARIABLES
  read,    \* the events whose read_at is set
  desk,    \* the request that holds the lock of the workspace
  edits    \* bound: changes of rules so far

deskVars == <<read, desk, edits>>
allVars == <<vars, deskVars>>

(* `shown` are the unread events on the page that was listed, `selected`   *)
(* those a read-all has loaded.                                            *)
Desk == [pc : {"idle", "listed", "counted", "marking"}, shown : SUBSET Event,
         unread : Nat, selected : SUBSET Event]
NoRequest == [pc |-> "idle", shown |-> {}, unread |-> 0, selected |-> {}]

DeskInit == Init /\ read = {} /\ desk = NoRequest /\ edits = 0

(* ensure_workspace got its lock: no other request of the profile runs.    *)
Alone == desk.pc = "idle"

Unread == events \ read

(***************************************************************************)
(* The rules.                                                              *)
(***************************************************************************)
(* A changed row, or NoRule when the validation fails and it all rolls     *)
(* back.                                                                   *)
Edited(a, r) ==
  /\ Alone /\ edits < MaxEdits
  /\ row' = [row EXCEPT ![a] = r]
  /\ edits' = edits + 1
  /\ UNCHANGED <<quote, fetch, claimed, eval, events, fired, now, read, desk>>

CreateAlert(a, draft) ==
  /\ row[a].state = "unused" /\ WellFormed(draft)
  /\ Edited(a, Stored(draft))

UpdateUnmerged(a, draft, fields) ==   \* mutation: only the sent definition is validated
  /\ row[a].state = "live" /\ a \notin Locked /\ WellFormed(draft)
  /\ Edited(a, [row[a] EXCEPT !.rule = Merged(row[a].rule, draft, fields)])

(* update_alert: the definition as a whole is validated under the row's    *)
(* lock; the trigger state stays.                                          *)
UpdateAlert(a, draft, fields) ==
  LET rule == Merged(row[a].rule, draft, fields)
  IN /\ row[a].state = "live" /\ a \notin Locked
     /\ WellFormed(rule)
     /\ Edited(a, [row[a] EXCEPT !.rule = rule])

(* delete_alert: the rule's events stay, and keep their dedupe keys.       *)
DeleteAlert(a) ==
  /\ row[a].state = "live" /\ a \notin Locked
  /\ Edited(a, [Unused EXCEPT !.state = "deleted"])

(***************************************************************************)
(* The inbox.                                                              *)
(***************************************************************************)
(* list_notification_events: a page of the inbox, newest first; which      *)
(* events are newest is left open.                                         *)
ListEvents(unreadOnly, limit) ==
  LET inbox == IF unreadOnly THEN Unread ELSE events
      size == IF Cardinality(inbox) < limit THEN Cardinality(inbox) ELSE limit
  IN /\ Alone
     /\ \E page \in kSubset(size, inbox) :
          desk' = [NoRequest EXCEPT !.pc = "listed", !.shown = page \ read]
     /\ UNCHANGED <<vars, read, edits>>

(* count_unread_notification_events, a second statement with a snapshot of *)
(* its own.                                                                *)
CountUnread ==
  /\ desk.pc = "listed"
  /\ desk' = [desk EXCEPT !.pc = "counted", !.unread = Cardinality(Unread)]
  /\ UNCHANGED <<vars, read, edits>>

MarkRead(ev) ==
  /\ Alone /\ ev \in events
  /\ read' = read \cup {ev}
  /\ UNCHANGED <<vars, desk, edits>>

(* mark_all_notifications_read loads the unread events, and then updates   *)
(* the loaded ones.                                                        *)
SelectUnread ==
  /\ Alone
  /\ desk' = [NoRequest EXCEPT !.pc = "marking", !.selected = Unread]
  /\ UNCHANGED <<vars, read, edits>>

MarkEverything ==   \* mutation: UPDATE ... WHERE read_at IS NULL
  /\ desk.pc = "marking"
  /\ read' = events
  /\ desk' = NoRequest
  /\ UNCHANGED <<vars, edits>>

MarkSelected ==
  /\ desk.pc = "marking"
  /\ read' = read \cup desk.selected
  /\ desk' = NoRequest
  /\ UNCHANGED <<vars, edits>>

(* delete_notification_event: its dedupe key goes with it.                 *)
DeleteEvent(ev) ==
  /\ Alone /\ ev \in events
  /\ events' = events \ {ev}
  /\ read' = read \ {ev}
  /\ UNCHANGED <<quote, fetch, claimed, eval, row, fired, now, desk, edits>>

(* The answer is sent, or the request fails: session_scope rolls back.     *)
RequestEnds ==
  /\ desk.pc # "idle"
  /\ desk' = NoRequest
  /\ UNCHANGED <<vars, read, edits>>

Rules ==
  \E a \in Alerts :
    \/ \E draft \in Drafts : CreateAlert(a, draft)
    \/ \E draft \in Drafts, fields \in Edits : UpdateAlert(a, draft, fields)
    \/ DeleteAlert(a)

Inbox ==
  \/ \E unreadOnly \in BOOLEAN, limit \in Limits : ListEvents(unreadOnly, limit)
  \/ CountUnread
  \/ \E ev \in events : MarkRead(ev) \/ DeleteEvent(ev)
  \/ SelectUnread \/ MarkSelected \/ RequestEnds

(* The routes of main.py.                                                  *)
Routes == Rules \/ Inbox

DeskNext == (Next /\ UNCHANGED deskVars) \/ Routes

DeskSpec == DeskInit /\ [][DeskNext]_allVars

-----------------------------------------------------------------------------
(* Types of the owner's side; only an event in the inbox is read.          *)
DeskTypeOK ==
  /\ TypeOK
  /\ read \subseteq events
  /\ desk \in Desk
  /\ edits \in 0..MaxEdits

(* Every stored rule can be evaluated, whatever sequence of partial        *)
(* changes led to it: one that cannot raises in evaluate_alert and rolls   *)
(* back the evaluation of every other profile's rules too.                 *)
RulesStayEvaluable == DeskTypeOK /\ \A a \in Live : WellFormed(row[a].rule)

(* No answer hides an unread notification, though an evaluation may commit *)
(* between the two statements of a route: the badge counts all the unread  *)
(* events on the page beside it, and "mark all as read" leaves an event    *)
(* unread that was inserted after the unread ones were loaded.             *)
HidesNothing ==
  /\ [](desk.pc = "counted" => Cardinality(desk.shown) <= desk.unread)
  /\ [][desk.pc = "marking" => Unread \ desk.selected \subseteq events' \ read']_allVars
=============================================================================
