------------------------------ MODULE AlertRules ------------------------------
(***************************************************************************)
(* The definition of an alert (alert_service.py): which definitions are    *)
(* accepted, what a partial change makes of a stored one, and which price  *)
(* observations match it.  A definition that misses a target, or whose     *)
(* condition belongs to another type, fails an assertion when it is        *)
(* evaluated, and takes the transaction of every profile with it.          *)
(***************************************************************************)
EXTENDS Integers

CONSTANTS
  NoPrice,
  NoTarget,   \* target_value is NULL
  NoTicker,   \* ticker is NULL
  Never,      \* a time stamp that was never set
  Recovery    \* target * (1 + tolerance), where a bounce of it is confirmed

ConditionsOf ==
  [price |-> {"above", "below", "crosses_above", "crosses_below"},
   support_resistance |-> {"breakout", "breakdown", "bounce"},
   iv |-> {"above", "below", "crosses_above", "crosses_below"},
   news |-> {"matched"},
   earnings |-> {"within_days", "reported"}]

Types == DOMAIN ConditionsOf
Conditions == UNION {ConditionsOf[t] : t \in Types}

(* evaluate_price_alerts only ever selects rules of these types.           *)
PriceTypes == {"price", "support_resistance"}

Definition(tickers) ==
  [type : Types, condition : Conditions, ticker : tickers \cup {NoTicker},
   target : Nat \cup {NoTarget}, enabled : BOOLEAN, cooldown : Nat,
   expires : Nat \cup {Never}]

NeedsTarget(d) ==
  d.type \in {"price", "support_resistance", "iv"} \/ d.condition = "within_days"

(* normalize_alert_definition accepts the definition; the text fields, the *)
(* channels and the size of the config do not interact with the rest.      *)
WellFormed(d) ==
  /\ d.condition \in ConditionsOf[d.type]
  /\ d.ticker = NoTicker => d.type = "news"
  /\ NeedsTarget(d) <=> d.target # NoTarget

(* The stored definition with the fields of a PATCH put over it.           *)
Merged(d, draft, fields) ==
  [f \in DOMAIN d |-> IF f \in fields THEN draft[f] ELSE d[f]]

Expired(d, at) == d.expires # Never /\ d.expires <= at

(* evaluate_alert for price and support/resistance rules.                  *)
Matches(d, price, previous) ==
  LET known == previous # NoPrice
  IN CASE d.condition = "above" -> price >= d.target
       [] d.condition = "below" -> price <= d.target
       [] d.condition = "crosses_above" -> known /\ previous < d.target /\ d.target <= price
       [] d.condition = "crosses_below" -> known /\ previous > d.target /\ d.target >= price
       [] d.condition = "breakout" -> price >= d.target /\ (known => previous < d.target)
       [] d.condition = "breakdown" -> price <= d.target /\ (known => previous > d.target)
       [] d.condition = "bounce" ->
            /\ price >= Recovery[d.target]
            /\ known => previous <= Recovery[d.target]
=============================================================================
