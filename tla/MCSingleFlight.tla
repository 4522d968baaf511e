--------------------------- MODULE MCSingleFlight ---------------------------
(* Two cached functions, the first of which calls the second.              *)
EXTENDS SingleFlight, TLC

CONSTANTS atr, history

MCNeeds == atr :> history @@ history :> NoKey

=============================================================================
