-------------------------- MODULE LiveClientProofs --------------------------
(***************************************************************************)
(* LiveClient for any number of tickers, sockets, routes and moves.        *)
(***************************************************************************)
EXTENDS LiveClient, TLAPS

(* What OneFeed says of the sockets.                                       *)
Single ==
  /\ \A s \in WebSockets : socket[s].pc \in {"connecting", "open"} => ws = s
  /\ timer # "none" => ws = NoSocket

(* Whatever is still current was made for the ticker of the view, and a    *)
(* feed is only ever kept in the REGULAR session.                          *)
OfView ==
  /\ \A s \in WebSockets : socket[s].current => socket[s].ticker = ticker
  /\ queued # NoQuote /\ queued.current => queued.ticker = ticker
  /\ ws # NoSocket \/ queued # NoQuote => regular

(* A price of another ticker that no request is about to replace has no    *)
(* feed beside it: so a resynchronisation that is skipped then is recorded *)
(* as the gap that it is.                                                  *)
Unfed ==
  shown \notin {ticker, NoSymbol} /\ ~loading /\ ~reconciling /\ ~lost =>
    ws = NoSocket /\ timer = "none"

CInv == ClientTypeOK /\ Single /\ OfView /\ Unfed /\ OldPriceTended /\ FeedWatched

-----------------------------------------------------------------------------
LEMMA Start == ClientInit => CInv
<1> SUFFICES ASSUME ClientInit PROVE CInv
  OBVIOUS
<1>1. \A s \in WebSockets : socket[s] = [pc |-> "none", ticker |-> NoSymbol, current |-> FALSE]
  BY DEF ClientInit
<1>2. socket \in [WebSockets -> Socket]
  BY DEF ClientInit, Socket
<1>3. loading \in BOOLEAN
  <2>1. loading = (route \in FeedRoutes)
    BY DEF ClientInit
  <2>2. CASE route \in FeedRoutes
    BY <2>1, <2>2
  <2>3. CASE route \notin FeedRoutes
    BY <2>1, <2>3
  <2> QED BY <2>2, <2>3
<1>4. moves \in 0 .. MaxMoves
  BY ClientAssumption DEF ClientInit
<1>5. ~regular /\ regular \in BOOLEAN
  BY DEF ClientInit
<1>6. ClientTypeOK
  BY <1>2, <1>3, <1>4, <1>5 DEF ClientInit, ClientTypeOK
<1>7. Single /\ OfView
  BY <1>1 DEF ClientInit, Single, OfView
<1> QED BY <1>5, <1>6, <1>7 DEF ClientInit, CInv, Unfed, OldPriceTended, FeedWatched

(* Close and InitWebSocket, as the handlers share them.                    *)
LEMMA ShutIs ==
  ASSUME CInv
  PROVE  /\ Shut \in [WebSockets -> Socket]
         /\ \A s \in WebSockets : /\ Shut[s].pc \notin {"connecting", "open"}
                                  /\ Shut[s].current = socket[s].current
                                  /\ Shut[s].ticker = socket[s].ticker
                                  /\ socket[s].pc = "none" => Shut[s] = socket[s]
BY ClientAssumption DEF CInv, ClientTypeOK, Single, Shut, Socket

LEMMA StaleIs ==
  ASSUME NEW sockets \in [WebSockets -> Socket]
  PROVE  /\ Stale(sockets) \in [WebSockets -> Socket]
         /\ \A s \in WebSockets : /\ Stale(sockets)[s].pc = sockets[s].pc
                                  /\ ~Stale(sockets)[s].current
BY DEF Stale, Socket

LEMMA InitIs ==
  ASSUME CInv, InitWebSocket
  PROVE  /\ ws' \in WebSockets /\ socket' \in [WebSockets -> Socket]
         /\ socket'[ws'].pc = "connecting" /\ socket'[ws'].current
         /\ \A s \in WebSockets : s # ws' => socket'[s].pc \notin {"connecting", "open"}
         /\ \A s \in WebSockets : socket'[s].current => socket'[s].ticker = ticker
         /\ timer' = "none" /\ watchdog' = NoSocket /\ queued' = NoQuote
<1>1. PICK s \in WebSockets \ {ws} :
        /\ ws' = s
        /\ socket' = [Shut EXCEPT ![s] =
                        [pc |-> "connecting", ticker |-> ticker, current |-> TRUE]]
        /\ timer' = "none" /\ watchdog' = NoSocket /\ queued' = NoQuote
  BY DEF InitWebSocket
<1>2. [pc |-> "connecting", ticker |-> ticker, current |-> TRUE] \in Socket
  BY DEF CInv, ClientTypeOK, Socket
<1>3. \A q \in WebSockets : socket'[q] = IF q = s
        THEN [pc |-> "connecting", ticker |-> ticker, current |-> TRUE] ELSE Shut[q]
  BY <1>1, ShutIs
<1>4. socket' \in [WebSockets -> Socket]
  BY <1>1, <1>2, ShutIs
<1> QED BY <1>1, <1>3, <1>4, ShutIs DEF CInv, OfView

LEMMA CloseIs ==
  ASSUME CInv, CloseLivePriceSocket
  PROVE  /\ ws' = NoSocket /\ socket' \in [WebSockets -> Socket]
         /\ \A s \in WebSockets : /\ socket'[s].pc \notin {"connecting", "open"}
                                  /\ socket'[s].current => socket'[s].ticker = ticker
         /\ timer' = "none" /\ watchdog' = NoSocket /\ queued' = NoQuote
BY ShutIs DEF CloseLivePriceSocket, CInv, OfView

LEMMA CloseAllIs ==
  ASSUME CInv, CloseAndInvalidate
  PROVE  /\ ws' = NoSocket /\ socket' \in [WebSockets -> Socket]
         /\ \A s \in WebSockets : /\ socket'[s].pc \notin {"connecting", "open"}
                                  /\ ~socket'[s].current
         /\ timer' = "none" /\ watchdog' = NoSocket /\ queued' = NoQuote
BY ShutIs, StaleIs DEF CloseAndInvalidate

LEMMA InvalidateIs ==
  ASSUME CInv, InvalidateView
  PROVE  /\ ws' = ws /\ watchdog' = watchdog /\ socket' \in [WebSockets -> Socket]
         /\ \A s \in WebSockets : socket'[s].pc = socket[s].pc /\ ~socket'[s].current
         /\ timer' \in {"none", "current", "stale"} /\ (timer' # "none" => timer # "none")
         /\ queued' \in Quote \cup {NoQuote}
         /\ queued' # NoQuote => ~queued'.current /\ queued # NoQuote
BY StaleIs DEF InvalidateView, CInv, ClientTypeOK, Quote

-----------------------------------------------------------------------------
LEMMA OpenedKeeps ==
  ASSUME CInv, NEW s \in WebSockets, Opened(s)
  PROVE  CInv'
BY DEF CInv, ClientTypeOK, Single, OfView, Unfed, OldPriceTended, FeedWatched,
       Tended, Socket, Opened, page

LEMMA MessageKeeps ==
  ASSUME CInv, NEW s \in WebSockets, Message(s)
  PROVE  CInv'
BY ClientAssumption
   DEF CInv, ClientTypeOK, Single, OfView, Unfed, OldPriceTended, FeedWatched,
       Tended, Socket, Quote, Message, page

LEMMA AnimationFrameKeeps ==
  ASSUME CInv, AnimationFrame
  PROVE  CInv'
<1>1. CASE queued.current /\ ~queued.regular
  <2>1. CloseLivePriceSocket
    BY <1>1 DEF AnimationFrame
  <2>2. queued.regular = FALSE /\ regular' = queued.regular
    BY <1>1 DEF AnimationFrame, CInv, ClientTypeOK, Quote
  <2> QED BY <2>1, <2>2, CloseIs
             DEF CInv, ClientTypeOK, Single, OfView, Unfed, OldPriceTended,
                 FeedWatched, AnimationFrame
<1>2. CASE queued.current /\ queued.regular
  BY <1>2
     DEF CInv, ClientTypeOK, Single, OfView, Unfed, OldPriceTended, FeedWatched,
         Tended, Quote, AnimationFrame
<1>3. CASE ~queued.current
  BY <1>3
     DEF CInv, ClientTypeOK, Single, OfView, Unfed, OldPriceTended, FeedWatched,
         Tended, AnimationFrame
<1> QED BY <1>1, <1>2, <1>3

LEMMA ClosedKeeps ==
  ASSUME CInv, NEW s \in WebSockets, Closed(s)
  PROVE  CInv'
BY ClientAssumption
   DEF CInv, ClientTypeOK, Single, OfView, Unfed, OldPriceTended, FeedWatched,
       Tended, Socket, Closed, ScheduleReconnect, CanRunLiveFeed, page

LEMMA ReconnectTimerKeeps ==
  ASSUME CInv, ReconnectTimer
  PROVE  CInv'
<1>1. CASE CanRunLiveFeed(timer = "current")
  <2>1. InitWebSocket /\ UNCHANGED <<page, loading, resync, reconciling, lost, moves>>
    BY <1>1 DEF ReconnectTimer
  <2>2. regular /\ online /\ timer = "current"
    BY <1>1 DEF CanRunLiveFeed
  <2>3. Unfed'
    BY <2>1, <2>2 DEF CInv, Unfed, page
  <2>4. (ClientTypeOK /\ Single /\ OfView)'
    BY <2>1, <2>2, InitIs, ClientAssumption
       DEF CInv, ClientTypeOK, Single, OfView, page
  <2>5. (OldPriceTended /\ FeedWatched)'
    BY <2>1, <2>2, InitIs, ClientAssumption
       DEF CInv, ClientTypeOK, OldPriceTended, FeedWatched, Tended, page
  <2> QED BY <2>3, <2>4, <2>5 DEF CInv
<1>2. CASE ~CanRunLiveFeed(timer = "current")
  BY <1>2
     DEF CInv, ClientTypeOK, Single, OfView, Unfed, OldPriceTended, FeedWatched,
         Tended, CanRunLiveFeed, ReconnectTimer, page
<1> QED BY <1>1, <1>2

LEMMA WatchdogKeeps ==
  ASSUME CInv, Watchdog
  PROVE  CInv'
BY DEF CInv, ClientTypeOK, Single, OfView, Unfed, OldPriceTended, FeedWatched,
       Tended, Socket, Watchdog, page

LEMMA DashboardAnswersKeeps ==
  ASSUME CInv, DashboardAnswers
  PROVE  CInv'
<1>1. CASE ~regular'
  BY <1>1, CloseIs
     DEF CInv, ClientTypeOK, Single, OfView, Unfed, OldPriceTended, FeedWatched,
         DashboardAnswers
<1>2. CASE regular' /\ online
  <2>1. InitWebSocket
    BY <1>2 DEF DashboardAnswers
  <2> QED BY <1>2, <2>1, InitIs, ClientAssumption
             DEF CInv, ClientTypeOK, Single, OfView, Unfed, OldPriceTended,
                 FeedWatched, Tended, DashboardAnswers
<1>3. CASE regular' /\ ~online
  BY <1>3
     DEF CInv, ClientTypeOK, Single, OfView, Unfed, OldPriceTended, FeedWatched,
         DashboardAnswers, net
<1> QED BY <1>1, <1>2, <1>3

LEMMA DashboardFailsKeeps ==
  ASSUME CInv, DashboardFails
  PROVE  CInv'
BY DEF CInv, ClientTypeOK, Single, OfView, Unfed, OldPriceTended, FeedWatched,
       DashboardFails, net, page

LEMMA ResyncTimerKeeps ==
  ASSUME CInv, ResyncTimer
  PROVE  CInv'
<1>1. (ClientTypeOK /\ Single /\ OfView)'
  BY DEF CInv, ClientTypeOK, Single, OfView, ResyncTimer, net, page
<1>2. (Unfed /\ OldPriceTended)'
  BY DEF CInv, ClientTypeOK, Unfed, OldPriceTended, Tended, ResyncTimer, net, page
<1>3. FeedWatched'
  BY DEF CInv, ClientTypeOK, FeedWatched, Tended, ResyncTimer, net, page
<1> QED BY <1>1, <1>2, <1>3 DEF CInv

(* A new view of the same ticker, or of none.                              *)
LEMMA NewViewKeeps ==
  ASSUME CInv, InvalidateView, LoadDashboard, UNCHANGED <<ticker, shown, regular, online, resync>>,
         route' \in FeedRoutes \cup {Elsewhere}, activated' \subseteq FeedRoutes,
         moves' \in 0 .. MaxMoves
  PROVE  CInv'
BY InvalidateIs
   DEF CInv, ClientTypeOK, Single, OfView, Unfed, OldPriceTended, FeedWatched,
       Tended, LoadDashboard

LEMMA MovesIn == ASSUME CInv, Moves PROVE moves' \in 0 .. MaxMoves
BY ClientAssumption DEF CInv, ClientTypeOK, Moves

LEMMA ReconcileAnswersKeeps ==
  ASSUME CInv, ReconcileAnswers
  PROVE  CInv'
BY NewViewKeeps DEF ReconcileAnswers, page, CInv, ClientTypeOK

LEMMA SwitchStockKeeps ==
  ASSUME CInv, NEW t \in Symbols, SwitchStock(t)
  PROVE  CInv'
BY CloseAllIs, MovesIn
   DEF CInv, ClientTypeOK, Single, OfView, Unfed, OldPriceTended, FeedWatched,
       Tended, LoadDashboard, SwitchStock

LEMMA ChangeTimeframeKeeps ==
  ASSUME CInv, ChangeTimeframe
  PROVE  CInv'
BY NewViewKeeps, MovesIn DEF ChangeTimeframe, page, CInv, ClientTypeOK

LEMMA NavigateKeeps ==
  ASSUME CInv, NEW r \in FeedRoutes \cup {Elsewhere}, Navigate(r)
  PROVE  CInv'
<1>1. CASE r \in FeedRoutes \ activated
  BY <1>1, NewViewKeeps, MovesIn DEF Navigate, CInv, ClientTypeOK
<1>2. CASE r \notin FeedRoutes \ activated
  BY <1>2, MovesIn
     DEF Navigate, net, CInv, ClientTypeOK, Single, OfView, Unfed, OldPriceTended,
         FeedWatched, Tended
<1> QED BY <1>1, <1>2

LEMMA OfflineKeeps ==
  ASSUME CInv, Offline
  PROVE  CInv'
BY CloseIs, MovesIn
   DEF CInv, ClientTypeOK, Single, OfView, Unfed, OldPriceTended, FeedWatched,
       Offline

LEMMA OnlineKeeps ==
  ASSUME CInv, Online
  PROVE  CInv'
BY MovesIn
   DEF CInv, ClientTypeOK, Single, OfView, Unfed, OldPriceTended, FeedWatched,
       Online, net

LEMMA VisibleKeeps ==
  ASSUME CInv, Visible
  PROVE  CInv'
BY MovesIn
   DEF CInv, ClientTypeOK, Single, OfView, Unfed, OldPriceTended, FeedWatched,
       Visible, net, page

LEMMA PageRestoredKeeps ==
  ASSUME CInv, PageRestored
  PROVE  CInv'
BY CloseAllIs, MovesIn
   DEF CInv, ClientTypeOK, Single, OfView, Unfed, OldPriceTended, FeedWatched,
       PageRestored

LEMMA Steps == CInv /\ [ClientNext]_clientVars => CInv'
<1> SUFFICES ASSUME CInv, [ClientNext]_clientVars PROVE CInv'
  OBVIOUS
<1>1. CASE \E s \in WebSockets : Opened(s) \/ Message(s) \/ Closed(s)
  BY <1>1, OpenedKeeps, MessageKeeps, ClosedKeeps
<1>2. CASE AnimationFrame \/ ReconnectTimer \/ Watchdog
  BY <1>2, AnimationFrameKeeps, ReconnectTimerKeeps, WatchdogKeeps
<1>3. CASE Dashboard \/ ResyncTimer \/ ReconcileAnswers
  BY <1>3, DashboardAnswersKeeps, DashboardFailsKeeps, ResyncTimerKeeps, ReconcileAnswersKeeps
     DEF Dashboard
<1>4. CASE User
  BY <1>4, SwitchStockKeeps, NavigateKeeps, ChangeTimeframeKeeps, OfflineKeeps, OnlineKeeps,
     VisibleKeeps, PageRestoredKeeps DEF User
<1>5. CASE UNCHANGED clientVars
  BY <1>5
     DEF CInv, ClientTypeOK, Single, OfView, Unfed, OldPriceTended, FeedWatched,
         Tended, clientVars, page, net
<1> QED BY <1>1, <1>2, <1>3, <1>4, <1>5 DEF ClientNext

LEMMA Always == ClientSpec => []CInv
<1> QED BY Start, Steps, PTL DEF ClientSpec

-----------------------------------------------------------------------------
(* No late frame or answer that applyLiveQuote and fetchDashboardData let  *)
(* through brings the price of another ticker back; one that switchStock   *)
(* left on display is about to be replaced, but for the named gaps.        *)
THEOREM OldPriceLeaves == ClientSpec => []OldPriceTended
<1>1. CInv => OldPriceTended
  BY DEF CInv
<1> QED BY <1>1, Always, PTL

(* A tab has one live connection at most, and no timer cuts it.            *)
THEOREM SingleFeed == ClientSpec => []OneFeed
<1>1. CInv => OneFeed
  BY DEF CInv, Single, OneFeed
<1> QED BY <1>1, Always, PTL

(* The feed is up, or something is under way to bring it up.               *)
THEOREM AlwaysTended == ClientSpec => []FeedWatched
<1>1. CInv => FeedWatched
  BY DEF CInv
<1> QED BY <1>1, Always, PTL
=============================================================================
