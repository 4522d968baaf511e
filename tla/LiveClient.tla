----------------------------- MODULE LiveClient -----------------------------
(***************************************************************************)
(* The browser's live price (frontend/services/live-price.js) with what    *)
(* replaces its view: fetchDashboardData, switchStock, changeTimeframe     *)
(* (analysis/market-terminal.js) and the router.  JavaScript runs one      *)
(* handler at a time, so a handler is a step.                              *)
(*                                                                         *)
(* A view context is compared with the current view only, and every new    *)
(* view makes all contexts stale that somebody still holds: a context is   *)
(* the flag `current`, cleared by each viewEpoch change.  wsConnectionEpoch*)
(* moves exactly when `ws` does, so the test of `ws` stands for both.  A   *)
(* frame is reduced to its ticker and to whether it carries a price and    *)
(* the REGULAR session; one that the sequence test drops changes nothing.  *)
(***************************************************************************)
EXTENDS Integers, FiniteSets

CONSTANTS
  Symbols,     \* the tickers a user may choose
  NoSymbol,
  WebSockets,  \* slots for WebSocket objects, reused once closed
  NoSocket, NoQuote,
  FeedRoutes,  \* the routes that show the terminal: home and analysis
  Elsewhere,   \* the other routes
  MaxMoves     \* bound: events of the user, the network and the page

ASSUME ClientAssumption ==
  /\ NoSymbol \notin Symbols /\ NoSocket \notin WebSockets
  /\ NoQuote \notin [ticker : Symbols, regular : BOOLEAN, priced : BOOLEAN,
                     current : BOOLEAN]
  /\ Elsewhere \notin FeedRoutes /\ MaxMoves \in Nat

VARIABLES
  ticker,      \* currentTicker
  shown,       \* the ticker whose price is displayed
  regular,     \* currentMarketSession is REGULAR
  online,      \* isNetworkOnline
  route,       \* currentTerminalRoute()
  activated,   \* routeResourceLoads: feed routes loaded once
  ws,          \* the socket whose handlers are attached
  socket,      \* the WebSocket objects
  timer,       \* wsReconnectTimer: "none", or the state of its context
  watchdog,    \* the socket wsWatchdogTimer looks after
  queued,      \* queuedLiveQuote
  loading,     \* a fetchDashboardData of the current view awaits its answers
  resync,      \* terminalResyncTimer
  reconciling, \* a reconcileLiveState of the current view awaits its answer
  lost,        \* history: a known gap, see FeedWatched
  moves

net == <<ws, socket, timer, watchdog, queued>>
page == <<ticker, shown, regular, online, route, activated>>
clientVars == <<page, net, loading, resync, reconciling, lost, moves>>

Socket == [pc : {"none", "connecting", "open", "closing"},
           ticker : Symbols \cup {NoSymbol}, current : BOOLEAN]
Quote == [ticker : Symbols, regular : BOOLEAN, priced : BOOLEAN, current : BOOLEAN]

ClientInit ==
  /\ ticker \in Symbols
  /\ shown = NoSymbol
  /\ regular = FALSE
  /\ online \in BOOLEAN
  /\ route \in FeedRoutes \cup {Elsewhere}
  /\ activated = {route} \cap FeedRoutes
  /\ ws = NoSocket
  /\ socket = [s \in WebSockets |-> [pc |-> "none", ticker |-> NoSymbol, current |-> FALSE]]
  /\ timer = "none"
  /\ watchdog = NoSocket
  /\ queued = NoQuote
  /\ loading = (route \in FeedRoutes)
  /\ resync = FALSE
  /\ reconciling = FALSE
  /\ lost = FALSE
  /\ moves = 0

(***************************************************************************)
(* The functions the handlers share.                                       *)
(***************************************************************************)
(* socket.close() of closeLivePriceSocket.                                 *)
Shut == IF ws = NoSocket THEN socket ELSE [socket EXCEPT ![ws].pc = "closing"]

Stale(sockets) == [s \in WebSockets |-> [sockets[s] EXCEPT !.current = FALSE]]

(* closeLivePriceSocket, in the same view                                  *)
CloseLivePriceSocket ==
  /\ ws' = NoSocket
  /\ socket' = Shut
  /\ timer' = "none"
  /\ watchdog' = NoSocket
  /\ queued' = NoQuote

(* invalidateViewRequests, and the epoch that makeDashboardContext adds    *)
InvalidateView ==
  /\ socket' = Stale(socket)
  /\ timer' = IF timer = "current" THEN "stale" ELSE timer
  /\ queued' = IF queued = NoQuote THEN NoQuote ELSE [queued EXCEPT !.current = FALSE]
  /\ UNCHANGED <<ws, watchdog>>

(* closeLivePriceSocket together with invalidateViewRequests               *)
CloseAndInvalidate ==
  /\ ws' = NoSocket
  /\ socket' = Stale(Shut)
  /\ timer' = "none"
  /\ watchdog' = NoSocket
  /\ queued' = NoQuote

(* The start of fetchDashboardData, up to its requests.                    *)
LoadDashboard == loading' = TRUE /\ reconciling' = FALSE /\ lost' = FALSE

CanRunLiveFeed(current) == current /\ online /\ regular

(* scheduleLivePriceReconnect                                              *)
ScheduleReconnect(current) ==
  timer' = IF timer = "none" /\ CanRunLiveFeed(current) THEN "current" ELSE timer

OpenBeside ==   \* mutation: the previous socket is not closed
  \E s \in WebSockets \ {ws} :
    /\ socket[s].pc = "none"
    /\ ws' = s
    /\ socket' = [socket EXCEPT ![s] =
                    [pc |-> "connecting", ticker |-> ticker, current |-> TRUE]]
    /\ timer' = "none"
    /\ watchdog' = NoSocket
    /\ queued' = NoQuote

(* initWebSocket of the current view, online and in the REGULAR session:   *)
(* the old socket is closed and a new one made.                            *)
InitWebSocket ==
  \E s \in WebSockets \ {ws} :
    /\ socket[s].pc = "none"
    /\ ws' = s
    /\ socket' = [Shut EXCEPT ![s] =
                    [pc |-> "connecting", ticker |-> ticker, current |-> TRUE]]
    /\ timer' = "none"
    /\ watchdog' = NoSocket
    /\ queued' = NoQuote

(***************************************************************************)
(* The WebSocket.                                                          *)
(***************************************************************************)
(* onopen                                                                  *)
Opened(s) ==
  /\ socket[s].pc = "connecting"
  /\ IF ws = s /\ socket[s].current
     THEN socket' = [socket EXCEPT ![s].pc = "open"] /\ watchdog' = s
     ELSE socket' = [socket EXCEPT ![s].pc = "closing"] /\ UNCHANGED watchdog
  /\ UNCHANGED <<page, ws, timer, queued, loading, resync, reconciling, lost, moves>>

(* onmessage and queueLiveQuote: a newer frame replaces a waiting one.     *)
Message(s) ==
  /\ ws = s /\ socket[s].pc = "open" /\ socket[s].current
  /\ \E r, p \in BOOLEAN :
       queued' = [ticker |-> socket[s].ticker, regular |-> r, priced |-> p,
                  current |-> TRUE]
  /\ UNCHANGED <<page, ws, socket, timer, watchdog, loading, resync, reconciling, lost,
                 moves>>

(* The animation frame: applyLiveQuote.  Out of the REGULAR session it     *)
(* closes the feed.                                                        *)
AnimationFrame ==
  /\ queued # NoQuote
  /\ IF queued.current
     THEN /\ regular' = queued.regular
          /\ IF queued.regular
             THEN /\ shown' = IF queued.priced THEN queued.ticker ELSE shown
                  /\ queued' = NoQuote
                  /\ UNCHANGED <<ws, socket, timer, watchdog>>
             ELSE CloseLivePriceSocket /\ UNCHANGED shown
     ELSE queued' = NoQuote /\ UNCHANGED <<regular, shown, ws, socket, timer, watchdog>>
  /\ UNCHANGED <<ticker, online, route, activated, loading, resync, reconciling, lost, moves>>

ClosedSilently(s) ==   \* mutation: onclose does not schedule a reconnect
  /\ socket[s].pc # "none"
  /\ socket' = [socket EXCEPT ![s] = [pc |-> "none", ticker |-> NoSymbol, current |-> FALSE]]
  /\ IF ws = s THEN ws' = NoSocket /\ watchdog' = NoSocket ELSE UNCHANGED <<ws, watchdog>>
  /\ UNCHANGED <<page, timer, queued, loading, resync, reconciling, lost, moves>>

(* The connection ends, from either side; onclose if it is attached.       *)
Closed(s) ==
  /\ socket[s].pc # "none"
  /\ socket' = [socket EXCEPT ![s] = [pc |-> "none", ticker |-> NoSymbol, current |-> FALSE]]
  /\ IF ws = s
     THEN ws' = NoSocket /\ watchdog' = NoSocket /\ ScheduleReconnect(socket[s].current)
     ELSE UNCHANGED <<ws, watchdog, timer>>
  /\ UNCHANGED <<page, queued, loading, resync, reconciling, lost, moves>>

ReconnectTimer ==
  /\ timer # "none"
  /\ IF CanRunLiveFeed(timer = "current") THEN InitWebSocket
     ELSE timer' = "none" /\ UNCHANGED <<ws, socket, watchdog, queued>>
  /\ UNCHANGED <<page, loading, resync, reconciling, lost, moves>>

(* The watchdog's interval: it stops with the view, and closes a socket    *)
(* that has been silent for 20 seconds.                                    *)
Watchdog ==
  /\ watchdog # NoSocket
  /\ IF watchdog # ws \/ ~socket[watchdog].current
     THEN watchdog' = NoSocket /\ UNCHANGED socket
     ELSE /\ online /\ socket[watchdog].pc = "open"
          /\ socket' = [socket EXCEPT ![watchdog].pc = "closing"]
          /\ UNCHANGED watchdog
  /\ UNCHANGED <<page, ws, timer, queued, loading, resync, reconciling, lost, moves>>

(***************************************************************************)
(* The dashboard of a view.                                                *)
(***************************************************************************)
(* Its answers arrive: the session decides about the socket.               *)
DashboardAnswers ==
  /\ loading
  /\ loading' = FALSE
  /\ shown' = ticker
  /\ regular' \in BOOLEAN
  /\ IF ~regular' THEN CloseLivePriceSocket
     ELSE IF online THEN InitWebSocket ELSE UNCHANGED net
  /\ UNCHANGED <<ticker, online, route, activated, resync, reconciling, lost, moves>>

(* A request fails, or there are no market data.                           *)
DashboardFails ==
  /\ loading
  /\ loading' = FALSE
  /\ lost' = TRUE
  /\ UNCHANGED <<page, net, resync, reconciling, moves>>

(* The feed of the current view is up or something will bring it up.       *)
Tended ==
  \/ ws # NoSocket /\ socket[ws].current
  \/ timer = "current" \/ loading \/ reconciling

(* reconcileLiveState up to its request ...                                *)
ResyncTimer ==
  /\ resync
  /\ resync' = FALSE
  /\ reconciling' = (reconciling \/ (online /\ route \in FeedRoutes))
  /\ lost' = (lost \/ (online /\ route \notin FeedRoutes /\ ~Tended))
  /\ UNCHANGED <<page, net, loading, moves>>

(* ... and from its answer or failure.  The quote is queued, but the new   *)
(* view of fetchDashboardData comes before the next animation frame.       *)
ReconcileAnswers ==
  /\ reconciling
  /\ InvalidateView
  /\ LoadDashboard
  /\ UNCHANGED <<page, resync, moves>>

(***************************************************************************)
(* The user, the network and the page.                                     *)
(***************************************************************************)
Moves == moves < MaxMoves /\ moves' = moves + 1

(* What switchStock clears is currentLivePrice and, by                     *)
(* updateHomeMarketSurface, an element that the page does not have; the    *)
(* price in #live-price stays until something writes the next one.         *)
SwitchStock(t) ==
  /\ Moves
  /\ CloseAndInvalidate
  /\ LoadDashboard
  /\ ticker' = t
  /\ UNCHANGED <<shown, regular, online, route, activated, resync>>

ChangeTimeframe ==
  /\ Moves
  /\ InvalidateView
  /\ LoadDashboard
  /\ UNCHANGED <<page, resync>>

(* activateTerminalRoute: a route loads its data once.                     *)
Navigate(r) ==
  /\ Moves
  /\ route' = r
  /\ IF r \in FeedRoutes \ activated
     THEN activated' = activated \cup {r} /\ InvalidateView /\ LoadDashboard
     ELSE UNCHANGED <<activated, net, loading, reconciling, lost>>
  /\ UNCHANGED <<ticker, shown, regular, online, resync>>

Offline ==
  /\ Moves
  /\ online' = FALSE
  /\ CloseLivePriceSocket
  /\ UNCHANGED <<ticker, shown, regular, route, activated, loading, resync, reconciling, lost>>

OnlineSilently ==   \* mutation: coming online does not resynchronise
  /\ Moves
  /\ online' = TRUE
  /\ UNCHANGED <<ticker, shown, regular, route, activated, net, loading, resync,
                 reconciling, lost>>

Online ==
  /\ Moves
  /\ online' = TRUE
  /\ resync' = TRUE
  /\ UNCHANGED <<ticker, shown, regular, route, activated, net, loading, reconciling, lost>>

Visible ==
  /\ Moves
  /\ resync' = TRUE
  /\ UNCHANGED <<page, net, loading, reconciling, lost>>

RestoredSilently ==   \* mutation: pageshow does not resynchronise
  /\ Moves
  /\ CloseAndInvalidate
  /\ loading' = FALSE /\ reconciling' = FALSE
  /\ online' \in BOOLEAN
  /\ UNCHANGED <<ticker, shown, regular, route, activated, resync, lost>>

(* pagehide, and pageshow when the page comes back.                        *)
PageRestored ==
  /\ Moves
  /\ CloseAndInvalidate
  /\ loading' = FALSE /\ reconciling' = FALSE
  /\ online' \in BOOLEAN
  /\ resync' = TRUE
  /\ UNCHANGED <<ticker, shown, regular, route, activated, lost>>

User ==
  \/ \E t \in Symbols : SwitchStock(t)
  \/ \E r \in FeedRoutes \cup {Elsewhere} : Navigate(r)
  \/ ChangeTimeframe \/ Offline \/ Online \/ Visible \/ PageRestored

Dashboard == DashboardAnswers \/ DashboardFails

ClientNext ==
  \/ \E s \in WebSockets : Opened(s) \/ Message(s) \/ Closed(s)
  \/ AnimationFrame \/ ReconnectTimer \/ Watchdog
  \/ Dashboard \/ ResyncTimer \/ ReconcileAnswers
  \/ User

ClientSpec == ClientInit /\ [][ClientNext]_clientVars

(* Timers fire, requests are answered or fail, a closing socket closes,    *)
(* and a server that is tried again and again accepts a connection.        *)
ClientFairSpec ==
  /\ ClientSpec
  /\ WF_clientVars(AnimationFrame) /\ WF_clientVars(ReconnectTimer)
  /\ WF_clientVars(Dashboard) /\ WF_clientVars(ResyncTimer) /\ WF_clientVars(ReconcileAnswers)
  /\ \A s \in WebSockets : WF_clientVars(socket[s].pc = "closing" /\ Closed(s))
  /\ SF_clientVars(\E s \in WebSockets : Opened(s))

-----------------------------------------------------------------------------
(* Types of the client's variables; `ws` is never a socket that is closed. *)
ClientTypeOK ==
  /\ ticker \in Symbols /\ shown \in Symbols \cup {NoSymbol}
  /\ {regular, online, loading, resync, reconciling, lost} \subseteq BOOLEAN
  /\ route \in FeedRoutes \cup {Elsewhere} /\ activated \subseteq FeedRoutes
  /\ ws \in WebSockets \cup {NoSocket}
  /\ socket \in [WebSockets -> Socket]
  /\ ws # NoSocket => socket[ws].pc # "none"
  /\ timer \in {"none", "current", "stale"}
  /\ watchdog \in WebSockets \cup {NoSocket}
  /\ queued \in Quote \cup {NoQuote}
  /\ moves \in 0 .. MaxMoves

(* "stale-data ... and stale-request guards are included": the price on    *)
(* display is that of the ticker the user chose.  The code breaks this.    *)
ShownIsCurrent == shown \in {ticker, NoSymbol}

(* What the code keeps: whatever late frames and answers come in and       *)
(* whichever requests are cut off, a price left over from another ticker   *)
(* is on display only while a request or a timer is under way that         *)
(* replaces it, but for the two gaps named at FeedWatched.                 *)
OldPriceTended ==
  online /\ shown \notin {ticker, NoSymbol} => loading \/ reconciling \/ resync \/ lost

(* ... and it is replaced, unless the network goes first.                  *)
OldPriceGoes == []<>(shown \in {ticker, NoSymbol} \/ ~online \/ lost)

(* A tab holds one connection to the hub at most, and a reconnect is only  *)
(* pending while it has none: no timer ever cuts a healthy feed.           *)
OneFeed ==
  /\ ClientTypeOK
  /\ \A s \in WebSockets : socket[s].pc \in {"connecting", "open"} => ws = s
  /\ timer # "none" => ws = NoSocket

(* "reconnect, ... offline, resume ... guards": in the REGULAR session,    *)
(* online, the feed of the view is up or something is under way to bring   *)
(* it up, but for two gaps: the dashboard of this view failed, and a       *)
(* resynchronisation that was skipped on a route without the terminal.     *)
FeedWatched == online /\ regular => Tended \/ resync \/ lost

(* ... and it does come up, unless the session or the network ends first.  *)
FeedComesUp ==
  []<>(\/ \E s \in WebSockets : ws = s /\ socket[s].pc = "open" /\ socket[s].current
       \/ ~online \/ ~regular \/ lost)
=============================================================================
