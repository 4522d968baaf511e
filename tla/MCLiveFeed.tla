------------------------------ MODULE MCLiveFeed ------------------------------
(* Both ends of the live feed, in behaviours of their own ("part") since they  *)
(* share no variable: the hub with one ticker and two connections; the browser *)
(* with two tickers, the home page, one route without the terminal and a       *)
(* second socket slot for the one that is being closed.                        *)
EXTENDS MCQuoteHub, LiveClient

VARIABLE part

mcVars == <<part, vars, clientVars>>

MCInit ==
  /\ part \in {"hub", "client"}
  /\ Init /\ ClientInit
  /\ part # "client" =>
       ~online /\ route = Elsewhere /\ ticker = CHOOSE t \in Symbols : TRUE

MCNext ==
  \/ part = "hub" /\ Next /\ UNCHANGED <<part, clientVars>>
  \/ part = "client" /\ ClientNext /\ UNCHANGED <<part, vars>>

(* FairSpec and ClientFairSpec, each in its part.                              *)
InHub(A) == part = "hub" /\ A /\ UNCHANGED <<part, clientVars>>
InClient(A) == part = "client" /\ A /\ UNCHANGED <<part, vars>>

MCFairSpec ==
  /\ MCInit /\ [][MCNext]_mcVars
  /\ \A s \in Sockets : SF_mcVars(InHub(Endpoint(s)))
  /\ \A w \in Workers : WF_mcVars(InHub(Poll(w)))
  /\ WF_mcVars(InClient(AnimationFrame)) /\ WF_mcVars(InClient(ReconnectTimer))
  /\ WF_mcVars(InClient(Dashboard)) /\ WF_mcVars(InClient(ResyncTimer))
  /\ WF_mcVars(InClient(ReconcileAnswers))
  /\ \A s \in WebSockets : WF_mcVars(InClient(socket[s].pc = "closing" /\ Closed(s)))
  /\ SF_mcVars(InClient(\E s \in WebSockets : Opened(s)))
=============================================================================
