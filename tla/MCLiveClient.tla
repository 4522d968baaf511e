---------------------------- MODULE MCLiveClient ----------------------------
(* Two tickers, the home page and one route without the terminal; a second *)
(* socket slot for the one that is being closed.                           *)
EXTENDS LiveClient
=============================================================================
