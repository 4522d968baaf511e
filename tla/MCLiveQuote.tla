---------------------------- MODULE MCLiveQuote ----------------------------
(* Two tickers compete for one retained price; a permit, one coroutine and *)
(* a synchronous route share two threads.                                  *)
EXTENDS LiveQuote
=============================================================================
