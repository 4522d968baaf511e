---------------------------- MODULE MCQuoteHub ----------------------------
(* Small instances of QuoteHub for TLC.                                    *)
EXTENDS QuoteHub, TLC

CONSTANTS t1, t2, s1, s2, w1, w2

OneTicker == {t1}
TwoTickers == {t1, t2}
TwoSockets == {s1, s2}
TwoWorkers == {w1, w2}

(* Connections and task identities are interchangeable.                    *)
Symmetry == Permutations(Sockets) \cup Permutations(Workers)
=============================================================================
