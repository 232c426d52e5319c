------------------------------ MODULE MCShield ------------------------------
EXTENDS ShieldBrowser, TLC

CONSTANTS m, w, h1, h2, f1, f2, b1, b2, c1

MCHandlers == {h1, h2}
MCFlights == {f1, f2}
MCBrowser == {[kind |-> "send", key |-> b1, of |-> b1, text |-> FALSE],
              [kind |-> "reply", key |-> b2, of |-> b1, text |-> FALSE]}
MCOther == {[kind |-> "call", key |-> c1, of |-> c1, text |-> TRUE]}
MCSymmetry == Permutations(MCHandlers) \cup Permutations(MCFlights)
=============================================================================
