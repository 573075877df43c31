---------------------------- MODULE MCMobileRelay -----------------------------
EXTENDS MobileRelay
CONSTANTS c1, c2, c3
MCConns == {c1, c2, c3}
MCMaxSent == [c \in MCConns |-> CASE c = c1 -> 2 [] c = c2 -> 0 [] c = c3 -> 0]
=============================================================================
