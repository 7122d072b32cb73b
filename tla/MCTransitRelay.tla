--------------------------- MODULE MCTransitRelay ---------------------------
(* TLC instances of TransitRelay.                                          *)
EXTENDS TransitRelay

CONSTANTS c1, c2, c3, t1

\* Three connections share a token: a transfer and a retry of one client.
MCOneToken == [c \in Conns |-> t1]
=============================================================================
