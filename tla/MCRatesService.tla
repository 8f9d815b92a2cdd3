--------------------------- MODULE MCRatesService ---------------------------
(* RatesService over any repository and provider, for TLC.                 *)
EXTENDS RatesService, TLC

CONSTANTS c1, c2, c3, p1, p2

MCCalls  == {c1, c2, c3}
MCProcs  == {p1, p2}
MCProcOf == c1 :> p1 @@ c2 :> p1 @@ c3 :> p2
MCSkew   == p1 :> 0 @@ p2 :> 1
=============================================================================
