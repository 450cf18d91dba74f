------------------------------ MODULE MCStockView ------------------------------
(* Two locations with an empty row each.                                     *)
EXTENDS StockView, TLC

CONSTANTS a, b, r1, r2

MCLocationOf == r1 :> a @@ r2 :> b
MCOpening == r1 :> 0 @@ r2 :> 0
MCDeltas == {1, -1}
=============================================================================
