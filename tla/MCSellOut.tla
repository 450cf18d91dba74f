------------------------------- MODULE MCSellOut -------------------------------
(* Two sales, of two products and of one, all in stock; one return, one session. *)
EXTENDS SellOut, TLC

CONSTANTS t1, t2, phone, cheap

Line(p, n) == [product |-> p, quantity |-> n]
MCLines == t1 :> <<Line(phone, 2), Line(cheap, 1)>> @@ t2 :> <<Line(phone, 1)>>
MCShown == phone :> 3 @@ cheap :> 1
MCSymmetry == Permutations(Slots)
=============================================================================
