---------------------------- MODULE MCReplenishment ----------------------------
(* Two orders: one of two products, one that has a product on two of its lines. *)
EXTENDS Replenishment, TLC

CONSTANTS o1, o2, phone, sim, k1, s1

MCLines == o1 :> <<phone, sim>> @@ o2 :> <<sim, sim>>
MCPrefix == phone :> "p" @@ sim :> "s"
MCPickListOf == s1 :> k1
MCSymmetry == Permutations(Slots) \cup Permutations(Workers)
=============================================================================
