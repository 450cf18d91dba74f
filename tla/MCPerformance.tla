----------------------------- MODULE MCPerformance -----------------------------
(* One dealer sells twice in a month; a target asks for two units of it.  The       *)
(* second specification, named after the revenue, may be renamed after the units.   *)
EXTENDS Performance, TLC

CONSTANTS p1, d1, s1, s2, t1

Sale(m, units, revenue) ==
  [dealer |-> d1, month |-> m, amount |-> [k \in Kpis |-> IF k = "units" THEN units ELSE revenue]]
MCEvents == [dealer : {d1}, month : {1}, amount : [Kpis -> 0..2]]
MCLog == p1 :> <<Sale(1, 1, 2), Sale(1, 1, 1)>>
MCNamedAtStart == s1 :> "units" @@ s2 :> "revenue"
MCNamings == {<<s2, "units">>}
MCTargetOf == t1 :> [dealer |-> d1, spec |-> s1, goal |-> 2, from |-> 1, to |-> 1]
MCTargetPatches == {"goal" :> 1}
MCSymmetry == Permutations(Workers)
=============================================================================
