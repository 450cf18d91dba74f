--------------------------- MODULE MCCommissionRules ---------------------------
(* Two specs; in the first, a band of two units, one for the rest that takes    *)
(* in all products of the shop, and rules of the other types between them; in   *)
(* the second, a band from unit 0.                                             *)
EXTENDS CommissionRules, TLC

CONSTANTS d1, s1, s2, sim, phone, shop, online

Rule(spec, category, channel, min, max, type, value, priority) ==
  [spec |-> spec, category |-> category, channel |-> channel, min |-> min, max |-> max,
   type |-> type, value |-> value, priority |-> priority]

MCRuleOf ==
  "low"  :> Rule(s1, sim, AnyChannel, 1, 2, "TIERED", 2, 10) @@
  "high" :> Rule(s1, AnyCategory, shop, 3, NoLimit, "TIERED", 3, 10) @@
  "flat" :> Rule(s1, sim, shop, 0, 3, "FLAT_AMOUNT", 7, 10) @@
  "rate" :> Rule(s1, AnyCategory, AnyChannel, 2, NoLimit, "PERCENTAGE", 1, 20) @@
  "else" :> Rule(s2, sim, AnyChannel, 0, NoLimit, "TIERED", 9, 1)
MCRules == DOMAIN MCRuleOf

Line(product, channel, quantity) ==
  [dealer |-> d1, product |-> product, channel |-> channel, quantity |-> quantity, price |-> 3]
MCLines == {Line(sim, shop, n) : n \in {2, 4}} \cup {Line(phone, online, 2)}
=============================================================================
