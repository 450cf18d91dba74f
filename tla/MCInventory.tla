----------------------------- MODULE MCInventory -----------------------------
(* One product at two locations, the second without a row at first; a sale of *)
(* it in two lines, one with a serial number; one transfer, two goods         *)
(* receipts of the same serial number, a count of the product in two lines.   *)
EXTENDS Inventory, TLC

CONSTANTS p1, phone, depot, shop, t1, k1, g1, g2

MCOpening == <<[product |-> phone, location |-> depot, quantity |-> 2, status |-> "AVAILABLE"]>>
MCSale == <<[product |-> phone, quantity |-> 2, serials |-> {"sn"}],
            [product |-> phone, quantity |-> 1, serials |-> {}]>>
MCLog == p1 :> <<MCSale>>
MCTransferOf == t1 :> [product |-> phone, from |-> depot, to |-> shop, quantity |-> 1]
MCCountOf == k1 :> <<[product |-> phone, variance |-> -2], [product |-> phone, variance |-> -1]>>
MCReceipt == [product |-> phone, location |-> shop, quantity |-> 2, serials |-> {"sn"}]
MCReceiptOf == g1 :> MCReceipt @@ g2 :> MCReceipt
MCDevice(name) == [name |-> name, value |-> "sn", status |-> "AVAILABLE", receipt |-> NoRef]
MCRegistrable == {<<MCDevice("IMEI")>>, <<MCDevice("SERIAL"), MCDevice("SERIAL")>>}
MCNewRows == {[product |-> phone, location |-> shop, quantity |-> 1, status |-> "AVAILABLE"]}
MCDeltas == {-2}
MCPatches == {[quantity |-> 1, status |-> "DAMAGED"], [location |-> shop]}
MCSymmetry == Permutations(Calls) \cup Permutations(Receipts)
=============================================================================
