SPECIFICATION Spec
CONSTANTS
  p1 = p1
  phone = phone
  depot = depot
  shop = shop
  t1 = t1
  k1 = k1
  g1 = g1
  g2 = g2
  Workers = {w1}
  Partitions = {p1}
  Log <- MCLog
  Calls = {c1, c2}
  Products = {phone}
  Locations = {depot, shop}
  Opening <- MCOpening
  Transfers = {t1}
  TransferOf <- MCTransferOf
  Counts = {k1}
  CountOf <- MCCountOf
  Receipts = {g1, g2}
  ReceiptOf <- MCReceiptOf
  Registrable <- MCRegistrable
  Serials = {"sn"}
  NewRows <- MCNewRows
  Deltas <- MCDeltas
  Reservable = {2}
  Patches <- MCPatches
  PatchStatuses = {"PENDING"}
  NoRef = NoRef
  MaxRequests = 2
SYMMETRY MCSymmetry
INVARIANTS StockConserved ReceivedOnce NeverNegativeAlone AppliedAsStated
PROPERTY SoldDevicesMarked
CHECK_DEADLOCK FALSE
