SPECIFICATION Spec
CONSTANTS
  o1 = o1
  o2 = o2
  phone = phone
  sim = sim
  k1 = k1
  s1 = s1
  Orders = {o1, o2}
  Lines <- MCLines
  Products = {phone, sim}
  Prefix <- MCPrefix
  PickLists = {k1}
  Slips = {s1}
  PickListOf <- MCPickListOf
  Slots = {x1, x2}
  Workers = {w1, w2}
  NoDoc = NoDoc
  NoOp = NoOp
  MaxRequests = 4
SYMMETRY MCSymmetry
INVARIANTS OrderedIsAnnounced CancelledNotReceived LineReceivedOnce SettledIsReceived DoneOnce
CHECK_DEADLOCK FALSE
