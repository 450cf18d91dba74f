SPECIFICATION Spec
CONSTANTS
  t1 = t1
  t2 = t2
  phone = phone
  cheap = cheap
  Sales = {t1, t2}
  Lines <- MCLines
  Products = {phone, cheap}
  Shown <- MCShown
  NotFound = NotFound
  Returns = {r1}
  Sessions = {s1}
  Slots = {x1, x2}
  NoDoc = NoDoc
  NoOp = NoOp
  MaxRequests = 5
  Outages = TRUE
SYMMETRY MCSymmetry
INVARIANTS StoredIsAnnounced AnnouncedIsStored DecidedOnce
CHECK_DEADLOCK FALSE
