SPECIFICATION Spec
CONSTANTS
  p1 = p1
  s1 = s1
  Workers = {w1, w2}
  Partitions = {p1}
  NoPartition = NoPartition
  Events <- MCEvents
  Log <- MCLog
  MaxRetries = 2
  HasDlqProducer = TRUE
  ZombieHandoff = FALSE
  Faults = {"crash", "broker", "handoff", "transient"}
  MaxFaults = 1
  Statements = {s1}
  Totals = {1, 2}
  Calls = {c1, c2}
  NoCall = NoCall
  Unreadable <- MCUnreadable
  MaxByHand = 1
SYMMETRY MCSymmetry
INVARIANTS ConfirmationRequested CompletedIsPaid
CHECK_DEADLOCK FALSE
