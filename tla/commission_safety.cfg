SPECIFICATION Spec
CONSTANTS
  p1 = p1
  p2 = p2
  t1 = t1
  t2 = t2
  t3 = t3
  a1 = a1
  a2 = a2
  d1 = d1
  s1 = s1
  Workers = {w1, w2}
  Partitions = {p1, p2}
  NoPartition = NoPartition
  Events <- MCEvents
  Log <- MCFullLog
  MaxRetries = 2
  HasDlqProducer = TRUE
  ZombieHandoff = FALSE
  Faults = {"crash", "broker", "handoff", "outage", "transient", "confirm"}
  MaxFaults = 1
  Sales = {t1, t2, t3}
  LineCount <- MCLineCount
  Agreements = {a1, a2}
  NoAgreement = NoAgreement
  DealerOf <- MCDealerOf
  PartyOf <- MCPartyOf
  Statements = {s1}
  StatementOf <- MCStatementOf
  Amount <- MCAmount
  NoCommission = NoCommission
  Requests = {r1}
  NoStatement = NoStatement
  Unreadable = {}
  MaxAgreementChanges = 1
SYMMETRY MCSymmetry
INVARIANTS OneHandlerAtATime ProcessedIffCommissioned CommissionedOnce StatementReconciles
CHECK_DEADLOCK FALSE
