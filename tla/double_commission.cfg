SPECIFICATION Spec
CONSTANTS
  p1 = p1
  p2 = p2
  t1 = t1
  t2 = t2
  t3 = t3
  a1 = a1
  a2 = a2
  d1 = d1
  s1 = s1
  Workers = {w1, w2}
  Partitions = {p1}
  NoPartition = NoPartition
  Events <- MCEvents
  Log <- MCOneSaleLog
  MaxRetries = 2
  HasDlqProducer = TRUE
  ZombieHandoff = TRUE
  Faults = {"handoff"}
  MaxFaults = 1
  Sales = {t1, t2, t3}
  LineCount <- MCLineCount
  Agreements = {a1}
  NoAgreement = NoAgreement
  DealerOf <- MCDealerOf
  PartyOf <- MCPartyOf
  Statements = {s1}
  StatementOf <- MCStatementOf
  Amount <- MCAmount
  NoCommission = NoCommission
  Requests = {}
  NoStatement = NoStatement
  Unreadable = {}
  MaxAgreementChanges = 0
INVARIANT CommissionedOnce
CHECK_DEADLOCK FALSE
