SPECIFICATION FairConsumerSpec
CONSTANTS
  p1 = p1
  p2 = p2
  e1 = e1
  e2 = e2
  e3 = e3
  Workers = {w1, w2}
  Partitions = {p1, p2}
  NoPartition = NoPartition
  Events <- MCEvents
  Log <- MCLog
  MaxRetries = 3
  HasDlqProducer = TRUE
  ZombieHandoff = TRUE
  Faults = {"crash", "broker", "handoff"}
  MaxFaults = 2
INVARIANT NoEventLost
PROPERTIES DeliversInOrder EveryEventSettled
CHECK_DEADLOCK FALSE
