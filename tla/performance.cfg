SPECIFICATION MeasureSpec
CONSTANTS
  p1 = p1
  d1 = d1
  s1 = s1
  s2 = s2
  t1 = t1
  Workers = {w1, w2}
  Partitions = {p1}
  NoPartition = NoPartition
  Events <- MCEvents
  Log <- MCLog
  MaxRetries = 1
  HasDlqProducer = TRUE
  ZombieHandoff = TRUE
  Faults = {"crash", "handoff", "transient"}
  MaxFaults = 1
  Namings <- MCNamings
  NamedAtStart <- MCNamedAtStart
  Dealers = {d1}
  Months = {1}
  Specs = {s1, s2}
  None = None
  OtherName = "other"
  Targets = {t1}
  TargetOf <- MCTargetOf
  TargetPatches <- MCTargetPatches
  Dashboards = {g1}
SYMMETRY MCSymmetry
INVARIANTS MeasuredIsSold SettledSaleMeasured StatusTellsTheMeasure
PROPERTY DashboardNotAhead
CHECK_DEADLOCK FALSE
