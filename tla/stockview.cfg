SPECIFICATION ViewSpec
CONSTANTS
  a = a
  b = b
  r1 = r1
  r2 = r2
  Locations = {a, b}
  Rows = {r1, r2}
  LocationOf <- MCLocationOf
  Opening <- MCOpening
  Slots = {x1, x2}
  Replicas = {w1, w2}
  Deltas <- MCDeltas
  Quantities = {1}
  MaxChanges = 2
  MaxAttempts = 2
  Absent = Absent
  MaxFaults = 1
INVARIANTS ViewAgrees NeverNegativeShown
PROPERTY ViewCatchesUp
CHECK_DEADLOCK FALSE
