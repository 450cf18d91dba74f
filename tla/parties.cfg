SPECIFICATION Spec
CONSTANTS
  a = a
  b = b
  c = c
  Parties = {a, b, c}
  NoParty = NoParty
  Foreign = Foreign
  Requests <- MCRequests
  Asked = {c}
  MaxDepth = 2
  Workers = {w1, w2}
  MaxCopies = 2
  MaxRetries = 1
INVARIANTS WalkIsLineage WalkNeverRepeats OnboardingAudited
PROPERTY WalkEnds
CHECK_DEADLOCK FALSE
