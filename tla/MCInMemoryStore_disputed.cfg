SPECIFICATION Spec

CONSTANTS
  s1 = s1
  s2 = s2
  a = a
  b = b
  d = d
  c1 = c1
  c2 = c2
  StreamIds = {s1}
  MessageIds = {a, b, d}
  Callers = {c1, c2}
  Batches <- DoubledBatches
  Policies <- RetentionPolicies
  DeletableStreams <- NoStreams
  PageSizes = {2}
  MaxPosition = 3
  MaxTime = 0

\* Each is violated; TLC stops at the first, so take out those already seen.
INVARIANTS
  RetriesSurviveScavenging
  EarlierVersionIsFound
  IdsAreUnique

\* The store really stops once it is disposed.
CHECK_DEADLOCK FALSE
