SPECIFICATION Spec

CONSTANTS
  s1 = s1
  a = a
  b = b
  d = d
  e = e
  NewId = NewId
  Clients = {c1, c2}
  Streams = {s1}
  Workloads <- Disputed
  Tries = 1
  MaxCalls = 4

\* Each is violated; TLC stops at the first, so take out those already seen.
INVARIANTS
  VersionIsLast
  ReplayWritesNothing
  PolicyIsNewest
  ScavengedWhenQuiet

PROPERTIES
  AppendsAtTheExpectedVersion
  DeletedAtTheExpectedVersion

\* The clients really stop once they have made their calls.
CHECK_DEADLOCK FALSE
