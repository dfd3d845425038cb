SPECIFICATION FairSpec

CONSTANTS
  s1 = s1
  a = a
  b = b
  d = d
  e = e
  NewId = NewId
  Clients = {c1, c2}
  Streams = {s1}
  Workloads <- AllWorkloads
  Tries = 2
  MaxCalls = 3

INVARIANTS
  TypeOK
  VersionIsLast
  AcknowledgedIsStored
  ScavengedWhenQuiet

PROPERTIES
  OnlyAtTheExpectedVersion
  ImplementsLog
  CallsEnd

\* The clients really stop once they have made their calls.
CHECK_DEADLOCK FALSE
