SPECIFICATION Spec

CONSTANTS
  s1 = s1
  a = a
  b = b
  d = d
  e = e
  NewId = NewId
  Clients = {c1}
  Streams = {s1}
  Workloads <- MetadataChanges
  Tries = 2
  MaxCalls = 6

INVARIANTS
  PolicyIsNewest

\* The clients really stop once they have made their calls.
CHECK_DEADLOCK FALSE
