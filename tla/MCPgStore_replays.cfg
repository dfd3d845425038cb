SPECIFICATION Spec

CONSTANTS
  s1 = s1
  a = a
  b = b
  d = d
  e = e
  NewId = NewId
  Clients = {c1, c2}
  Streams = {s1}
  Workloads <- OnlyReplays
  Tries = 2
  MaxCalls = 4

INVARIANTS
  PositionsInOrder
  AcknowledgedIsStored
  ReplayWritesNothing

\* The clients really stop once they have made their calls.
CHECK_DEADLOCK FALSE
