SPECIFICATION FairSpec

CONSTANTS
  s1 = s1
  s2 = s2
  a = a
  b = b
  d = d
  c1 = c1
  c2 = c2
  StreamIds = {s1}
  MessageIds = {a, b, d}
  Callers = {c1}
  Batches <- MixedBatches
  Policies <- RetentionPolicies
  DeletableStreams <- AllStreams
  PageSizes = {2}
  MaxPosition = 3
  MaxTime = 1

INVARIANTS
  TypeOK
  InOrder
  AllStreamIsTheMerge
  IndexIsExact
  RetriesAreRecognised

PROPERTIES
  CallsFinish
  VersionsNeverReassigned
  ImplementsEventLog

\* The store really stops once it is disposed.
CHECK_DEADLOCK FALSE
