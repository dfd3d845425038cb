SPECIFICATION Spec

CONSTANTS
  s1 = s1
  s2 = s2
  a = a
  b = b
  d = d
  c1 = c1
  c2 = c2
  StreamIds = {s1}
  MessageIds = {a, b}
  Callers = {c1, c2}
  Batches <- TwoBatches
  Policies <- AgePolicies
  DeletableStreams <- NoStreams
  PageSizes = {2}
  MaxPosition = 3
  MaxTime = 1

INVARIANTS
  ScavengedWhenQuiet

PROPERTIES
  OnlyExcessIsRemoved

\* Callers and ids are interchangeable.
SYMMETRY Symmetry

\* The store really stops once it is disposed.
CHECK_DEADLOCK FALSE
