SPECIFICATION FairSpec

CONSTANTS
  Clients = {c1, c2}
  Ttl = 1
  MaxAges = {0, 1}
  MaxMessages = 1
  MaxFailures = 1
  MaxClock = 3

INVARIANTS
  OneQueryPerTtl

PROPERTIES
  ExactOnceSettled
  FailuresAreForgotten
  ReadsAreAnswered

\* It stops when the clock does.
CHECK_DEADLOCK FALSE
