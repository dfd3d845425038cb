SPECIFICATION Spec

CONSTANTS
  Clients = {c1, c2}
  Ttl = 1
  MaxAges = {0, 1}
  MaxMessages = 1
  MaxFailures = 0
  MaxClock = 3

PROPERTIES
  OnlyExpiredIsPurged

\* It stops when the clock does.
CHECK_DEADLOCK FALSE
