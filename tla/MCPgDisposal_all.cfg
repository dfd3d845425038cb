SPECIFICATION FairSpec

CONSTANTS
  w1 = w1
  w2 = w2
  w3 = w3
  Calls = {w1, w2, w3}
  Operations = {"append", "set metadata", "delete message", "read"}
  Tries = 2

PROPERTIES
  PoolEndsAfterWrites
  DisposeEnds

\* The store really stops once it is disposed.
CHECK_DEADLOCK FALSE
