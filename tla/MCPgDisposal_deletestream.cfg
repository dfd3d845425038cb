SPECIFICATION Spec

CONSTANTS
  w1 = w1
  w2 = w2
  w3 = w3
  Calls = {w1}
  Operations = {"append", "delete stream"}
  Tries = 1

PROPERTIES
  PoolEndsAfterWrites

\* The store really stops once it is disposed.
CHECK_DEADLOCK FALSE
