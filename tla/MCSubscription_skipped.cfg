SPECIFICATION Spec

CONSTANTS
  Modes <- PostgresStream
  MaxCountPerRead = 1
  Tries = 1
  MaxHead = 1

INVARIANTS
  NothingSkipped

\* The subscription really stops once it is disposed.
CHECK_DEADLOCK FALSE
