SPECIFICATION Spec

CONSTANTS
  Modes <- AllModes
  MaxCountPerRead = 2
  Tries = 2
  MaxHead = 2

INVARIANTS
  DeliveredInOrder
  NothingSkippedInSnapshots

PROPERTIES
  DisposingIsFinal

\* The subscription really stops once it is disposed.
CHECK_DEADLOCK FALSE
