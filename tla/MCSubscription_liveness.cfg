SPECIFICATION FairSpec

CONSTANTS
  Modes <- FourModes
  MaxCountPerRead = 1
  Tries = 1
  MaxHead = 2

PROPERTIES
  EventuallyDelivered
  DisposeEnds

\* The subscription really stops once it is disposed.
CHECK_DEADLOCK FALSE
