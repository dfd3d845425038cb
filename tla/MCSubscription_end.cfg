SPECIFICATION Spec

CONSTANTS
  Modes <- FourModes
  MaxCountPerRead = 1
  Tries = 1
  MaxHead = 1

\* Both are violated; TLC stops at the first, so take out the one already seen.
INVARIANTS
  OnlyNewMessages
  ToldWhenCaughtUp

\* The subscription really stops once it is disposed.
CHECK_DEADLOCK FALSE
