SPECIFICATION Spec

CONSTANTS
  MaxRestarts = 3
  MaxErrors = 5

\* Both are violated; TLC stops at the first, so take out the one already seen.
INVARIANTS
  AtMostOneActor
  DisposeShutsDown

\* The guardian really stops once it is disposed or has given up.
CHECK_DEADLOCK FALSE
