SPECIFICATION Spec

CONSTANTS
  Logs <- Listed
  Counts = {1, 2}
  MaxHead = 4

\* Each is violated, the invariant in memory and the property in PostgreSQL; TLC
\* stops at the first, so take out the one already seen.
INVARIANTS
  WalksAreComplete

PROPERTIES
  PagesInOrder

\* A client really stops at the end.
CHECK_DEADLOCK FALSE
