SPECIFICATION FairSpec

CONSTANTS
  Logs <- Backwards
  Counts = {1, 2}
  MaxHead = 4

\* Each is violated; TLC stops at the first, so take out those already seen.
INVARIANTS
  WalksAreComplete

PROPERTIES
  PagesInOrder
  WalksEnd

\* A client really stops at the end.
CHECK_DEADLOCK FALSE
