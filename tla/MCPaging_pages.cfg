SPECIFICATION FairSpec

CONSTANTS
  Logs <- AllLogs
  Counts = {1, 2}
  MaxHead = 4

INVARIANTS
  WalksAreComplete

PROPERTIES
  PagesInOrder
  WalksEnd

\* A client really stops at the end.
CHECK_DEADLOCK FALSE
