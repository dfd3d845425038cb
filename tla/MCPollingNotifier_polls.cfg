SPECIFICATION FairSpec

CONSTANTS
  Listeners = {l1, l2}
  MaxPosition = 2
  MaxErrors = 1

PROPERTIES
  HigherHeadsAreSignalled
  DisposeResolves

\* The notifier really stops once it is disposed.
CHECK_DEADLOCK FALSE
