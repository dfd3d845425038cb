SPECIFICATION FairSpec

CONSTANTS
  Listeners = {l1}
  MaxPosition = 1
  MaxErrors = 0

PROPERTIES
  ChangesAreSignalled

\* The notifier really stops once it is disposed.
CHECK_DEADLOCK FALSE
