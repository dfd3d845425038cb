SPECIFICATION NotifierFairSpec

CONSTANTS
  MaxRestarts = 2
  MaxErrors = 4
  MaxFaults = 2
  MaxCommits = 1

PROPERTIES
  AppendsAreHeard

\* The guardian really stops once it is disposed or has given up.
CHECK_DEADLOCK FALSE
