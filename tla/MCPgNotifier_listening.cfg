SPECIFICATION NotifierFairSpec

CONSTANTS
  MaxRestarts = 2
  MaxErrors = 4
  MaxFaults = 2
  MaxCommits = 1

INVARIANTS
  OneActorUntilExhausted
  CalmDisposeShutsDown

PROPERTIES
  ErrorsAreAnswered
  KeepsListening
  SignalsAreHeard

\* The guardian really stops once it is disposed or has given up.
CHECK_DEADLOCK FALSE
