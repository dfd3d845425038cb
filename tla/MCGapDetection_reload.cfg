SPECIFICATION FairSpec

CONSTANTS
  w1 = w1
  w2 = w2
  w3 = w3
  Writers = {w1, w2, w3}
  Count = 3
  ReloadTimes = 2
  MaxPosition = 5

INVARIANTS
  ReloadsFillTheGaps

PROPERTIES
  ReadsEnd

\* Positions run out, which is the model's bound.
CHECK_DEADLOCK FALSE
